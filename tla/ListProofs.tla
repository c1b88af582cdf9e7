----------------------------- MODULE ListProofs -----------------------------
(***************************************************************************)
(* The two lists that clients read piece by piece, each proved for its own *)
(* specification: the page of products with its facets, and the feed of    *)
(* events.  Both rest on what InOrder makes of a set and a total order.    *)
(***************************************************************************)
EXTENDS ShopPage, EventFeed, FiniteSetTheorems, FunctionTheorems, SequenceTheorems, TLAPS

-----------------------------------------------------------------------------
(* A set in a total order.                                                 *)

Orders(less, S) ==
    /\ \A i \in S : <<i, i>> \notin less
    /\ \A i, j \in S : i # j => <<i, j>> \in less \/ <<j, i>> \in less
    /\ \A i, j, k \in S : <<i, j>> \in less /\ <<j, k>> \in less => <<i, k>> \in less

\* Who comes later has more before it.
LEMMA RankGrows ==
    ASSUME NEW S, IsFiniteSet(S), NEW less, Orders(less, S),
           NEW i \in S, NEW j \in S, <<i, j>> \in less
    PROVE  Cardinality(Before(S, less, i)) < Cardinality(Before(S, less, j))
<1>1. IsFiniteSet(Before(S, less, j)) /\ Before(S, less, i) \subseteq Before(S, less, j)
  <2>1. Before(S, less, j) \subseteq S
    BY DEF Before
  <2>2. Before(S, less, i) \subseteq Before(S, less, j)
    BY DEF Before, Orders
  <2>3. QED BY <2>1, <2>2, FS_Subset
<1>2. i \in Before(S, less, j) /\ i \notin Before(S, less, i)
  BY DEF Before, Orders
<1>3. /\ Cardinality(Before(S, less, i)) <= Cardinality(Before(S, less, j))
      /\ Cardinality(Before(S, less, i)) # Cardinality(Before(S, less, j))
  BY <1>1, <1>2, FS_Subset
<1>4. Cardinality(Before(S, less, j)) \in Nat /\ Cardinality(Before(S, less, i)) \in Nat
  BY <1>1, FS_Subset, FS_CardinalityType
<1>5. QED BY <1>3, <1>4

LEMMA RankBounded ==
    ASSUME NEW S, IsFiniteSet(S), NEW less, Orders(less, S), NEW i \in S
    PROVE  Cardinality(Before(S, less, i)) \in 0..(Cardinality(S) - 1)
<1>1. Before(S, less, i) \subseteq S /\ i \notin Before(S, less, i)
  BY DEF Before, Orders
<1>2. /\ Cardinality(Before(S, less, i)) <= Cardinality(S)
      /\ Cardinality(Before(S, less, i)) # Cardinality(S)
      /\ Cardinality(Before(S, less, i)) \in Nat /\ Cardinality(S) \in Nat
  BY <1>1, FS_Subset, FS_CardinalityType
<1>3. QED BY <1>2

\* InOrder lists every element of the set once, in the order.
LEMMA InOrderLists ==
    ASSUME NEW S, IsFiniteSet(S), NEW less, Orders(less, S)
    PROVE  LET seq == InOrder(S, less) IN
           /\ Cardinality(S) \in Nat
           /\ seq \in Seq(S) /\ Len(seq) = Cardinality(S)
           /\ \A i \in S : \E n \in 1..Len(seq) : seq[n] = i
           /\ \A m, n \in 1..Len(seq) : seq[m] = seq[n] => m = n
           /\ \A m, n \in 1..Len(seq) : m < n => <<seq[m], seq[n]>> \in less
<1> DEFINE size == Cardinality(S)
           rank == [i \in S |-> Cardinality(Before(S, less, i)) + 1]
           seq == InOrder(S, less)
<1>1. size \in Nat
  BY FS_CardinalityType
<1>2. rank \in [S -> 1..size]
  BY <1>1, RankBounded
<1>3. \A i, j \in S : <<i, j>> \in less => rank[i] < rank[j]
  <2>1. SUFFICES ASSUME NEW i \in S, NEW j \in S, <<i, j>> \in less
                 PROVE  rank[i] < rank[j]
    OBVIOUS
  <2>2. /\ Cardinality(Before(S, less, i)) \in Int /\ Cardinality(Before(S, less, j)) \in Int
    BY RankBounded
  <2>3. QED BY <2>1, <2>2, RankGrows
<1>4. \A i, j \in S : rank[i] = rank[j] => i = j
  <2> HIDE DEF rank
  <2>1. \A i \in S : rank[i] \in Int
    BY <1>1, <1>2
  <2>2. \A i, j \in S : i # j => rank[i] < rank[j] \/ rank[j] < rank[i]
    BY <1>3 DEF Orders
  <2>3. QED BY <2>1, <2>2
<1>5. rank \in Injection(S, 1..size)
  BY <1>2, <1>4, Fun_IsInj
<1>6. IsFiniteSet(1..size) /\ Cardinality(1..size) = size
  BY <1>1, FS_Interval
<1>7. rank \in Surjection(S, 1..size)
  BY <1>5, <1>6, FS_Injection
<1>8. \A n \in 1..size : \E i \in S : rank[i] = n
  <2> HIDE DEF rank
  <2>1. QED BY <1>7, Fun_SurjectionProperties
<1>9. \A n \in 1..size : seq[n] \in S /\ rank[seq[n]] = n
  <2>1. SUFFICES ASSUME NEW n \in 1..size PROVE seq[n] \in S /\ rank[seq[n]] = n
    OBVIOUS
  <2>2. seq[n] = CHOOSE i \in S : Cardinality(Before(S, less, i)) = n - 1
    BY DEF InOrder
  <2>3. \E i \in S : Cardinality(Before(S, less, i)) = n - 1
    BY <1>8, RankBounded
  <2>4. seq[n] \in S /\ Cardinality(Before(S, less, seq[n])) = n - 1
    BY <2>2, <2>3
  <2>5. QED BY <2>4, <1>1
<1> HIDE DEF rank
<1>10. seq \in [1..size -> S]
  BY <1>9 DEF InOrder
<1>11. seq \in Seq(S) /\ Len(seq) = size
  BY <1>1, <1>10
<1> HIDE DEF seq, size
<1>12. \A i \in S : \E n \in 1..size : seq[n] = i
  BY <1>2, <1>4, <1>9
<1>13. \A m, n \in 1..size : seq[m] = seq[n] => m = n
  BY <1>9
<1>14. \A m, n \in 1..size : m < n => <<seq[m], seq[n]>> \in less
  <2>1. SUFFICES ASSUME NEW m \in 1..size, NEW n \in 1..size, m < n
                 PROVE  <<seq[m], seq[n]>> \in less
    OBVIOUS
  <2>2. seq[m] \in S /\ seq[n] \in S /\ rank[seq[m]] = m /\ rank[seq[n]] = n
    BY <1>9
  <2>3. ~(rank[seq[n]] < rank[seq[m]]) /\ seq[m] # seq[n]
    BY <2>1, <2>2, <1>1
  <2>4. QED BY <2>2, <2>3, <1>3 DEF Orders
<1>15. QED BY <1>1, <1>11, <1>12, <1>13, <1>14 DEF seq, size

Part(S, value, v) == {i \in S : value[i] = v}
Within(S, value, V) == {i \in S : value[i] \in V}
Total(size, V) == Cardinality(UNION {{v} \X (1..size[v]) : v \in V})

\* A set counted by the value of a function: as many as the counts of the
\* values together, the sum as the size of a disjoint union.
LEMMA CountedByValue ==
    ASSUME NEW S, IsFiniteSet(S), NEW value, NEW V, NEW size,
           \A v \in V : size[v] = Cardinality(Part(S, value, v))
    PROVE  Total(size, V) = Cardinality(Within(S, value, V))
<1> DEFINE part(v) == Part(S, value, v)
           pairs == UNION {{v} \X (1..size[v]) : v \in V}
           whole == Within(S, value, V)
           nth == [v \in V |-> CHOOSE b : b \in Bijection(1..Cardinality(part(v)), part(v))]
           list == [x \in pairs |-> nth[x[1]][x[2]]]
<1>1. \A v \in V : nth[v] \in Bijection(1..size[v], part(v))
  <2>1. SUFFICES ASSUME NEW v \in V
                 PROVE  \E b : b \in Bijection(1..Cardinality(part(v)), part(v))
    OBVIOUS
  <2>2. IsFiniteSet(part(v))
    BY FS_Subset DEF Part
  <2>3. ExistsBijection(1..Cardinality(part(v)), part(v))
    BY <2>2, FS_CardinalityType
  <2>4. QED BY <2>3, Fun_ExistsBij
<1>2. \A v \in V : /\ \A n \in 1..size[v] : nth[v][n] \in part(v)
                   /\ \A m, n \in 1..size[v] : nth[v][m] = nth[v][n] => m = n
                   /\ \A i \in part(v) : \E n \in 1..size[v] : nth[v][n] = i
  <2>1. SUFFICES ASSUME NEW v \in V
                 PROVE  /\ \A n \in 1..size[v] : nth[v][n] \in part(v)
                        /\ \A m, n \in 1..size[v] : nth[v][m] = nth[v][n] => m = n
                        /\ \A i \in part(v) : \E n \in 1..size[v] : nth[v][n] = i
    OBVIOUS
  <2> HIDE DEF nth, part
  <2>2. nth[v] \in Bijection(1..size[v], part(v))
    BY <1>1
  <2> DEFINE f == nth[v]
             T == part(v)
             A == 1..size[v]
  <2> HIDE DEF f, T, A
  <2>3. f \in Bijection(A, T)
    BY <2>2 DEF f, T, A
  <2>4. /\ f \in [A -> T]
        /\ \A m, n \in A : f[m] = f[n] => m = n
        /\ \A i \in T : \E n \in A : f[n] = i
    BY <2>3, Fun_BijectionProperties
  <2>5. QED BY <2>4 DEF f, T, A
<1>3. pairs = UNION {{v} \X (1..size[v]) : v \in V}
  OBVIOUS
<1> HIDE DEF nth, pairs
<1>4. \A x \in pairs : x = <<x[1], x[2]>> /\ x[1] \in V /\ x[2] \in 1..size[x[1]]
  <2>1. SUFFICES ASSUME NEW x \in pairs
                 PROVE  x = <<x[1], x[2]>> /\ x[1] \in V /\ x[2] \in 1..size[x[1]]
    OBVIOUS
  <2>2. PICK v \in V : x \in {v} \X (1..size[v])
    BY <1>3
  <2>3. QED BY <2>2
<1>5. \A v \in V : \A n \in 1..size[v] : <<v, n>> \in pairs
  <2>1. SUFFICES ASSUME NEW v \in V, NEW n \in 1..size[v] PROVE <<v, n>> \in pairs
    OBVIOUS
  <2>2. <<v, n>> \in {v} \X (1..size[v])
    OBVIOUS
  <2>3. QED BY <2>2, <1>3
<1>6. list \in [pairs -> whole]
  BY <1>2, <1>4 DEF Part, Within
<1>7. \A x, y \in pairs : list[x] = list[y] => x = y
  <2>1. SUFFICES ASSUME NEW x \in pairs, NEW y \in pairs, list[x] = list[y]
                 PROVE  x = y
    OBVIOUS
  <2>2. nth[x[1]][x[2]] = nth[y[1]][y[2]]
    BY <2>1
  <2>3. x[1] = y[1]
    BY <2>2, <1>2, <1>4 DEF Part
  <2>4. x[2] = y[2]
    BY <2>2, <2>3, <1>2, <1>4
  <2>5. QED BY <2>3, <2>4, <1>4
<1>8. \A i \in whole : \E x \in pairs : list[x] = i
  <2>1. SUFFICES ASSUME NEW i \in whole PROVE \E x \in pairs : list[x] = i
    OBVIOUS
  <2>2. value[i] \in V /\ i \in part(value[i])
    BY DEF Part, Within
  <2>3. PICK n \in 1..size[value[i]] : nth[value[i]][n] = i
    BY <2>2, <1>2
  <2>4. <<value[i], n>> \in pairs /\ list[<<value[i], n>>] = i
    BY <2>2, <2>3, <1>5
  <2>5. QED BY <2>4
<1> HIDE DEF list
<1>9. list \in Bijection(pairs, whole)
  BY <1>6, <1>7, <1>8, Fun_IsBij
<1>10. ExistsBijection(whole, pairs)
  BY <1>9, Fun_BijInverse, Fun_ExistsBij
<1>11. IsFiniteSet(whole)
  BY FS_Subset DEF Within
<1>12. Cardinality(pairs) = Cardinality(whole)
  BY <1>10, <1>11, FS_Bijection
<1>13. QED BY <1>3, <1>12 DEF Total

-----------------------------------------------------------------------------
(* The page of products: the inductive invariant.                          *)

\* A page shows what a request for it would show now.
Current(p) ==
    LET all == Rows(p.listing, p.picks) IN
    /\ p.listing = ShownListing(p.listing, wanted)
    /\ p.picks = Restricted(p.picks, p.listing)
    /\ p.counts = Counts(p.listing, p.picks)
    /\ Len(p.rows) \in 0..Len(all)
    /\ p.rows = SubSeq(all, 1, Len(p.rows))
    /\ p.more = (Len(p.rows) < Len(all))
    /\ p.promised >= 0 => p.promised = Cardinality(Found(p.listing, p.picks))

PageShape ==
    DOMAIN page = {"listing", "picks", "counts", "rows", "more", "same", "promised"}

PageInv == inStock \subseteq Item /\ PageShape /\ (page.same => Current(page))

LEMMA CheaperOrders ==
    ASSUME NEW S \in SUBSET Item
    PROVE  Orders(Cheaper, S)
<1>1. \A i \in S : i \in Item /\ i \in Nat /\ Facts[i].price \in Nat
  BY ShopAssumption
<1>2. \A i, j \in S :
        <<i, j>> \in Cheaper <=>
           \/ Facts[i].price # 0 /\ Facts[j].price = 0
           \/ /\ (Facts[i].price = 0) = (Facts[j].price = 0)
              /\ Facts[i].price < Facts[j].price \/ (Facts[i].price = Facts[j].price /\ i < j)
  BY <1>1 DEF Cheaper, NoPrice
<1>3. \A i \in S : <<i, i>> \notin Cheaper
  BY <1>1, <1>2
<1>4. \A i, j \in S : i # j => <<i, j>> \in Cheaper \/ <<j, i>> \in Cheaper
  BY <1>1, <1>2
<1>5. \A i, j, k \in S : <<i, j>> \in Cheaper /\ <<j, k>> \in Cheaper => <<i, k>> \in Cheaper
  BY <1>1, <1>2
<1>6. QED BY <1>3, <1>4, <1>5 DEF Orders

LEMMA FoundFinite ==
    ASSUME inStock \subseteq Item, NEW listing, NEW picks
    PROVE  Found(listing, picks) \subseteq Item /\ IsFiniteSet(Found(listing, picks))
<1>1. Found(listing, picks) \subseteq Item
  BY DEF Found, Listed
<1>2. QED BY <1>1, ShopAssumption, FS_Subset

\* The rows are the products found, each once.
LEMMA RowsAreFound ==
    ASSUME inStock \subseteq Item, NEW listing, NEW picks
    PROVE  LET all == Rows(listing, picks) IN
           /\ all \in Seq(Item) /\ Len(all) \in Nat
           /\ Len(all) = Cardinality(Found(listing, picks))
           /\ {all[n] : n \in 1..Len(all)} = Found(listing, picks)
<1> DEFINE found == Found(listing, picks)
           all == Rows(listing, picks)
<1>1. found \subseteq Item /\ IsFiniteSet(found)
  BY FoundFinite
<1>2. Orders(Cheaper, found)
  BY <1>1, CheaperOrders
<1>3. all = InOrder(found, Cheaper)
  BY DEF Rows
<1> HIDE DEF found, all
<1>4. /\ Cardinality(found) \in Nat
      /\ all \in Seq(found) /\ Len(all) = Cardinality(found)
      /\ \A i \in found : \E n \in 1..Len(all) : all[n] = i
  BY <1>1, <1>2, <1>3, InOrderLists
<1>5. all \in Seq(Item)
  BY <1>1, <1>4, SeqMonotonic
<1>6. \A n \in 1..Len(all) : all[n] \in found
  BY <1>4
<1>7. {all[n] : n \in 1..Len(all)} = found
  BY <1>4, <1>6
<1>8. QED BY <1>4, <1>5, <1>7 DEF found, all

\* The address of a page leads to that page: choosing the listing and
\* dropping foreign picks a second time changes nothing.
LEMMA ShownTwice ==
    ASSUME NEW key, NEW keys
    PROVE  ShownListing(ShownListing(key, keys), keys) = ShownListing(key, keys)
<1>1. Family(Family(key)) = Family(key) /\ Family("") = ""
  BY DEF Family, MacChildren
<1>2. CASE Cardinality(Families(keys)) = 1
  BY <1>2 DEF ShownListing
<1>3. CASE Cardinality(Families(keys)) # 1
  <2>1. \A k : ShownListing(k, keys) = IF Family(k) \in Families(keys) THEN Family(k) ELSE ""
    BY <1>3 DEF ShownListing
  <2>2. QED BY <1>1, <2>1
<1>4. QED BY <1>2, <1>3

LEMMA RestrictedTwice ==
    ASSUME NEW picks, NEW listing
    PROVE  Restricted(Restricted(picks, listing), listing) = Restricted(picks, listing)
<1>1. CASE listing = ""
  BY <1>1 DEF Restricted
<1>2. CASE listing # ""
  <2> DEFINE left(key) == {v \in picks[key] : listing \in ListingsOf(key, v)}
             keys == {key \in (DOMAIN picks) \cap DimKeys(listing) : left(key) # {}}
             once == [key \in keys |-> left(key)]
             again(key) == {v \in once[key] : listing \in ListingsOf(key, v)}
             keysAgain == {key \in (DOMAIN once) \cap DimKeys(listing) : again(key) # {}}
  <2>1. Restricted(picks, listing) = once
    BY <1>2 DEF Restricted
  <2>2. Restricted(once, listing) = [key \in keysAgain |-> again(key)]
    BY <1>2 DEF Restricted
  <2>3. \A key \in keys : again(key) = left(key)
    OBVIOUS
  <2>4. keysAgain = keys
    BY <2>3
  <2>5. [key \in keysAgain |-> again(key)] = once
    BY <2>3, <2>4
  <2>6. QED BY <2>1, <2>2, <2>5
<1>3. QED BY <1>1, <1>2

\* How far a page of rows reaches.
LEMMA SliceEnds ==
    ASSUME NEW all \in Seq(Item), NEW offset \in 0..Len(all),
           NEW end, end = Min({offset + PageSize, Len(all)})
    PROVE  /\ end \in offset..Len(all)
           /\ offset + PageSize < Len(all) => end = offset + PageSize
           /\ ~(offset + PageSize < Len(all)) => end = Len(all)
           /\ SubSeq(all, 1, offset) \o Slice(all, offset) = SubSeq(all, 1, end)
           /\ Len(SubSeq(all, 1, end)) = end
<1>1. Len(all) \in Nat /\ PageSize \in Nat \ {0}
  BY LenProperties, ShopAssumption
<1>2. end = IF offset + PageSize < Len(all) THEN offset + PageSize ELSE Len(all)
  <2>1. \A a, b \in Nat : Min({a, b}) = IF a < b THEN a ELSE b
    BY DEF Min
  <2>2. QED BY <1>1, <2>1
<1>3. end \in offset..Len(all)
  BY <1>1, <1>2
<1>4. Slice(all, offset) = SubSeq(all, offset + 1, end)
  BY DEF Slice
<1>5. SubSeq(all, 1, offset) \o SubSeq(all, offset + 1, end) = SubSeq(all, 1, end)
  <2>1. 1 \in 1..(Len(all) + 1) /\ offset \in (1 - 1)..Len(all)
    BY <1>1
  <2>2. QED BY <2>1, <1>3, ConcatAdjacentSubSeq
<1>6. Len(SubSeq(all, 1, end)) = end
  <2>1. \A n \in 1..end : all[n] \in Item
    BY <1>1, <1>3, ElementOfSeq
  <2>2. QED BY <2>1, <1>1, <1>3, SubSeqProperties
<1>7. QED BY <1>1, <1>2, <1>3, <1>4, <1>5, <1>6

\* An answer is current when it is given.
LEMMA AnswerIsCurrent ==
    ASSUME inStock \subseteq Item, NEW key, NEW asked, NEW promised,
           LET listing == ShownListing(key, wanted) IN
           promised >= 0 => promised = Cardinality(Found(listing, Restricted(asked, listing)))
    PROVE  /\ Current(PageFor(key, asked, promised))
           /\ PageFor(key, asked, promised).same
           /\ DOMAIN PageFor(key, asked, promised) =
                 {"listing", "picks", "counts", "rows", "more", "same", "promised"}
<1> DEFINE answer == PageFor(key, asked, promised)
           listing == ShownListing(key, wanted)
           picks == Restricted(asked, listing)
           all == Rows(listing, picks)
           end == Min({0 + PageSize, Len(all)})
<1>1. /\ answer.listing = listing /\ answer.picks = picks
      /\ answer.counts = Counts(listing, picks)
      /\ answer.rows = Slice(all, 0) /\ answer.more = (PageSize < Len(all))
      /\ answer.same /\ answer.promised = promised
      /\ DOMAIN answer = {"listing", "picks", "counts", "rows", "more", "same", "promised"}
  BY DEF PageFor
<1>2. listing = ShownListing(listing, wanted)
  BY ShownTwice
<1>3. picks = Restricted(picks, listing)
  BY RestrictedTwice
<1>4. all \in Seq(Item) /\ Len(all) \in Nat
  BY RowsAreFound
<1>5. Slice(all, 0) = SubSeq(all, 1, end) /\ Len(Slice(all, 0)) = end
      /\ end \in 0..Len(all) /\ (PageSize < Len(all) <=> end < Len(all))
  <2>1. PageSize \in Nat \ {0} /\ end = Min({0 + PageSize, Len(all)}) /\ 0 \in 0..Len(all)
    BY <1>4, ShopAssumption
  <2> HIDE DEF all, end
  <2>2. /\ end \in 0..Len(all)
        /\ 0 + PageSize < Len(all) => end = 0 + PageSize
        /\ ~(0 + PageSize < Len(all)) => end = Len(all)
        /\ SubSeq(all, 1, 0) \o Slice(all, 0) = SubSeq(all, 1, end)
        /\ Len(SubSeq(all, 1, end)) = end
    BY <1>4, <2>1, SliceEnds
  <2>3. Slice(all, 0) = SubSeq(all, 1, end)
    BY <2>1 DEF Slice
  <2>4. PageSize < Len(all) <=> end < Len(all)
    BY <2>1, <2>2, <1>4
  <2>5. QED BY <2>2, <2>3, <2>4
<1>6. promised >= 0 => promised = Cardinality(Found(listing, picks))
  OBVIOUS
<1> HIDE DEF answer, listing, picks, end
<1>7. Current(answer)
  BY <1>1, <1>2, <1>3, <1>4, <1>5, <1>6 DEF Current
<1>8. QED BY <1>1, <1>7 DEF answer

\* Picks that are restricted belong to the listing.
LEMMA RestrictedBelong ==
    ASSUME NEW picks, NEW listing, listing # "",
           NEW key \in DOMAIN Restricted(picks, listing)
    PROVE  /\ key \in DimKeys(listing) /\ Restricted(picks, listing)[key] # {}
           /\ \A v \in Restricted(picks, listing)[key] : listing \in ListingsOf(key, v)
<1> DEFINE left(k) == {v \in picks[k] : listing \in ListingsOf(k, v)}
           keys == {k \in (DOMAIN picks) \cap DimKeys(listing) : left(k) # {}}
           once == Restricted(picks, listing)
<1>1. once = [k \in keys |-> left(k)]
  BY DEF Restricted
<1>2. key \in keys
  BY <1>1
<1>3. once[key] = left(key)
  BY <1>1, <1>2
<1>4. QED BY <1>2, <1>3

\* Picks that belong are kept.
LEMMA BelongingAreKept ==
    ASSUME NEW picks, NEW listing, listing # "", picks = [k \in DOMAIN picks |-> picks[k]],
           \A k \in DOMAIN picks : /\ k \in DimKeys(listing) /\ picks[k] # {}
                                   /\ \A v \in picks[k] : listing \in ListingsOf(k, v)
    PROVE  Restricted(picks, listing) = picks
<1> DEFINE left(k) == {v \in picks[k] : listing \in ListingsOf(k, v)}
           keys == {k \in (DOMAIN picks) \cap DimKeys(listing) : left(k) # {}}
           once == Restricted(picks, listing)
<1>1. once = [k \in keys |-> left(k)]
  BY DEF Restricted
<1>2. \A k \in DOMAIN picks : left(k) = picks[k]
  OBVIOUS
<1>3. keys = DOMAIN picks
  BY <1>2
<1>4. [k \in keys |-> left(k)] = [k \in DOMAIN picks |-> picks[k]]
  BY <1>2, <1>3
<1>5. QED BY <1>1, <1>4

Adding(picks, key, values) ==
    [k \in DOMAIN picks \cup {key} |-> IF k = key THEN values ELSE picks[k]]

\* An option of the listing's own is kept with the picks there are.
LEMMA AskedIsKept ==
    ASSUME NEW picks, NEW key, NEW values, NEW listing,
           listing # "", picks = Restricted(picks, listing),
           values # {}, key \in DimKeys(listing),
           \A v \in values : listing \in ListingsOf(key, v)
    PROVE  Restricted(Adding(picks, key, values), listing) = Adding(picks, key, values)
<1> DEFINE asked == Adding(picks, key, values)
<1>1. \A k \in DOMAIN picks : /\ k \in DimKeys(listing) /\ picks[k] # {}
                              /\ \A v \in picks[k] : listing \in ListingsOf(k, v)
  BY RestrictedBelong
<1>2. \A k \in DOMAIN asked : /\ k \in DimKeys(listing) /\ asked[k] # {}
                              /\ \A v \in asked[k] : listing \in ListingsOf(k, v)
  BY <1>1 DEF Adding
<1>3. asked = [k \in DOMAIN asked |-> asked[k]]
  BY DEF Adding
<1> HIDE DEF asked
<1>4. Restricted(asked, listing) = asked
  BY <1>2, <1>3, BelongingAreKept
<1>5. QED BY <1>4 DEF asked

\* The counts behind the options of one dimension say what picking them
\* will find.
LEMMA CountsPredict ==
    ASSUME inStock \subseteq Item, NEW listing, NEW picks, NEW key, NEW values, NEW size,
           \A v \in values : size[v] = OptionCount(listing, picks, key, v)
    PROVE  Total(size, values) = Cardinality(Found(listing, Adding(picks, key, values)))
<1> DEFINE asked == Adding(picks, key, values)
           S == {i \in Listed(listing) : DimsMatch(i, OtherPicks(picks, key))}
           d == [i \in S |-> DimOf(i, key)]
<1>1. IsFiniteSet(S)
  <2>1. S \subseteq Item
    BY DEF Listed
  <2>2. QED BY <2>1, ShopAssumption, FS_Subset
<1>2. \A v \in values : size[v] = Cardinality(Part(S, d, v))
  <2>1. SUFFICES ASSUME NEW v \in values PROVE size[v] = Cardinality(Part(S, d, v))
    OBVIOUS
  <2>2. {i \in Listed(listing) : /\ DimsMatch(i, OtherPicks(picks, key))
                                  /\ DimOf(i, key) = v} = Part(S, d, v)
    BY DEF Part
  <2>3. QED BY <2>2 DEF OptionCount
<1>3. Found(listing, asked) = Within(S, d, values)
  <2>1. \A i : DimsMatch(i, asked) <=> /\ DimsMatch(i, OtherPicks(picks, key))
                                       /\ DimOf(i, key) \in values
    <3>1. DOMAIN asked = DOMAIN picks \cup {key} /\ asked[key] = values
      BY DEF Adding
    <3>2. \A k \in DOMAIN picks \ {key} : asked[k] = picks[k]
      BY DEF Adding
    <3>3. /\ DOMAIN OtherPicks(picks, key) = DOMAIN picks \ {key}
          /\ \A k \in DOMAIN picks \ {key} : OtherPicks(picks, key)[k] = picks[k]
      BY DEF OtherPicks
    <3>4. QED BY <3>1, <3>2, <3>3 DEF DimsMatch
  <2>2. QED BY <2>1 DEF Found, Within
<1> HIDE DEF S, d
<1>4. QED BY <1>1, <1>2, <1>3, CountedByValue

LEMMA PickIsPredicted ==
    ASSUME inStock \subseteq Item, Current(page),
           NEW key \in DOMAIN page.counts, NEW value \in DOMAIN page.counts[key],
           page.listing \in ListingsOf(key, value), NEW values,
           values = {value} \cup (IF key \in DOMAIN page.picks THEN page.picks[key] ELSE {})
    PROVE  Promised(key, values)
              = Cardinality(Found(page.listing,
                                  Restricted(Adding(page.picks, key, values), page.listing)))
<1> DEFINE listing == page.listing
           picks == page.picks
           asked == Adding(picks, key, values)
<1>1. page.counts = Counts(listing, picks) /\ picks = Restricted(picks, listing)
  BY DEF Current
<1>2. key \in DimKeys(listing) /\ listing # ""
  BY <1>1 DEF Counts, DimKeys
<1>3. \A v \in values : listing \in ListingsOf(key, v)
  BY <1>1, <1>2, RestrictedBelong
<1>4. Restricted(asked, listing) = asked
  <2>1. values # {}
    OBVIOUS
  <2> HIDE DEF listing, picks
  <2>2. QED BY <2>1, <1>1, <1>2, <1>3, AskedIsKept
<1> DEFINE size == page.counts[key]
<1>5. \A v \in values : size[v] = OptionCount(listing, picks, key, v)
  <2> DEFINE live == {DimOf(i, key) : i \in Listed(listing)} \ {None}
             offered == live \cup (IF key \in DOMAIN picks THEN picks[key] ELSE {})
  <2>1. page.counts[key] = [v \in offered |-> OptionCount(listing, picks, key, v)]
    BY <1>1, <1>2 DEF Counts
  <2>2. values \subseteq offered
    BY <2>1
  <2>3. QED BY <2>1, <2>2
<1>6. Promised(key, values) = Total(size, values)
  BY DEF Promised, Total
<1>7. Total(size, values) = Cardinality(Found(listing, asked))
  <2> HIDE DEF size, listing, picks
  <2>1. QED BY <1>5, CountsPredict
<1>8. QED BY <1>4, <1>6, <1>7

-----------------------------------------------------------------------------
(* The page of products: every step keeps the invariant.                   *)

LEMMA SameWorld ==
    ASSUME UNCHANGED <<inStock, wanted>>
    PROVE  Current(page)' <=> Current(page')
<1>1. \A listing, picks : Found(listing, picks)' = Found(listing, picks)
  BY DEF Found, Listed, InScope
<1>2. \A listing, picks : Rows(listing, picks)' = Rows(listing, picks)
  BY <1>1 DEF Rows
<1>3. \A listing, picks : Counts(listing, picks)' = Counts(listing, picks)
  BY DEF Counts, OptionCount, Listed, InScope
<1>4. QED BY <1>1, <1>2, <1>3 DEF Current

LEMMA PageInit == ShopInit => PageInv
<1>1. SUFFICES ASSUME ShopInit PROVE PageInv
  OBVIOUS
<1>2. inStock \subseteq Item /\ page = PageFor("", <<>>, NoPromise)
  BY <1>1 DEF ShopInit
<1>3. Current(page) /\ PageShape
  <2>1. ~(NoPromise >= 0)
    BY DEF NoPromise
  <2>2. QED BY <1>2, <2>1, AnswerIsCurrent DEF PageShape
<1>4. QED BY <1>2, <1>3 DEF PageInv

\* Both handlers of a request answer by PageFor.
LEMMA AnswerKeeps ==
    ASSUME PageInv, UNCHANGED <<inStock, wanted>>, NEW key, NEW asked, NEW promised,
           page' = PageFor(key, asked, promised),
           LET listing == ShownListing(key, wanted) IN
           promised >= 0 => promised = Cardinality(Found(listing, Restricted(asked, listing)))
    PROVE  PageInv'
<1>1. inStock \subseteq Item
  BY DEF PageInv
<1>2. /\ Current(page')
      /\ DOMAIN page' = {"listing", "picks", "counts", "rows", "more", "same", "promised"}
  BY <1>1, AnswerIsCurrent
<1>3. QED BY <1>1, <1>2, SameWorld DEF PageInv, PageShape

LEMMA OpenListingKeeps ==
    ASSUME PageInv, NEW key, OpenListing(key)
    PROVE  PageInv'
<1>1. page' = PageFor(key, <<>>, NoPromise) /\ UNCHANGED <<inStock, wanted>>
  BY DEF OpenListing
<1>2. ~(NoPromise >= 0)
  BY DEF NoPromise
<1>3. QED BY <1>1, <1>2, AnswerKeeps

LEMMA PickOptionKeeps ==
    ASSUME PageInv, NEW key \in DOMAIN page.counts, NEW value \in DOMAIN page.counts[key],
           PickOption(key, value)
    PROVE  PageInv'
<1> DEFINE values == {value} \cup (IF key \in DOMAIN page.picks THEN page.picks[key] ELSE {})
           asked == Adding(page.picks, key, values)
           promised == IF page.same /\ page.listing \in ListingsOf(key, value)
                       THEN Promised(key, values) ELSE NoPromise
           listing == ShownListing(page.listing, wanted)
<1>1. page' = PageFor(page.listing, asked, promised) /\ UNCHANGED <<inStock, wanted>>
  BY DEF PickOption, Adding
<1>2. promised >= 0 => promised = Cardinality(Found(listing, Restricted(asked, listing)))
  <2>1. CASE page.same /\ page.listing \in ListingsOf(key, value)
    <3>1. Current(page) /\ inStock \subseteq Item
      BY <2>1 DEF PageInv
    <3>2. listing = page.listing
      BY <3>1 DEF Current
    <3>3. Promised(key, values)
            = Cardinality(Found(page.listing, Restricted(asked, page.listing)))
      BY <2>1, <3>1, PickIsPredicted
    <3>4. QED BY <2>1, <3>2, <3>3
  <2>2. CASE ~(page.same /\ page.listing \in ListingsOf(key, value))
    BY <2>2 DEF NoPromise
  <2>3. QED BY <2>1, <2>2
<1> HIDE DEF asked, promised
<1>3. QED BY <1>1, <1>2, AnswerKeeps

LEMMA LoadMoreKeeps ==
    ASSUME PageInv, LoadMore
    PROVE  PageInv'
<1> DEFINE all == Rows(page.listing, page.picks)
           offset == Len(page.rows)
           end == Min({offset + PageSize, Len(all)})
<1>1. /\ page' = [page EXCEPT !.rows = page.rows \o Slice(all, offset),
                              !.more = offset + PageSize < Len(all)]
      /\ UNCHANGED <<inStock, wanted>>
  BY DEF LoadMore
<1>2. PageShape /\ inStock \subseteq Item
  BY DEF PageInv
<1>3. /\ page'.listing = page.listing /\ page'.picks = page.picks
      /\ page'.counts = page.counts /\ page'.promised = page.promised
      /\ page'.same = page.same
      /\ page'.rows = page.rows \o Slice(all, offset)
      /\ page'.more = (offset + PageSize < Len(all))
      /\ DOMAIN page' = DOMAIN page
  BY <1>1, <1>2 DEF PageShape
<1>4. PageShape' /\ (inStock \subseteq Item)'
  BY <1>1, <1>2, <1>3 DEF PageShape
<1>5. ASSUME page.same PROVE Current(page')
  <2>1. Current(page)
    BY <1>5 DEF PageInv
  <2>2. all \in Seq(Item) /\ Len(all) \in Nat
    BY <1>2, RowsAreFound
  <2>3. offset \in 0..Len(all) /\ page.rows = SubSeq(all, 1, offset)
    BY <2>1 DEF Current
  <2>4. PageSize \in Nat \ {0}
    BY ShopAssumption
  <2>5. /\ end \in offset..Len(all)
        /\ offset + PageSize < Len(all) => end = offset + PageSize
        /\ ~(offset + PageSize < Len(all)) => end = Len(all)
        /\ SubSeq(all, 1, offset) \o Slice(all, offset) = SubSeq(all, 1, end)
        /\ Len(SubSeq(all, 1, end)) = end
    <3> HIDE DEF all, offset
    <3>1. end = Min({offset + PageSize, Len(all)})
      OBVIOUS
    <3> HIDE DEF end
    <3>2. QED BY <2>2, <2>3, <3>1, SliceEnds
  <2> HIDE DEF end, offset
  <2>6. page'.rows = SubSeq(all, 1, end) /\ Len(page'.rows) = end /\ end \in 0..Len(all)
    BY <1>3, <2>2, <2>3, <2>5
  <2>7. offset + PageSize < Len(all) <=> end < Len(all)
    BY <2>2, <2>3, <2>4, <2>5
  <2>8. page'.more = (Len(page'.rows) < Len(all))
    BY <1>3, <2>6, <2>7
  <2>9. QED BY <1>3, <2>1, <2>6, <2>8 DEF Current
<1>6. QED BY <1>1, <1>3, <1>4, <1>5, SameWorld DEF PageInv

LEMMA ChangeKeeps ==
    ASSUME PageInv, \/ \E stock \in SUBSET Item : Restock(stock)
                    \/ \E keys \in Selections : SelectListings(keys)
    PROVE  PageInv'
<1>1. inStock' \subseteq Item /\ page' = [page EXCEPT !.same = FALSE]
  BY DEF Restock, SelectListings, PageInv
<1>2. PageShape' /\ ~page'.same
  BY <1>1 DEF PageInv, PageShape
<1>3. QED BY <1>1, <1>2 DEF PageInv

\* As long as the list is the one it was opened on, a page shows what a
\* request for it would show now.
THEOREM PagesStayCurrent == ShopSpec => []PageInv
<1>1. PageInv /\ [ShopNext]_shopVars => PageInv'
  <2>1. SUFFICES ASSUME PageInv, [ShopNext]_shopVars PROVE PageInv'
    OBVIOUS
  <2>2. ASSUME NEW key, OpenListing(key) PROVE PageInv'
    BY <2>1, <2>2, OpenListingKeeps
  <2>3. ASSUME NEW key \in DOMAIN page.counts, NEW value \in DOMAIN page.counts[key],
               PickOption(key, value)
        PROVE  PageInv'
    BY <2>1, <2>3, PickOptionKeeps
  <2>4. CASE LoadMore
    BY <2>1, <2>4, LoadMoreKeeps
  <2>5. CASE \/ \E stock \in SUBSET Item : Restock(stock)
             \/ \E keys \in Selections : SelectListings(keys)
    BY <2>1, <2>5, ChangeKeeps
  <2>6. CASE UNCHANGED shopVars
    BY <2>1, <2>6, SameWorld DEF shopVars, PageInv, PageShape
  <2>7. QED BY <2>1, <2>2, <2>3, <2>4, <2>5, <2>6 DEF ShopNext
<1>2. QED BY <1>1, PageInit, PTL DEF ShopSpec

\* Unless the list changed under it, a page loaded to its end holds every
\* product found once, as many as the counts of the page before said
\* (filters/ facet_groups, query.py matches, usecases.list_shop).
THEOREM FacetsPredictPages == ShopSpec => []FacetPredictsPage
<1>1. PageInv => FacetPredictsPage
  <2>1. SUFFICES ASSUME PageInv, page.same, ~page.more
                 PROVE  /\ Cardinality({page.rows[n] : n \in DOMAIN page.rows}) = Len(page.rows)
                        /\ page.promised >= 0 => Len(page.rows) = page.promised
    BY DEF FacetPredictsPage
  <2> DEFINE found == Found(page.listing, page.picks)
             all == Rows(page.listing, page.picks)
  <2>2. Current(page) /\ inStock \subseteq Item
    BY <2>1 DEF PageInv
  <2>3. /\ all \in Seq(Item) /\ Len(all) \in Nat
        /\ Len(all) = Cardinality(found)
        /\ {all[n] : n \in 1..Len(all)} = found
    BY <2>2, RowsAreFound
  <2>4. /\ Len(page.rows) \in 0..Len(all) /\ page.rows = SubSeq(all, 1, Len(page.rows))
        /\ ~(Len(page.rows) < Len(all))
        /\ page.promised >= 0 => page.promised = Cardinality(found)
    BY <2>1, <2>2 DEF Current
  <2> HIDE DEF all, found
  <2>5. Len(page.rows) = Len(all)
    BY <2>3, <2>4
  <2>6. page.rows = all
    BY <2>3, <2>4, <2>5, SubSeqFull
  <2>7. DOMAIN all = 1..Len(all)
    BY <2>3, LenProperties
  <2>8. QED BY <2>3, <2>4, <2>6, <2>7
<1>2. QED BY <1>1, PagesStayCurrent, PTL

-----------------------------------------------------------------------------
(* The feed of events: the inductive invariant.                            *)

Rising(seq) == \A m, n \in DOMAIN seq : m < n => seq[m] < seq[n]

FeedShape ==
    /\ lastId \in 1..MaxEvents
    /\ appeared \subseteq 1..lastId /\ others \subseteq 1..lastId
    /\ cursor \in 0..lastId
    /\ rows \in Seq(1..lastId) /\ told \in Seq(1..lastId)
    /\ poller = "batch" <=> rows # <<>>
    /\ poller = "first" => told = <<>>

\* What the thread has told lies behind the cursor, what it is about to
\* tell before it, and nothing it has not read lies between.
FeedInv ==
    /\ FeedShape
    /\ Rising(told) /\ Rising(rows)
    /\ \A n \in DOMAIN told : told[n] <= cursor
    /\ \A n \in DOMAIN rows : cursor < rows[n]
    /\ rows # <<>> =>
          \A id \in appeared : cursor < id /\ id <= rows[Len(rows)] => id \in Range(rows)

LEMMA IdsOrders ==
    ASSUME NEW S \in SUBSET (1..MaxEvents)
    PROVE  IsFiniteSet(S) /\ Orders(OlderFirst, S) /\ Orders(NewerFirst, S)
<1>1. IsFiniteSet(S)
  <2>1. 1 \in Int /\ MaxEvents \in Int
    BY EventFeedAssumption
  <2>2. IsFiniteSet(1..MaxEvents)
    BY <2>1, FS_Interval
  <2>3. QED BY <2>2, FS_Subset
<1>2. \A i \in S : i \in 1..MaxEvents /\ i \in Int
  BY EventFeedAssumption
<1>3. /\ \A i, j \in S : <<i, j>> \in OlderFirst <=> i < j
      /\ \A i, j \in S : <<i, j>> \in NewerFirst <=> i > j
  BY <1>2 DEF OlderFirst, NewerFirst
<1>4. QED BY <1>1, <1>2, <1>3 DEF Orders

\* An answer holds the first events after the cursor, without a gap.
LEMMA AnswerHasNoGap ==
    ASSUME FeedShape, NEW answer, answer = ListAfter(cursor, PollLimit)
    PROVE  /\ answer \in Seq(1..lastId) /\ Rising(answer)
           /\ \A n \in DOMAIN answer : cursor < answer[n]
           /\ answer # <<>> =>
                 \A id \in appeared :
                    cursor < id /\ id <= answer[Len(answer)] => id \in Range(answer)
<1> DEFINE S == {i \in appeared : i > cursor}
           all == Ascending(S)
           size == IF Len(all) < PollLimit THEN Len(all) ELSE PollLimit
<1>1. /\ lastId \in Nat /\ cursor \in Nat /\ S \in SUBSET (1..MaxEvents) /\ S \subseteq 1..lastId
      /\ PollLimit \in Nat \ {0}
  <2>1. PollLimit \in Nat \ {0} /\ MaxEvents \in Nat
    BY EventFeedAssumption
  <2>2. lastId \in 1..MaxEvents /\ appeared \subseteq 1..lastId /\ cursor \in 0..lastId
    BY DEF FeedShape
  <2>3. lastId \in Nat /\ cursor \in Nat /\ 1..lastId \subseteq 1..MaxEvents
    BY <2>1, <2>2
  <2>4. S \subseteq 1..lastId
    BY <2>2
  <2>5. QED BY <2>1, <2>3, <2>4
<1>2. IsFiniteSet(S) /\ Orders(OlderFirst, S)
  BY <1>1, IdsOrders
<1>3. /\ all \in Seq(S) /\ Len(all) \in Nat
      /\ \A i \in S : \E n \in 1..Len(all) : all[n] = i
      /\ \A m, n \in 1..Len(all) : m < n => <<all[m], all[n]>> \in OlderFirst
  <2> HIDE DEF S
  <2>1. QED BY <1>2, InOrderLists DEF Ascending
<1>4. answer = SubSeq(all, 1, size)
  BY DEF ListAfter, FirstOf
<1>5. \A i \in S : i \in appeared /\ i \in 1..lastId /\ cursor < i
  BY <1>1
<1> HIDE DEF all
<1>6. size \in 0..Len(all)
  BY <1>1, <1>3
<1>7. \A n \in 1..Len(all) : all[n] \in S /\ all[n] \in 1..lastId /\ cursor < all[n]
  <2> HIDE DEF S
  <2>1. QED BY <1>3, <1>5, ElementOfSeq
<1>8. \A m, n \in 1..Len(all) : m < n => all[m] < all[n]
  BY <1>3 DEF OlderFirst
<1>9. /\ answer \in Seq(1..lastId) /\ Len(answer) = size /\ DOMAIN answer = 1..size
      /\ \A n \in 1..size : answer[n] = all[n]
  <2> HIDE DEF size
  <2>1. \A n \in 1..size : all[n] \in 1..lastId
    BY <1>3, <1>6, <1>7
  <2>2. answer \in Seq(1..lastId) /\ Len(answer) = (IF 1 <= size THEN size - 1 + 1 ELSE 0)
        /\ \A n \in 1..(size - 1 + 1) : answer[n] = all[1 + n - 1]
    BY <2>1, <1>3, <1>4, <1>6, SubSeqProperties
  <2>3. Len(answer) = size
    BY <2>2, <1>3, <1>6
  <2>4. DOMAIN answer = 1..size
    BY <2>2, <2>3, LenProperties
  <2>5. QED BY <2>2, <2>3, <2>4, <1>3, <1>6
<1> HIDE DEF size
<1>10. Rising(answer) /\ \A n \in DOMAIN answer : cursor < answer[n]
  <2>1. \A n \in 1..size : n \in 1..Len(all)
    BY <1>3, <1>6
  <2>2. \A n \in 1..size : cursor < answer[n]
    BY <2>1, <1>7, <1>9
  <2>3. \A m, n \in 1..size : m < n => answer[m] < answer[n]
    BY <2>1, <1>8, <1>9
  <2>4. QED BY <2>2, <2>3, <1>9 DEF Rising
<1>11. ASSUME answer # <<>>, NEW id \in appeared, cursor < id, id <= answer[Len(answer)]
       PROVE  id \in Range(answer)
  <2>1. size \in 1..Len(all)
    BY <1>6, <1>3, <1>9, <1>11
  <2>2. PICK n \in 1..Len(all) : all[n] = id
    BY <1>3, <1>11, <1>1
  <2>3. id <= all[size] /\ all[size] \in Int /\ id \in Int
    BY <2>1, <2>2, <1>7, <1>9, <1>11
  <2>4. ~(size < n)
    BY <2>1, <2>2, <2>3, <1>8
  <2>5. n \in 1..size
    BY <2>1, <2>4, <1>3
  <2>6. QED BY <2>2, <2>5, <1>9 DEF Range
<1>12. QED BY <1>9, <1>10, <1>11

LEMMA FeedStart == FeedInit => FeedInv
<1>1. SUFFICES ASSUME FeedInit PROVE FeedInv
  OBVIOUS
<1>2. 1 \in 1..MaxEvents
  BY EventFeedAssumption
<1>3. rows = <<>> /\ told = <<>> /\ DOMAIN rows = {} /\ DOMAIN told = {}
  BY <1>1 DEF FeedInit
<1>4. FeedShape
  BY <1>1, <1>2, <1>3 DEF FeedInit, FeedShape
<1>5. QED BY <1>3, <1>4 DEF FeedInv, Rising

LEMMA AddEventKeeps ==
    ASSUME FeedInv, AddEvent
    PROVE  FeedInv'
<1>1. /\ lastId \in 1..MaxEvents /\ lastId < MaxEvents /\ MaxEvents \in Nat
      /\ lastId' = lastId + 1 /\ cursor \in 0..lastId
      /\ appeared \subseteq 1..lastId /\ others \subseteq 1..lastId
      /\ rows \in Seq(1..lastId) /\ told \in Seq(1..lastId)
  BY EventFeedAssumption DEF FeedInv, FeedShape, AddEvent
<1>2. /\ appeared' \subseteq appeared \cup {lastId'}
      /\ others' \subseteq others \cup {lastId'}
      /\ UNCHANGED <<poller, cursor, rows, told>>
  BY <1>1 DEF AddEvent, pollVars
<1>3. 1..lastId \subseteq 1..lastId' /\ lastId' \in 1..lastId' /\ lastId' \in 1..MaxEvents
  BY <1>1
<1>4. rows \in Seq(1..lastId') /\ told \in Seq(1..lastId')
  BY <1>1, <1>3, SeqMonotonic
<1>5. cursor \in 0..lastId'
  BY <1>1
<1>6. FeedShape'
  BY <1>1, <1>2, <1>3, <1>4, <1>5 DEF FeedInv, FeedShape
<1>7. ASSUME rows # <<>>, NEW id \in appeared', cursor < id, id <= rows[Len(rows)]
      PROVE  id \in Range(rows)
  <2>1. Len(rows) \in 1..Len(rows)
    BY <1>1, <1>7, EmptySeq, LenProperties
  <2>2. rows[Len(rows)] \in 1..lastId
    BY <1>1, <2>1, ElementOfSeq
  <2>3. id \in appeared
    BY <1>1, <1>2, <1>7, <2>2
  <2>4. QED BY <1>7, <2>3 DEF FeedInv
<1>8. QED BY <1>2, <1>6, <1>7 DEF FeedInv, Rising

LEMMA FirstCursorKeeps ==
    ASSUME FeedInv, FirstCursor
    PROVE  FeedInv'
<1> DEFINE D == Descending(appeared)
           newest == ListNewest(1)
<1>1. /\ lastId \in Nat /\ appeared \subseteq 1..lastId /\ appeared \in SUBSET (1..MaxEvents)
      /\ poller = "first" /\ rows = <<>> /\ told = <<>>
  <2>1. MaxEvents \in Nat
    BY EventFeedAssumption
  <2>2. lastId \in 1..MaxEvents /\ appeared \subseteq 1..lastId /\ poller = "first"
        /\ rows = <<>> /\ told = <<>>
    BY DEF FeedInv, FeedShape, FirstCursor
  <2>3. lastId \in Nat /\ 1..lastId \subseteq 1..MaxEvents
    BY <2>1, <2>2
  <2>4. QED BY <2>2, <2>3
<1>2. newest # <<>> => newest[1] \in 1..lastId
  <2>1. IsFiniteSet(appeared) /\ Orders(NewerFirst, appeared)
    BY <1>1, IdsOrders
  <2>2. D \in Seq(appeared) /\ Len(D) \in Nat
    BY <2>1, InOrderLists DEF Descending
  <2>3. newest = SubSeq(D, 1, IF Len(D) < 1 THEN Len(D) ELSE 1)
    BY DEF ListNewest, FirstOf
  <2> HIDE DEF D, newest
  <2>4. CASE Len(D) < 1
    <3>1. newest = SubSeq(D, 1, 0)
      BY <2>2, <2>3, <2>4
    <3>2. newest = <<>>
      BY <3>1, SubSeqEmpty
    <3>3. QED BY <3>2
  <2>5. CASE ~(Len(D) < 1)
    <3>1. newest = SubSeq(D, 1, 1) /\ 1 \in 1..Len(D)
      BY <2>2, <2>3, <2>5
    <3>2. \A n \in 1..1 : D[n] \in appeared
      BY <2>2, <3>1, ElementOfSeq
    <3>3. newest \in Seq(appeared) /\ Len(newest) = 1
      BY <3>1, <3>2, SubSeqProperties
    <3>4. newest[1] \in appeared
      BY <3>3, ElementOfSeq
    <3>5. QED BY <3>4, <1>1
  <2>6. QED BY <2>4, <2>5
<1>3. cursor' = 0 \/ (newest # <<>> /\ cursor' = newest[1])
  BY DEF FirstCursor
<1> HIDE DEF newest
<1>4. cursor' \in 0..lastId
  BY <1>1, <1>2, <1>3
<1>5. poller' = "wait" /\ UNCHANGED <<rows, told, lastId, appeared, others>>
  BY DEF FirstCursor, tableVars
<1>6. DOMAIN rows = {} /\ DOMAIN told = {}
  BY <1>1
<1>7. FeedShape'
  BY <1>1, <1>4, <1>5 DEF FeedInv, FeedShape
<1>8. QED BY <1>1, <1>5, <1>6, <1>7 DEF FeedInv, Rising

LEMMA ReadRowsKeeps ==
    ASSUME FeedInv, ReadRows
    PROVE  FeedInv'
<1>1. /\ rows' = ListAfter(cursor, PollLimit) /\ rows' # <<>>
      /\ poller' = "batch" /\ UNCHANGED <<cursor, told, lastId, appeared, others>>
  BY DEF ReadRows, tableVars
<1>2. FeedShape
  BY DEF FeedInv
<1>3. /\ rows' \in Seq(1..lastId) /\ Rising(rows')
      /\ \A n \in DOMAIN rows' : cursor < rows'[n]
      /\ rows' # <<>> =>
            \A id \in appeared : cursor < id /\ id <= rows'[Len(rows')] => id \in Range(rows')
  BY <1>1, <1>2, AnswerHasNoGap
<1>4. FeedShape'
  BY <1>1, <1>2, <1>3 DEF FeedShape
<1>5. QED BY <1>1, <1>3, <1>4 DEF FeedInv, Rising

\* The event notified is the next one there is after the cursor.
LEMMA NotifiedIsNext ==
    ASSUME FeedInv, NotifyRow
    PROVE  /\ rows # <<>> /\ Head(rows) \in 1..lastId /\ cursor < Head(rows)
           /\ told' = Append(told, Head(rows)) /\ cursor' = Head(rows)
           /\ rows' = Tail(rows) /\ poller' = (IF Len(rows) = 1 THEN "wait" ELSE "batch")
           /\ UNCHANGED <<lastId, appeared, others>>
           /\ \A id \in appeared : cursor < id /\ id <= cursor' => id = Head(rows)
<1>1. /\ lastId \in Nat /\ rows \in Seq(1..lastId) /\ rows # <<>> /\ cursor \in Nat
  <2>1. MaxEvents \in Nat /\ lastId \in 1..MaxEvents /\ cursor \in 0..lastId
    BY EventFeedAssumption DEF FeedInv, FeedShape
  <2>2. rows \in Seq(1..lastId) /\ rows # <<>>
    BY DEF FeedInv, FeedShape, NotifyRow
  <2>3. QED BY <2>1, <2>2
<1>2. Len(rows) \in Nat \ {0} /\ DOMAIN rows = 1..Len(rows) /\ Head(rows) = rows[1]
  BY <1>1, EmptySeq, LenProperties
<1>3. /\ \A n \in 1..Len(rows) : rows[n] \in 1..lastId /\ cursor < rows[n]
      /\ \A m, n \in 1..Len(rows) : m < n => rows[m] < rows[n]
  <2>1. \A n \in 1..Len(rows) : rows[n] \in 1..lastId
    BY <1>1, ElementOfSeq
  <2>2. QED BY <2>1, <1>2 DEF FeedInv, Rising
<1>4. Head(rows) \in 1..lastId /\ cursor < Head(rows)
  BY <1>2, <1>3
<1>5. /\ told' = Append(told, Head(rows)) /\ cursor' = NextCursor(Head(rows))
      /\ rows' = Tail(rows) /\ poller' = (IF Len(rows) = 1 THEN "wait" ELSE "batch")
      /\ UNCHANGED <<lastId, appeared, others>>
  <2>1. ~(Head(rows) <= cursor)
    BY <1>1, <1>4
  <2>2. QED BY <2>1 DEF NotifyRow, tableVars
<1>6. NextCursor(Head(rows)) = Head(rows)
  BY <1>1, <1>4 DEF NextCursor, Max
<1>7. ASSUME NEW id \in appeared, cursor < id, id <= Head(rows) PROVE id = Head(rows)
  <2>1. rows[1] <= rows[Len(rows)]
    BY <1>2, <1>3
  <2>2. id \in 1..lastId
    BY DEF FeedInv, FeedShape
  <2>3. id <= rows[Len(rows)]
    BY <1>2, <1>3, <1>7, <2>1, <2>2
  <2>4. id \in Range(rows)
    BY <1>1, <1>7, <2>3 DEF FeedInv
  <2>5. PICK n \in 1..Len(rows) : rows[n] = id
    BY <1>2, <2>4 DEF Range
  <2>6. n = 1 \/ rows[1] < rows[n]
    BY <1>2, <1>3, <2>5
  <2>7. QED BY <1>2, <1>3, <1>7, <2>2, <2>5, <2>6
<1>8. QED BY <1>1, <1>4, <1>5, <1>6, <1>7

LEMMA NotifyRowKeeps ==
    ASSUME FeedInv, NotifyRow
    PROVE  FeedInv'
<1> DEFINE id == Head(rows)
<1>1. /\ rows # <<>> /\ id \in 1..lastId /\ cursor < id
      /\ told' = Append(told, id) /\ cursor' = id
      /\ rows' = Tail(rows) /\ poller' = (IF Len(rows) = 1 THEN "wait" ELSE "batch")
      /\ UNCHANGED <<lastId, appeared, others>>
  BY NotifiedIsNext
<1>2. /\ lastId \in 1..MaxEvents /\ MaxEvents \in Nat /\ cursor \in 0..lastId
      /\ rows \in Seq(1..lastId) /\ told \in Seq(1..lastId)
  BY EventFeedAssumption DEF FeedInv, FeedShape
<1>3. /\ Len(rows) \in Nat \ {0} /\ DOMAIN rows = 1..Len(rows) /\ id = rows[1]
      /\ rows' \in Seq(1..lastId) /\ Len(rows') = Len(rows) - 1
      /\ DOMAIN rows' = 1..Len(rows')
      /\ \A n \in 1..Len(rows') : rows'[n] = rows[n + 1]
  BY <1>1, <1>2, EmptySeq, LenProperties, HeadTailProperties
<1>4. /\ told' \in Seq(1..lastId) /\ Len(told) \in Nat /\ DOMAIN told = 1..Len(told)
      /\ Len(told') = Len(told) + 1 /\ DOMAIN told' = 1..Len(told')
      /\ \A n \in 1..Len(told) : told'[n] = told[n] /\ told[n] \in 1..lastId
      /\ told'[Len(told) + 1] = id
  BY <1>1, <1>2, AppendProperties, LenProperties, ElementOfSeq
<1> HIDE DEF id
<1>5. \A n \in 1..Len(rows) : rows[n] \in 1..lastId
  BY <1>2, ElementOfSeq
<1>6. \A n \in 1..Len(told) : told[n] <= cursor
  BY <1>4 DEF FeedInv
<1>7. \A m, n \in 1..Len(rows) : m < n => rows[m] < rows[n]
  BY <1>3 DEF FeedInv, Rising
<1>8. \A m, n \in 1..Len(told) : m < n => told[m] < told[n]
  BY <1>4 DEF FeedInv, Rising
<1>9. FeedShape'
  <2>1. poller' = "batch" <=> rows' # <<>>
    <3>1. Len(rows) = 1 <=> Len(rows') = 0
      BY <1>3
    <3>2. Len(rows') = 0 <=> rows' = <<>>
      BY <1>3, EmptySeq
    <3>3. QED BY <1>1, <3>1, <3>2
  <2>2. poller' # "first" /\ cursor' \in 0..lastId
    BY <1>1, <1>2
  <2>3. QED BY <1>1, <1>3, <1>4, <2>1, <2>2 DEF FeedInv, FeedShape
<1>10. Rising(told') /\ \A n \in DOMAIN told' : told'[n] <= cursor'
  <2>1. \A n \in 1..Len(told') : n \in 1..Len(told) \/ n = Len(told) + 1
    BY <1>4
  <2>2. \A n \in 1..Len(told) : told[n] < id
    BY <1>1, <1>2, <1>4, <1>6
  <2>3. \A n \in 1..Len(told') : told'[n] <= cursor'
    BY <1>1, <1>2, <1>4, <2>1, <2>2
  <2>4. ASSUME NEW m \in 1..Len(told'), NEW n \in 1..Len(told'), m < n
        PROVE  told'[m] < told'[n]
    <3>1. m \in 1..Len(told)
      BY <1>4, <2>4
    <3>2. CASE n \in 1..Len(told)
      BY <1>4, <1>8, <2>4, <3>1, <3>2
    <3>3. CASE n = Len(told) + 1
      BY <1>4, <2>2, <3>1, <3>3
    <3>4. QED BY <2>1, <3>2, <3>3
  <2>5. QED BY <1>4, <2>3, <2>4 DEF Rising
<1>11. Rising(rows') /\ \A n \in DOMAIN rows' : cursor' < rows'[n]
  <2>1. \A n \in 1..Len(rows') : n + 1 \in 1..Len(rows) /\ 1 \in 1..Len(rows) /\ 1 < n + 1
    BY <1>3
  <2>2. \A n \in 1..Len(rows') : cursor' < rows'[n]
    BY <1>1, <1>3, <1>7, <2>1
  <2>3. \A m, n \in 1..Len(rows') : m < n => rows'[m] < rows'[n]
    BY <1>3, <1>7, <2>1
  <2>4. QED BY <1>3, <2>2, <2>3 DEF Rising
<1>12. ASSUME rows' # <<>>, NEW e \in appeared, cursor' < e, e <= rows'[Len(rows')]
       PROVE  e \in Range(rows')
  <2>1. Len(rows') \in 1..Len(rows')
    BY <1>3, <1>12, EmptySeq
  <2>2. rows'[Len(rows')] = rows[Len(rows)]
    BY <1>3, <2>1
  <2>3. e \in 1..lastId
    BY DEF FeedInv, FeedShape
  <2>4. cursor < e
    BY <1>1, <1>2, <1>12, <2>3
  <2>5. e \in Range(rows)
    BY <1>1, <1>12, <2>2, <2>4 DEF FeedInv
  <2>6. PICK n \in 1..Len(rows) : rows[n] = e
    BY <1>3, <2>5 DEF Range
  <2>7. n # 1
    BY <1>1, <1>2, <1>3, <1>12, <2>3, <2>6
  <2>8. n - 1 \in 1..Len(rows') /\ rows'[n - 1] = e
    BY <1>3, <2>6, <2>7
  <2>9. QED BY <1>3, <2>8 DEF Range
<1>13. QED BY <1>1, <1>9, <1>10, <1>11, <1>12 DEF FeedInv, Rising

\* Steps that leave what the thread works with, or only take events away.
LEMMA OtherStepsKeep ==
    ASSUME FeedInv, ClearEvents \/ EndPoll \/ ToggleNotify \/ StopPoll \/ UNCHANGED feedVars
    PROVE  FeedInv'
<1>1. /\ UNCHANGED <<lastId, cursor, rows, told>>
      /\ appeared' \subseteq appeared /\ others' \subseteq others
      /\ poller' = poller \/ (poller = "wait" /\ poller' = "stopped")
  BY DEF ClearEvents, EndPoll, ToggleNotify, StopPoll, feedVars, tableVars, pollVars
<1>2. FeedShape'
  BY <1>1 DEF FeedInv, FeedShape
<1>3. QED BY <1>1, <1>2 DEF FeedInv, Rising

\* What has been told lies behind the cursor, what is being told before it,
\* and nothing unread between.
THEOREM FeedStaysInOrder == FeedSpec => []FeedInv
<1>1. FeedInv /\ [FeedNext]_feedVars => FeedInv'
  BY AddEventKeeps, FirstCursorKeeps, ReadRowsKeeps, NotifyRowKeeps, OtherStepsKeep
  DEF FeedNext, PollerStep
<1>2. QED BY <1>1, FeedStart, PTL DEF FeedSpec

(* No event is told twice, none after a later one (desktop.py's test of    *)
(* the id against the cursor).                                             *)
ToldInOrder == Rising(told)

THEOREM EventsAreToldInOrder == FeedSpec => []ToldInOrder
<1>1. FeedInv => ToldInOrder
  BY DEF FeedInv, ToldInOrder
<1>2. QED BY <1>1, FeedStaysInOrder, PTL

(* The cursor passes no event that is there without telling it, whatever   *)
(* is added, pruned or cleared while the thread works on an answer         *)
(* (desktop.py _poll_appeared, storage/events.py list).                    *)
NothingPassed ==
    \A id \in appeared : poller # "first" /\ cursor < id /\ id <= cursor' => id \in Range(told')

THEOREM NoEventIsPassed == FeedSpec => [][NothingPassed]_feedVars
<1>1. FeedInv /\ [FeedNext]_feedVars => [NothingPassed]_feedVars
  <2>1. SUFFICES ASSUME FeedInv, FeedNext PROVE NothingPassed
    OBVIOUS
  <2>2. CASE NotifyRow
    <3>1. /\ rows # <<>> /\ told' = Append(told, Head(rows)) /\ Head(rows) \in 1..lastId
          /\ \A id \in appeared : cursor < id /\ id <= cursor' => id = Head(rows)
      BY <2>1, <2>2, NotifiedIsNext
    <3>2. told \in Seq(1..lastId)
      BY <2>1 DEF FeedInv, FeedShape
    <3>3. /\ DOMAIN told' = 1..(Len(told) + 1) /\ Len(told) \in Nat
          /\ told'[Len(told) + 1] = Head(rows)
      BY <3>1, <3>2, AppendProperties, LenProperties
    <3>4. Head(rows) \in Range(told')
      BY <3>3 DEF Range
    <3>5. QED BY <3>1, <3>4 DEF NothingPassed
  <2>3. CASE FirstCursor
    BY <2>3 DEF FirstCursor, NothingPassed
  <2>4. CASE AddEvent \/ ClearEvents \/ ToggleNotify \/ StopPoll \/ ReadRows \/ EndPoll
    <3>1. cursor' = cursor
      BY <2>4 DEF AddEvent, ClearEvents, ToggleNotify, StopPoll, ReadRows, EndPoll, pollVars
    <3>2. \A id \in appeared : id \in Int
      BY <2>1 DEF FeedInv, FeedShape
    <3>3. cursor \in Int
      BY <2>1 DEF FeedInv, FeedShape
    <3>4. QED BY <3>1, <3>2, <3>3 DEF NothingPassed
  <2>5. QED BY <2>1, <2>2, <2>3, <2>4 DEF FeedNext, PollerStep
<1>2. QED BY <1>1, FeedStaysInOrder, PTL DEF FeedSpec
=============================================================================
