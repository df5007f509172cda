------------------------- MODULE ConsentSearchProofs -------------------------
(***************************************************************************)
(* Nothing is missed by a walk in a settled order.  The argument: writes   *)
(* add consents and leave the order of the present ones alone, so the rank *)
(* of a match can only grow; and an empty page means that no match has a   *)
(* rank of the offset or more, because ranks leave no gaps.                *)
(*                                                                         *)
(* While nothing is written a walk shows exactly what matches: what it has *)
(* seen are the matches with ranks below its offset.                       *)
(***************************************************************************)
EXTENDS ConsentSearch, FiniteSetTheorems, WellFoundedInduction, TLAPS

\* A nonempty set of numbers has a least one.
LEMMA LeastNumber ==
  ASSUME NEW T, T \subseteq Nat, T # {}
  PROVE  \E n \in T : \A m \in T : n <= m
<1>1. PICK n \in T : \A m \in T : ~(<<m, n>> \in OpToRel(<, Nat))
  BY WFMin, NatLessThanWellFounded, Zenon
<1>2. \A m \in T : ~(m < n)
  BY <1>1, Zenon DEF OpToRel
<1>3. \A m \in T : n <= m
  BY <1>2
<1> QED  BY <1>3

-----------------------------------------------------------------------------
(* The order of the rows, and the ranks it gives to matches.               *)

RowFields == {"createdTime", "updatedTime", "validityTime", "groupId", "status"}

RowFits(c) == DOMAIN row[c] = RowFields /\ \A field \in Fields : row[c][field] \in Nat

\* Consents that are there have their fields, and the times and groups are numbers.
RowsFit ==
  /\ DOMAIN row = Consents
  /\ \A c \in Consents : Exists(c) => RowFits(c)

\* The fields that a sort compares, of a consent that is there, are numbers.
LEMMA SortFields ==
  ASSUME RowsFit, NEW sort \in Seq(Item), NEW c \in Consents, Exists(c)
  PROVE  \A i \in DOMAIN sort : sort[i].field \in Fields /\ row[c][sort[i].field] \in Nat
<1>1. ASSUME NEW i \in DOMAIN sort
      PROVE  sort[i].field \in Fields
  <2>1. sort[i] \in Item
    OBVIOUS
  <2> QED  BY <2>1 DEF Item
<1> QED  BY <1>1 DEF RowsFit, RowFits

\* No consent is ahead of itself.
LEMMA AheadIrreflexive ==
  ASSUME RowsFit, NEW sort \in Seq(Item), NEW c \in Consents, Exists(c)
  PROVE  ~Ahead(sort, c, c)
<1>1. c \in Nat
  BY SearchAssumption DEF SearchAssumption
<1>2. \A i \in DOMAIN sort : ~Before(sort[i], c, c)
  BY SortFields DEF Before
<1> QED  BY <1>1, <1>2 DEF Ahead

\* One that is ahead of another is ahead of all that the other is ahead of.
LEMMA AheadTransitive ==
  ASSUME RowsFit, NEW sort \in Seq(Item),
         NEW c \in Consents, NEW d \in Consents, NEW e \in Consents,
         Exists(c), Exists(d), Exists(e), Ahead(sort, c, d), Ahead(sort, d, e)
  PROVE  Ahead(sort, c, e)
<1>1. c \in Nat /\ d \in Nat /\ e \in Nat
  BY SearchAssumption DEF SearchAssumption
<1>2. \A i \in DOMAIN sort : /\ row[c][sort[i].field] \in Nat
                             /\ row[d][sort[i].field] \in Nat
                             /\ row[e][sort[i].field] \in Nat
  BY SortFields
<1>3. DOMAIN sort = 1..Len(sort) /\ Len(sort) \in Nat
  OBVIOUS
<1>4. CASE \A i \in DOMAIN sort : Tied(sort[i], c, d)
  <2>1. c < d
    BY <1>2, <1>4 DEF Ahead, Tied, Before
  <2>2. CASE d < e /\ \A i \in DOMAIN sort : Tied(sort[i], d, e)
    BY <1>1, <1>2, <1>4, <2>1, <2>2 DEF Ahead, Tied
  <2>3. ASSUME NEW i \in DOMAIN sort, Before(sort[i], d, e),
               \A j \in 1..(i - 1) : Tied(sort[j], d, e)
        PROVE  Ahead(sort, c, e)
    <3>1. Before(sort[i], c, e)
      BY <1>4, <2>3 DEF Tied, Before
    <3>2. \A j \in 1..(i - 1) : Tied(sort[j], c, e)
      BY <1>2, <1>3, <1>4, <2>3 DEF Tied
    <3> QED  BY <3>1, <3>2 DEF Ahead
  <2> QED  BY <2>2, <2>3 DEF Ahead
<1>5. CASE \A i \in DOMAIN sort : Tied(sort[i], d, e)
  <2>1. d < e
    BY <1>2, <1>5 DEF Ahead, Tied, Before
  <2>2. CASE c < d /\ \A i \in DOMAIN sort : Tied(sort[i], c, d)
    BY <1>1, <1>2, <1>5, <2>1, <2>2 DEF Ahead, Tied
  <2>3. ASSUME NEW i \in DOMAIN sort, Before(sort[i], c, d),
               \A j \in 1..(i - 1) : Tied(sort[j], c, d)
        PROVE  Ahead(sort, c, e)
    <3>1. Before(sort[i], c, e)
      BY <1>2, <1>5, <2>3 DEF Tied, Before
    <3>2. \A j \in 1..(i - 1) : Tied(sort[j], c, e)
      BY <1>2, <1>3, <1>5, <2>3 DEF Tied
    <3> QED  BY <3>1, <3>2 DEF Ahead
  <2> QED  BY <2>2, <2>3 DEF Ahead
<1>6. CASE /\ ~\A i \in DOMAIN sort : Tied(sort[i], c, d)
           /\ ~\A i \in DOMAIN sort : Tied(sort[i], d, e)
  <2>1. PICK i \in DOMAIN sort : /\ Before(sort[i], c, d)
                                 /\ \A k \in 1..(i - 1) : Tied(sort[k], c, d)
    BY <1>6 DEF Ahead
  <2>2. PICK j \in DOMAIN sort : /\ Before(sort[j], d, e)
                                 /\ \A k \in 1..(j - 1) : Tied(sort[k], d, e)
    BY <1>6 DEF Ahead
  <2>3. CASE i <= j
    <3>1. /\ row[c][sort[i].field] \in Nat
          /\ row[d][sort[i].field] \in Nat
          /\ row[e][sort[i].field] \in Nat
      BY <1>2
    <3>2. Before(sort[i], d, e) \/ Tied(sort[i], d, e)
      BY <1>3, <2>2, <2>3
    <3>3. Before(sort[i], c, e)
      BY <2>1, <3>1, <3>2 DEF Tied, Before
    <3>4. \A k \in 1..(i - 1) : Tied(sort[k], c, d) /\ Tied(sort[k], d, e)
      BY <1>3, <2>1, <2>2, <2>3
    <3>5. \A k \in 1..(i - 1) : Tied(sort[k], c, e)
      BY <3>4 DEF Tied
    <3> QED  BY <3>3, <3>5 DEF Ahead
  <2>4. CASE j <= i
    <3>1. /\ row[c][sort[j].field] \in Nat
          /\ row[d][sort[j].field] \in Nat
          /\ row[e][sort[j].field] \in Nat
      BY <1>2
    <3>2. Before(sort[j], c, d) \/ Tied(sort[j], c, d)
      BY <1>3, <2>1, <2>4
    <3>3. Before(sort[j], c, e)
      BY <2>2, <3>1, <3>2 DEF Tied, Before
    <3>4. \A k \in 1..(j - 1) : Tied(sort[k], c, d) /\ Tied(sort[k], d, e)
      BY <1>3, <2>1, <2>2, <2>4
    <3>5. \A k \in 1..(j - 1) : Tied(sort[k], c, e)
      BY <3>4 DEF Tied
    <3> QED  BY <3>3, <3>5 DEF Ahead
  <2> QED  BY <1>3, <2>3, <2>4
<1> QED  BY <1>4, <1>5, <1>6

\* Of two consents one is ahead of the other.
LEMMA AheadTotal ==
  ASSUME RowsFit, NEW sort \in Seq(Item), NEW c \in Consents, NEW d \in Consents,
         Exists(c), Exists(d), c # d
  PROVE  Ahead(sort, c, d) \/ Ahead(sort, d, c)
<1>1. c \in Nat /\ d \in Nat
  BY SearchAssumption DEF SearchAssumption
<1>2. \A i \in DOMAIN sort : row[c][sort[i].field] \in Nat /\ row[d][sort[i].field] \in Nat
  BY SortFields
<1>3. CASE \A i \in DOMAIN sort : Tied(sort[i], c, d)
  BY <1>1, <1>3 DEF Ahead, Tied
<1>4. CASE ~\A i \in DOMAIN sort : Tied(sort[i], c, d)
  <2> DEFINE T == {i \in DOMAIN sort : ~Tied(sort[i], c, d)}
  <2>1. T \subseteq Nat /\ T # {}
    BY <1>4
  <2>2. PICK i \in T : \A j \in T : i <= j
    BY <2>1, LeastNumber, Zenon
  <2>3. \A j \in 1..(i - 1) : Tied(sort[j], c, d) /\ Tied(sort[j], d, c)
    BY <2>2 DEF Tied
  <2>4. Before(sort[i], c, d) \/ Before(sort[i], d, c)
    BY <1>2, <2>2 DEF Tied, Before
  <2> QED  BY <2>2, <2>3, <2>4 DEF Ahead
<1> QED  BY <1>3, <1>4

\* The matches that are ahead of c.
Leading(f, sort, c) == {d \in Matching(f) : Ahead(sort, d, c)}

LEMMA RankIsNumber ==
  ASSUME NEW f, NEW sort, NEW c
  PROVE  /\ IsFiniteSet(Leading(f, sort, c))
         /\ Rank(f, sort, c) = Cardinality(Leading(f, sort, c))
         /\ Rank(f, sort, c) \in Nat
<1>1. IsFiniteSet(Consents) /\ Leading(f, sort, c) \in SUBSET Consents
  BY SearchAssumption DEF SearchAssumption, Leading, Matching
<1>2. IsFiniteSet(Leading(f, sort, c))
  BY <1>1, FS_Subset
<1>3. Rank(f, sort, c) = Cardinality(Leading(f, sort, c))
  BY DEF Rank, Leading
<1> QED  BY <1>2, <1>3, FS_CardinalityType

\* Of two matches the one that is ahead has the lower rank.
LEMMA RankFollowsOrder ==
  ASSUME RowsFit, NEW f, NEW sort \in Seq(Item), NEW c \in Matching(f), NEW d \in Matching(f),
         Ahead(sort, c, d)
  PROVE  Rank(f, sort, c) < Rank(f, sort, d)
<1> DEFINE C == Leading(f, sort, c)
           D == Leading(f, sort, d)
<1>1. C \subseteq D
  BY AheadTransitive DEF Leading, Matching
<1>2. c \in D /\ c \notin C
  BY AheadIrreflexive DEF Leading, Matching
<1>3. IsFiniteSet(D) /\ Cardinality(C) \in Nat /\ Cardinality(D) \in Nat
  BY RankIsNumber
<1>4. Cardinality(C) <= Cardinality(D) /\ Cardinality(C) # Cardinality(D)
  <2> HIDE DEF C, D
  <2> QED  BY <1>1, <1>2, <1>3, FS_Subset
<1> QED  BY <1>3, <1>4, RankIsNumber

\* No two matches have the same rank.
LEMMA RanksDiffer ==
  ASSUME RowsFit, NEW f, NEW sort \in Seq(Item), NEW c \in Matching(f), NEW d \in Matching(f),
         c # d
  PROVE  Rank(f, sort, c) # Rank(f, sort, d)
<1>1. Ahead(sort, c, d) \/ Ahead(sort, d, c)
  BY AheadTotal DEF Matching
<1>2. Rank(f, sort, c) \in Nat /\ Rank(f, sort, d) \in Nat
  BY RankIsNumber
<1> QED  BY <1>1, <1>2, RankFollowsOrder

\* The ranks of matches leave no gap: if a page is empty, no match comes after it.
LEMMA EmptyPageIsLast ==
  ASSUME RowsFit, NEW f, NEW sort \in Seq(Item), NEW limit \in Nat \ {0}, NEW offset \in Nat,
         Page(f, sort, limit, offset) = {},
         NEW c \in Matching(f)
  PROVE  Rank(f, sort, c) < offset
<1> DEFINE R(m) == Rank(f, sort, m)
           Later == {m \in Matching(f) : R(m) >= offset}
           T == {R(m) : m \in Later}
<1>1. \A m : R(m) \in Nat
  BY RankIsNumber
<1>2. SUFFICES ASSUME c \in Later
               PROVE  FALSE
  BY <1>1
<1>3. T \subseteq Nat /\ T # {}
  <2> HIDE DEF R
  <2> QED  BY <1>1, <1>2
<1>4. PICK n \in T : \A k \in T : n <= k
  <2> HIDE DEF T
  <2> QED  BY <1>3, LeastNumber, Zenon
<1>5. PICK m \in Later : R(m) = n
  BY <1>4
<1>6. \A d \in Leading(f, sort, m) : d \in Matching(f) /\ R(d) \in 0..(offset - 1)
  <2> TAKE d \in Leading(f, sort, m)
  <2>1. d \in Matching(f) /\ R(d) < R(m)
    BY RankFollowsOrder DEF Leading
  <2>2. ~(R(d) >= offset)
    <3>1. ASSUME R(d) >= offset
          PROVE  FALSE
      <4>1. R(d) \in T
        BY <2>1, <3>1
      <4>2. n <= R(d)
        BY <1>4, <4>1
      <4> HIDE DEF R, T, Later
      <4> QED  BY <1>1, <1>5, <2>1, <4>2
    <3> QED  BY <3>1
  <2> HIDE DEF R
  <2> QED  BY <1>1, <2>1, <2>2
<1>7. R(m) <= offset
  <2>1. SUFFICES ASSUME R(m) > offset
                 PROVE  FALSE
    BY <1>1
  <2> DEFINE S == Leading(f, sort, m)
             g == [d \in S |-> R(d)]
  <2>2. IsFiniteSet(S) /\ Cardinality(S) = R(m)
    BY RankIsNumber
  <2>3. IsFiniteSet(0..(offset - 1)) /\ Cardinality(0..(offset - 1)) = offset
    <3>1. 0 \in Int /\ offset - 1 \in Int
      OBVIOUS
    <3>2. /\ IsFiniteSet(0..(offset - 1))
          /\ Cardinality(0..(offset - 1)) = IF 0 > offset - 1 THEN 0 ELSE (offset - 1) - 0 + 1
      BY <3>1, FS_Interval
    <3> QED  BY <3>2
  <2>4. g \in [S -> 0..(offset - 1)]
    BY <1>6
  <2>5. Cardinality(0..(offset - 1)) < Cardinality(S)
    BY <1>1, <2>1, <2>2, <2>3
  <2>6. PICK x \in S, y \in S : x # y /\ g[x] = g[y]
    <3> HIDE DEF S, g
    <3> QED  BY <2>2, <2>3, <2>4, <2>5, FS_PigeonHole
  <2>7. x \in Matching(f) /\ y \in Matching(f) /\ R(x) = R(y)
    BY <2>6 DEF Leading
  <2> QED  BY <2>6, <2>7, RanksDiffer
<1>8. m \in Page(f, sort, limit, offset)
  <2>1. R(m) \in Nat /\ R(m) >= offset /\ m \in Matching(f)
    BY <1>1, <1>5
  <2>2. R(m) \in offset..(offset + limit - 1)
    <3> HIDE DEF R
    <3> QED  BY <1>7, <2>1
  <2> QED  BY <2>1, <2>2 DEF Page
<1> QED  BY <1>8

-----------------------------------------------------------------------------
(* The invariant.                                                          *)

WalkFields == {"pc", "filter", "sort", "limit", "offset", "total", "page", "shown",
               "start", "seen", "quiet"}

\* A walk has its fields, and its next page is well defined.
WalkFits(r) ==
  /\ DOMAIN r = WalkFields
  /\ r.sort \in Seq(Item) /\ r.limit \in Nat \ {0} /\ r.offset \in Nat
  /\ r.pc = "auths" => r.page # {}

\* What there was at the beginning still matches.  Each of it is on an earlier
\* page or at the offset or behind it, and once a page has been selected is on
\* that page or behind it.
WalkMissesNothing(r) ==
  \A c \in r.start :
    /\ c \in Matching(r.filter)
    /\ c \in r.seen \/ Rank(r.filter, r.sort, c) >= r.offset
    /\ r.pc \in {"auths", "answered"} =>
         c \in r.seen \/ c \in r.page \/ Rank(r.filter, r.sort, c) >= r.offset + r.limit
    /\ r.pc = "answered" /\ r.page = {} => c \in r.seen

WalksFit ==
  /\ DOMAIN req = Clients
  /\ \A cl \in Clients :
       Walking(req[cl]) => WalkFits(req[cl]) /\ (Settled(req[cl]) => WalkMissesNothing(req[cl]))

SearchInv == RowsFit /\ WalksFit

LEMMA SearchInvInitially == Init => SearchInv
<1> SUFFICES ASSUME Init PROVE SearchInv
  OBVIOUS
<1>1. RowsFit
  BY DEF Init, RowsFit, Exists
<1>2. WalksFit
  BY DEF Init, WalksFit, Walking, Idle
<1> QED  BY <1>1, <1>2 DEF SearchInv

-----------------------------------------------------------------------------
(* Steps of clients: rows and ranks stay, and only their own walk changes. *)

\* As long as rows and authorizations stay, ranks do.
LEMMA RanksStay ==
  ASSUME UNCHANGED <<row, auths>>, NEW x, WalkMissesNothing(x)
  PROVE  WalkMissesNothing(x)'
<1>1. row' = row /\ auths' = auths
  OBVIOUS
<1>2. \A f : Matching(f)' = Matching(f)
  BY <1>1 DEF Matching, Exists, Matches, AsksForRole, Role
<1>3. \A sort, c, d : Ahead(sort, c, d)' = Ahead(sort, c, d)
  BY <1>1 DEF Ahead, Before, Tied
<1>4. \A f, sort, c : Rank(f, sort, c)' = Rank(f, sort, c)
  BY <1>2, <1>3 DEF Rank
<1> QED  BY <1>2, <1>4 DEF WalkMissesNothing

\* It is enough to look at the walk that makes the step.
LEMMA ClientStep ==
  ASSUME SearchInv, SearchStep, NEW cl \in Clients,
         NEW r, req' = [req EXCEPT ![cl] = r],
         WalkFits(r), Settled(r) => WalkMissesNothing(r)
  PROVE  SearchInv'
<1>1. row' = row /\ auths' = auths
  BY DEF SearchStep
<1>2. RowsFit'
  BY <1>1 DEF SearchInv, RowsFit, RowFits, Exists
<1>3. \A x \in Clients : req'[x] = IF x = cl THEN r ELSE req[x]
  BY DEF SearchInv, WalksFit
<1>4. DOMAIN req' = Clients
  BY DEF SearchInv, WalksFit
<1>5. \A x : WalkMissesNothing(x) => WalkMissesNothing(x)'
  BY <1>1, RanksStay
<1>6. WalksFit'
  BY <1>3, <1>4, <1>5 DEF SearchInv, WalksFit
<1> QED  BY <1>2, <1>6 DEF SearchInv

LEMMA ListConsentsStep ==
  ASSUME SearchInv, NEW cl \in Clients, ListConsents(cl)
  PROVE  SearchInv'
<1>1. PICK s \in Searches :
         req' = [req EXCEPT ![cl] =
            [pc |-> "count", filter |-> s.filter,
             sort |-> IF s.sort = <<>> THEN <<[field |-> "createdTime", asc |-> FALSE]>> ELSE s.sort,
             limit |-> Limit(s.limit), offset |-> 0, total |-> 0, page |-> {}, shown |-> <<>>,
             start |-> Matching(s.filter), seen |-> {}, quiet |-> TRUE]]
  BY Zenon DEF ListConsents
<1> DEFINE sort == IF s.sort = <<>> THEN <<[field |-> "createdTime", asc |-> FALSE]>> ELSE s.sort
           r == [pc |-> "count", filter |-> s.filter, sort |-> sort,
                 limit |-> Limit(s.limit), offset |-> 0, total |-> 0, page |-> {}, shown |-> <<>>,
                 start |-> Matching(s.filter), seen |-> {}, quiet |-> TRUE]
<1>2. sort \in Seq(Item) /\ Limit(s.limit) \in Nat \ {0}
  <2>1. s.sort \in Seq(Item) /\ s.limit \in Nat
    BY SearchAssumption DEF SearchAssumption
  <2>2. <<[field |-> "createdTime", asc |-> FALSE]>> \in Seq(Item)
    BY DEF Item, Fields
  <2> QED  BY <2>1, <2>2, SearchAssumption DEF SearchAssumption, Limit
<1>3. WalkFits(r)
  <2> HIDE DEF sort
  <2> QED  BY <1>2 DEF WalkFits, WalkFields
<1>4. WalkMissesNothing(r)
  <2> HIDE DEF sort
  <2> QED  BY RankIsNumber DEF WalkMissesNothing
<1>5. req' = [req EXCEPT ![cl] = r] /\ SearchStep
  BY <1>1 DEF ListConsents
<1> HIDE DEF r
<1> QED  BY <1>3, <1>4, <1>5, ClientStep

\* What is known of a walk in a state, for the steps that go on with it.
LEMMA WalkKnown ==
  ASSUME SearchInv, NEW cl \in Clients, Walking(req[cl])
  PROVE  WalkFits(req[cl]) /\ (Settled(req[cl]) => WalkMissesNothing(req[cl]))
BY DEF SearchInv, WalksFit

LEMMA CountMatchesStep ==
  ASSUME SearchInv, NEW cl \in Clients, CountMatches(cl)
  PROVE  SearchInv'
<1> DEFINE r == req[cl]
           q == [r EXCEPT !.pc = "page", !.total = Count(r.filter)]
<1>1. WalkFits(r) /\ (Settled(r) => WalkMissesNothing(r)) /\ r.pc = "count"
  BY WalkKnown DEF CountMatches, Walking
<1>2. req' = [req EXCEPT ![cl] = q] /\ SearchStep
  BY DEF CountMatches
<1> HIDE DEF r
<1>3. WalkFits(q)
  BY <1>1 DEF WalkFits, WalkFields
<1>4. Settled(q) => WalkMissesNothing(q)
  BY <1>1 DEF WalkFits, WalkFields, WalkMissesNothing, Settled
<1> HIDE DEF q
<1> QED  BY <1>2, <1>3, <1>4, ClientStep

LEMMA SelectPageStep ==
  ASSUME SearchInv, NEW cl \in Clients, SelectPage(cl)
  PROVE  SearchInv'
<1> DEFINE r == req[cl]
           p == Page(r.filter, r.sort, r.limit, r.offset)
           q == [r EXCEPT !.page = p, !.pc = IF p = {} THEN "answered" ELSE "auths",
                          !.total = IF p = {} THEN 0 ELSE @, !.shown = <<>>]
<1>1. WalkFits(r) /\ (Settled(r) => WalkMissesNothing(r)) /\ r.pc = "page"
  BY WalkKnown DEF SelectPage, Walking
<1>2. req' = [req EXCEPT ![cl] = q] /\ SearchStep
  BY DEF SelectPage
<1>3. \A c \in Matching(r.filter) : Rank(r.filter, r.sort, c) >= r.offset
        => c \in p \/ Rank(r.filter, r.sort, c) >= r.offset + r.limit
  <2> TAKE c \in Matching(r.filter)
  <2>1. Rank(r.filter, r.sort, c) \in Nat /\ r.offset \in Nat /\ r.limit \in Nat
    BY <1>1, RankIsNumber DEF WalkFits
  <2> QED  BY <2>1 DEF Page
<1>4. p = {} => \A c \in Matching(r.filter) : ~(Rank(r.filter, r.sort, c) >= r.offset)
  <2> SUFFICES ASSUME p = {}, NEW c \in Matching(r.filter)
               PROVE  ~(Rank(r.filter, r.sort, c) >= r.offset)
    OBVIOUS
  <2>1. Rank(r.filter, r.sort, c) < r.offset
    BY <1>1, EmptyPageIsLast DEF WalkFits, SearchInv
  <2>2. Rank(r.filter, r.sort, c) \in Nat /\ r.offset \in Nat
    BY <1>1, RankIsNumber DEF WalkFits
  <2> QED  BY <2>1, <2>2
<1> HIDE DEF r, p
<1>5. WalkFits(q)
  BY <1>1 DEF WalkFits, WalkFields
<1>6. Settled(q) => WalkMissesNothing(q)
  <2>1. /\ DOMAIN r = WalkFields
        /\ q.filter = r.filter /\ q.sort = r.sort /\ q.limit = r.limit /\ q.offset = r.offset
        /\ q.start = r.start /\ q.seen = r.seen /\ q.page = p
        /\ q.pc = IF p = {} THEN "answered" ELSE "auths"
    BY <1>1 DEF WalkFits, WalkFields
  <2>2. Settled(q) <=> Settled(r)
    BY <2>1 DEF Settled
  <2> HIDE DEF q
  <2> QED  BY <1>1, <1>3, <1>4, <2>1, <2>2 DEF WalkMissesNothing
<1> HIDE DEF q
<1> QED  BY <1>2, <1>5, <1>6, ClientStep

LEMMA GetAuthsOfPageStep ==
  ASSUME SearchInv, NEW cl \in Clients, GetAuthsOfPage(cl)
  PROVE  SearchInv'
<1> DEFINE r == req[cl]
           s == [c \in r.page |-> auths[c]]
           q == [r EXCEPT !.shown = s, !.pc = "answered"]
<1>1. WalkFits(r) /\ (Settled(r) => WalkMissesNothing(r)) /\ r.pc = "auths"
  BY WalkKnown DEF GetAuthsOfPage, Walking
<1>2. req' = [req EXCEPT ![cl] = q] /\ SearchStep
  BY DEF GetAuthsOfPage
<1> HIDE DEF r, s
<1>3. WalkFits(q)
  BY <1>1 DEF WalkFits, WalkFields
<1>4. Settled(q) => WalkMissesNothing(q)
  BY <1>1 DEF WalkFits, WalkFields, WalkMissesNothing, Settled
<1> HIDE DEF q
<1> QED  BY <1>2, <1>3, <1>4, ClientStep

LEMMA NextPageStep ==
  ASSUME SearchInv, NEW cl \in Clients, NextPage(cl)
  PROVE  SearchInv'
<1> DEFINE r == req[cl]
           q == [r EXCEPT !.pc = "count", !.offset = @ + r.limit, !.seen = @ \cup r.page,
                          !.page = {}, !.shown = <<>>]
<1>1. WalkFits(r) /\ (Settled(r) => WalkMissesNothing(r)) /\ r.pc = "answered"
  BY WalkKnown DEF NextPage, Walking
<1>2. req' = [req EXCEPT ![cl] = q] /\ SearchStep
  BY DEF NextPage
<1> HIDE DEF r
<1>3. /\ q.filter = r.filter /\ q.sort = r.sort /\ q.limit = r.limit
      /\ q.offset = r.offset + r.limit /\ q.start = r.start /\ q.seen = r.seen \cup r.page
      /\ q.pc = "count" /\ DOMAIN q = WalkFields
  BY <1>1 DEF WalkFits, WalkFields
<1> HIDE DEF q
<1>4. WalkFits(q)
  BY <1>1, <1>3 DEF WalkFits
<1>5. Settled(q) => WalkMissesNothing(q)
  BY <1>1, <1>3 DEF WalkMissesNothing, Settled
<1> QED  BY <1>2, <1>4, <1>5, ClientStep

LEMMA SearchFailsStep ==
  ASSUME SearchInv, NEW cl \in Clients, SearchFails(cl)
  PROVE  SearchInv'
<1> DEFINE r == req[cl]
           q == [r EXCEPT !.pc = "count", !.page = {}, !.shown = <<>>]
<1>1. WalkFits(r) /\ (Settled(r) => WalkMissesNothing(r))
  BY WalkKnown DEF SearchFails, Walking
<1>2. req' = [req EXCEPT ![cl] = q] /\ SearchStep
  BY DEF SearchFails
<1> HIDE DEF r
<1>3. WalkFits(q)
  BY <1>1 DEF WalkFits, WalkFields
<1>4. Settled(q) => WalkMissesNothing(q)
  BY <1>1 DEF WalkFits, WalkFields, WalkMissesNothing, Settled
<1> HIDE DEF q
<1> QED  BY <1>2, <1>3, <1>4, ClientStep

-----------------------------------------------------------------------------
(* Writes: what matches a settled search keeps matching, in the same       *)
(* order, and more may come in between.                                    *)

\* A write that leaves the group and the time of creation as they are keeps the
\* invariant.
LEMMA WriteStep ==
  ASSUME SearchInv, NEW c \in Consents, NEW r, NEW as, Write(c, r, as),
         DOMAIN r = RowFields, \A field \in Fields : r[field] \in Nat,
         Exists(c) => \A field \in {"createdTime", "groupId"} : r[field] = row[c][field]
  PROVE  SearchInv'
<1>1. /\ DOMAIN row' = Consents
      /\ row'[c] = r
      /\ \A d \in Consents : d # c => row'[d] = row[d]
  BY DEF Write, SearchInv, RowsFit
<1>2. r # NoRow
  BY DEF NoRow, RowFields
<1>3. RowsFit'
  BY <1>1 DEF SearchInv, RowsFit, RowFits, Exists
<1>4. \A d \in Consents : Exists(d) =>
        /\ Exists(d)'
        /\ \A field \in {"createdTime", "groupId"} : row'[d][field] = row[d][field]
  BY <1>1, <1>2 DEF Exists
<1>5. ASSUME NEW x, Settled(x), x.sort \in Seq(Item), x.limit \in Nat, x.offset \in Nat,
             WalkMissesNothing(x)
      PROVE  WalkMissesNothing(x)'
  <2>1. Matching(x.filter) \subseteq Matching(x.filter)'
    <3> SUFFICES ASSUME NEW d \in Matching(x.filter)
                 PROVE  d \in Matching(x.filter)'
      OBVIOUS
    <3>1. d \in Consents /\ Exists(d)' /\ row'[d].groupId = row[d].groupId
      BY <1>4 DEF Matching
    <3>2. x.filter.groups = {} \/ row[d].groupId \in x.filter.groups
      BY DEF Matching, Matches
    <3>3. Matches(x.filter, d)'
      BY <1>5, <3>1, <3>2 DEF Settled, Matches, AsksForRole
    <3> QED  BY <3>1, <3>3 DEF Matching
  <2>2. ASSUME NEW d \in Matching(x.filter), NEW e \in Matching(x.filter), Ahead(x.sort, d, e)
        PROVE  Ahead(x.sort, d, e)'
    <3>1. \A i \in DOMAIN x.sort : /\ row'[d][x.sort[i].field] = row[d][x.sort[i].field]
                                  /\ row'[e][x.sort[i].field] = row[e][x.sort[i].field]
      BY <1>4, <1>5 DEF Settled, Matching
    <3>2. DOMAIN x.sort = 1..Len(x.sort) /\ Len(x.sort) \in Nat
      BY <1>5
    <3>3. \A i \in DOMAIN x.sort : \A j \in 1..(i - 1) : j \in DOMAIN x.sort
      BY <3>2
    <3>4. CASE d < e /\ \A i \in DOMAIN x.sort : Tied(x.sort[i], d, e)
      BY <3>1, <3>4 DEF Ahead, Tied
    <3>5. ASSUME NEW i \in DOMAIN x.sort, Before(x.sort[i], d, e),
                 \A j \in 1..(i - 1) : Tied(x.sort[j], d, e)
          PROVE  Ahead(x.sort, d, e)'
      <4>1. Before(x.sort[i], d, e)' /\ \A j \in 1..(i - 1) : Tied(x.sort[j], d, e)'
        BY <3>1, <3>3, <3>5 DEF Before, Tied
      <4> QED  BY <4>1 DEF Ahead, Before, Tied
    <3> QED  BY <2>2, <3>4, <3>5 DEF Ahead
  <2>3. ASSUME NEW e \in Matching(x.filter)
        PROVE  Rank(x.filter, x.sort, e) <= Rank(x.filter, x.sort, e)'
    <3> DEFINE A == Leading(x.filter, x.sort, e)
               B == Leading(x.filter, x.sort, e)'
    <3>1. A \subseteq B
      BY <2>1, <2>2, <2>3 DEF Leading
    <3>2. B \subseteq Consents /\ IsFiniteSet(Consents)
      BY SearchAssumption DEF SearchAssumption, Leading, Matching
    <3>3. IsFiniteSet(B)
      BY <3>2, FS_Subset
    <3>4. Cardinality(A) <= Cardinality(B)
      BY <3>1, <3>3, FS_Subset
    <3>5. Rank(x.filter, x.sort, e) = Cardinality(A) /\ Rank(x.filter, x.sort, e)' = Cardinality(B)
      BY DEF Rank, Leading
    <3> QED  BY <3>4, <3>5
  <2>4. \A e : Rank(x.filter, x.sort, e) \in Nat /\ Rank(x.filter, x.sort, e)' \in Nat
    <3> TAKE e
    <3>1. Rank(x.filter, x.sort, e) \in Nat
      BY RankIsNumber
    <3>2. Leading(x.filter, x.sort, e)' \in SUBSET Consents /\ IsFiniteSet(Consents)
      BY SearchAssumption DEF SearchAssumption, Leading, Matching
    <3>3. Cardinality(Leading(x.filter, x.sort, e)') \in Nat
      BY <3>2, FS_Subset, FS_CardinalityType
    <3>4. Rank(x.filter, x.sort, e)' = Cardinality(Leading(x.filter, x.sort, e)')
      BY DEF Rank, Leading
    <3> QED  BY <3>1, <3>3, <3>4
  <2> QED  BY <1>5, <2>1, <2>3, <2>4 DEF WalkMissesNothing
<1>6. /\ DOMAIN req' = Clients
      /\ \A cl \in Clients :
           req'[cl] = IF Walking(req[cl]) THEN [req[cl] EXCEPT !.quiet = FALSE] ELSE req[cl]
  BY DEF Write
<1>7. ASSUME NEW cl \in Clients, Walking(req[cl])'
      PROVE  (WalkFits(req[cl]) /\ (Settled(req[cl]) => WalkMissesNothing(req[cl])))'
  <2>1. PICK x : x = req[cl]
    OBVIOUS
  <2>2. PICK y : y = [x EXCEPT !.quiet = FALSE]
    OBVIOUS
  <2>3. req'[cl] = y /\ Walking(x)
    BY <1>6, <1>7, <2>1, <2>2 DEF Walking
  <2>4. WalkFits(x) /\ (Settled(x) => WalkMissesNothing(x))
    BY <2>1, <2>3, WalkKnown
  <2>5. /\ DOMAIN y = WalkFields
        /\ y.pc = x.pc /\ y.filter = x.filter /\ y.sort = x.sort /\ y.limit = x.limit
        /\ y.offset = x.offset /\ y.page = x.page /\ y.start = x.start /\ y.seen = x.seen
    BY <2>2, <2>4 DEF WalkFits, WalkFields
  <2>6. WalkFits(y) /\ (Settled(y) => WalkMissesNothing(y))
    BY <2>4, <2>5 DEF WalkFits, Settled, WalkMissesNothing
  <2>7. Settled(y) => WalkMissesNothing(y)'
    BY <1>5, <2>6 DEF WalkFits
  <2> QED  BY <2>3, <2>6, <2>7
<1>8. WalksFit'
  BY <1>6, <1>7 DEF WalksFit
<1> QED  BY <1>3, <1>8 DEF SearchInv

LEMMA CreateConsentStep ==
  ASSUME SearchInv, NEW c \in Consents, CreateConsent(c)
  PROVE  SearchInv'
<1>1. PICK t \in 0..MaxTime, n \in NewRows :
        Write(c, [createdTime |-> t, updatedTime |-> t, validityTime |-> n.validityTime,
                  groupId |-> n.groupId, status |-> n.status], n.auths)
  BY Zenon DEF CreateConsent
<1> DEFINE r == [createdTime |-> t, updatedTime |-> t, validityTime |-> n.validityTime,
                 groupId |-> n.groupId, status |-> n.status]
<1>2. t \in Nat /\ n.validityTime \in Nat /\ n.groupId \in Nat
  BY SearchAssumption DEF SearchAssumption
<1>3. DOMAIN r = RowFields /\ \A field \in Fields : r[field] \in Nat
  BY <1>2 DEF RowFields, Fields
<1>4. ~Exists(c)
  BY DEF CreateConsent
<1> HIDE DEF r
<1> QED  BY <1>1, <1>3, <1>4, WriteStep DEF r

LEMMA UpdateConsentStep ==
  ASSUME SearchInv, NEW c \in Consents, UpdateConsent(c)
  PROVE  SearchInv'
<1>1. PICK t \in 0..MaxTime, n \in NewRows :
        Write(c, [row[c] EXCEPT !.updatedTime = t, !.validityTime = n.validityTime,
                                !.status = n.status], n.auths)
  BY Zenon DEF UpdateConsent
<1> DEFINE r == [row[c] EXCEPT !.updatedTime = t, !.validityTime = n.validityTime,
                               !.status = n.status]
<1>2. t \in Nat /\ n.validityTime \in Nat
  BY SearchAssumption DEF SearchAssumption
<1>3. RowFits(c)
  BY DEF UpdateConsent, SearchInv, RowsFit
<1>4. /\ DOMAIN r = RowFields
      /\ \A field \in Fields : r[field] \in Nat
      /\ \A field \in {"createdTime", "groupId"} : r[field] = row[c][field]
  BY <1>2, <1>3 DEF RowFits, RowFields, Fields
<1> HIDE DEF r
<1> QED  BY <1>1, <1>4, WriteStep DEF r

-----------------------------------------------------------------------------
LEMMA SearchInvKept == SearchInv /\ [Next]_vars => SearchInv'
<1> SUFFICES ASSUME SearchInv, [Next]_vars
             PROVE  SearchInv'
  OBVIOUS
<1>1. ASSUME NEW cl \in Clients,
             \/ ListConsents(cl) \/ CountMatches(cl) \/ SelectPage(cl)
             \/ GetAuthsOfPage(cl) \/ NextPage(cl) \/ SearchFails(cl)
      PROVE  SearchInv'
  BY <1>1, ListConsentsStep, CountMatchesStep, SelectPageStep, GetAuthsOfPageStep,
     NextPageStep, SearchFailsStep, Zenon
<1>2. ASSUME NEW c \in Consents, CreateConsent(c) \/ UpdateConsent(c)
      PROVE  SearchInv'
  BY <1>2, CreateConsentStep, UpdateConsentStep, Zenon
<1>3. CASE UNCHANGED vars
  <2>1. row' = row /\ auths' = auths /\ req' = req
    BY <1>3 DEF vars
  <2>2. RowsFit'
    BY <2>1 DEF SearchInv, RowsFit, RowFits, Exists
  <2>3. \A x : WalkMissesNothing(x) => WalkMissesNothing(x)'
    BY <2>1, RanksStay
  <2>4. WalksFit'
    BY <2>1, <2>3 DEF SearchInv, WalksFit
  <2> QED  BY <2>2, <2>4 DEF SearchInv
<1> QED  BY <1>1, <1>2, <1>3, Zenon DEF Next

\* However many consents are created and written while a client walks through the
\* pages, with times in any order and with queries that fail, it misses none of
\* those that matched when it began: a filter by group and an order by group and
\* time of creation, for any rows, limits and number of clients.
THEOREM NoneIsMissed == Spec => []NothingIsMissed
<1>1. SearchInv => NothingIsMissed
  <2> SUFFICES ASSUME SearchInv, NEW cl \in Clients, Walking(req[cl]), req[cl].pc = "answered",
                      req[cl].page = {}, Settled(req[cl])
               PROVE  req[cl].start \subseteq req[cl].seen
    BY DEF NothingIsMissed
  <2>1. WalkMissesNothing(req[cl])
    BY WalkKnown
  <2> QED  BY <2>1 DEF WalkMissesNothing
<1> QED  BY SearchInvInitially, SearchInvKept, <1>1, PTL DEF Spec

-----------------------------------------------------------------------------
(* What a walk shows while nothing is written.                             *)

\* The values of a walk have their types, and its page is within its limit.
WalkTyped(r) ==
  /\ r.pc \in {"count", "page", "auths", "answered"}
  /\ r.limit \in 1..MaxLimit /\ r.offset \in Nat /\ r.total \in Nat
  /\ r.page \subseteq Consents /\ Cardinality(r.page) <= r.limit
  /\ DOMAIN r.shown \subseteq r.page
  /\ r.start \subseteq Consents /\ r.seen \subseteq Consents

\* Of a walk during which nothing was written: it has seen the matches of lower
\* rank than its offset, and what the queries of this page have found, they
\* would find now.
QuietFits(r) ==
  r.quiet =>
    /\ r.seen = {c \in Matching(r.filter) : Rank(r.filter, r.sort, c) < r.offset}
    /\ r.pc = "page" \/ (r.pc \in {"auths", "answered"} /\ r.page # {}) =>
         r.total = Count(r.filter)
    /\ r.pc \in {"auths", "answered"} => r.page = Page(r.filter, r.sort, r.limit, r.offset)
    /\ r.pc = "answered" /\ r.page # {} => r.shown = [c \in r.page |-> auths[c]]

TimesFit ==
  \A c \in Consents : Exists(c) => row[c].createdTime <= MaxTime /\ row[c].updatedTime <= MaxTime

WalksExact ==
  \A cl \in Clients : Walking(req[cl]) => WalkTyped(req[cl]) /\ QuietFits(req[cl])

ExactInv == SearchInv /\ TimesFit /\ WalksExact

\* As long as nothing is written, a quiet walk stays as it is.
LEMMA QuietStays ==
  ASSUME UNCHANGED <<row, auths>>, NEW x, QuietFits(x)
  PROVE  QuietFits(x)'
<1>1. row' = row /\ auths' = auths
  OBVIOUS
<1>2. \A f : Matching(f)' = Matching(f)
  BY <1>1 DEF Matching, Exists, Matches, AsksForRole, Role
<1>3. \A sort, c, d : Ahead(sort, c, d)' = Ahead(sort, c, d)
  BY <1>1 DEF Ahead, Before, Tied
<1>4. \A f, sort, c : Rank(f, sort, c)' = Rank(f, sort, c)
  BY <1>2, <1>3 DEF Rank
<1>5. \A f, sort, l, o : Page(f, sort, l, o)' = Page(f, sort, l, o)
  BY <1>2, <1>4 DEF Page
<1> QED
  BY <1>1, <1>2, <1>4, <1>5 DEF QuietFits, Count

\* It is enough to look at the walk that makes the step.
LEMMA ExactClientStep ==
  ASSUME ExactInv, SearchStep, NEW cl \in Clients,
         NEW r, req' = [req EXCEPT ![cl] = r], WalkTyped(r), QuietFits(r)
  PROVE  TimesFit' /\ WalksExact'
<1>1. row' = row /\ auths' = auths
  BY DEF SearchStep
<1>2. TimesFit'
  BY <1>1 DEF ExactInv, TimesFit, Exists
<1>3. \A x \in Clients : req'[x] = IF x = cl THEN r ELSE req[x]
  BY DEF ExactInv, SearchInv, WalksFit
<1>4. \A x : QuietFits(x) => QuietFits(x)'
  BY <1>1, QuietStays
<1>5. WalksExact'
  BY <1>3, <1>4 DEF ExactInv, WalksExact, WalkTyped
<1> QED
  BY <1>2, <1>5

LEMMA CountIsNumber ==
  ASSUME NEW f
  PROVE  Matching(f) \subseteq Consents /\ Count(f) \in Nat
<1>1. IsFiniteSet(Consents) /\ Matching(f) \in SUBSET Consents
  BY SearchAssumption DEF SearchAssumption, Matching
<1> QED
  BY <1>1, FS_Subset, FS_CardinalityType DEF Count

\* A page is within the limit, as no two matches have one rank.
LEMMA PageWithinLimit ==
  ASSUME RowsFit, NEW f, NEW sort \in Seq(Item), NEW limit \in Nat \ {0}, NEW offset \in Nat
  PROVE  /\ Page(f, sort, limit, offset) \subseteq Consents
         /\ Cardinality(Page(f, sort, limit, offset)) <= limit
<1> DEFINE P == Page(f, sort, limit, offset)
           I == offset..(offset + limit - 1)
           g == [c \in P |-> Rank(f, sort, c)]
<1>1. P \subseteq Consents /\ IsFiniteSet(Consents)
  BY SearchAssumption DEF SearchAssumption, Page, Matching
<1>2. IsFiniteSet(P) /\ Cardinality(P) \in Nat
  <2> HIDE DEF P
  <2> QED
    BY <1>1, FS_Subset, FS_CardinalityType
<1>3. IsFiniteSet(I) /\ Cardinality(I) = limit
  <2>1. offset \in Int /\ offset + limit - 1 \in Int
    OBVIOUS
  <2>2. /\ IsFiniteSet(I)
        /\ Cardinality(I) = IF offset > offset + limit - 1 THEN 0
                            ELSE (offset + limit - 1) - offset + 1
    BY <2>1, FS_Interval
  <2> HIDE DEF I
  <2> QED
    BY <2>2
<1>4. g \in [P -> I]
  BY DEF Page
<1>5. \A x, y \in P : x # y => g[x] # g[y]
  BY RanksDiffer DEF Page
<1> HIDE DEF g, P, I
<1>6. ~(limit < Cardinality(P))
  <2>1. ASSUME limit < Cardinality(P)
        PROVE  FALSE
    <3>1. \E x, y \in P : x # y /\ g[x] = g[y]
      BY <1>2, <1>3, <1>4, <2>1, FS_PigeonHole
    <3> QED
      BY <1>5, <3>1
  <2> QED
    BY <2>1
<1> QED
  BY <1>1, <1>2, <1>6 DEF P

\* What is known of a walk, for the steps that go on with it.
LEMMA ExactKnown ==
  ASSUME ExactInv, NEW cl \in Clients, Walking(req[cl])
  PROVE  /\ WalkFits(req[cl]) /\ WalkTyped(req[cl]) /\ QuietFits(req[cl])
         /\ RowsFit
BY DEF ExactInv, WalksExact, SearchInv, WalksFit

LEMMA ListConsentsExact ==
  ASSUME ExactInv, NEW cl \in Clients, ListConsents(cl)
  PROVE  TimesFit' /\ WalksExact'
<1>1. PICK s \in Searches :
         req' = [req EXCEPT ![cl] =
            [pc |-> "count", filter |-> s.filter,
             sort |-> IF s.sort = <<>> THEN <<[field |-> "createdTime", asc |-> FALSE]>> ELSE s.sort,
             limit |-> Limit(s.limit), offset |-> 0, total |-> 0, page |-> {}, shown |-> <<>>,
             start |-> Matching(s.filter), seen |-> {}, quiet |-> TRUE]]
  BY Zenon DEF ListConsents
<1> DEFINE sort == IF s.sort = <<>> THEN <<[field |-> "createdTime", asc |-> FALSE]>> ELSE s.sort
           r == [pc |-> "count", filter |-> s.filter, sort |-> sort,
                 limit |-> Limit(s.limit), offset |-> 0, total |-> 0, page |-> {}, shown |-> <<>>,
                 start |-> Matching(s.filter), seen |-> {}, quiet |-> TRUE]
<1>2. Limit(s.limit) \in 1..MaxLimit
  BY SearchAssumption DEF SearchAssumption, Limit
<1>3. WalkTyped(r)
  <2>1. Cardinality({}) = 0
    BY FS_EmptySet
  <2>2. DOMAIN <<>> = {}
    OBVIOUS
  <2>3. Limit(s.limit) \in Nat /\ 0 <= Limit(s.limit)
    BY <1>2, SearchAssumption DEF SearchAssumption
  <2> HIDE DEF sort
  <2> QED
    BY <1>2, <2>1, <2>2, <2>3, CountIsNumber DEF WalkTyped
<1>4. QuietFits(r)
  <2>1. {c \in Matching(s.filter) : Rank(s.filter, sort, c) < 0} = {}
    <3> HIDE DEF sort
    <3> QED
      BY RankIsNumber
  <2> HIDE DEF sort
  <2> QED
    BY <2>1 DEF QuietFits
<1>5. req' = [req EXCEPT ![cl] = r] /\ SearchStep
  BY <1>1 DEF ListConsents
<1> HIDE DEF r
<1> QED
  BY <1>3, <1>4, <1>5, ExactClientStep

LEMMA CountMatchesExact ==
  ASSUME ExactInv, NEW cl \in Clients, CountMatches(cl)
  PROVE  TimesFit' /\ WalksExact'
<1> DEFINE r == req[cl]
           q == [r EXCEPT !.pc = "page", !.total = Count(r.filter)]
<1>1. WalkFits(r) /\ WalkTyped(r) /\ QuietFits(r) /\ r.pc = "count"
  BY ExactKnown DEF CountMatches, Walking
<1>2. req' = [req EXCEPT ![cl] = q] /\ SearchStep
  BY DEF CountMatches
<1> HIDE DEF r
<1>3. /\ q.filter = r.filter /\ q.sort = r.sort /\ q.limit = r.limit /\ q.offset = r.offset
      /\ q.start = r.start /\ q.seen = r.seen /\ q.page = r.page /\ q.shown = r.shown
      /\ q.quiet = r.quiet /\ q.pc = "page" /\ q.total = Count(r.filter)
  BY <1>1 DEF WalkFits, WalkFields
<1> HIDE DEF q
<1>4. WalkTyped(q) /\ QuietFits(q)
  BY <1>1, <1>3, CountIsNumber DEF WalkTyped, QuietFits
<1> QED
  BY <1>2, <1>4, ExactClientStep

LEMMA SelectPageExact ==
  ASSUME ExactInv, NEW cl \in Clients, SelectPage(cl)
  PROVE  TimesFit' /\ WalksExact'
<1> DEFINE r == req[cl]
           p == Page(r.filter, r.sort, r.limit, r.offset)
           q == [r EXCEPT !.page = p, !.pc = IF p = {} THEN "answered" ELSE "auths",
                          !.total = IF p = {} THEN 0 ELSE @, !.shown = <<>>]
<1>1. WalkFits(r) /\ WalkTyped(r) /\ QuietFits(r) /\ RowsFit /\ r.pc = "page"
  BY ExactKnown DEF SelectPage, Walking
<1>2. req' = [req EXCEPT ![cl] = q] /\ SearchStep
  BY DEF SelectPage
<1>3. p \subseteq Consents /\ Cardinality(p) <= r.limit
  BY <1>1, PageWithinLimit DEF WalkFits
<1> HIDE DEF r
<1>4. /\ q.filter = r.filter /\ q.sort = r.sort /\ q.limit = r.limit /\ q.offset = r.offset
      /\ q.start = r.start /\ q.seen = r.seen /\ q.page = p /\ q.shown = <<>>
      /\ q.quiet = r.quiet /\ q.pc = (IF p = {} THEN "answered" ELSE "auths")
      /\ q.total = IF p = {} THEN 0 ELSE r.total
  BY <1>1 DEF WalkFits, WalkFields
<1> HIDE DEF q
<1>5. WalkTyped(q)
  <2> HIDE DEF p
  <2>1. DOMAIN <<>> = {}
    OBVIOUS
  <2> QED
    BY <1>1, <1>3, <1>4, <2>1 DEF WalkTyped
<1>6. QuietFits(q)
  <2>1. p = Page(q.filter, q.sort, q.limit, q.offset)
    BY <1>4
  <2> HIDE DEF p
  <2> QED
    BY <1>1, <1>4, <2>1 DEF QuietFits
<1> QED
  BY <1>2, <1>5, <1>6, ExactClientStep

LEMMA GetAuthsOfPageExact ==
  ASSUME ExactInv, NEW cl \in Clients, GetAuthsOfPage(cl)
  PROVE  TimesFit' /\ WalksExact'
<1> DEFINE r == req[cl]
           s == [c \in r.page |-> auths[c]]
           q == [r EXCEPT !.shown = s, !.pc = "answered"]
<1>1. WalkFits(r) /\ WalkTyped(r) /\ QuietFits(r) /\ r.pc = "auths"
  BY ExactKnown DEF GetAuthsOfPage, Walking
<1>2. req' = [req EXCEPT ![cl] = q] /\ SearchStep
  BY DEF GetAuthsOfPage
<1> HIDE DEF r
<1>3. /\ q.filter = r.filter /\ q.sort = r.sort /\ q.limit = r.limit /\ q.offset = r.offset
      /\ q.start = r.start /\ q.seen = r.seen /\ q.page = r.page /\ q.shown = s
      /\ q.quiet = r.quiet /\ q.pc = "answered" /\ q.total = r.total
  BY <1>1 DEF WalkFits, WalkFields
<1> HIDE DEF q
<1>4. WalkTyped(q)
  BY <1>1, <1>3 DEF WalkTyped
<1>5. QuietFits(q)
  <2>1. s = [c \in q.page |-> auths[c]]
    BY <1>3
  <2> HIDE DEF s
  <2> QED
    BY <1>1, <1>3, <2>1 DEF QuietFits
<1> QED
  BY <1>2, <1>4, <1>5, ExactClientStep

LEMMA NextPageExact ==
  ASSUME ExactInv, NEW cl \in Clients, NextPage(cl)
  PROVE  TimesFit' /\ WalksExact'
<1> DEFINE r == req[cl]
           q == [r EXCEPT !.pc = "count", !.offset = @ + r.limit, !.seen = @ \cup r.page,
                          !.page = {}, !.shown = <<>>]
<1>1. WalkFits(r) /\ WalkTyped(r) /\ QuietFits(r) /\ r.pc = "answered"
  BY ExactKnown DEF NextPage, Walking
<1>2. req' = [req EXCEPT ![cl] = q] /\ SearchStep
  BY DEF NextPage
<1> HIDE DEF r
<1>3. /\ q.filter = r.filter /\ q.sort = r.sort /\ q.limit = r.limit
      /\ q.offset = r.offset + r.limit /\ q.start = r.start /\ q.seen = r.seen \cup r.page
      /\ q.page = {} /\ q.shown = <<>> /\ q.total = r.total /\ q.quiet = r.quiet
      /\ q.pc = "count"
  BY <1>1 DEF WalkFits, WalkFields
<1>4. r.limit \in Nat /\ r.offset \in Nat /\ 0 <= r.limit /\ q.offset \in Nat
  BY <1>1, <1>3 DEF WalkFits
<1> HIDE DEF q
<1>5. WalkTyped(q)
  <2>1. DOMAIN <<>> = {} /\ Cardinality({}) = 0
    BY FS_EmptySet
  <2> QED
    BY <1>1, <1>3, <1>4, <2>1 DEF WalkTyped
<1>6. QuietFits(q)
  <2> DEFINE R(c) == Rank(r.filter, r.sort, c)
  <2>1. SUFFICES ASSUME r.quiet
                 PROVE  q.seen = {c \in Matching(r.filter) : R(c) < r.offset + r.limit}
    BY <1>3 DEF QuietFits
  <2>2. /\ r.seen = {c \in Matching(r.filter) : R(c) < r.offset}
        /\ r.page = {c \in Matching(r.filter) : R(c) \in r.offset..(r.offset + r.limit - 1)}
    BY <1>1, <2>1 DEF QuietFits, Page
  <2>3. \A c : R(c) \in Nat
    BY RankIsNumber
  <2> HIDE DEF R
  <2>4. \A c : R(c) < r.offset + r.limit
                 <=> R(c) < r.offset \/ R(c) \in r.offset..(r.offset + r.limit - 1)
    BY <1>4, <2>3
  <2> QED
    BY <1>3, <2>2, <2>4
<1> QED
  BY <1>2, <1>5, <1>6, ExactClientStep

LEMMA SearchFailsExact ==
  ASSUME ExactInv, NEW cl \in Clients, SearchFails(cl)
  PROVE  TimesFit' /\ WalksExact'
<1> DEFINE r == req[cl]
           q == [r EXCEPT !.pc = "count", !.page = {}, !.shown = <<>>]
<1>1. WalkFits(r) /\ WalkTyped(r) /\ QuietFits(r)
  BY ExactKnown DEF SearchFails, Walking
<1>2. req' = [req EXCEPT ![cl] = q] /\ SearchStep
  BY DEF SearchFails
<1> HIDE DEF r
<1>3. /\ q.filter = r.filter /\ q.sort = r.sort /\ q.limit = r.limit /\ q.offset = r.offset
      /\ q.start = r.start /\ q.seen = r.seen /\ q.page = {} /\ q.shown = <<>>
      /\ q.quiet = r.quiet /\ q.pc = "count" /\ q.total = r.total
  BY <1>1 DEF WalkFits, WalkFields
<1> HIDE DEF q
<1>4. WalkTyped(q)
  <2>1. DOMAIN <<>> = {} /\ Cardinality({}) = 0 /\ 0 <= r.limit
    BY <1>1, FS_EmptySet DEF WalkFits
  <2> QED
    BY <1>1, <1>3, <2>1 DEF WalkTyped
<1>5. QuietFits(q)
  BY <1>1, <1>3 DEF QuietFits
<1> QED
  BY <1>2, <1>4, <1>5, ExactClientStep

\* After a write no walk is quiet, and the types stay.
LEMMA WriteExact ==
  ASSUME ExactInv, NEW c \in Consents, NEW r, NEW as, Write(c, r, as),
         r.createdTime <= MaxTime, r.updatedTime <= MaxTime
  PROVE  TimesFit' /\ WalksExact'
<1>1. \A d \in Consents : row'[d] = IF d = c THEN r ELSE row[d]
  BY DEF Write, ExactInv, SearchInv, RowsFit
<1>2. TimesFit'
  BY <1>1 DEF ExactInv, TimesFit, Exists
<1>3. ASSUME NEW cl \in Clients, Walking(req'[cl])
      PROVE  (WalkTyped(req[cl]) /\ QuietFits(req[cl]))'
  <2> DEFINE w == req[cl]
             q == [w EXCEPT !.quiet = FALSE]
  <2>1. req'[cl] = IF Walking(w) THEN q ELSE w
    BY DEF Write
  <2>2. Walking(w)
    BY <1>3, <2>1
  <2>3. req'[cl] = q /\ WalkFits(w) /\ WalkTyped(w)
    BY <2>1, <2>2, ExactKnown
  <2> HIDE DEF w
  <2>4. /\ q.pc = w.pc /\ q.limit = w.limit /\ q.offset = w.offset /\ q.total = w.total
        /\ q.page = w.page /\ q.shown = w.shown /\ q.start = w.start /\ q.seen = w.seen
        /\ q.quiet = FALSE
    BY <2>3 DEF WalkFits, WalkFields
  <2> HIDE DEF q
  <2> QED
    BY <2>3, <2>4 DEF WalkTyped, QuietFits
<1> QED
  BY <1>2, <1>3 DEF WalksExact

LEMMA WritesExact ==
  ASSUME ExactInv, NEW c \in Consents, CreateConsent(c) \/ UpdateConsent(c)
  PROVE  TimesFit' /\ WalksExact'
<1>0. MaxTime \in Nat /\ \A t \in 0..MaxTime : t <= MaxTime
  BY SearchAssumption DEF SearchAssumption
<1>1. CASE CreateConsent(c)
  <2>1. PICK t \in 0..MaxTime, n \in NewRows :
          Write(c, [createdTime |-> t, updatedTime |-> t, validityTime |-> n.validityTime,
                    groupId |-> n.groupId, status |-> n.status], n.auths)
    BY <1>1, Zenon DEF CreateConsent
  <2> QED
    BY <1>0, <2>1, WriteExact
<1>2. CASE UpdateConsent(c)
  <2>1. PICK t \in 0..MaxTime, n \in NewRows :
          Write(c, [row[c] EXCEPT !.updatedTime = t, !.validityTime = n.validityTime,
                                  !.status = n.status], n.auths)
    BY <1>2, Zenon DEF UpdateConsent
  <2> DEFINE r == [row[c] EXCEPT !.updatedTime = t, !.validityTime = n.validityTime,
                                 !.status = n.status]
  <2>2. RowFits(c) /\ row[c].createdTime <= MaxTime
    BY <1>2 DEF UpdateConsent, ExactInv, SearchInv, RowsFit, TimesFit
  <2>3. r.createdTime <= MaxTime /\ r.updatedTime <= MaxTime
    BY <1>0, <2>2 DEF RowFits, RowFields
  <2> HIDE DEF r
  <2> QED
    BY <2>1, <2>3, WriteExact DEF r
<1> QED
  BY <1>1, <1>2

LEMMA ExactInvInitially == Init => ExactInv
<1> SUFFICES ASSUME Init PROVE ExactInv
  OBVIOUS
<1>1. TimesFit /\ WalksExact
  BY DEF Init, TimesFit, WalksExact, Exists, Walking, Idle
<1> QED
  BY <1>1, SearchInvInitially DEF ExactInv

LEMMA ExactInvKept == ExactInv /\ [Next]_vars => ExactInv'
<1> SUFFICES ASSUME ExactInv, [Next]_vars
             PROVE  TimesFit' /\ WalksExact'
  BY SearchInvKept DEF ExactInv
<1>1. ASSUME NEW cl \in Clients,
             \/ ListConsents(cl) \/ CountMatches(cl) \/ SelectPage(cl)
             \/ GetAuthsOfPage(cl) \/ NextPage(cl) \/ SearchFails(cl)
      PROVE  TimesFit' /\ WalksExact'
  BY <1>1, ListConsentsExact, CountMatchesExact, SelectPageExact, GetAuthsOfPageExact,
     NextPageExact, SearchFailsExact, Zenon
<1>2. ASSUME NEW c \in Consents, CreateConsent(c) \/ UpdateConsent(c)
      PROVE  TimesFit' /\ WalksExact'
  BY <1>2, WritesExact, Zenon
<1>3. CASE UNCHANGED vars
  <2>1. row' = row /\ auths' = auths /\ req' = req
    BY <1>3 DEF vars
  <2>2. TimesFit'
    BY <2>1 DEF ExactInv, TimesFit, Exists
  <2>3. \A x : QuietFits(x) => QuietFits(x)'
    BY <2>1, QuietStays
  <2>4. WalksExact'
    BY <2>1, <2>3 DEF ExactInv, WalksExact, WalkTyped
  <2> QED
    BY <2>2, <2>4
<1> QED
  BY <1>1, <1>2, <1>3, Zenon DEF Next

\* The times of consents are within the bound; the values of a walk have their
\* types and no page exceeds the limit (which listConsents caps).
THEOREM TypeCorrect == Spec => []SearchTypeOK
<1>1. ExactInv => SearchTypeOK
  <2> SUFFICES ASSUME ExactInv PROVE SearchTypeOK
    OBVIOUS
  <2>1. ASSUME NEW c \in Consents, Exists(c)
        PROVE  /\ \A field \in Fields : row[c][field] \in Nat
               /\ row[c].createdTime <= MaxTime /\ row[c].updatedTime <= MaxTime
    BY <2>1 DEF ExactInv, SearchInv, RowsFit, RowFits, TimesFit
  <2>2. ASSUME NEW cl \in Clients
        PROVE  ~Walking(req[cl]) \/ WalkTyped(req[cl])
    BY DEF ExactInv, WalksExact
  <2> QED
    BY <2>1, <2>2 DEF SearchTypeOK, WalkTyped
<1> QED
  BY ExactInvInitially, ExactInvKept, <1>1, PTL DEF Spec

\* A walk during which nothing is written shows every match once, in the order
\* asked for and with the number of all (Search selects pages by LIMIT and OFFSET
\* of an order that the id makes total).
THEOREM QuietWalksAreExact == Spec => []QuietWalkIsExact
<1>1. ExactInv => QuietWalkIsExact
  <2> SUFFICES ASSUME ExactInv, NEW cl \in Clients, Walking(req[cl]), req[cl].quiet,
                      req[cl].pc \in {"auths", "answered"}
               PROVE  LET r == req[cl] IN
                      /\ \A c \in r.seen, d \in r.page : Ahead(r.sort, c, d) /\ c # d
                      /\ IF r.page = {} THEN r.seen = Matching(r.filter)
                                        ELSE r.total = Cardinality(Matching(r.filter))
    BY DEF QuietWalkIsExact
  <2> DEFINE r == req[cl]
             R(c) == Rank(r.filter, r.sort, c)
  <2>1. WalkFits(r) /\ QuietFits(r) /\ RowsFit
    BY ExactKnown
  <2>2. /\ r.seen = {c \in Matching(r.filter) : R(c) < r.offset}
        /\ r.page = Page(r.filter, r.sort, r.limit, r.offset)
        /\ r.page # {} => r.total = Count(r.filter)
    BY <2>1 DEF QuietFits
  <2>3. \A c : R(c) \in Nat
    BY RankIsNumber
  <2>4. r.offset \in Nat /\ r.limit \in Nat \ {0} /\ r.sort \in Seq(Item)
    BY <2>1 DEF WalkFits
  <2>5. ASSUME NEW c \in r.seen, NEW d \in r.page
        PROVE  Ahead(r.sort, c, d) /\ c # d
    <3>1. /\ c \in Matching(r.filter) /\ R(c) < r.offset
          /\ d \in Matching(r.filter) /\ R(d) >= r.offset
      BY <2>2, <2>4 DEF Page
    <3>2. R(c) < R(d)
      <4> HIDE DEF R
      <4> QED
        BY <2>3, <2>4, <3>1
    <3>3. c # d
      BY <2>3, <3>2
    <3>4. Ahead(r.sort, c, d) \/ Ahead(r.sort, d, c)
      BY <2>1, <2>4, <3>1, <3>3, AheadTotal DEF Matching
    <3>5. ~Ahead(r.sort, d, c)
      <4>1. Ahead(r.sort, d, c) => R(d) < R(c)
        BY <2>1, <2>4, <3>1, RankFollowsOrder
      <4> HIDE DEF R
      <4> QED
        BY <2>3, <3>2, <4>1
    <3> QED
      BY <3>3, <3>4, <3>5
  <2>6. r.page = {} => r.seen = Matching(r.filter)
    <3>1. r.page = {} => \A c \in Matching(r.filter) : R(c) < r.offset
      BY <2>1, <2>2, <2>4, EmptyPageIsLast
    <3> QED
      BY <2>2, <3>1
  <2> QED
    BY <2>2, <2>5, <2>6 DEF Count
<1> QED
  BY ExactInvInitially, ExactInvKept, <1>1, PTL DEF Spec

\* An answer during which nothing is written shows an authorization of each
\* consent that has the user in the role asked for (Search looks for one row with
\* all of it).
THEOREM AnswersAreFit == Spec => []AnswersFit
<1>1. ExactInv => AnswersFit
  <2> SUFFICES ASSUME ExactInv, NEW cl \in Clients, Walking(req[cl]), req[cl].quiet,
                      req[cl].pc = "answered", AsksForRole(req[cl].filter),
                      NEW c \in req[cl].page
               PROVE  \E a \in req[cl].shown[c] : Role(req[cl].filter, a)
    BY DEF AnswersFit
  <2> DEFINE r == req[cl]
  <2>1. QuietFits(r)
    BY ExactKnown
  <2>2. r.page = Page(r.filter, r.sort, r.limit, r.offset) /\ r.shown = [d \in r.page |-> auths[d]]
    BY <2>1 DEF QuietFits
  <2>3. c \in Matching(r.filter) /\ r.shown[c] = auths[c]
    BY <2>2 DEF Page
  <2> QED
    BY <2>3 DEF Matching, Matches
<1> QED
  BY ExactInvInitially, ExactInvKept, <1>1, PTL DEF Spec
=============================================================================
