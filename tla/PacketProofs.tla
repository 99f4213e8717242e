---------------------------- MODULE PacketProofs ----------------------------
(***************************************************************************)
(* Proofs about RepoTargets and ContextPacket, for any repositories,       *)
(* registries and evidence.                                                *)
(*                                                                         *)
(* A request is a sequence of reads between which evidence and registry    *)
(* change, so PacketInv keeps what each read settled until the card is     *)
(* made: ScopeSettled, RegistryTold and BackingStays.  Both searches take  *)
(* rows in an order; that they take each of them once, and none but those, *)
(* rests on the ranks of a finite ordered set being 0 .. n - 1.  That more *)
(* evidence keeps the repository made out compares the votes counted with  *)
(* and without a row.                                                      *)
(***************************************************************************)
EXTENDS ContextPacket, SequenceTheorems, FiniteSetTheorems, TLAPS

(***************************************************************************)
(* Orders of finite sets, and rows taken in an order.                      *)
(***************************************************************************)

\* The relation R orders S strictly and totally.
Orders(R, S) ==
  /\ \A i \in S : <<i, i>> \notin R
  /\ \A i, j \in S : i # j => <<i, j>> \in R \/ <<j, i>> \in R
  /\ \A i, j, k \in S : <<i, j>> \in R /\ <<j, k>> \in R => <<i, k>> \in R

\* What comes before i in S.
Before(R, S, i) == {j \in S : <<j, i>> \in R}

\* Ranks grow along an order, and are less than the number of elements.
LEMMA RanksGrow ==
  ASSUME NEW S, IsFiniteSet(S), NEW R, Orders(R, S)
  PROVE  /\ \A i \in S : Cardinality(Before(R, S, i)) \in 0 .. Cardinality(S) - 1
         /\ \A i, j \in S : <<i, j>> \in R =>
              Cardinality(Before(R, S, i)) < Cardinality(Before(R, S, j))
<1>1. Cardinality(S) \in Nat
  BY FS_CardinalityType
<1>2. \A i \in S : Before(R, S, i) \in SUBSET S /\ i \notin Before(R, S, i)
  BY DEF Before, Orders
<1>3. \A i \in S : /\ IsFiniteSet(Before(R, S, i))
                   /\ Cardinality(Before(R, S, i)) \in Nat
  BY <1>2, FS_Subset, FS_CardinalityType
<1>4. ASSUME NEW i \in S
      PROVE  Cardinality(Before(R, S, i)) \in 0 .. Cardinality(S) - 1
  <2>1. Cardinality(Before(R, S, i)) <= Cardinality(S)
    BY <1>2, FS_Subset
  <2>2. Cardinality(Before(R, S, i)) # Cardinality(S)
    BY <1>2, FS_Subset
  <2>. QED
    BY <1>1, <1>3, <2>1, <2>2
<1>5. ASSUME NEW i \in S, NEW j \in S, <<i, j>> \in R
      PROVE  Cardinality(Before(R, S, i)) < Cardinality(Before(R, S, j))
  <2>1. Before(R, S, i) \in SUBSET Before(R, S, j) /\ i \in Before(R, S, j)
    BY <1>5 DEF Before, Orders
  <2>2. Cardinality(Before(R, S, i)) <= Cardinality(Before(R, S, j))
    BY <1>3, <2>1, FS_Subset
  <2>3. Cardinality(Before(R, S, i)) # Cardinality(Before(R, S, j))
    BY <1>2, <1>3, <2>1, FS_Subset
  <2>. QED
    BY <1>3, <2>2, <2>3
<1>. QED
  BY <1>4, <1>5

\* Each rank is taken by one element.
LEMMA RankIsTaken ==
  ASSUME NEW S, IsFiniteSet(S), NEW R, Orders(R, S),
         NEW k \in 1 .. Cardinality(S)
  PROVE  \E i \in S :
           /\ Cardinality(Before(R, S, i)) = k - 1
           /\ \A j \in S : Cardinality(Before(R, S, j)) = k - 1 => j = i
<1>. DEFINE n == Cardinality(S)
            rank == [i \in S |-> Cardinality(Before(R, S, i))]
<1>1. n \in Nat
  BY FS_CardinalityType
<1>2. rank \in [S -> 0 .. n - 1]
  BY RanksGrow
<1>3. \A i, j \in S : rank[i] = rank[j] => i = j
  <2>1. ASSUME NEW i \in S, NEW j \in S, rank[i] = rank[j], i # j
        PROVE  FALSE
    <3>1. rank[i] \in Nat /\ rank[j] \in Nat
      BY <1>1, <1>2
    <3>2. <<i, j>> \in R \/ <<j, i>> \in R
      BY <2>1 DEF Orders
    <3>3. rank[i] < rank[j] \/ rank[j] < rank[i]
      BY <3>2, RanksGrow
    <3>. QED
      BY <2>1, <3>1, <3>3
  <2>. QED
    BY <2>1
<1>4. rank \in Injection(S, 0 .. n - 1)
  BY <1>2, <1>3 DEF Injection, IsInjective
<1>5. IsFiniteSet(0 .. n - 1) /\ Cardinality(0 .. n - 1) = n
  <2>. HIDE DEF n
  <2>1. 0 \in Int /\ n - 1 \in Int
    BY <1>1
  <2>2. /\ IsFiniteSet(0 .. n - 1)
        /\ Cardinality(0 .. n - 1) = IF 0 > n - 1 THEN 0 ELSE n - 1 - 0 + 1
    BY <2>1, FS_Interval
  <2>. QED
    BY <1>1, <2>2
<1>6. rank \in Surjection(S, 0 .. n - 1)
  <2>. HIDE DEF rank
  <2>. QED
    BY <1>4, <1>5, FS_Injection
<1>7. k - 1 \in 0 .. n - 1
  BY <1>1
<1>8. PICK i \in S : rank[i] = k - 1
  BY <1>6, <1>7 DEF Surjection
<1>. QED
  BY <1>3, <1>8

\* One element comes before all others.
LEMMA SomeIsFirst ==
  ASSUME NEW S, IsFiniteSet(S), S # {}, NEW R, Orders(R, S)
  PROVE  \E r \in S : \A o \in S \ {r} : <<r, o>> \in R
<1>1. 1 \in 1 .. Cardinality(S)
  BY FS_EmptySet, FS_CardinalityType
<1>2. \A k \in 1 .. Cardinality(S) : \E i \in S : Cardinality(Before(R, S, i)) = k - 1
  BY RankIsTaken
<1>3. PICK r \in S : Cardinality(Before(R, S, r)) = 0
  BY <1>1, <1>2
<1>4. Before(R, S, r) = {}
  <2>1. IsFiniteSet(Before(R, S, r))
    BY FS_Subset DEF Before
  <2>. QED
    BY <1>3, <2>1, FS_EmptySet
<1>5. \A o \in S \ {r} : <<r, o>> \in R
  BY <1>4 DEF Before, Orders
<1>. QED
  BY <1>5

\* The greatest number of a set.
LEMMA MaxIs ==
  ASSUME NEW S \in SUBSET Int, IsFiniteSet(S), S # {}
  PROVE  Max(S) \in S
<1>. DEFINE R == {p \in S \X S : p[1] > p[2]}
<1>1. \A i, j \in S : <<i, j>> \in R <=> i > j
  OBVIOUS
<1>. HIDE DEF R
<1>2. Orders(R, S)
  BY <1>1, SMT DEF Orders
<1>3. PICK r \in S : \A o \in S \ {r} : <<r, o>> \in R
  BY <1>2, SomeIsFirst
<1>4. \A o \in S : r >= o
  <2>1. ASSUME NEW o \in S \ {r}
        PROVE  r >= o
    <3>1. <<r, o>> \in R
      BY <1>3
    <3>2. r > o
      BY <1>1, <3>1
    <3>. QED
      BY <3>2
  <2>. QED
    BY <2>1
<1>. QED
  BY <1>4, Zenon DEF Max

\* The order of places.
Increasing(S) == {p \in S \X S : p[1] < p[2]}

\* It is an order, and what is before a place is what is less.
LEMMA IncreasingOrders ==
  ASSUME NEW S \in SUBSET Int
  PROVE  /\ Orders(Increasing(S), S)
         /\ \A i \in S : {j \in S : j < i} = Before(Increasing(S), S, i)
<1>1. \A i, j \in S : <<i, j>> \in Increasing(S) <=> i < j
  BY DEF Increasing
<1>2. Orders(Increasing(S), S)
  BY <1>1, SMT DEF Orders
<1>3. \A i \in S : {j \in S : j < i} = Before(Increasing(S), S, i)
  BY <1>1, Zenon DEF Before
<1>. QED
  BY <1>2, <1>3

\* Places of a sequence are finitely many numbers.
LEMMA PlacesAreFinite ==
  ASSUME NEW T, NEW rows \in Seq(T), NEW places \in SUBSET (DOMAIN rows)
  PROVE  places \in SUBSET Int /\ IsFiniteSet(places) /\ Cardinality(places) \in Nat
<1>1. DOMAIN rows = 1 .. Len(rows) /\ Len(rows) \in Int
  BY LenProperties
<1>2. IsFiniteSet(1 .. Len(rows))
  BY <1>1, FS_Interval
<1>. QED
  BY <1>1, <1>2, FS_Subset, FS_CardinalityType

\* The place the k-th row is taken from.
PlaceOf(places, k) ==
  CHOOSE i \in places : Cardinality({j \in places : j < i}) = k - 1

\* Each place is taken once, and in their order.
LEMMA PlacesAreTaken ==
  ASSUME NEW places \in SUBSET Int, IsFiniteSet(places)
  PROVE  /\ Cardinality(places) \in Nat
         /\ \A k \in 1 .. Cardinality(places) : PlaceOf(places, k) \in places
         /\ \A i \in places : \E k \in 1 .. Cardinality(places) : PlaceOf(places, k) = i
         /\ \A k, l \in 1 .. Cardinality(places) :
              PlaceOf(places, k) = PlaceOf(places, l) => k = l
<1>. DEFINE n == Cardinality(places)
            R == Increasing(places)
            r(i) == Cardinality(Before(R, places, i))
<1>1. n \in Nat
  BY FS_CardinalityType
<1>2. Orders(R, places) /\ \A i \in places : r(i) = Cardinality({j \in places : j < i})
  BY IncreasingOrders
<1>3. \A i \in places : r(i) \in 0 .. n - 1
  BY <1>2, RanksGrow
<1>4. ASSUME NEW k \in 1 .. n
      PROVE  /\ PlaceOf(places, k) \in places
             /\ r(PlaceOf(places, k)) = k - 1
             /\ \A j \in places : r(j) = k - 1 => j = PlaceOf(places, k)
  <2>1. PICK i \in places : r(i) = k - 1 /\ \A j \in places : r(j) = k - 1 => j = i
    <3>. HIDE DEF R
    <3>1. \A l \in 1 .. Cardinality(places) :
            \E i \in places :
              /\ Cardinality(Before(R, places, i)) = l - 1
              /\ \A j \in places : Cardinality(Before(R, places, j)) = l - 1 => j = i
      BY <1>2, RankIsTaken
    <3>. QED
      BY <3>1
  <2>. HIDE DEF r, R, n
  <2>2. Cardinality({j \in places : j < i}) = k - 1
    BY <1>2, <2>1
  <2>3. /\ PlaceOf(places, k) \in places
        /\ Cardinality({j \in places : j < PlaceOf(places, k)}) = k - 1
    BY <2>2, Zenon DEF PlaceOf
  <2>4. r(PlaceOf(places, k)) = k - 1
    BY <1>2, <2>3
  <2>. QED
    BY <2>1, <2>3, <2>4
<1>5. ASSUME NEW i \in places
      PROVE  \E k \in 1 .. n : PlaceOf(places, k) = i
  <2>1. r(i) \in 0 .. n - 1
    BY <1>3
  <2>. HIDE DEF r, R, n
  <2>2. PICK k \in 1 .. n : r(i) = k - 1
    <3>1. r(i) + 1 \in 1 .. n /\ r(i) = (r(i) + 1) - 1
      BY <1>1, <2>1
    <3>. QED
      BY <3>1, Zenon
  <2>3. i = PlaceOf(places, k)
    BY <1>4, <2>2
  <2>. QED
    BY <2>3
<1>6. ASSUME NEW k \in 1 .. n, NEW l \in 1 .. n, PlaceOf(places, k) = PlaceOf(places, l)
      PROVE  k = l
  <2>. HIDE DEF r, R, n
  <2>1. k - 1 = l - 1
    BY <1>4, <1>6
  <2>. QED
    BY <1>1, <2>1
<1>. QED
  BY <1>1, <1>4, <1>5, <1>6

\* The rows at some places are as many as the places, and each of them is at
\* one of the places.
LEMMA RowsAtAre ==
  ASSUME NEW T, NEW rows \in Seq(T), NEW places \in SUBSET (DOMAIN rows)
  PROVE  /\ IsFiniteSet(places)
         /\ RowsAt(rows, places) \in Seq(T)
         /\ Len(RowsAt(rows, places)) = Cardinality(places)
         /\ \A k \in 1 .. Cardinality(places) :
              RowsAt(rows, places)[k] = rows[PlaceOf(places, k)]
         /\ Range(RowsAt(rows, places)) = {rows[i] : i \in places}
<1>. DEFINE n == Cardinality(places)
            taken == RowsAt(rows, places)
<1>1. places \in SUBSET Int /\ IsFiniteSet(places)
  BY PlacesAreFinite
<1>2. n \in Nat
  BY <1>1, FS_CardinalityType
<1>3. taken = [k \in 1 .. n |-> rows[PlaceOf(places, k)]]
  BY DEF RowsAt, PlaceOf
<1>4. \A i \in places : rows[i] \in T
  BY LenProperties, ElementOfSeq
<1>5. \A k \in 1 .. n : PlaceOf(places, k) \in places
  BY <1>1, PlacesAreTaken
<1>. HIDE DEF taken, n
<1>6. taken \in [1 .. n -> T]
  BY <1>3, <1>4, <1>5
<1>7. taken \in Seq(T) /\ Len(taken) = n /\ DOMAIN taken = 1 .. n
  <2>1. taken \in Seq(T)
    BY <1>2, <1>6, SeqDef
  <2>2. DOMAIN taken = 1 .. n
    BY <1>3
  <2>. QED
    BY <1>2, <2>1, <2>2, LenProperties
<1>8. Range(taken) = {taken[k] : k \in 1 .. n}
  BY <1>7 DEF Range
<1>9. \A i \in places : \E k \in 1 .. n : PlaceOf(places, k) = i
  BY <1>1, PlacesAreTaken DEF n
<1>10. \A k \in 1 .. n : taken[k] = rows[PlaceOf(places, k)]
  BY <1>3
<1>11. Range(taken) = {rows[i] : i \in places}
  BY <1>5, <1>8, <1>9, <1>10
<1>. QED
  BY <1>1, <1>7, <1>10, <1>11 DEF taken, n

(***************************************************************************)
(* The ranking of the repositories.                                        *)
(***************************************************************************)

Scores == [self : Nat, weighted : Nat, count : Nat]

\* r comes before o in a ranking.
Leads(scores, r, o) ==
  Ahead(scores[r], scores[o]) \/ (scores[r] = scores[o] /\ r < o)

\* A ranking of S, as a relation.
Ranking(scores, S) == {p \in S \X S : Leads(scores, p[1], p[2])}

\* Scores are compared like triples of numbers.
LEMMA AheadOrders ==
  ASSUME NEW s \in Scores, NEW t \in Scores, NEW u \in Scores
  PROVE  /\ ~Ahead(s, s)
         /\ s # t => Ahead(s, t) \/ Ahead(t, s)
         /\ ~(Ahead(s, t) /\ Ahead(t, s))
         /\ Ahead(s, t) /\ Ahead(t, u) => Ahead(s, u)
<1>1. /\ s = [self |-> s.self, weighted |-> s.weighted, count |-> s.count]
      /\ t = [self |-> t.self, weighted |-> t.weighted, count |-> t.count]
  BY DEF Scores
<1>2. /\ s.self \in Nat /\ s.weighted \in Nat /\ s.count \in Nat
      /\ t.self \in Nat /\ t.weighted \in Nat /\ t.count \in Nat
      /\ u.self \in Nat /\ u.weighted \in Nat /\ u.count \in Nat
  BY DEF Scores
<1>3. s.self = t.self /\ s.weighted = t.weighted /\ s.count = t.count => s = t
  BY <1>1
<1>. QED
  BY <1>2, <1>3 DEF Ahead

\* A ranking puts all in order.
LEMMA RankingOrders ==
  ASSUME NEW S \in SUBSET Nat, NEW scores, \A r \in S : scores[r] \in Scores
  PROVE  Orders(Ranking(scores, S), S)
<1>1. \A i, j \in S : <<i, j>> \in Ranking(scores, S) <=> Leads(scores, i, j)
  BY DEF Ranking
<1>2. \A i \in S : ~Leads(scores, i, i)
  BY AheadOrders DEF Leads
<1>3. \A i, j \in S : i # j => Leads(scores, i, j) \/ Leads(scores, j, i)
  BY AheadOrders DEF Leads
<1>4. ASSUME NEW i \in S, NEW j \in S, NEW k \in S, Leads(scores, i, j), Leads(scores, j, k)
      PROVE  Leads(scores, i, k)
  <2>1. scores[i] \in Scores /\ scores[j] \in Scores /\ scores[k] \in Scores
    OBVIOUS
  <2>2. Ahead(scores[i], scores[j]) /\ Ahead(scores[j], scores[k])
          => Ahead(scores[i], scores[k])
    BY <2>1, AheadOrders
  <2>. QED
    BY <1>4, <2>2 DEF Leads
<1>. QED
  BY <1>1, <1>2, <1>3, <1>4 DEF Orders

\* First finds the one that comes before all others, and there is no other.
LEMMA FirstIs ==
  ASSUME NEW S \in SUBSET Nat, IsFiniteSet(S), S # {},
         NEW scores, \A r \in S : scores[r] \in Scores
  PROVE  /\ First(scores, S) \in S
         /\ \A o \in S \ {First(scores, S)} : Leads(scores, First(scores, S), o)
         /\ \A r \in S : (\A o \in S \ {r} : Leads(scores, r, o)) => r = First(scores, S)
<1>. DEFINE R == Ranking(scores, S)
<1>1. Orders(R, S)
  BY RankingOrders
<1>2. \A i, j \in S : <<i, j>> \in R <=> Leads(scores, i, j)
  BY DEF Ranking
<1>. HIDE DEF R
<1>3. PICK r \in S : \A o \in S \ {r} : <<r, o>> \in R
  <2>1. \A Q : Orders(Q, S) => \E r \in S : \A o \in S \ {r} : <<r, o>> \in Q
    BY SomeIsFirst
  <2>. QED
    BY <1>1, <2>1, Zenon
<1>6. \A o \in S \ {r} : Leads(scores, r, o)
  BY <1>2, <1>3
<1>7. /\ First(scores, S) \in S
      /\ \A o \in S \ {First(scores, S)} : Leads(scores, First(scores, S), o)
  <2>1. First(scores, S)
          = CHOOSE i \in S : \A o \in S \ {i} : Leads(scores, i, o)
    BY DEF First, Leads
  <2>. QED
    BY <1>6, <2>1
<1>8. ASSUME NEW i \in S, \A o \in S \ {i} : Leads(scores, i, o)
      PROVE  i = First(scores, S)
  <2>. DEFINE f == First(scores, S)
  <2>1. i # f => Leads(scores, i, f) /\ Leads(scores, f, i)
    BY <1>7, <1>8
  <2>2. ~(Leads(scores, i, f) /\ Leads(scores, f, i))
    BY <1>1, <1>2, <1>7 DEF Orders
  <2>. QED
    BY <2>1, <2>2
<1>. QED
  BY <1>7, <1>8

\* The votes for a repository are finitely many.
LEMMA VotesType ==
  ASSUME NEW rows \in Seq(RowForms), NEW root, NEW S \in SUBSET Votes(rows, root)
  PROVE  IsFiniteSet(S) /\ Cardinality(S) \in Nat
<1>1. S \in SUBSET (DOMAIN rows)
  BY DEF Votes
<1>. QED
  BY <1>1, PlacesAreFinite

\* The score of a repository: three numbers.
LEMMA ScoreType ==
  ASSUME NEW rows \in Seq(RowForms), NEW root
  PROVE  Score(rows, root) \in Scores
<1>. DEFINE Of(kinds) == {i \in Votes(rows, root) : rows[i].kind \in kinds}
            selves == {i \in Votes(rows, root) : IsSelf(rows[i])}
<1>1. \A kinds : Cardinality(Of(kinds)) \in Nat
  BY VotesType
<1>2. Cardinality(selves) \in Nat
  BY VotesType
<1>3. Score(rows, root) =
        [self |-> Cardinality(selves),
         weighted |-> 3 * Cardinality(Of({"current_state_doc"}))
                        + 2 * Cardinality(Of({"session_handoff", "session_state"}))
                        + Cardinality(Of({"other"})),
         count |-> Cardinality(Of(Kinds))]
  BY DEF Score
<1>. HIDE DEF Of, selves
<1>4. /\ Cardinality(Of({"current_state_doc"})) \in Nat
      /\ Cardinality(Of({"session_handoff", "session_state"})) \in Nat
      /\ Cardinality(Of({"other"})) \in Nat
      /\ Cardinality(Of(Kinds)) \in Nat
  BY <1>1
<1>. QED
  BY <1>2, <1>3, <1>4 DEF Scores

\* The repositories voted for, and those that are ranked.
Voted(rows) == {RootOf(rows[i]) : i \in DOMAIN rows} \ {NoRoot}
Tally(rows) == [r \in Voted(rows) |-> Score(rows, r)]
SelfNamed(rows) == {r \in Voted(rows) : Tally(rows)[r].self > 0}
Ranked(rows) == IF SelfNamed(rows) # {} THEN SelfNamed(rows) ELSE Voted(rows)
Leader(rows) == First(Tally(rows), Ranked(rows))
Others(rows) == Ranked(rows) \ {Leader(rows)}
Contested(rows) ==
  /\ Others(rows) # {}
  /\ TooClose(Tally(rows)[Leader(rows)], Tally(rows)[First(Tally(rows), Others(rows))])

\* The answer in these words.
LEMMA ByEvidenceIs ==
  ASSUME NEW rows
  PROVE  /\ Voted(rows) = {} \/ Contested(rows) => ByEvidence(rows).target = NoTarget
         /\ ~(Voted(rows) = {} \/ Contested(rows)) =>
              /\ ByEvidence(rows).target.root = Leader(rows)
              /\ ByEvidence(rows).target \in
                   [root : {Leader(rows)}, source : {"registry", "evidence"},
                    confidence : {"low", "medium", "high"}]
<1>1. ByEvidence(rows).target =
        IF Voted(rows) = {} \/ Contested(rows) THEN NoTarget
        ELSE [root |-> Leader(rows), source |-> "evidence",
              confidence |-> IF SelfNamed(rows) = {} /\ Others(rows) = {}
                             THEN "low" ELSE "medium"]
  BY DEF ByEvidence, Contested, Others, Leader, Ranked, SelfNamed, Tally, Voted
<1>2. (IF SelfNamed(rows) = {} /\ Others(rows) = {} THEN "low" ELSE "medium")
        \in {"low", "medium"}
  OBVIOUS
<1>. QED
  BY <1>1, <1>2

\* Rows vote for repositories there are, and the leader is one of them.
LEMMA LeaderIsVoted ==
  ASSUME NEW rows \in Seq(RowForms)
  PROVE  /\ Voted(rows) \subseteq Roots
         /\ Ranked(rows) \subseteq Voted(rows)
         /\ IsFiniteSet(Ranked(rows))
         /\ Voted(rows) # {} => Ranked(rows) # {} /\ Leader(rows) \in Ranked(rows)
         /\ \A r \in Voted(rows) : Tally(rows)[r] \in Scores
<1>1. Voted(rows) \subseteq Roots
  <2>1. \A i \in DOMAIN rows : rows[i] \in RowForms
    BY LenProperties, ElementOfSeq
  <2>. QED
    BY <2>1, RepoTargetsAssumption DEF Voted, RootOf
<1>2. Ranked(rows) \subseteq Voted(rows)
  BY DEF Ranked, SelfNamed
<1>3. Voted(rows) # {} => Ranked(rows) # {}
  BY DEF Ranked
<1>4. IsFiniteSet(Ranked(rows)) /\ Ranked(rows) \in SUBSET Nat
  <2>1. Ranked(rows) \in SUBSET Roots
    BY <1>1, <1>2
  <2>. QED
    BY <2>1, RepoTargetsAssumption, FS_Subset
<1>5. \A r \in Voted(rows) : Tally(rows)[r] \in Scores
  BY ScoreType DEF Tally
<1>6. Ranked(rows) # {} => Leader(rows) \in Ranked(rows)
  BY <1>2, <1>4, <1>5, FirstIs DEF Leader
<1>. QED
  BY <1>1, <1>2, <1>3, <1>4, <1>5, <1>6

(***************************************************************************)
(* What the searches return.                                               *)
(***************************************************************************)

\* The less of two numbers.
LEMMA MinIs ==
  ASSUME NEW a \in Nat, NEW b \in Nat
  PROVE  Min({a, b}) = IF a <= b THEN a ELSE b
<1>1. \E x \in {a, b} : \A y \in {a, b} : x =< y
  OBVIOUS
<1>2. /\ Min({a, b}) \in {a, b}
      /\ \A y \in {a, b} : Min({a, b}) =< y
  BY <1>1, Zenon DEF Min
<1>. QED
  BY <1>2

\* A search returns rows with the word, all of them up to the limit.
LEMMA SearchedAre ==
  ASSUME NEW all \in Seq(RowForms), NEW word, NEW limit \in Nat
  PROVE  /\ IsFiniteSet(Hits(all, word)) /\ Cardinality(Hits(all, word)) \in Nat
         /\ Searched(all, word, limit) \in Seq(RowForms)
         /\ Len(Searched(all, word, limit)) =
              IF limit <= Cardinality(Hits(all, word)) THEN limit
              ELSE Cardinality(Hits(all, word))
         /\ \A k \in 1 .. Len(Searched(all, word, limit)) :
              \E i \in Hits(all, word) : Searched(all, word, limit)[k] = all[i]
         /\ Cardinality(Hits(all, word)) <= limit =>
              Searched(all, word, limit) = RowsAt(all, Hits(all, word))
<1>. DEFINE H == Hits(all, word)
            rows == RowsAt(all, H)
            n == Min({limit, Len(rows)})
<1>1. H \in SUBSET (DOMAIN all)
  BY DEF Hits
<1>2. /\ IsFiniteSet(H) /\ rows \in Seq(RowForms) /\ Len(rows) = Cardinality(H)
      /\ Range(rows) = {all[i] : i \in H}
  BY <1>1, RowsAtAre
<1>3. Searched(all, word, limit) = SubSeq(rows, 1, n)
  BY DEF Searched
<1>. HIDE DEF rows, H
<1>4. Len(rows) \in Nat
  BY <1>2, LenProperties
<1>5. /\ n \in Nat /\ n <= Len(rows)
      /\ limit <= Len(rows) => n = limit
      /\ ~(limit <= Len(rows)) => n = Len(rows)
  <2>1. n = IF limit <= Len(rows) THEN limit ELSE Len(rows)
    BY <1>4, MinIs
  <2>. QED
    BY <1>4, <2>1
<1>. HIDE DEF n
<1>6. \A k \in 1 .. n : rows[k] \in RowForms
  BY <1>2, <1>4, <1>5, ElementOfSeq
<1>7. /\ SubSeq(rows, 1, n) \in Seq(RowForms)
      /\ Len(SubSeq(rows, 1, n)) = IF 1 <= n THEN n - 1 + 1 ELSE 0
      /\ \A k \in 1 .. n - 1 + 1 : SubSeq(rows, 1, n)[k] = rows[1 + k - 1]
  <2>1. 1 \in Int /\ n \in Int
    BY <1>4, <1>5
  <2>. QED
    BY <1>6, <2>1, SubSeqProperties
<1>8. /\ SubSeq(rows, 1, n) \in Seq(RowForms)
      /\ Len(SubSeq(rows, 1, n)) = n
      /\ \A k \in 1 .. n : SubSeq(rows, 1, n)[k] = rows[k]
  BY <1>4, <1>5, <1>7
<1>9. ASSUME NEW k \in 1 .. n
      PROVE  \E i \in H : SubSeq(rows, 1, n)[k] = all[i]
  <2>1. k \in 1 .. Len(rows)
    BY <1>4, <1>5
  <2>2. rows[k] \in Range(rows)
    BY <1>2, <2>1, LenProperties DEF Range
  <2>. QED
    BY <1>2, <1>8, <2>2
<1>10. Cardinality(H) <= limit => SubSeq(rows, 1, n) = rows
  <2>1. Len(rows) <= limit => n = Len(rows)
    BY <1>4, <1>5
  <2>. QED
    BY <1>2, <1>8, <2>1, SeqEqual
<1>. QED
  <2>1. Len(SubSeq(rows, 1, n)) = IF limit <= Cardinality(H) THEN limit ELSE Cardinality(H)
    BY <1>2, <1>4, <1>5, <1>8
  <2>2. \A k \in 1 .. Len(SubSeq(rows, 1, n)) :
          \E i \in H : SubSeq(rows, 1, n)[k] = all[i]
    BY <1>8, <1>9
  <2>3. Cardinality(H) <= limit => SubSeq(rows, 1, n) = RowsAt(all, H)
    BY <1>10 DEF rows
  <2>4. IsFiniteSet(H) /\ Cardinality(H) \in Nat /\ SubSeq(rows, 1, n) \in Seq(RowForms)
    BY <1>2, <1>4, <1>8
  <2>. QED
    BY <1>3, <2>1, <2>2, <2>3, <2>4 DEF H

\* All rows at places of a sequence are fewer than the sequence, or are it.
LEMMA RowsAtBound ==
  ASSUME NEW rows \in Seq(RowForms), NEW places \in SUBSET (DOMAIN rows)
  PROVE  /\ RowsAt(rows, places) \in Seq(RowForms)
         /\ Len(RowsAt(rows, places)) \in 0 .. Len(rows)
         /\ Len(RowsAt(rows, places)) = Len(rows) => places = DOMAIN rows
         /\ Len(RowsAt(rows, places)) = 0 <=> places = {}
         /\ RowsAt(rows, places) = <<>> <=> places = {}
         /\ Range(RowsAt(rows, places)) = {rows[i] : i \in places}
<1>1. /\ RowsAt(rows, places) \in Seq(RowForms) /\ IsFiniteSet(places)
      /\ Len(RowsAt(rows, places)) = Cardinality(places)
      /\ Range(RowsAt(rows, places)) = {rows[i] : i \in places}
  BY RowsAtAre
<1>2. DOMAIN rows = 1 .. Len(rows) /\ Len(rows) \in Nat
  BY LenProperties
<1>3. IsFiniteSet(DOMAIN rows) /\ Cardinality(DOMAIN rows) = Len(rows)
  <2>1. 1 \in Int /\ Len(rows) \in Int
    BY <1>2
  <2>2. /\ IsFiniteSet(1 .. Len(rows))
        /\ Cardinality(1 .. Len(rows)) = IF 1 > Len(rows) THEN 0 ELSE Len(rows) - 1 + 1
    BY <2>1, FS_Interval
  <2>. QED
    BY <1>2, <2>2
<1>4. /\ Cardinality(places) <= Cardinality(DOMAIN rows)
      /\ Cardinality(DOMAIN rows) = Cardinality(places) => DOMAIN rows = places
      /\ Cardinality(places) \in Nat
  BY <1>1, <1>3, FS_Subset, FS_CardinalityType
<1>5. Cardinality(places) = 0 <=> places = {}
  BY <1>1, FS_EmptySet
<1>6. RowsAt(rows, places) = <<>> <=> Len(RowsAt(rows, places)) = 0
  BY <1>1, EmptySeq
<1>. QED
  BY <1>1, <1>2, <1>3, <1>4, <1>5, <1>6

\* Without the rows that repeat an earlier one: some are left, none is new, and
\* if they are as many as before they are the same.
LEMMA DedupedAre ==
  ASSUME NEW rows \in Seq(RowForms)
  PROVE  /\ Deduped(rows) \in Seq(RowForms)
         /\ Len(Deduped(rows)) \in 0 .. Len(rows)
         /\ Range(Deduped(rows)) \subseteq Range(rows)
         /\ rows # <<>> => Deduped(rows) # <<>>
         /\ Len(Deduped(rows)) = Len(rows) => Range(Deduped(rows)) = Range(rows)
<1>. DEFINE first == {i \in DOMAIN rows : \A j \in 1 .. i - 1 : rows[j] # rows[i]}
<1>1. Deduped(rows) = RowsAt(rows, first)
  BY DEF Deduped
<1>2. first \in SUBSET (DOMAIN rows)
  OBVIOUS
<1>3. rows # <<>> => 1 \in first
  BY EmptySeq, LenProperties
<1>. HIDE DEF first
<1>4. /\ RowsAt(rows, first) \in Seq(RowForms)
      /\ Len(RowsAt(rows, first)) \in 0 .. Len(rows)
      /\ Len(RowsAt(rows, first)) = Len(rows) => first = DOMAIN rows
      /\ RowsAt(rows, first) = <<>> <=> first = {}
      /\ Range(RowsAt(rows, first)) = {rows[i] : i \in first}
  BY <1>2, RowsAtBound
<1>5. Range(rows) = {rows[i] : i \in DOMAIN rows}
  BY DEF Range
<1>6. {rows[i] : i \in first} \subseteq Range(rows)
  BY <1>2, <1>5
<1>. QED
  BY <1>1, <1>3, <1>4, <1>5, <1>6

\* Recent documents, in an order, are at places of their own.
LEMMA RecentOrders ==
  ASSUME evidence \in Seq(RowForms),
         NEW S \in SUBSET (DOMAIN evidence), \A i \in S : evidence[i].kind # "other"
  PROVE  Orders({p \in S \X S : RecentFirst(p[1], p[2])}, S)
<1>. DEFINE Rank == [current_state_doc |-> 0, session_handoff |-> 1, session_state |-> 2]
            r(i) == Rank[evidence[i].kind]
            R == {p \in S \X S : RecentFirst(p[1], p[2])}
<1>1. \A i \in S : i \in Int /\ r(i) \in Int
  <2>1. \A i \in DOMAIN evidence : i \in Int /\ evidence[i] \in RowForms
    BY LenProperties, ElementOfSeq
  <2>2. \A i \in S : evidence[i].kind \in {"current_state_doc", "session_handoff", "session_state"}
    BY <2>1, RepoTargetsAssumption DEF Kinds
  <2>. QED
    BY <2>1, <2>2
<1>2. \A i, j \in S : RecentFirst(i, j) <=> r(i) < r(j) \/ (r(i) = r(j) /\ i > j)
  BY DEF RecentFirst
<1>3. \A i, j \in S : <<i, j>> \in R <=> RecentFirst(i, j)
  OBVIOUS
<1>. HIDE DEF r, R
<1>4. \A i, j \in S : <<i, j>> \in R <=> r(i) < r(j) \/ (r(i) = r(j) /\ i > j)
  BY <1>2, <1>3
<1>5. Orders(R, S)
  BY <1>1, <1>4 DEF Orders
<1>. QED
  BY <1>5 DEF R

\* What stands in for evidence are recent documents, some if there are any.
LEMMA RecentAre ==
  ASSUME evidence \in Seq(RowForms)
  PROVE  /\ Recent \in Seq(RowForms)
         /\ \A k \in 1 .. Len(Recent) : IsRecent(Recent[k])
         /\ PacketLimit > 0 /\ (\E i \in DOMAIN evidence : IsRecent(evidence[i])) =>
              Recent # <<>>
<1>. DEFINE all == {i \in DOMAIN evidence : IsRecent(evidence[i])}
            R == {p \in all \X all : RecentFirst(p[1], p[2])}
            Place(k) == CHOOSE i \in all : Cardinality({j \in all : RecentFirst(j, i)}) = k - 1
            n == Min({PacketLimit, Cardinality(all)})
<1>1. Recent = [k \in 1 .. n |-> evidence[Place(k)]]
  BY DEF Recent
<1>2. IsFiniteSet(all) /\ Cardinality(all) \in Nat
  <2>1. all \in SUBSET (DOMAIN evidence)
    OBVIOUS
  <2>. HIDE DEF all
  <2>. QED
    BY <2>1, PlacesAreFinite
<1>3. n \in 0 .. Cardinality(all) /\ (PacketLimit > 0 /\ Cardinality(all) > 0 => n > 0)
  <2>1. PacketLimit \in Nat
    BY ContextPacketAssumption
  <2>2. n = IF PacketLimit <= Cardinality(all) THEN PacketLimit ELSE Cardinality(all)
    BY <1>2, <2>1, MinIs
  <2>. QED
    BY <1>2, <2>1, <2>2
<1>4. Orders(R, all)
  <2>1. all \in SUBSET (DOMAIN evidence) /\ \A i \in all : evidence[i].kind # "other"
    BY DEF IsRecent
  <2>. QED
    BY <2>1, RecentOrders
<1>5. \A i \in all : {j \in all : RecentFirst(j, i)} = Before(R, all, i)
  BY Zenon DEF Before
<1>6. \A k \in 1 .. n : Place(k) \in all
  <2>. SUFFICES ASSUME NEW k \in 1 .. n PROVE Place(k) \in all
    OBVIOUS
  <2>1. k \in 1 .. Cardinality(all)
    BY <1>2, <1>3
  <2>. HIDE DEF all, R, n
  <2>2. \E i \in all : Cardinality(Before(R, all, i)) = k - 1
    BY <1>2, <1>4, <2>1, RankIsTaken
  <2>3. \E i \in all : Cardinality({j \in all : RecentFirst(j, i)}) = k - 1
    BY <1>5, <2>2
  <2>. QED
    BY <2>3
<1>7. \A i \in all : evidence[i] \in RowForms /\ IsRecent(evidence[i])
  BY LenProperties, ElementOfSeq
<1>8. n \in Nat
  BY <1>2, <1>3
<1>9. (\E i \in DOMAIN evidence : IsRecent(evidence[i])) => Cardinality(all) > 0
  <2>1. (\E i \in DOMAIN evidence : IsRecent(evidence[i])) => all # {}
    OBVIOUS
  <2>. HIDE DEF all
  <2>. QED
    BY <1>2, <2>1, FS_EmptySet
<1>. HIDE DEF all, Place, n
<1>10. Recent \in [1 .. n -> RowForms] /\ \A k \in 1 .. n : IsRecent(Recent[k])
  BY <1>1, <1>6, <1>7
<1>11. Recent \in Seq(RowForms) /\ Len(Recent) = n
  <2>1. Recent \in Seq(RowForms)
    BY <1>8, <1>10, SeqDef
  <2>2. DOMAIN Recent = 1 .. n
    BY <1>1
  <2>. QED
    BY <1>8, <2>1, <2>2, LenProperties
<1>12. n > 0 => Recent # <<>>
  BY <1>11, EmptySeq
<1>. QED
  BY <1>3, <1>9, <1>10, <1>11, <1>12

\* A row put into the evidence leaves the others in their order.
LEMMA InsertIs ==
  ASSUME NEW T, NEW s \in Seq(T), NEW i \in 1 .. Len(s) + 1, NEW e \in T
  PROVE  /\ InsertAt(s, i, e) \in Seq(T)
         /\ Len(InsertAt(s, i, e)) = Len(s) + 1
         /\ InsertAt(s, i, e)[i] = e
         /\ \A k \in 1 .. i - 1 : InsertAt(s, i, e)[k] = s[k]
         /\ \A k \in i .. Len(s) : InsertAt(s, i, e)[k + 1] = s[k]
<1>. DEFINE a == SubSeq(s, 1, i - 1)
            b == SubSeq(s, i, Len(s))
            ae == a \o <<e>>
<1>1. Len(s) \in Nat /\ i \in Int /\ i - 1 \in Int
  BY LenProperties
<1>2. \A k \in 1 .. Len(s) : s[k] \in T
  BY ElementOfSeq
<1>3. /\ a \in Seq(T) /\ Len(a) = i - 1
      /\ \A k \in 1 .. i - 1 : a[k] = s[k]
  <2>1. \A k \in 1 .. i - 1 : s[k] \in T
    BY <1>1, <1>2
  <2>2. /\ a \in Seq(T) /\ Len(a) = (IF 1 <= i - 1 THEN i - 1 - 1 + 1 ELSE 0)
        /\ \A k \in 1 .. i - 1 - 1 + 1 : a[k] = s[1 + k - 1]
    BY <1>1, <2>1, SubSeqProperties
  <2>. QED
    BY <1>1, <2>2
<1>4. /\ b \in Seq(T) /\ Len(b) = Len(s) - i + 1
      /\ \A k \in 1 .. Len(s) - i + 1 : b[k] = s[i + k - 1]
  <2>1. \A k \in i .. Len(s) : s[k] \in T
    BY <1>1, <1>2
  <2>2. /\ b \in Seq(T) /\ Len(b) = (IF i <= Len(s) THEN Len(s) - i + 1 ELSE 0)
        /\ \A k \in 1 .. Len(s) - i + 1 : b[k] = s[i + k - 1]
    BY <1>1, <2>1, SubSeqProperties
  <2>. QED
    BY <1>1, <2>2
<1>. HIDE DEF a, b
<1>5. <<e>> \in Seq(T) /\ Len(<<e>>) = 1 /\ <<e>>[1] = e
  OBVIOUS
<1>6. /\ ae \in Seq(T) /\ Len(ae) = Len(a) + Len(<<e>>)
      /\ \A k \in 1 .. Len(a) + Len(<<e>>) :
           ae[k] = IF k <= Len(a) THEN a[k] ELSE <<e>>[k - Len(a)]
  BY <1>3, <1>5, ConcatProperties
<1>7. /\ ae \in Seq(T) /\ Len(ae) = i /\ ae[i] = e
      /\ \A k \in 1 .. i - 1 : ae[k] = s[k]
  BY <1>1, <1>3, <1>5, <1>6
<1>. HIDE DEF ae
<1>8. /\ ae \o b \in Seq(T) /\ Len(ae \o b) = Len(ae) + Len(b)
      /\ \A k \in 1 .. Len(ae) + Len(b) :
           (ae \o b)[k] = IF k <= Len(ae) THEN ae[k] ELSE b[k - Len(ae)]
  BY <1>4, <1>7, ConcatProperties
<1>9. InsertAt(s, i, e) = ae \o b
  BY DEF InsertAt, ae, a, b
<1>10. Len(ae \o b) = Len(s) + 1 /\ (ae \o b)[i] = e
  BY <1>1, <1>4, <1>7, <1>8
<1>11. ASSUME NEW k \in 1 .. i - 1
       PROVE  (ae \o b)[k] = s[k]
  BY <1>1, <1>4, <1>7, <1>8
<1>12. ASSUME NEW k \in i .. Len(s)
       PROVE  (ae \o b)[k + 1] = s[k]
  <2>1. /\ k + 1 \in 1 .. Len(ae) + Len(b) /\ ~(k + 1 <= Len(ae))
        /\ k + 1 - Len(ae) \in 1 .. Len(s) - i + 1
        /\ i + (k + 1 - Len(ae)) - 1 = k
    BY <1>1, <1>4, <1>7
  <2>. DEFINE l == k + 1
  <2>2. l \in 1 .. Len(ae) + Len(b) /\ ~(l <= Len(ae))
    BY <2>1
  <2>4. (ae \o b)[l] = IF l <= Len(ae) THEN ae[l] ELSE b[l - Len(ae)]
    <3>. HIDE DEF l
    <3>. QED
      BY <1>8, <2>2
  <2>5. (ae \o b)[k + 1] = b[k + 1 - Len(ae)]
    BY <2>2, <2>4
  <2>3. b[k + 1 - Len(ae)] = s[i + (k + 1 - Len(ae)) - 1]
    BY <1>4, <2>1
  <2>. QED
    BY <2>1, <2>5, <2>3
<1>. QED
  BY <1>8, <1>9, <1>10, <1>11, <1>12

\* What is in the evidence stays in it.
LEMMA InsertKeeps ==
  ASSUME NEW T, NEW s \in Seq(T), NEW i \in 1 .. Len(s) + 1, NEW e \in T,
         NEW k \in DOMAIN s
  PROVE  \E l \in DOMAIN InsertAt(s, i, e) : InsertAt(s, i, e)[l] = s[k]
<1>1. k \in 1 .. Len(s) /\ Len(s) \in Nat
  BY LenProperties
<1>2. InsertAt(s, i, e) \in Seq(T) /\ Len(InsertAt(s, i, e)) = Len(s) + 1
  BY InsertIs
<1>3. DOMAIN InsertAt(s, i, e) = 1 .. Len(s) + 1
  BY <1>2, LenProperties
<1>4. CASE k < i
  <2>1. InsertAt(s, i, e)[k] = s[k]
    BY <1>1, <1>4, InsertIs
  <2>2. k \in 1 .. Len(s) + 1
    BY <1>1
  <2>. QED
    BY <1>3, <2>1, <2>2
<1>5. CASE ~(k < i)
  <2>1. InsertAt(s, i, e)[k + 1] = s[k]
    BY <1>1, <1>5, InsertIs
  <2>2. k + 1 \in 1 .. Len(s) + 1
    BY <1>1
  <2>. QED
    BY <1>3, <2>1, <2>2
<1>. QED
  BY <1>4, <1>5

\* The directory searched is a repository around the one made out.
LEMMA ScopeRootIs ==
  ASSUME NEW root \in Roots
  PROVE  ScopeRoot(root) \in Roots /\ ScopeRoot(root) \in Around[root]
<1>. DEFINE git == Around[root] \cap GitRoots \cap present \cap Seen
<1>1. Around[root] \in SUBSET Roots /\ root \in Around[root] /\ Roots \subseteq Nat
  BY RepoTargetsAssumption
<1>2. IsFiniteSet(git) /\ git \in SUBSET Int
  <2>1. git \in SUBSET Roots
    BY <1>1
  <2>. HIDE DEF git
  <2>2. IsFiniteSet(Roots)
    BY RepoTargetsAssumption
  <2>3. IsFiniteSet(git)
    BY <2>1, <2>2, FS_Subset
  <2>4. git \in SUBSET Int
    BY <1>1, <2>1
  <2>. QED
    BY <2>3, <2>4
<1>3. git # {} => Max(git) \in git
  BY <1>2, MaxIs
<1>4. ScopeRoot(root) = IF git = {} THEN root ELSE Max(git)
  BY DEF ScopeRoot
<1>. QED
  BY <1>1, <1>3, <1>4

(***************************************************************************)
(* The packet: its types, and what is settled on the way to it.            *)
(***************************************************************************)

Targets ==
  {NoTarget} \cup
    [root : Roots, source : {"registry", "evidence"}, confidence : {"low", "medium", "high"}]

Reasons == {NoTrace, "", "ambiguous_alias", "mixed_repo_suppressed", "recent"}

\* The types of the variables.
PacketTypeOK ==
  /\ registry \in Registries /\ present \subseteq Roots
  /\ evidence \in Seq(RowForms)
  /\ at \in {"idle", "inspect", "explicit", "evidence", "scope", "search", "recent", "done"}
  /\ target \in Targets
  /\ edited \in BOOLEAN /\ backed \in BOOLEAN
  /\ repo \in Roots /\ card \in Seq(RowForms) /\ reason \in Reasons

\* The repository searched is around the one made out, and no reason was given
\* yet; recent documents stand in for a repository that was made out only.
ScopeSettled ==
  /\ at \in {"search", "recent"} /\ target # NoTarget =>
       repo \in Around[target.root] /\ reason = ""
  /\ at = "recent" => target # NoTarget

\* Rows by which a repository was made out stay.
BackingStays ==
  /\ at \in {"idle", "inspect", "explicit", "evidence"} => ~backed
  /\ backed => /\ target # NoTarget
               /\ \E i \in DOMAIN evidence :
                    RootOf(evidence[i]) = target.root /\ evidence[i].kind # "other"

\* As long as nothing is edited, what is wrong with the registry is told to
\* whoever asked for a repository that was made out.
RegistryTold ==
  /\ ~edited
  /\ \/ at \in {"explicit", "evidence"}
     \/ at \in {"scope", "search", "recent"} /\ target # NoTarget
  => registry # Raising /\ RegistryWarnings(registry) \subseteq warnings

\* The inductive invariant.
PacketInv ==
  /\ PacketTypeOK /\ ScopeSettled /\ RegistryTold
  /\ BackingStays /\ CardExplained

\* A packet starts in order.
LEMMA PacketInitHolds == PacketInit => PacketInv
<1>. SUFFICES ASSUME PacketInit PROVE PacketInv
  OBVIOUS
<1>. USE DEF PacketInit, TargetInit
<1>1. PacketTypeOK
  <2>1. Own \in Roots /\ <<>> \in Seq(RowForms)
    BY RepoTargetsAssumption
  <2>. QED
    BY <2>1 DEF PacketTypeOK, Targets, Reasons
<1>2. ScopeSettled /\ BackingStays /\ RegistryTold /\ CardExplained
  BY DEF ScopeSettled, BackingStays, RegistryTold, CardExplained
<1>. QED
  BY <1>1, <1>2 DEF PacketInv

\* A new row, wherever it is put.
LEMMA AddRowHolds ==
  PacketInv /\ AddRow /\ UNCHANGED <<repo, card, reason>> => PacketInv'
<1>. SUFFICES ASSUME PacketInv, AddRow, UNCHANGED <<repo, card, reason>>
              PROVE  PacketInv'
  OBVIOUS
<1>1. UNCHANGED <<registry, present, at, target, warnings, edited, backed, repo, card, reason>>
  BY DEF AddRow
<1>2. PICK row \in RowForms, i \in 1 .. Len(evidence) + 1 :
        evidence' = InsertAt(evidence, i, row)
  BY DEF AddRow
<1>3. evidence \in Seq(RowForms)
  BY DEF PacketInv, PacketTypeOK
<1>4. evidence' \in Seq(RowForms)
  BY <1>2, <1>3, InsertIs
<1>5. \A k \in DOMAIN evidence : \E l \in DOMAIN evidence' : evidence'[l] = evidence[k]
  BY <1>2, <1>3, InsertKeeps
<1>6. PacketTypeOK'
  BY <1>1, <1>4 DEF PacketInv, PacketTypeOK
<1>7. ScopeSettled' /\ CardExplained'
  BY <1>1 DEF PacketInv, ScopeSettled, CardExplained
<1>8. RegistryTold'
  <2>1. RegistryWarnings(registry)' = RegistryWarnings(registry)
    BY <1>1 DEF RegistryWarnings
  <2>2. RegistryTold
    BY DEF PacketInv
  <2>. QED
    BY <1>1, <2>1, <2>2 DEF RegistryTold
<1>9. BackingStays'
  <2>1. BackingStays
    BY DEF PacketInv
  <2>2. backed => \E l \in DOMAIN evidence' :
                    RootOf(evidence'[l]) = target.root /\ evidence'[l].kind # "other"
    BY <1>5, <2>1 DEF BackingStays
  <2>. QED
    BY <1>1, <2>1, <2>2 DEF BackingStays
<1>. QED
  BY <1>6, <1>7, <1>8, <1>9 DEF PacketInv

\* An edit, after which the registry need not have been told of.
LEMMA EditHolds ==
  PacketInv /\ Edit /\ UNCHANGED <<repo, card, reason>> => PacketInv'
<1>. SUFFICES ASSUME PacketInv, Edit, UNCHANGED <<repo, card, reason>>
              PROVE  PacketInv'
  OBVIOUS
<1>1. /\ UNCHANGED <<evidence, at, target, warnings, backed, repo, card, reason>>
      /\ edited' = TRUE
      /\ at \in {"idle", "inspect", "explicit", "evidence", "scope"}
  BY DEF Edit
<1>2. registry' \in Registries /\ present' \subseteq Roots
  BY DEF Edit, PacketInv, PacketTypeOK
<1>3. PacketTypeOK'
  BY <1>1, <1>2 DEF PacketInv, PacketTypeOK
<1>4. ScopeSettled' /\ CardExplained' /\ RegistryTold'
  BY <1>1 DEF ScopeSettled, CardExplained, RegistryTold
<1>5. BackingStays'
  BY <1>1 DEF PacketInv, BackingStays
<1>. QED
  BY <1>3, <1>4, <1>5 DEF PacketInv

\* A prompt begins anew.
LEMMA BeginHolds == PacketInv /\ Begin => PacketInv'
<1>. SUFFICES ASSUME PacketInv, Begin PROVE PacketInv'
  OBVIOUS
<1>1. /\ at' \in {"inspect", "scope"} /\ target' = NoTarget
      /\ edited' = FALSE /\ backed' = FALSE
      /\ repo' = Own /\ card' = <<>> /\ reason' = NoTrace
      /\ UNCHANGED <<registry, present, evidence>>
  BY DEF Begin, Resolve, FirstSteps, world
<1>2. PacketTypeOK'
  <2>1. Own \in Roots /\ card' \in Seq(RowForms)
    BY <1>1, RepoTargetsAssumption
  <2>. QED
    BY <1>1, <2>1 DEF PacketInv, PacketTypeOK, Targets, Reasons
<1>3. ScopeSettled' /\ BackingStays' /\ RegistryTold' /\ CardExplained'
  BY <1>1 DEF ScopeSettled, BackingStays, RegistryTold, CardExplained
<1>. QED
  BY <1>2, <1>3 DEF PacketInv

\* The registry is inspected: all that is wrong is told.
LEMMA InspectHolds ==
  PacketInv /\ Inspect /\ UNCHANGED <<repo, card, reason>> => PacketInv'
<1>. SUFFICES ASSUME PacketInv, Inspect, UNCHANGED <<repo, card, reason>>
              PROVE  PacketInv'
  OBVIOUS
<1>1. /\ at = "inspect" /\ at' = "explicit" /\ warnings' = RegistryWarnings(registry)
      /\ registry # Raising
      /\ UNCHANGED <<registry, present, evidence, target, edited, backed, repo, card, reason>>
  BY DEF Inspect, world
<1>2. PacketTypeOK'
  BY <1>1 DEF PacketInv, PacketTypeOK
<1>3. ScopeSettled' /\ CardExplained'
  BY <1>1 DEF ScopeSettled, CardExplained
<1>4. BackingStays'
  BY <1>1 DEF PacketInv, BackingStays
<1>5. RegistryTold'
  BY <1>1 DEF RegistryTold, RegistryWarnings
<1>. QED
  BY <1>2, <1>3, <1>4, <1>5 DEF PacketInv

\* The registry names the repository, or leaves it to the evidence.
LEMMA ResolveExplicitHolds ==
  PacketInv /\ ResolveExplicit /\ UNCHANGED <<repo, card, reason>> => PacketInv'
<1>. SUFFICES ASSUME PacketInv, ResolveExplicit, UNCHANGED <<repo, card, reason>>
              PROVE  PacketInv'
  OBVIOUS
<1>1. /\ at = "explicit" /\ warnings \subseteq warnings' /\ at' \in {"scope", "evidence"}
      /\ UNCHANGED <<registry, present, evidence, edited, backed, repo, card, reason>>
  BY DEF ResolveExplicit, world
<1>2. target' \in Targets
  <2>1. CASE Cardinality(Matches(registry)) = 1
    <3>1. Matches(registry) \subseteq Roots
      BY DEF Matches, PacketInv, PacketTypeOK
    <3>2. Matches(registry) # {}
      BY <2>1, FS_EmptySet
    <3>3. (CHOOSE r \in Matches(registry) : TRUE) \in Roots
      BY <3>1, <3>2
    <3>4. target' = [root |-> CHOOSE r \in Matches(registry) : TRUE,
                     source |-> "registry", confidence |-> "high"]
      BY <2>1 DEF ResolveExplicit
    <3>. QED
      BY <3>3, <3>4 DEF Targets
  <2>2. CASE Cardinality(Matches(registry)) # 1
    BY <2>2 DEF ResolveExplicit, PacketInv, PacketTypeOK
  <2>. QED
    BY <2>1, <2>2
<1>3. PacketTypeOK'
  BY <1>1, <1>2 DEF PacketInv, PacketTypeOK
<1>4. ScopeSettled' /\ CardExplained'
  BY <1>1 DEF ScopeSettled, CardExplained
<1>5. BackingStays'
  BY <1>1 DEF PacketInv, BackingStays
<1>6. RegistryTold'
  BY <1>1 DEF PacketInv, RegistryTold, RegistryWarnings
<1>. QED
  BY <1>3, <1>4, <1>5, <1>6 DEF PacketInv

\* The reading of the registry raises, and the request is over.
LEMMA RegistryRaisesHolds ==
  PacketInv /\ RegistryRaises /\ UNCHANGED <<repo, card, reason>> => PacketInv'
<1>. SUFFICES ASSUME PacketInv, RegistryRaises, UNCHANGED <<repo, card, reason>>
              PROVE  PacketInv'
  OBVIOUS
<1>1. /\ at \in {"inspect", "explicit"} /\ at' = "idle"
      /\ UNCHANGED <<registry, present, evidence, target, edited, backed, repo, card, reason>>
  BY DEF RegistryRaises, world
<1>2. PacketTypeOK'
  BY <1>1 DEF PacketInv, PacketTypeOK
<1>3. ScopeSettled' /\ RegistryTold' /\ CardExplained'
  BY <1>1 DEF ScopeSettled, RegistryTold, CardExplained
<1>4. BackingStays'
  BY <1>1 DEF PacketInv, BackingStays
<1>. QED
  BY <1>2, <1>3, <1>4 DEF PacketInv

\* The evidence makes out a repository that has rows among it.
LEMMA ResolveByEvidenceHolds ==
  PacketInv /\ ResolveByEvidence /\ UNCHANGED <<repo, card, reason>> => PacketInv'
<1>. SUFFICES ASSUME PacketInv, ResolveByEvidence, UNCHANGED <<repo, card, reason>>
              PROVE  PacketInv'
  OBVIOUS
<1>. DEFINE rows == Searched(evidence, "candidate", SearchLimit)
            answer == ByEvidence(rows)
<1>1. /\ at = "evidence" /\ at' = "scope"
      /\ target' = answer.target /\ warnings' = warnings \cup answer.warnings
      /\ backed' = \E i \in DOMAIN rows : /\ RootOf(rows[i]) = answer.target.root
                                          /\ answer.target # NoTarget
                                          /\ rows[i].kind # "other"
      /\ UNCHANGED <<registry, present, evidence, edited, repo, card, reason>>
  BY DEF ResolveByEvidence, world
<1>2. evidence \in Seq(RowForms) /\ SearchLimit \in Nat
  BY RepoTargetsAssumption DEF PacketInv, PacketTypeOK
<1>3. /\ rows \in Seq(RowForms)
      /\ \A k \in 1 .. Len(rows) : \E i \in Hits(evidence, "candidate") : rows[k] = evidence[i]
  BY <1>2, SearchedAre
<1>. HIDE DEF rows
<1>4. answer.target \in Targets
  <2>1. CASE Voted(rows) = {} \/ Contested(rows)
    BY <2>1, ByEvidenceIs DEF Targets
  <2>2. CASE ~(Voted(rows) = {} \/ Contested(rows))
    <3>1. Leader(rows) \in Roots
      BY <1>3, <2>2, LeaderIsVoted
    <3>2. answer.target \in [root : {Leader(rows)}, source : {"registry", "evidence"},
                             confidence : {"low", "medium", "high"}]
      BY <2>2, ByEvidenceIs
    <3>. QED
      BY <3>1, <3>2 DEF Targets
  <2>. QED
    BY <2>1, <2>2
<1>. HIDE DEF answer
<1>5. backed' \in BOOLEAN
  BY <1>1
<1>6. PacketTypeOK'
  BY <1>1, <1>4, <1>5 DEF PacketInv, PacketTypeOK
<1>7. ScopeSettled' /\ CardExplained'
  BY <1>1 DEF ScopeSettled, CardExplained
<1>8. RegistryTold'
  <2>1. RegistryWarnings(registry)' = RegistryWarnings(registry)
    BY <1>1 DEF RegistryWarnings
  <2>2. RegistryTold
    BY DEF PacketInv
  <2>. QED
    BY <1>1, <2>1, <2>2 DEF RegistryTold
<1>9. BackingStays'
  <2>1. ASSUME backed'
        PROVE  /\ target' # NoTarget
               /\ \E i \in DOMAIN evidence' :
                    RootOf(evidence'[i]) = target'.root /\ evidence'[i].kind # "other"
    <3>1. PICK k \in DOMAIN rows : /\ RootOf(rows[k]) = answer.target.root
                                   /\ answer.target # NoTarget
                                   /\ rows[k].kind # "other"
      BY <1>1, <2>1
    <3>2. k \in 1 .. Len(rows)
      BY <1>3, LenProperties
    <3>3. PICK i \in DOMAIN evidence : rows[k] = evidence[i]
      BY <1>3, <3>2 DEF Hits
    <3>. QED
      BY <1>1, <3>1, <3>3
  <2>. QED
    BY <1>1, <2>1 DEF BackingStays
<1>. QED
  BY <1>6, <1>7, <1>8, <1>9 DEF PacketInv

\* The search for the name raises.
LEMMA EvidenceUnavailableHolds ==
  PacketInv /\ EvidenceUnavailable /\ UNCHANGED <<repo, card, reason>> => PacketInv'
<1>. SUFFICES ASSUME PacketInv, EvidenceUnavailable, UNCHANGED <<repo, card, reason>>
              PROVE  PacketInv'
  OBVIOUS
<1>1. /\ at = "evidence" /\ at' = "scope"
      /\ UNCHANGED <<registry, present, evidence, target, warnings, edited, backed>>
      /\ UNCHANGED <<repo, card, reason>>
  BY DEF EvidenceUnavailable, world
<1>2. PacketTypeOK'
  BY <1>1 DEF PacketInv, PacketTypeOK
<1>3. ScopeSettled' /\ CardExplained'
  BY <1>1 DEF ScopeSettled, CardExplained
<1>4. BackingStays'
  BY <1>1 DEF PacketInv, BackingStays
<1>5. RegistryTold'
  <2>1. RegistryWarnings(registry)' = RegistryWarnings(registry)
    BY <1>1 DEF RegistryWarnings
  <2>2. RegistryTold
    BY DEF PacketInv
  <2>. QED
    BY <1>1, <2>1, <2>2 DEF RegistryTold
<1>. QED
  BY <1>2, <1>3, <1>4, <1>5 DEF PacketInv

\* The repository to be searched is settled.
LEMMA ScopeHolds == PacketInv /\ Scope => PacketInv'
<1>. SUFFICES ASSUME PacketInv, Scope PROVE PacketInv'
  OBVIOUS
<1>1. /\ at = "scope" /\ at' = "search"
      /\ repo' = ScopeRoot(IF target = NoTarget THEN Own ELSE target.root)
      /\ UNCHANGED <<registry, present, evidence, target, warnings, edited, backed, card>>
  BY DEF Scope, world
<1>2. reason' \in Reasons /\ (target # NoTarget => reason' = "")
  BY DEF Scope, Reasons
<1>3. target # NoTarget => target.root \in Roots
  BY DEF PacketInv, PacketTypeOK, Targets
<1>4. repo' \in Roots
  BY <1>1, <1>3, ScopeRootIs, RepoTargetsAssumption
<1>5. target # NoTarget => repo' \in Around[target.root]
  BY <1>1, <1>3, ScopeRootIs
<1>6. PacketTypeOK'
  BY <1>1, <1>2, <1>4 DEF PacketInv, PacketTypeOK
<1>7. ScopeSettled' /\ CardExplained'
  BY <1>1, <1>2, <1>5 DEF ScopeSettled, CardExplained
<1>8. BackingStays'
  BY <1>1 DEF PacketInv, BackingStays
<1>9. RegistryTold'
  <2>1. RegistryWarnings(registry)' = RegistryWarnings(registry)
    BY <1>1 DEF RegistryWarnings
  <2>2. RegistryTold
    BY DEF PacketInv
  <2>. QED
    BY <1>1, <2>1, <2>2 DEF RegistryTold
<1>. QED
  BY <1>6, <1>7, <1>8, <1>9 DEF PacketInv

\* The rows of a search that belong to the repository.
LocalRows(rows) == RowsAt(rows, {i \in DOMAIN rows : Local(rows[i])})

\* What is found has the words; if nothing is told, it is what the search found.
LEMMA OutcomeIs ==
  ASSUME evidence \in Seq(RowForms), NEW found \in SearchOutcomes
  PROVE  /\ found.rows \in Seq(RowForms)
         /\ \A k \in 1 .. Len(found.rows) : "query" \in found.rows[k].hits
         /\ found.codes = {} => found.rows = Searched(evidence, "query", PacketLimit)
<1>. DEFINE rows == Searched(evidence, "query", PacketLimit)
<1>1. /\ rows \in Seq(RowForms)
      /\ \A k \in 1 .. Len(rows) : \E i \in Hits(evidence, "query") : rows[k] = evidence[i]
  BY ContextPacketAssumption, SearchedAre
<1>2. \A k \in 1 .. Len(rows) : "query" \in rows[k].hits
  BY <1>1 DEF Hits
<1>3. \/ found.rows = rows /\ found.codes = {}
      \/ found.rows = rows /\ found.codes # {}
      \/ found.rows = <<>> /\ found.codes # {}
  <2>1. SearchOutcomes =
          {[rows |-> rows, codes |-> {}], [rows |-> rows, codes |-> {"query_fallback"}],
           [rows |-> <<>>, codes |-> {"query_fallback"}],
           [rows |-> <<>>, codes |-> {"index_unavailable"}]}
    BY DEF SearchOutcomes
  <2>. HIDE DEF rows
  <2>2. {"query_fallback"} # {} /\ {"index_unavailable"} # {}
    OBVIOUS
  <2>3. \/ found = [rows |-> rows, codes |-> {}]
        \/ found = [rows |-> rows, codes |-> {"query_fallback"}]
        \/ found = [rows |-> <<>>, codes |-> {"query_fallback"}]
        \/ found = [rows |-> <<>>, codes |-> {"index_unavailable"}]
    BY <2>1, Zenon
  <2>4. \A f, r, c : f = [rows |-> r, codes |-> c] => f.rows = r /\ f.codes = c
    OBVIOUS
  <2>5. \/ found.rows = rows /\ found.codes = {}
        \/ found.rows = rows /\ found.codes = {"query_fallback"}
        \/ found.rows = <<>> /\ found.codes = {"query_fallback"}
        \/ found.rows = <<>> /\ found.codes = {"index_unavailable"}
    BY <2>3, <2>4, Zenon
  <2>. QED
    BY <2>2, <2>5, Zenon
<1>. HIDE DEF rows
<1>4. <<>> \in Seq(RowForms) /\ \A k \in 1 .. Len(<<>>) : FALSE
  BY EmptySeq
<1>5. CASE found.rows = rows
  BY <1>1, <1>2, <1>3, <1>5 DEF rows
<1>6. CASE found.rows = <<>> /\ found.codes # {}
  BY <1>4, <1>6
<1>. QED
  BY <1>3, <1>5, <1>6

\* Those of the repository have the words, too, and are all of them if none is
\* left out.
LEMMA LocalRowsAre ==
  ASSUME NEW rows \in Seq(RowForms)
  PROVE  /\ LocalRows(rows) \in Seq(RowForms)
         /\ Len(LocalRows(rows)) \in 0 .. Len(rows) /\ Len(rows) \in Nat
         /\ \A row \in Range(LocalRows(rows)) :
              repo \in Around[row.place] /\ \E i \in 1 .. Len(rows) : row = rows[i]
         /\ \A i \in 1 .. Len(rows) :
              repo \in Around[rows[i].place] => rows[i] \in Range(LocalRows(rows))
<1>. DEFINE places == {i \in DOMAIN rows : Local(rows[i])}
<1>1. places \in SUBSET (DOMAIN rows)
  OBVIOUS
<1>2. LocalRows(rows) = RowsAt(rows, places)
  BY DEF LocalRows
<1>3. DOMAIN rows = 1 .. Len(rows)
  BY LenProperties
<1>4. \A i \in 1 .. Len(rows) : i \in places <=> repo \in Around[rows[i].place]
  BY <1>3 DEF Local
<1>. HIDE DEF places
<1>5. /\ RowsAt(rows, places) \in Seq(RowForms)
      /\ Len(RowsAt(rows, places)) \in 0 .. Len(rows)
      /\ Range(RowsAt(rows, places)) = {rows[i] : i \in places}
  BY <1>1, RowsAtBound
<1>6. Len(rows) \in Nat
  BY LenProperties
<1>7. \A row \in Range(LocalRows(rows)) :
        repo \in Around[row.place] /\ \E i \in 1 .. Len(rows) : row = rows[i]
  BY <1>1, <1>2, <1>3, <1>4, <1>5
<1>8. \A i \in 1 .. Len(rows) :
        repo \in Around[rows[i].place] => rows[i] \in Range(LocalRows(rows))
  BY <1>2, <1>4, <1>5
<1>. QED
  BY <1>2, <1>5, <1>6, <1>7, <1>8

\* What Finish does to the state, apart from the warnings.
LEMMA FinishIs ==
  ASSUME NEW rows \in Seq(RowForms), NEW suppressed, NEW because \in {"", "recent"}, NEW told,
         reason \in Reasons, Finish(rows, suppressed, because, told)
  PROVE  /\ at' = "done" /\ reason' \in Reasons
         /\ because = "recent" /\ reason = "" => reason' = "recent"
         /\ card' \in Seq(RowForms)
         /\ Range(card') \subseteq Range(rows)
         /\ rows # <<>> => card' # <<>>
<1>1. card' = Deduped(rows) /\ at' = "done"
  BY DEF Finish
<1>2. reason' \in Reasons /\ (because = "recent" /\ reason = "" => reason' = "recent")
  BY DEF Finish, WithReason, Reasons
<1>. QED
  BY <1>1, <1>2, DedupedAre

\* The search: what is shown has the words, or recent documents are looked for.
LEMMA SearchHolds == PacketInv /\ Search => PacketInv'
<1>. SUFFICES ASSUME PacketInv, Search PROVE PacketInv'
  OBVIOUS
<1>1. /\ at = "search"
      /\ UNCHANGED <<registry, present, evidence, target, edited, backed, repo>>
  BY DEF Search, world
<1>2. evidence \in Seq(RowForms) /\ reason \in Reasons /\ card \in Seq(RowForms)
  BY DEF PacketInv, PacketTypeOK
<1>3. PICK found \in SearchOutcomes :
        LET local == LocalRows(found.rows)
            suppressed == Len(found.rows) - Len(local)
        IN IF local # <<>> \/ target = NoTarget
           THEN Finish(local, suppressed, "", warnings \cup found.codes)
           ELSE /\ at' = "recent"
                /\ warnings' = warnings \cup found.codes
                                 \cup Code(suppressed > 0, "suppressed")
                /\ UNCHANGED <<card, reason>>
  BY DEF Search, LocalRows
<1>. DEFINE local == LocalRows(found.rows)
<1>4. /\ found.rows \in Seq(RowForms)
      /\ \A k \in 1 .. Len(found.rows) : "query" \in found.rows[k].hits
  BY <1>2, OutcomeIs
<1>5. /\ local \in Seq(RowForms)
      /\ \A row \in Range(local) : repo \in Around[row.place] /\ "query" \in row.hits
  BY <1>4, LocalRowsAre
<1>6. RegistryWarnings(registry)' = RegistryWarnings(registry)
  BY <1>1 DEF RegistryWarnings
<1>7. BackingStays'
  <2>1. at' \in {"done", "recent"}
    BY <1>3 DEF Finish
  <2>. QED
    BY <1>1, <2>1 DEF PacketInv, BackingStays
<1>8. CASE local # <<>> \/ target = NoTarget
  <2>1. Finish(local, Len(found.rows) - Len(local), "", warnings \cup found.codes)
    BY <1>3, <1>8
  <2>. HIDE DEF local
  <2>2. /\ at' = "done" /\ reason' \in Reasons /\ card' \in Seq(RowForms)
        /\ Range(card') \subseteq Range(local)
    BY <1>2, <1>5, <2>1, FinishIs
  <2>3. PacketTypeOK'
    BY <1>1, <2>2 DEF PacketInv, PacketTypeOK
  <2>4. ScopeSettled' /\ RegistryTold'
    BY <2>2 DEF ScopeSettled, RegistryTold
  <2>5. CardExplained'
    BY <1>1, <1>5, <2>2 DEF CardExplained
  <2>. QED
    BY <1>7, <2>3, <2>4, <2>5 DEF PacketInv
<1>9. CASE ~(local # <<>> \/ target = NoTarget)
  <2>1. /\ at' = "recent" /\ warnings \subseteq warnings'
        /\ UNCHANGED <<card, reason>>
    BY <1>3, <1>9
  <2>2. target # NoTarget
    BY <1>9
  <2>3. PacketTypeOK'
    BY <1>1, <2>1 DEF PacketInv, PacketTypeOK
  <2>4. ScopeSettled' /\ CardExplained'
    BY <1>1, <2>1, <2>2 DEF PacketInv, ScopeSettled, CardExplained
  <2>5. RegistryTold'
    <3>1. ~edited /\ target # NoTarget =>
            registry # Raising /\ RegistryWarnings(registry) \subseteq warnings
      BY <1>1 DEF PacketInv, RegistryTold
    <3>. QED
      BY <1>1, <1>6, <2>1, <3>1 DEF RegistryTold
  <2>. QED
    BY <1>7, <2>3, <2>4, <2>5 DEF PacketInv
<1>. QED
  BY <1>8, <1>9

\* Recent documents stand in, or nothing is found at all.
LEMMA ReadRecentHolds == PacketInv /\ ReadRecent => PacketInv'
<1>. SUFFICES ASSUME PacketInv, ReadRecent PROVE PacketInv'
  OBVIOUS
<1>1. /\ at = "recent"
      /\ UNCHANGED <<registry, present, evidence, target, edited, backed, repo>>
  BY DEF ReadRecent, world
<1>2. evidence \in Seq(RowForms) /\ reason \in Reasons
  BY DEF PacketInv, PacketTypeOK
<1>3. target # NoTarget /\ reason = ""
  BY <1>1 DEF PacketInv, ScopeSettled
<1>4. Recent \in Seq(RowForms) /\ \A row \in Range(Recent) : IsRecent(row)
  BY <1>2, RecentAre, LenProperties DEF Range
<1>5. /\ at' = "done" /\ reason' \in Reasons /\ card' \in Seq(RowForms)
      /\ \A row \in Range(card') : IsRecent(row) /\ reason' = "recent"
  <2>. DEFINE suppressed == IF "suppressed" \in warnings THEN 1 ELSE 0
  <2>1. CASE Recent = <<>>
    <3>1. Finish(<<>>, suppressed, "", warnings)
      BY <2>1 DEF ReadRecent
    <3>2. <<>> \in Seq(RowForms) /\ Range(<<>>) = {}
      BY DEF Range
    <3>. HIDE DEF suppressed
    <3>3. /\ at' = "done" /\ reason' \in Reasons /\ card' \in Seq(RowForms)
          /\ Range(card') \subseteq Range(<<>>)
      BY <1>2, <3>1, <3>2, FinishIs
    <3>. QED
      BY <3>2, <3>3
  <2>2. CASE Recent # <<>>
    <3>1. Finish(Recent, suppressed, "recent", (warnings \ {"query_fallback"}) \cup {"recent"})
      BY <2>2 DEF ReadRecent
    <3>. HIDE DEF suppressed
    <3>2. /\ at' = "done" /\ reason' \in Reasons /\ card' \in Seq(RowForms)
          /\ Range(card') \subseteq Range(Recent) /\ reason' = "recent"
      BY <1>2, <1>3, <1>4, <3>1, FinishIs
    <3>. QED
      BY <1>4, <3>2
  <2>. QED
    BY <2>1, <2>2
<1>6. PacketTypeOK'
  BY <1>1, <1>5 DEF PacketInv, PacketTypeOK
<1>7. ScopeSettled' /\ RegistryTold'
  BY <1>5 DEF ScopeSettled, RegistryTold
<1>8. BackingStays'
  BY <1>1, <1>5 DEF PacketInv, BackingStays
<1>9. CardExplained'
  BY <1>1, <1>3, <1>5 DEF CardExplained, IsRecent
<1>. QED
  BY <1>6, <1>7, <1>8, <1>9 DEF PacketInv

\* The second search raises, and the request is over.
LEMMA RecentRaisesHolds == PacketInv /\ RecentRaises => PacketInv'
<1>. SUFFICES ASSUME PacketInv, RecentRaises PROVE PacketInv'
  OBVIOUS
<1>1. /\ at' = "idle" /\ target' = NoTarget /\ reason' = NoTrace /\ backed' = FALSE
      /\ UNCHANGED <<registry, present, evidence, edited, repo, card>>
  BY DEF RecentRaises, world
<1>2. PacketTypeOK'
  BY <1>1 DEF PacketInv, PacketTypeOK, Targets, Reasons
<1>3. ScopeSettled' /\ BackingStays' /\ RegistryTold' /\ CardExplained'
  BY <1>1 DEF ScopeSettled, BackingStays, RegistryTold, CardExplained
<1>. QED
  BY <1>2, <1>3 DEF PacketInv

\* Every step of a request, of ingest and of the user preserves the invariant.
LEMMA PacketStepHolds == PacketInv /\ [PacketNext]_pvars => PacketInv'
<1>. SUFFICES ASSUME PacketInv, [PacketNext]_pvars PROVE PacketInv'
  OBVIOUS
<1>1. CASE UNCHANGED pvars
  <2>1. UNCHANGED <<registry, present, evidence, at, target, warnings, edited, backed>>
    BY <1>1 DEF pvars, tvars, world
  <2>2. UNCHANGED <<repo, card, reason>>
    BY <1>1 DEF pvars
  <2>3. RegistryWarnings(registry)' = RegistryWarnings(registry)
    BY <2>1 DEF RegistryWarnings
  <2>4. PacketTypeOK' /\ ScopeSettled' /\ BackingStays' /\ CardExplained'
    BY <2>1, <2>2 DEF PacketInv, PacketTypeOK, ScopeSettled, BackingStays, CardExplained
  <2>5. RegistryTold'
    BY <2>1, <2>3 DEF PacketInv, RegistryTold
  <2>. QED
    BY <2>4, <2>5 DEF PacketInv
<1>2. CASE PacketNext
  BY <1>2, BeginHolds, AddRowHolds, EditHolds, InspectHolds, ResolveExplicitHolds,
     RegistryRaisesHolds, ResolveByEvidenceHolds, EvidenceUnavailableHolds, ScopeHolds, SearchHolds,
     ReadRecentHolds, RecentRaisesHolds
     DEF PacketNext
<1>. QED
  BY <1>1, <1>2

\* The types, and what is settled on the way, for any registry, evidence and
\* number of repositories.
LEMMA PacketSound == PacketSpec => []PacketInv
BY PacketInitHolds, PacketStepHolds, PTL DEF PacketSpec

\* What a packet shows is of its repository and was found by the words of the
\* prompt, or the trace says that recent documents stand in.
THEOREM CardIsExplained == PacketSpec => []CardExplained
<1>1. PacketInv => CardExplained
  BY DEF PacketInv
<1>. QED
  BY <1>1, PacketSound, PTL

\* A repository made out by one of its documents has recent documents, which
\* the search for them finds whatever its repository is called.
LEMMA BackedHasRecent ==
  ASSUME PacketInv, at \in {"search", "recent"}, backed
  PROVE  target # NoTarget /\ \E i \in DOMAIN evidence : IsRecent(evidence[i])
<1>1. target # NoTarget /\ repo \in Around[target.root]
  BY DEF PacketInv, BackingStays, ScopeSettled
<1>2. PICK i \in DOMAIN evidence :
        RootOf(evidence[i]) = target.root /\ evidence[i].kind # "other"
  BY DEF PacketInv, BackingStays
<1>3. target.root \in Roots /\ NoRoot \notin Roots
  BY <1>1, RepoTargetsAssumption DEF PacketInv, PacketTypeOK, Targets
<1>4. evidence[i].place = target.root
  BY <1>2, <1>3 DEF RootOf
<1>. QED
  BY <1>1, <1>2, <1>4 DEF IsRecent

\* No step shows an empty card for such a repository.
LEMMA AnsweredStep ==
  ASSUME PacketLimit > 0, PacketInv, TargetAnswered, [PacketNext]_pvars
  PROVE  TargetAnswered'
<1>1. CASE /\ at' \in {"idle", "inspect", "explicit", "evidence", "scope", "search", "recent"}
  BY <1>1 DEF TargetAnswered
<1>2. CASE UNCHANGED <<at, backed, card>>
  BY <1>2 DEF TargetAnswered
<1>3. CASE Search /\ at' = "done"
  <2>1. PICK found \in SearchOutcomes :
          LET local == LocalRows(found.rows)
              suppressed == Len(found.rows) - Len(local)
          IN IF local # <<>> \/ target = NoTarget
             THEN Finish(local, suppressed, "", warnings \cup found.codes)
             ELSE at' = "recent"
    BY <1>3 DEF Search, LocalRows
  <2>. DEFINE local == LocalRows(found.rows)
  <2>2. evidence \in Seq(RowForms) /\ reason \in Reasons
    BY DEF PacketInv, PacketTypeOK
  <2>3. local \in Seq(RowForms)
    BY <2>2, OutcomeIs, LocalRowsAre
  <2>4. at = "search" /\ backed' = backed
    BY <1>3 DEF Search
  <2>5. backed => target # NoTarget
    BY <2>4, BackedHasRecent
  <2>6. backed => local # <<>> /\ Finish(local, Len(found.rows) - Len(local), "",
                                         warnings \cup found.codes)
    BY <1>3, <2>1, <2>5
  <2>. HIDE DEF local
  <2>7. backed => card' # <<>>
    BY <2>2, <2>3, <2>6, FinishIs
  <2>. QED
    BY <2>4, <2>7 DEF TargetAnswered
<1>4. CASE ReadRecent
  <2>1. at = "recent" /\ backed' = backed
    BY <1>4 DEF ReadRecent
  <2>2. evidence \in Seq(RowForms) /\ reason \in Reasons
    BY DEF PacketInv, PacketTypeOK
  <2>3. Recent \in Seq(RowForms) /\ (backed => Recent # <<>>)
    BY <2>1, <2>2, RecentAre, BackedHasRecent
  <2>. DEFINE suppressed == IF "suppressed" \in warnings THEN 1 ELSE 0
              told == (warnings \ {"query_fallback"}) \cup {"recent"}
  <2>4. backed => Finish(Recent, suppressed, "recent", told)
    BY <1>4, <2>3 DEF ReadRecent
  <2>. HIDE DEF suppressed, told
  <2>5. backed => card' # <<>>
    BY <2>2, <2>3, <2>4, FinishIs
  <2>. QED
    BY <2>1, <2>5 DEF TargetAnswered
<1>5. CASE UNCHANGED pvars
  BY <1>2, <1>5 DEF pvars, tvars
<1>6. CASE Begin
  BY <1>1, <1>6 DEF Begin, Resolve, FirstSteps
<1>7. CASE (AddRow \/ Edit \/ Inspect \/ ResolveExplicit \/ RegistryRaises
              \/ ResolveByEvidence \/ EvidenceUnavailable) /\ UNCHANGED <<repo, card, reason>>
  BY <1>1, <1>2, <1>7
     DEF AddRow, Edit, Inspect, ResolveExplicit, RegistryRaises, ResolveByEvidence,
         EvidenceUnavailable
<1>8. CASE Scope
  BY <1>1, <1>8 DEF Scope
<1>9. CASE Search
  <2>1. at' \in {"done", "recent"}
    BY <1>9 DEF Search, Finish
  <2>. QED
    BY <1>1, <1>3, <1>9, <2>1
<1>10. CASE RecentRaises
  BY <1>1, <1>10 DEF RecentRaises
<1>. QED
  BY <1>4, <1>5, <1>6, <1>7, <1>8, <1>9, <1>10 DEF PacketNext

\* A repository that the evidence made out by one of its state documents is
\* never shown without evidence, whatever the search for the words finds and
\* whatever is edited meanwhile, as long as a packet holds any rows.
THEOREM TargetIsAnswered == PacketLimit > 0 => (PacketSpec => []TargetAnswered)
<1>. SUFFICES ASSUME PacketLimit > 0 PROVE PacketSpec => []TargetAnswered
  OBVIOUS
<1>1. PacketInit => TargetAnswered
  BY DEF PacketInit, TargetInit, TargetAnswered
<1>2. PacketInv /\ TargetAnswered /\ [PacketNext]_pvars => TargetAnswered'
  BY AnsweredStep
<1>. QED
  BY <1>1, <1>2, PacketSound, PTL DEF PacketSpec

(***************************************************************************)
(* A packet without warnings.                                              *)
(***************************************************************************)

\* Two different things are two.
LEMMA PairHasTwo ==
  ASSUME NEW x, NEW y, x # y
  PROVE  Cardinality({x, y}) = 2
<1>1. IsFiniteSet({x}) /\ Cardinality({x}) = 1
  BY FS_Singleton
<1>2. {x, y} = {x} \cup {y} /\ y \notin {x}
  OBVIOUS
<1>3. Cardinality({x} \cup {y}) = Cardinality({x}) + 1
  BY <1>1, <1>2, FS_AddElement
<1>. QED
  BY <1>1, <1>2, <1>3

\* A registry that nothing is told of is in order.
LEMMA NothingWrong ==
  ASSUME registry \in Registries, present \subseteq Roots, registry # Raising,
         RegistryWarnings(registry) = {}
  PROVE  InOrder(registry)
<1>. DEFINE reg == registry
<1>1. /\ reg \notin {Unreadable, Raising} /\ Invalid \notin Range(reg)
      /\ ~ \E e \in Entries(reg) : e.root \notin present
      /\ ~ \E e \in Entries(reg) : Repeats(e)
      /\ ~ \E a \in Aliases(reg) : Shared(reg, a)
  BY DEF RegistryWarnings, LoadWarnings, Code
<1>2. reg \in Seq([root : Nat, aliases : Seq(STRING)])
  BY <1>1, RepoTargetsAssumption
<1>3. Entries(reg) = Range(reg)
  BY <1>1 DEF Entries
<1>4. \A i \in DOMAIN reg : /\ reg[i] \in Entries(reg) /\ reg[i] # Invalid
                            /\ reg[i].root \in present
                            /\ reg[i].aliases \in Seq(STRING)
  <2>. DEFINE Entry == [root : Nat, aliases : Seq(STRING)]
  <2>1. \A e \in Entry : e.aliases \in Seq(STRING)
    OBVIOUS
  <2>2. reg \in Seq(Entry)
    BY <1>2
  <2>. HIDE DEF Entry
  <2>3. \A i \in DOMAIN reg : reg[i] \in Entry
    BY <2>2, LenProperties, ElementOfSeq
  <2>. QED
    BY <1>1, <1>3, <2>1, <2>3 DEF Range
<1>. HIDE DEF reg
<1>5. ASSUME NEW i \in DOMAIN reg, NEW a \in DOMAIN reg[i].aliases,
             NEW j \in DOMAIN reg, NEW b \in DOMAIN reg[j].aliases,
             reg[i].aliases[a] = reg[j].aliases[b], reg[i].aliases[a] # Blank
      PROVE  reg[i].root = reg[j].root /\ (i = j => a = b)
  <2>. DEFINE alias == reg[i].aliases[a]
  <2>1. /\ alias \in Range(reg[i].aliases) /\ alias \in Range(reg[j].aliases)
    BY <1>5 DEF Range
  <2>2. reg[i].root \in Named(reg, alias) /\ reg[j].root \in Named(reg, alias)
    BY <1>4, <2>1 DEF Named
  <2>3. alias \in Aliases(reg)
    BY <1>4, <2>1 DEF Aliases
  <2>4. ~(Cardinality(Named(reg, alias)) >= 2)
    BY <1>1, <1>5, <2>3 DEF Shared, reg
  <2>5. Named(reg, alias) \in SUBSET Roots /\ IsFiniteSet(Named(reg, alias))
    <3>1. \A e \in Entries(reg) : e.root \in Roots
      BY <1>1 DEF reg
    <3>2. Named(reg, alias) \in SUBSET Roots
      BY <3>1 DEF Named
    <3>. QED
      BY <3>2, RepoTargetsAssumption, FS_Subset
  <2>6. reg[i].root = reg[j].root
    <3>1. ASSUME reg[i].root # reg[j].root
          PROVE  FALSE
      <4>. DEFINE two == {reg[i].root, reg[j].root}
      <4>3. Cardinality(two) = 2
        BY <3>1, PairHasTwo
      <4>4. two \in SUBSET Named(reg, alias)
        BY <2>2
      <4>. HIDE DEF two, alias
      <4>5. Cardinality(two) <= Cardinality(Named(reg, alias))
        BY <2>5, <4>4, FS_Subset
      <4>6. Cardinality(Named(reg, alias)) \in Nat
        BY <2>5, FS_CardinalityType
      <4>. QED
        BY <2>4, <4>3, <4>5, <4>6
    <3>. QED
      BY <3>1
  <2>7. i = j => a = b
    <3>1. ASSUME i = j, a # b
          PROVE  FALSE
      <4>1. a \in Nat /\ b \in Nat
        BY <1>4, LenProperties
      <4>2. Repeats(reg[i])
        BY <1>5, <3>1, <4>1 DEF Repeats
      <4>. QED
        BY <1>1, <1>4, <4>2 DEF reg
    <3>. QED
      BY <3>1
  <2>. QED
    BY <2>6, <2>7
<1>6. InOrder(reg)
  BY <1>1, <1>4, <1>5 DEF InOrder, reg
<1>. QED
  BY <1>6 DEF reg

\* What QuietIsComplete says of a step.
Quiet ==
  at = "search" /\ at' = "done" /\ warnings' = {} =>
    /\ \/ Len(card') = PacketLimit
       \/ {row \in Range(evidence) :
             repo \in Around[row.place] /\ "query" \in row.hits} \subseteq Range(card')
    /\ target # NoTarget /\ ~edited => InOrder(registry)

\* A search that ends the request without a warning found all it looked for,
\* left nothing out and had nothing to say of the registry.
LEMMA QuietStep ==
  ASSUME PacketInv, Search, at' = "done", warnings' = {}
  PROVE  Quiet
<1>1. PICK found \in SearchOutcomes :
        LET local == LocalRows(found.rows)
            suppressed == Len(found.rows) - Len(local)
        IN IF local # <<>> \/ target = NoTarget
           THEN Finish(local, suppressed, "", warnings \cup found.codes)
           ELSE at' = "recent"
  BY DEF Search, LocalRows
<1>. DEFINE rows == found.rows
            local == LocalRows(rows)
<1>2. Finish(local, Len(rows) - Len(local), "", warnings \cup found.codes)
  BY <1>1
<1>3. evidence \in Seq(RowForms) /\ PacketLimit \in Nat
  BY ContextPacketAssumption DEF PacketInv, PacketTypeOK
<1>4. /\ found.codes = {} /\ warnings = {}
      /\ ~(Len(rows) - Len(local) > 0)
      /\ ~(Len(Deduped(local)) < Len(local))
      /\ card' = Deduped(local)
  <2>. HIDE DEF local, rows
  <2>. QED
    BY <1>2 DEF Finish, Code
<1>5. rows = Searched(evidence, "query", PacketLimit) /\ rows \in Seq(RowForms)
  BY <1>3, <1>4, OutcomeIs
<1>. HIDE DEF rows
<1>6. /\ local \in Seq(RowForms) /\ Len(local) \in 0 .. Len(rows) /\ Len(rows) \in Nat
      /\ \A i \in 1 .. Len(rows) :
           repo \in Around[rows[i].place] => rows[i] \in Range(local)
  BY <1>5, LocalRowsAre
<1>. HIDE DEF local
<1>7. /\ Len(Deduped(local)) \in 0 .. Len(local)
      /\ Len(Deduped(local)) = Len(local) => Range(Deduped(local)) = Range(local)
  BY <1>6, DedupedAre
<1>8. Len(card') = Len(rows) /\ Range(card') = Range(local)
  BY <1>4, <1>6, <1>7
<1>. DEFINE H == Hits(evidence, "query")
<1>9. /\ Cardinality(H) \in Nat
      /\ Len(rows) = IF PacketLimit <= Cardinality(H) THEN PacketLimit ELSE Cardinality(H)
      /\ Cardinality(H) <= PacketLimit => rows = RowsAt(evidence, H)
  BY <1>3, <1>5, SearchedAre
<1>12. target # NoTarget /\ ~edited => InOrder(registry)
  <2>1. at = "search"
    BY DEF Search
  <2>2. target # NoTarget /\ ~edited =>
          registry # Raising /\ RegistryWarnings(registry) = {}
    BY <1>4, <2>1 DEF PacketInv, RegistryTold
  <2>. QED
    BY <2>2, NothingWrong DEF PacketInv, PacketTypeOK
<1>13. \/ Len(card') = PacketLimit
       \/ {row \in Range(evidence) :
             repo \in Around[row.place] /\ "query" \in row.hits} \subseteq Range(card')
  <2>1. CASE PacketLimit <= Cardinality(H)
    BY <1>8, <1>9, <2>1
  <2>2. CASE ~(PacketLimit <= Cardinality(H))
    <3>1. rows = RowsAt(evidence, H)
      BY <1>3, <1>9, <2>2
    <3>2. H \in SUBSET (DOMAIN evidence)
      BY DEF Hits
    <3>3. Range(rows) = {evidence[i] : i \in H}
      BY <1>3, <3>1, <3>2, RowsAtAre
    <3>4. ASSUME NEW row \in Range(evidence), repo \in Around[row.place], "query" \in row.hits
          PROVE  row \in Range(card')
      <4>1. PICK i \in DOMAIN evidence : row = evidence[i]
        BY DEF Range
      <4>2. row \in Range(rows)
        BY <3>3, <3>4, <4>1 DEF Hits
      <4>3. PICK k \in 1 .. Len(rows) : row = rows[k]
        BY <1>5, <4>2, LenProperties DEF Range
      <4>. QED
        BY <1>6, <1>8, <3>4, <4>3
    <3>. QED
      BY <3>4
  <2>. QED
    BY <2>1, <2>2
<1>. QED
  BY <1>12, <1>13 DEF Quiet

\* A packet without warnings has everything of its repository that the words
\* find, or as many rows as it holds, and the registry is in order.
THEOREM QuietPacketIsComplete == PacketSpec => QuietIsComplete
<1>1. PacketInv /\ [PacketNext]_pvars => [Quiet]_pvars
  <2>. SUFFICES ASSUME PacketInv, [PacketNext]_pvars, at = "search", at' = "done", warnings' = {}
                PROVE  Quiet
    BY DEF Quiet
  <2>1. Search
    BY DEF PacketNext, pvars, tvars, Begin, Resolve, AddRow, Edit, Inspect, ResolveExplicit,
           RegistryRaises, ResolveByEvidence, EvidenceUnavailable, Scope, ReadRecent, RecentRaises
  <2>. QED
    BY <2>1, QuietStep
<1>. QED
  BY <1>1, PacketSound, PTL DEF PacketSpec, QuietIsComplete, Quiet

(***************************************************************************)
(* More evidence of the repository made out.                               *)
(***************************************************************************)

\* How many of a sequence are of a kind.
CountOf(s, X) == Cardinality({j \in DOMAIN s : s[j] \in X})

\* It is a number.
LEMMA CountType ==
  ASSUME NEW T, NEW s \in Seq(T), NEW X
  PROVE  CountOf(s, X) \in Nat
BY PlacesAreFinite DEF CountOf

\* Of the rows at some places as many are of a kind as there are such places.
LEMMA RowsAtCount ==
  ASSUME NEW T, NEW rows \in Seq(T), NEW places \in SUBSET (DOMAIN rows), NEW X
  PROVE  CountOf(RowsAt(rows, places), X) = Cardinality({j \in places : rows[j] \in X})
<1>. DEFINE taken == RowsAt(rows, places)
            n == Cardinality(places)
            K == {k \in DOMAIN taken : taken[k] \in X}
            J == {j \in places : rows[j] \in X}
            g == [k \in K |-> PlaceOf(places, k)]
<1>1. /\ taken \in Seq(T) /\ Len(taken) = n
      /\ \A k \in 1 .. n : taken[k] = rows[PlaceOf(places, k)]
  BY RowsAtAre
<1>2. DOMAIN taken = 1 .. n
  BY <1>1, LenProperties
<1>3. /\ places \in SUBSET Int /\ IsFiniteSet(places)
  BY PlacesAreFinite
<1>4. /\ \A k \in 1 .. n : PlaceOf(places, k) \in places
      /\ \A i \in places : \E k \in 1 .. n : PlaceOf(places, k) = i
      /\ \A k, l \in 1 .. n : PlaceOf(places, k) = PlaceOf(places, l) => k = l
  BY <1>3, PlacesAreTaken
<1>. HIDE DEF taken, n
<1>5. \A k : k \in K <=> k \in 1 .. n /\ rows[PlaceOf(places, k)] \in X
  BY <1>1, <1>2
<1>6. \A j : j \in J <=> j \in places /\ rows[j] \in X
  OBVIOUS
<1>7. g \in [K -> J]
  BY <1>4, <1>5, <1>6
<1>. HIDE DEF K, J
<1>8. \A k, l \in K : g[k] = g[l] => k = l
  BY <1>4, <1>5
<1>9. \A j \in J : \E k \in K : g[k] = j
  <2>1. ASSUME NEW j \in J
        PROVE  \E k \in K : g[k] = j
    <3>1. PICK k \in 1 .. n : PlaceOf(places, k) = j
      BY <1>4, <1>6
    <3>2. k \in K
      BY <1>5, <1>6, <3>1
    <3>. QED
      BY <3>1, <3>2
  <2>. QED
    BY <2>1
<1>. HIDE DEF g
<1>10. g \in Bijection(K, J)
  BY <1>7, <1>8, <1>9 DEF Bijection, Injection, Surjection, IsInjective
<1>11. IsFiniteSet(K)
  BY <1>1, PlacesAreFinite DEF K
<1>12. Cardinality(K) = Cardinality(J)
  BY <1>10, <1>11, FS_Bijection DEF ExistsBijection
<1>. QED
  BY <1>12 DEF K, J, CountOf, taken

\* What is left without the i-th.
LEMMA RemoveIs ==
  ASSUME NEW T, NEW f \in Seq(T), NEW i \in 1 .. Len(f)
  PROVE  /\ RemoveAt(f, i) \in Seq(T)
         /\ Len(RemoveAt(f, i)) = Len(f) - 1
         /\ \A k \in 1 .. i - 1 : RemoveAt(f, i)[k] = f[k]
         /\ \A k \in i .. Len(f) - 1 : RemoveAt(f, i)[k] = f[k + 1]
<1>. DEFINE a == SubSeq(f, 1, i - 1)
            b == SubSeq(f, i + 1, Len(f))
<1>1. Len(f) \in Nat /\ i \in Int /\ i - 1 \in Int /\ i + 1 \in Int
  BY LenProperties
<1>2. \A k \in 1 .. Len(f) : f[k] \in T
  BY ElementOfSeq
<1>3. /\ a \in Seq(T) /\ Len(a) = i - 1
      /\ \A k \in 1 .. i - 1 : a[k] = f[k]
  <2>1. \A k \in 1 .. i - 1 : f[k] \in T
    BY <1>1, <1>2
  <2>2. /\ a \in Seq(T) /\ Len(a) = (IF 1 <= i - 1 THEN i - 1 - 1 + 1 ELSE 0)
        /\ \A k \in 1 .. i - 1 - 1 + 1 : a[k] = f[1 + k - 1]
    BY <1>1, <2>1, SubSeqProperties
  <2>. QED
    BY <1>1, <2>2
<1>4. /\ b \in Seq(T) /\ Len(b) = Len(f) - i
      /\ \A k \in 1 .. Len(f) - i : b[k] = f[i + k]
  <2>1. \A k \in i + 1 .. Len(f) : f[k] \in T
    BY <1>1, <1>2
  <2>2. /\ b \in Seq(T)
        /\ Len(b) = (IF i + 1 <= Len(f) THEN Len(f) - (i + 1) + 1 ELSE 0)
        /\ \A k \in 1 .. Len(f) - (i + 1) + 1 : b[k] = f[(i + 1) + k - 1]
    BY <1>1, <2>1, SubSeqProperties
  <2>. QED
    BY <1>1, <2>2
<1>. HIDE DEF a, b
<1>5. /\ a \o b \in Seq(T) /\ Len(a \o b) = Len(a) + Len(b)
      /\ \A k \in 1 .. Len(a) + Len(b) :
           (a \o b)[k] = IF k <= Len(a) THEN a[k] ELSE b[k - Len(a)]
  BY <1>3, <1>4, ConcatProperties
<1>6. RemoveAt(f, i) = a \o b
  BY DEF RemoveAt, a, b
<1>7. Len(a \o b) = Len(f) - 1
  BY <1>1, <1>3, <1>4, <1>5
<1>8. ASSUME NEW k \in 1 .. i - 1
      PROVE  (a \o b)[k] = f[k]
  BY <1>1, <1>3, <1>4, <1>5
<1>9. ASSUME NEW k \in i .. Len(f) - 1
      PROVE  (a \o b)[k] = f[k + 1]
  <2>1. k \in 1 .. Len(a) + Len(b) /\ ~(k <= Len(a))
    BY <1>1, <1>3, <1>4
  <2>2. (a \o b)[k] = b[k - Len(a)]
    BY <1>5, <2>1
  <2>3. k - (i - 1) \in 1 .. Len(f) - i /\ i + (k - (i - 1)) = k + 1
    BY <1>1
  <2>4. b[k - (i - 1)] = f[k + 1]
    BY <1>4, <2>3
  <2>. QED
    BY <1>3, <2>2, <2>4
<1>. QED
  BY <1>5, <1>6, <1>7, <1>8, <1>9

\* One row more counts for one if it is of the kind, and for none otherwise.
LEMMA RemoveCount ==
  ASSUME NEW T, NEW f \in Seq(T), NEW i \in DOMAIN f, NEW X
  PROVE  /\ f[i] \in X => CountOf(f, X) = CountOf(RemoveAt(f, i), X) + 1
         /\ f[i] \notin X => CountOf(f, X) = CountOf(RemoveAt(f, i), X)
<1>. DEFINE e == RemoveAt(f, i)
            E == {j \in DOMAIN e : e[j] \in X}
            F == {j \in DOMAIN f : f[j] \in X}
            g == [j \in E |-> IF j < i THEN j ELSE j + 1]
<1>1. i \in 1 .. Len(f) /\ DOMAIN f = 1 .. Len(f) /\ Len(f) \in Nat
  BY LenProperties
<1>2. /\ e \in Seq(T) /\ Len(e) = Len(f) - 1
      /\ \A k \in 1 .. i - 1 : e[k] = f[k]
      /\ \A k \in i .. Len(f) - 1 : e[k] = f[k + 1]
  BY <1>1, RemoveIs
<1>3. DOMAIN e = 1 .. Len(f) - 1
  BY <1>2, LenProperties
<1>. HIDE DEF e
<1>4. \A j : j \in E <=> j \in 1 .. Len(f) - 1 /\ e[j] \in X
  BY <1>3
<1>5. \A j : j \in F <=> j \in 1 .. Len(f) /\ f[j] \in X
  BY <1>1
<1>. HIDE DEF E, F
<1>6. ASSUME NEW j \in E
      PROVE  /\ j \in Int /\ g[j] \in F \ {i}
             /\ \/ j < i /\ g[j] = j
                \/ ~(j < i) /\ g[j] = j + 1
  <2>1. j \in 1 .. Len(f) - 1 /\ e[j] \in X
    BY <1>4
  <2>2. CASE j < i
    <3>1. e[j] = f[j] /\ j \in 1 .. Len(f)
      BY <1>1, <1>2, <2>1, <2>2
    <3>. QED
      BY <1>1, <1>5, <2>1, <2>2, <3>1
  <2>3. CASE ~(j < i)
    <3>1. e[j] = f[j + 1] /\ j + 1 \in 1 .. Len(f) /\ j + 1 # i
      BY <1>1, <1>2, <2>1, <2>3
    <3>. QED
      BY <1>1, <1>5, <2>1, <2>3, <3>1
  <2>. QED
    BY <2>2, <2>3
<1>7. g \in [E -> F \ {i}]
  BY <1>6
<1>. HIDE DEF g
<1>8. \A j, k \in E : g[j] = g[k] => j = k
  <2>1. ASSUME NEW j \in E, NEW k \in E, g[j] = g[k]
        PROVE  j = k
    <3>1. /\ j \in Int /\ ((j < i /\ g[j] = j) \/ (~(j < i) /\ g[j] = j + 1))
          /\ k \in Int /\ ((k < i /\ g[k] = k) \/ (~(k < i) /\ g[k] = k + 1))
      BY <1>6
    <3>. QED
      BY <1>1, <2>1, <3>1
  <2>. QED
    BY <2>1
<1>9. \A k \in F \ {i} : \E j \in E : g[j] = k
  <2>1. ASSUME NEW k \in F \ {i}
        PROVE  \E j \in E : g[j] = k
    <3>1. k \in 1 .. Len(f) /\ f[k] \in X /\ k # i
      BY <1>5
    <3>2. CASE k < i
      <4>1. k \in E
        <5>1. k \in 1 .. i - 1 /\ k \in 1 .. Len(f) - 1
          BY <1>1, <3>1, <3>2
        <5>2. e[k] \in X
          BY <1>2, <3>1, <5>1
        <5>. QED
          BY <1>4, <5>1, <5>2
      <4>. QED
        BY <1>6, <3>2, <4>1
    <3>3. CASE ~(k < i)
      <4>1. k - 1 \in i .. Len(f) - 1 /\ k - 1 + 1 = k /\ ~(k - 1 < i)
        BY <1>1, <3>1, <3>3
      <4>2. e[k - 1] = f[k - 1 + 1]
        BY <1>2, <4>1
      <4>3. k - 1 \in E
        BY <1>1, <1>4, <3>1, <4>1, <4>2
      <4>. QED
        BY <1>6, <4>1, <4>3
    <3>. QED
      BY <3>2, <3>3
  <2>. QED
    BY <2>1
<1>10. g \in Bijection(E, F \ {i})
  BY <1>7, <1>8, <1>9 DEF Bijection, Injection, Surjection, IsInjective
<1>11. IsFiniteSet(E) /\ IsFiniteSet(F) /\ Cardinality(E) \in Nat /\ Cardinality(F) \in Nat
  BY <1>2, PlacesAreFinite DEF E, F
<1>12. Cardinality(F \ {i}) = Cardinality(E)
  BY <1>10, <1>11, FS_Bijection DEF ExistsBijection
<1>13. Cardinality(F \ {i}) = IF i \in F THEN Cardinality(F) - 1 ELSE Cardinality(F)
  BY <1>11, FS_RemoveElement
<1>14. i \in F <=> f[i] \in X
  BY <1>1, <1>5
<1>. QED
  BY <1>11, <1>12, <1>13, <1>14 DEF E, F, CountOf, e

\* Rows that vote for a repository, those that name themselves, and those of
\* some kinds; rows the search for the name finds.
VotesFor(root) == {row \in RowForms : RootOf(row) = root}
SelvesFor(root) == {row \in VotesFor(root) : IsSelf(row)}
KindsFor(root, kinds) == {row \in VotesFor(root) : row.kind \in kinds}
Candidates == {row \in RowForms : "candidate" \in row.hits}

\* A score, counted.
LEMMA ScoreIs ==
  ASSUME NEW rows \in Seq(RowForms), NEW root
  PROVE  /\ Score(rows, root).self = CountOf(rows, SelvesFor(root))
         /\ Score(rows, root).weighted =
              3 * CountOf(rows, KindsFor(root, {"current_state_doc"}))
                + 2 * CountOf(rows, KindsFor(root, {"session_handoff", "session_state"}))
                + CountOf(rows, KindsFor(root, {"other"}))
         /\ Score(rows, root).count = CountOf(rows, KindsFor(root, Kinds))
<1>. DEFINE Of(kinds) == {i \in Votes(rows, root) : rows[i].kind \in kinds}
            selves == {i \in Votes(rows, root) : IsSelf(rows[i])}
<1>1. \A i \in DOMAIN rows : rows[i] \in RowForms
  BY LenProperties, ElementOfSeq
<1>2. selves = {j \in DOMAIN rows : rows[j] \in SelvesFor(root)}
  BY <1>1, Zenon DEF Votes, SelvesFor, VotesFor
<1>3. ASSUME NEW kinds
      PROVE  Of(kinds) = {j \in DOMAIN rows : rows[j] \in KindsFor(root, kinds)}
  BY <1>1, Zenon DEF Votes, KindsFor, VotesFor
<1>4. Score(rows, root) =
        [self |-> Cardinality(selves),
         weighted |-> 3 * Cardinality(Of({"current_state_doc"}))
                        + 2 * Cardinality(Of({"session_handoff", "session_state"}))
                        + Cardinality(Of({"other"})),
         count |-> Cardinality(Of(Kinds))]
  BY DEF Score
<1>. HIDE DEF Of, selves
<1>5. Cardinality(selves) = CountOf(rows, SelvesFor(root))
  BY <1>2 DEF CountOf
<1>6. ASSUME NEW kinds
      PROVE  Cardinality(Of(kinds)) = CountOf(rows, KindsFor(root, kinds))
  BY <1>3 DEF CountOf
<1>. QED
  BY <1>4, <1>5, <1>6

\* If the search returns all there is, it returns of a kind what is found of it.
LEMMA SearchedCount ==
  ASSUME NEW s \in Seq(RowForms), NEW X \in SUBSET RowForms,
         Cardinality(Hits(s, "candidate")) <= SearchLimit
  PROVE  CountOf(Searched(s, "candidate", SearchLimit), X) = CountOf(s, X \cap Candidates)
<1>. DEFINE H == Hits(s, "candidate")
<1>1. SearchLimit \in Nat
  BY RepoTargetsAssumption
<1>2. Searched(s, "candidate", SearchLimit) = RowsAt(s, H)
  BY <1>1, SearchedAre
<1>3. H \in SUBSET (DOMAIN s)
  BY DEF Hits
<1>4. CountOf(RowsAt(s, H), X) = Cardinality({j \in H : s[j] \in X})
  BY <1>3, RowsAtCount
<1>5. {j \in H : s[j] \in X} = {j \in DOMAIN s : s[j] \in X \cap Candidates}
  BY Zenon DEF Hits, Candidates
<1>. QED
  BY <1>2, <1>4, <1>5 DEF CountOf

\* With one row more the search returns one more of each kind that row is of.
LEMMA SearchedMore ==
  ASSUME NEW f \in Seq(RowForms), NEW i \in DOMAIN f,
         Cardinality(Hits(f, "candidate")) <= SearchLimit
  PROVE  LET F == Searched(f, "candidate", SearchLimit)
             E == Searched(RemoveAt(f, i), "candidate", SearchLimit)
         IN  /\ F \in Seq(RowForms) /\ E \in Seq(RowForms)
             /\ \A X \in SUBSET RowForms :
                  IF f[i] \in X /\ "candidate" \in f[i].hits
                  THEN CountOf(F, X) = CountOf(E, X) + 1
                  ELSE CountOf(F, X) = CountOf(E, X)
<1>. DEFINE e == RemoveAt(f, i)
            F == Searched(f, "candidate", SearchLimit)
            E == Searched(e, "candidate", SearchLimit)
<1>1. SearchLimit \in Nat
  BY RepoTargetsAssumption
<1>2. i \in 1 .. Len(f) /\ f[i] \in RowForms
  BY LenProperties, ElementOfSeq
<1>3. e \in Seq(RowForms)
  BY <1>2, RemoveIs
<1>4. F \in Seq(RowForms) /\ E \in Seq(RowForms)
  BY <1>1, <1>3, SearchedAre
<1>5. \A s \in Seq(RowForms) : Cardinality(Hits(s, "candidate")) = CountOf(s, Candidates)
  <2>1. ASSUME NEW s \in Seq(RowForms)
        PROVE  Hits(s, "candidate") = {j \in DOMAIN s : s[j] \in Candidates}
    <3>1. \A j \in DOMAIN s : s[j] \in RowForms
      BY LenProperties, ElementOfSeq
    <3>. QED
      BY <3>1, Zenon DEF Hits, Candidates
  <2>. QED
    BY <2>1 DEF CountOf
<1>6. \A X : /\ f[i] \in X => CountOf(f, X) = CountOf(e, X) + 1
             /\ f[i] \notin X => CountOf(f, X) = CountOf(e, X)
  BY RemoveCount
<1>7. \A X : CountOf(e, X) \in Nat
  BY <1>3, CountType
<1>8. Cardinality(Hits(e, "candidate")) <= SearchLimit
  <2>. HIDE DEF e
  <2>1. CountOf(e, Candidates) <= CountOf(f, Candidates)
    BY <1>6, <1>7
  <2>2. CountOf(f, Candidates) <= SearchLimit
    BY <1>5
  <2>3. CountOf(e, Candidates) \in Nat /\ CountOf(f, Candidates) \in Nat
    BY <1>7, CountType
  <2>. QED
    BY <1>1, <1>3, <1>5, <2>1, <2>2, <2>3
<1>. HIDE DEF e
<1>9. ASSUME NEW X \in SUBSET RowForms
      PROVE  IF f[i] \in X /\ "candidate" \in f[i].hits
             THEN CountOf(F, X) = CountOf(E, X) + 1
             ELSE CountOf(F, X) = CountOf(E, X)
  <2>1. CountOf(F, X) = CountOf(f, X \cap Candidates)
    BY SearchedCount
  <2>2. CountOf(E, X) = CountOf(e, X \cap Candidates)
    BY <1>3, <1>8, SearchedCount
  <2>3. f[i] \in X \cap Candidates <=> f[i] \in X /\ "candidate" \in f[i].hits
    BY <1>2 DEF Candidates
  <2>. HIDE DEF F, E
  <2>. QED
    BY <1>6, <2>1, <2>2, <2>3
<1>. QED
  BY <1>4, <1>9 DEF e

\* A repository is voted for if there is a vote for it.
LEMMA VotedIs ==
  ASSUME NEW rows \in Seq(RowForms), NEW root
  PROVE  root \in Voted(rows) <=> root # NoRoot /\ CountOf(rows, VotesFor(root)) # 0
<1>. DEFINE V == {j \in DOMAIN rows : rows[j] \in VotesFor(root)}
<1>1. \A i \in DOMAIN rows : rows[i] \in RowForms
  BY LenProperties, ElementOfSeq
<1>2. root \in Voted(rows) <=> root # NoRoot /\ V # {}
  BY <1>1 DEF Voted, VotesFor
<1>3. IsFiniteSet(V)
  BY PlacesAreFinite
<1>4. Cardinality(V) = 0 <=> V = {}
  BY <1>3, FS_EmptySet
<1>. QED
  BY <1>2, <1>4 DEF CountOf

\* A score has grown: more weight and a vote more, perhaps a row that names
\* itself.
Grown(s, t) == t.self >= s.self /\ t.weighted > s.weighted /\ t.count > s.count

\* A row more leaves the scores of the other repositories as they are, and that
\* of its own grows, if the search finds it.
LEMMA ScoresGrow ==
  ASSUME NEW f \in Seq(RowForms), NEW i \in DOMAIN f, RootOf(f[i]) # NoRoot,
         Cardinality(Hits(f, "candidate")) <= SearchLimit
  PROVE  LET F == Searched(f, "candidate", SearchLimit)
             E == Searched(RemoveAt(f, i), "candidate", SearchLimit)
             w == RootOf(f[i])
         IN  /\ F \in Seq(RowForms) /\ E \in Seq(RowForms)
             /\ \A o : o # w => Score(F, o) = Score(E, o)
             /\ Score(F, w) = Score(E, w) \/ Grown(Score(E, w), Score(F, w))
             /\ w \in Voted(E) => Voted(F) = Voted(E)
<1>. DEFINE F == Searched(f, "candidate", SearchLimit)
            E == Searched(RemoveAt(f, i), "candidate", SearchLimit)
            w == RootOf(f[i])
            found == "candidate" \in f[i].hits
<1>1. /\ F \in Seq(RowForms) /\ E \in Seq(RowForms)
      /\ \A X \in SUBSET RowForms :
           IF f[i] \in X /\ found THEN CountOf(F, X) = CountOf(E, X) + 1
           ELSE CountOf(F, X) = CountOf(E, X)
  BY SearchedMore
<1>. HIDE DEF F, E
<1>2. f[i] \in RowForms
  BY LenProperties, ElementOfSeq
<1>3. \A X \in SUBSET RowForms :
        /\ f[i] \in X /\ found => CountOf(F, X) = CountOf(E, X) + 1
        /\ ~(f[i] \in X /\ found) => CountOf(F, X) = CountOf(E, X)
  BY <1>1
<1>4. \A o, kinds : /\ VotesFor(o) \in SUBSET RowForms /\ SelvesFor(o) \in SUBSET RowForms
                    /\ KindsFor(o, kinds) \in SUBSET RowForms
  BY DEF VotesFor, SelvesFor, KindsFor
<1>5. /\ \A o : f[i] \in VotesFor(o) <=> o = w
      /\ \A o : f[i] \in SelvesFor(o) => o = w
      /\ \A o, kinds : f[i] \in KindsFor(o, kinds) <=> o = w /\ f[i].kind \in kinds
  BY <1>2 DEF VotesFor, SelvesFor, KindsFor
<1>6. \A s, t \in Scores :
        s.self = t.self /\ s.weighted = t.weighted /\ s.count = t.count => s = t
  <2>1. ASSUME NEW s \in Scores, NEW t \in Scores,
               s.self = t.self, s.weighted = t.weighted, s.count = t.count
        PROVE  s = t
    <3>1. /\ s = [self |-> s.self, weighted |-> s.weighted, count |-> s.count]
          /\ t = [self |-> t.self, weighted |-> t.weighted, count |-> t.count]
      BY DEF Scores
    <3>. QED
      BY <2>1, <3>1
  <2>. QED
    BY <2>1
<1>7. ASSUME NEW o, o # w \/ ~found
      PROVE  Score(F, o) = Score(E, o) /\ CountOf(F, VotesFor(o)) = CountOf(E, VotesFor(o))
  <2>1. /\ CountOf(F, VotesFor(o)) = CountOf(E, VotesFor(o))
        /\ CountOf(F, SelvesFor(o)) = CountOf(E, SelvesFor(o))
    <3>. HIDE DEF w, found
    <3>1. ~(f[i] \in VotesFor(o) /\ found)
      BY <1>5, <1>7
    <3>2. ~(f[i] \in SelvesFor(o) /\ found)
      BY <1>5, <1>7
    <3>. QED
      BY <1>3, <1>4, <3>1, <3>2
  <2>2. ASSUME NEW kinds
        PROVE  CountOf(F, KindsFor(o, kinds)) = CountOf(E, KindsFor(o, kinds))
    BY <1>3, <1>4, <1>5, <1>7
  <2>3. /\ Score(F, o).self = Score(E, o).self
        /\ Score(F, o).weighted = Score(E, o).weighted
        /\ Score(F, o).count = Score(E, o).count
    BY <1>1, <2>1, <2>2, ScoreIs
  <2>4. Score(F, o) \in Scores /\ Score(E, o) \in Scores
    BY <1>1, ScoreType
  <2>. QED
    BY <1>6, <2>1, <2>3, <2>4
<1>8. ASSUME found
      PROVE  Grown(Score(E, w), Score(F, w))
  <2>. DEFINE docs == KindsFor(w, {"current_state_doc"})
              sessions == KindsFor(w, {"session_handoff", "session_state"})
              rest == KindsFor(w, {"other"})
  <2>1. \A X : CountOf(E, X) \in Nat /\ CountOf(F, X) \in Nat
    BY <1>1, CountType
  <2>2. f[i].kind \in Kinds
    BY <1>2, RepoTargetsAssumption
  <2>3. CountOf(F, KindsFor(w, Kinds)) = CountOf(E, KindsFor(w, Kinds)) + 1
    BY <1>3, <1>4, <1>5, <1>8, <2>2
  <2>4. \A X \in SUBSET RowForms : CountOf(F, X) >= CountOf(E, X)
    <3>. HIDE DEF w, found, docs, sessions, rest
    <3>1. ASSUME NEW X \in SUBSET RowForms
          PROVE  CountOf(F, X) >= CountOf(E, X)
      <4>1. CountOf(F, X) = CountOf(E, X) + 1 \/ CountOf(F, X) = CountOf(E, X)
        BY <1>3
      <4>2. CountOf(E, X) \in Nat
        BY <2>1
      <4>. QED
        BY <4>1, <4>2
    <3>. QED
      BY <3>1
  <2>9. CountOf(F, SelvesFor(w)) >= CountOf(E, SelvesFor(w))
    BY <1>4, <2>4, Zenon
  <2>5. /\ CountOf(F, docs) >= CountOf(E, docs)
        /\ CountOf(F, sessions) >= CountOf(E, sessions)
        /\ CountOf(F, rest) >= CountOf(E, rest)
    BY <1>4, <2>4, Zenon
  <2>6. \/ CountOf(F, docs) > CountOf(E, docs)
        \/ CountOf(F, sessions) > CountOf(E, sessions)
        \/ CountOf(F, rest) > CountOf(E, rest)
    <3>1. f[i] \in docs \/ f[i] \in sessions \/ f[i] \in rest
      BY <1>5, <2>2 DEF Kinds
    <3>. HIDE DEF docs, sessions, rest
    <3>2. docs \in SUBSET RowForms /\ sessions \in SUBSET RowForms /\ rest \in SUBSET RowForms
      BY <1>4 DEF docs, sessions, rest
    <3>. QED
      BY <1>3, <1>8, <2>1, <3>1, <3>2
  <2>7. /\ Score(F, w).self >= Score(E, w).self
        /\ Score(F, w).count > Score(E, w).count
    <3>1. /\ Score(F, w).self = CountOf(F, SelvesFor(w))
          /\ Score(E, w).self = CountOf(E, SelvesFor(w))
          /\ Score(F, w).count = CountOf(F, KindsFor(w, Kinds))
          /\ Score(E, w).count = CountOf(E, KindsFor(w, Kinds))
      BY <1>1, ScoreIs
    <3>2. CountOf(E, KindsFor(w, Kinds)) \in Nat
      BY <2>1
    <3>. QED
      BY <2>3, <2>9, <3>1, <3>2
  <2>8. Score(F, w).weighted > Score(E, w).weighted
    <3>1. /\ Score(F, w).weighted =
               3 * CountOf(F, docs) + 2 * CountOf(F, sessions) + CountOf(F, rest)
          /\ Score(E, w).weighted =
               3 * CountOf(E, docs) + 2 * CountOf(E, sessions) + CountOf(E, rest)
      BY <1>1, ScoreIs
    <3>. HIDE DEF docs, sessions, rest
    <3>2. /\ CountOf(F, docs) \in Nat /\ CountOf(F, sessions) \in Nat
          /\ CountOf(F, rest) \in Nat /\ CountOf(E, docs) \in Nat
          /\ CountOf(E, sessions) \in Nat /\ CountOf(E, rest) \in Nat
      BY <2>1
    <3>. DEFINE a == CountOf(F, docs)
                b == CountOf(F, sessions)
                c == CountOf(F, rest)
                x == CountOf(E, docs)
                y == CountOf(E, sessions)
                z == CountOf(E, rest)
    <3>3. /\ a >= x /\ b >= y /\ c >= z
          /\ a > x \/ b > y \/ c > z
      BY <2>5, <2>6
    <3>4. /\ Score(F, w).weighted = 3 * a + 2 * b + c
          /\ Score(E, w).weighted = 3 * x + 2 * y + z
      BY <3>1
    <3>. HIDE DEF a, b, c, x, y, z
    <3>6. a \in Nat /\ b \in Nat /\ c \in Nat /\ x \in Nat /\ y \in Nat /\ z \in Nat
      BY <3>2 DEF a, b, c, x, y, z
    <3>5. 3 * a + 2 * b + c > 3 * x + 2 * y + z
      BY <3>3, <3>6
    <3>. QED
      BY <3>4, <3>5
  <2>. QED
    BY <2>7, <2>8 DEF Grown
<1>9. w \in Voted(E) => Voted(F) = Voted(E)
  <2>1. ASSUME w \in Voted(E), NEW o
        PROVE  o \in Voted(F) <=> o \in Voted(E)
    <3>1. \A r : /\ r \in Voted(F) <=> r # NoRoot /\ CountOf(F, VotesFor(r)) # 0
                 /\ r \in Voted(E) <=> r # NoRoot /\ CountOf(E, VotesFor(r)) # 0
      BY <1>1, VotedIs
    <3>2. CASE o # w \/ ~found
      BY <1>7, <3>1, <3>2
    <3>3. CASE o = w /\ found
      <4>1. CountOf(F, VotesFor(w)) = CountOf(E, VotesFor(w)) + 1
        BY <1>3, <1>4, <1>5, <3>3
      <4>2. CountOf(E, VotesFor(w)) \in Nat
        BY <1>1, CountType
      <4>3. CountOf(F, VotesFor(w)) # 0
        BY <4>1, <4>2
      <4>. QED
        BY <2>1, <3>1, <3>3, <4>3
    <3>. QED
      BY <3>2, <3>3
  <2>. QED
    BY <2>1
<1>10. Score(F, w) = Score(E, w) \/ Grown(Score(E, w), Score(F, w))
  BY <1>7, <1>8
<1>11. \A o : o # w => Score(F, o) = Score(E, o)
  BY <1>7
<1>. QED
  BY <1>1, <1>9, <1>10, <1>11 DEF F, E

\* A score that grows stays ahead.
LEMMA GrownStaysAhead ==
  ASSUME NEW s \in Scores, NEW t \in Scores, NEW u \in Scores, Grown(s, t)
  PROVE  /\ Ahead(s, u) => Ahead(t, u)
         /\ s = u => Ahead(t, u)
<1>1. /\ s.self \in Nat /\ s.weighted \in Nat /\ s.count \in Nat
      /\ t.self \in Nat /\ t.weighted \in Nat /\ t.count \in Nat
      /\ u.self \in Nat /\ u.weighted \in Nat /\ u.count \in Nat
  BY DEF Scores
<1>. QED
  BY <1>1 DEF Grown, Ahead

\* And as far ahead of the second as it was, if they are compared by the same
\* of the two rules.
LEMMA GrownStaysClear ==
  ASSUME NEW s \in Scores, NEW t \in Scores, NEW u \in Scores,
         t = s \/ Grown(s, t), Ahead(s, u) \/ s = u, ~TooClose(s, u),
         s.self > 0 \/ t.self = 0
  PROVE  ~TooClose(t, u)
<1>1. /\ s.self \in Nat /\ s.weighted \in Nat /\ s.count \in Nat
      /\ t.self \in Nat /\ t.weighted \in Nat /\ t.count \in Nat
      /\ u.self \in Nat /\ u.weighted \in Nat /\ u.count \in Nat
  BY DEF Scores
<1>2. CASE s.self > 0
  <2>1. s.self # u.self
    BY <1>2 DEF TooClose
  <2>2. s.self > u.self
    BY <1>1, <2>1 DEF Ahead
  <2>3. t.self >= s.self
    BY <1>1 DEF Grown
  <2>4. t.self > 0 /\ t.self # u.self
    BY <1>1, <2>2, <2>3
  <2>. QED
    BY <2>4 DEF TooClose
<1>3. CASE ~(s.self > 0) /\ t.self = 0
  <2>1. s.weighted # u.weighted /\ ~(s.count < 2 /\ s.weighted <= u.weighted + 1)
    BY <1>3 DEF TooClose
  <2>2. s.self = 0
    BY <1>1, <1>3
  <2>3. s.weighted > u.weighted
    BY <1>1, <2>1, <2>2 DEF Ahead
  <2>4. t.weighted >= s.weighted /\ t.count >= s.count
    BY <1>1 DEF Grown
  <2>5. t.weighted # u.weighted /\ ~(t.count < 2 /\ t.weighted <= u.weighted + 1)
    BY <1>1, <2>1, <2>3, <2>4
  <2>6. ~(t.self > 0)
    BY <1>3
  <2>. QED
    BY <2>5, <2>6 DEF TooClose
<1>. QED
  BY <1>2, <1>3

\* The leader of a ranking that is not contested stays it, and uncontested, when
\* its score grows and the others do not change.
LEMMA LeaderStays ==
  ASSUME NEW E \in Seq(RowForms), NEW F \in Seq(RowForms),
         Voted(E) # {}, Voted(F) = Voted(E), ~Contested(E),
         \A o : o # Leader(E) => Score(F, o) = Score(E, o),
         \/ Score(F, Leader(E)) = Score(E, Leader(E))
         \/ Grown(Score(E, Leader(E)), Score(F, Leader(E)))
  PROVE  Leader(F) = Leader(E) /\ ~Contested(F)
<1>. DEFINE w == Leader(E)
            V == Voted(E)
            t == Tally(E)
            u == Tally(F)
<1>1. /\ w \in Ranked(E) /\ Ranked(E) \subseteq V /\ IsFiniteSet(Ranked(E))
      /\ V \subseteq Roots
      /\ \A r \in V : t[r] \in Scores
  BY LeaderIsVoted
<1>2. /\ Ranked(F) \subseteq V /\ IsFiniteSet(Ranked(F))
      /\ \A r \in V : u[r] \in Scores
  BY LeaderIsVoted
<1>3. w \in V
  BY <1>1
<1>4. /\ \A o \in V \ {w} : u[o] = t[o]
      /\ u[w] = t[w] \/ Grown(t[w], u[w])
  BY <1>3 DEF Tally
<1>5. V \in SUBSET Nat
  BY <1>1, RepoTargetsAssumption
<1>6. /\ SelfNamed(E) = {r \in V : t[r].self > 0}
      /\ SelfNamed(F) = {r \in V : u[r].self > 0}
      /\ Ranked(E) = (IF SelfNamed(E) # {} THEN SelfNamed(E) ELSE V)
      /\ Ranked(F) = (IF SelfNamed(F) # {} THEN SelfNamed(F) ELSE V)
  BY DEF SelfNamed, Ranked
<1>7. /\ Leader(F) = First(u, Ranked(F))
      /\ Others(E) = Ranked(E) \ {w} /\ Others(F) = Ranked(F) \ {Leader(F)}
      /\ Contested(E) <=> /\ Others(E) # {}
                          /\ TooClose(t[w], t[First(t, Others(E))])
      /\ Contested(F) <=> /\ Others(F) # {}
                          /\ TooClose(u[Leader(F)], u[First(u, Others(F))])
  BY DEF Leader, Others, Contested
<1>8. \A o \in Ranked(E) \ {w} : Leads(t, w, o)
  <2>1. \A r \in Ranked(E) : t[r] \in Scores
    BY <1>1
  <2>2. Ranked(E) \in SUBSET Nat /\ Ranked(E) # {}
    BY <1>1, <1>5
  <2>3. \A o \in Ranked(E) \ {First(t, Ranked(E))} : Leads(t, First(t, Ranked(E)), o)
    BY <1>1, <2>1, <2>2, FirstIs
  <2>. QED
    BY <2>3 DEF Leader
<1>. HIDE DEF w, V, t, u
\* The scores of the leader.
<1>9. /\ t[w] \in Scores /\ u[w] \in Scores
      /\ t[w].self \in Nat /\ u[w].self \in Nat /\ u[w].self >= t[w].self
  <2>1. t[w] \in Scores /\ u[w] \in Scores
    BY <1>1, <1>2, <1>3
  <2>2. t[w].self \in Nat /\ u[w].self \in Nat
    BY <2>1 DEF Scores
  <2>. QED
    BY <1>4, <2>1, <2>2 DEF Grown
\* The leader leads whatever it led.
<1>10. \A o \in Ranked(E) \ {w} : Leads(u, w, o)
  <2>1. ASSUME NEW o \in Ranked(E) \ {w}
        PROVE  Leads(u, w, o)
    <3>1. Leads(t, w, o)
      BY <1>8
    <3>2. u[o] = t[o] /\ t[o] \in Scores
      BY <1>1, <1>4
    <3>3. CASE u[w] = t[w]
      BY <3>1, <3>2, <3>3 DEF Leads
    <3>4. CASE Grown(t[w], u[w])
      <4>1. Ahead(t[w], t[o]) \/ t[w] = t[o]
        BY <3>1 DEF Leads
      <4>2. Ahead(u[w], t[o])
        BY <1>9, <3>2, <3>4, <4>1, GrownStaysAhead
      <4>. QED
        BY <3>2, <4>2 DEF Leads
    <3>. QED
      BY <1>4, <3>3, <3>4
  <2>. QED
    BY <2>1
\* The same are ranked, or the leader alone.
<1>11. CASE Ranked(F) = Ranked(E) /\ (t[w].self > 0 \/ u[w].self = 0)
  <2>1. Leader(F) = w
    <3>1. /\ Ranked(F) \in SUBSET Nat /\ Ranked(F) # {}
          /\ \A r \in Ranked(F) : u[r] \in Scores
      BY <1>1, <1>2, <1>5, <1>11
    <3>2. \A r \in Ranked(F) :
            (\A o \in Ranked(F) \ {r} : Leads(u, r, o)) => r = First(u, Ranked(F))
      BY <1>2, <3>1, FirstIs
    <3>. QED
      BY <1>1, <1>7, <1>10, <1>11, <3>2
  <2>2. Others(F) = Others(E)
    BY <1>7, <1>11, <2>1
  <2>3. ASSUME Others(E) # {}
        PROVE  ~TooClose(u[w], u[First(u, Others(F))])
    <3>1. /\ Others(E) \in SUBSET Nat /\ Others(E) \in SUBSET Ranked(E)
          /\ Others(E) \subseteq V \ {w}
      BY <1>1, <1>5, <1>7
    <3>2. IsFiniteSet(Others(E))
      BY <1>1, <3>1, FS_Subset
    <3>3. \A r \in Others(E) : t[r] \in Scores /\ u[r] = t[r]
      BY <1>1, <1>4, <3>1
    <3>4. /\ First(t, Others(E)) \in Others(E)
          /\ \A o \in Others(E) \ {First(t, Others(E))} : Leads(t, First(t, Others(E)), o)
      BY <2>3, <3>1, <3>2, <3>3, FirstIs
    <3>5. \A r \in Others(E) :
            (\A o \in Others(E) \ {r} : Leads(u, r, o)) => r = First(u, Others(E))
      <4>1. \A r \in Others(E) : u[r] \in Scores
        BY <3>3
      <4>. QED
        BY <2>3, <3>1, <3>2, <4>1, FirstIs
    <3>. DEFINE s == First(t, Others(E))
    <3>6. \A o \in Others(E) \ {s} : Leads(u, s, o)
      BY <3>3, <3>4 DEF Leads
    <3>7. First(u, Others(F)) = s
      BY <2>2, <3>4, <3>5, <3>6
    <3>8. ~TooClose(t[w], t[s])
      BY <1>7, <2>3 DEF w
    <3>9. Ahead(t[w], t[s]) \/ t[w] = t[s]
      BY <1>7, <1>8, <3>4 DEF Leads
    <3>10. t[s] \in Scores /\ u[s] = t[s]
      BY <3>3, <3>4
    <3>. HIDE DEF s
    <3>11. ~TooClose(u[w], t[s])
      BY <1>4, <1>9, <1>11, <3>8, <3>9, <3>10, GrownStaysClear
    <3>. QED
      BY <3>7, <3>10, <3>11
  <2>. QED
    BY <1>7, <2>1, <2>2, <2>3 DEF w
<1>12. CASE Ranked(F) = {w}
  <2>1. Leader(F) = w
    <3>1. /\ Ranked(F) \in SUBSET Nat /\ Ranked(F) # {}
          /\ \A r \in Ranked(F) : u[r] \in Scores
      BY <1>2, <1>3, <1>5, <1>12
    <3>2. First(u, Ranked(F)) \in Ranked(F)
      BY <1>2, <3>1, FirstIs
    <3>. QED
      BY <1>7, <1>12, <3>2
  <2>. QED
    BY <1>7, <1>12, <2>1 DEF w
<1>13. \/ Ranked(F) = Ranked(E) /\ (t[w].self > 0 \/ u[w].self = 0)
       \/ Ranked(F) = {w}
  <2>1. CASE SelfNamed(E) # {}
    <3>1. t[w].self > 0
      BY <1>1, <1>6, <2>1
    <3>2. u[w].self > 0
      BY <1>9, <3>1
    <3>3. SelfNamed(F) = SelfNamed(E)
      BY <1>4, <1>6, <3>1, <3>2
    <3>. QED
      BY <1>6, <3>1, <3>3
  <2>2. CASE SelfNamed(E) = {}
    <3>1. \A r \in V \ {w} : ~(u[r].self > 0)
      BY <1>4, <1>6, <2>2
    <3>2. CASE u[w].self > 0
      <4>1. SelfNamed(F) = {w}
        BY <1>3, <1>6, <3>1, <3>2
      <4>. QED
        BY <1>6, <4>1
    <3>3. CASE ~(u[w].self > 0)
      <4>1. SelfNamed(F) = {}
        BY <1>6, <3>1, <3>3
      <4>2. u[w].self = 0
        BY <1>9, <3>3
      <4>. QED
        BY <1>6, <2>2, <4>1, <4>2
    <3>. QED
      BY <3>2, <3>3
  <2>. QED
    BY <2>1, <2>2
<1>. QED
  BY <1>11, <1>12, <1>13

\* With one row more of the repository made out, it is made out again.
LEMMA WinnerKept ==
  ASSUME NEW f \in Seq(RowForms), NEW i \in DOMAIN f,
         Cardinality(Hits(f, "candidate")) <= SearchLimit,
         RootOf(f[i]) # NoRoot, RootOf(f[i]) = Winner(RemoveAt(f, i))
  PROVE  Winner(f) = Winner(RemoveAt(f, i))
<1>. DEFINE F == Searched(f, "candidate", SearchLimit)
            E == Searched(RemoveAt(f, i), "candidate", SearchLimit)
            w == RootOf(f[i])
<1>1. /\ F \in Seq(RowForms) /\ E \in Seq(RowForms)
      /\ \A o : o # w => Score(F, o) = Score(E, o)
      /\ Score(F, w) = Score(E, w) \/ Grown(Score(E, w), Score(F, w))
      /\ w \in Voted(E) => Voted(F) = Voted(E)
  BY ScoresGrow
<1>2. Winner(f) = ByEvidence(F).target.root /\ Winner(RemoveAt(f, i)) = ByEvidence(E).target.root
  BY DEF Winner
<1>. HIDE DEF F, E
<1>3. ByEvidence(E).target.root = w /\ w # NoRoot
  BY <1>2
<1>4. NoTarget.root = NoRoot
  BY DEF NoTarget
<1>5. Voted(E) # {} /\ ~Contested(E) /\ Leader(E) = w
  <2>1. ByEvidence(E).target # NoTarget
    BY <1>3, <1>4
  <2>. QED
    BY <1>3, <2>1, ByEvidenceIs
<1>6. w \in Voted(E)
  BY <1>1, <1>5, LeaderIsVoted
<1>7. Leader(F) = w /\ ~Contested(F)
  <2>. HIDE DEF w
  <2>1. Voted(F) = Voted(E)
    BY <1>1, <1>6
  <2>2. /\ \A o : o # Leader(E) => Score(F, o) = Score(E, o)
        /\ \/ Score(F, Leader(E)) = Score(E, Leader(E))
           \/ Grown(Score(E, Leader(E)), Score(F, Leader(E)))
    BY <1>1, <1>5
  <2>. QED
    BY <1>1, <1>5, <2>1, <2>2, LeaderStays
<1>8. ByEvidence(F).target.root = w
  BY <1>1, <1>5, <1>6, <1>7, ByEvidenceIs
<1>. QED
  BY <1>2, <1>3, <1>8

\* The action of WinnerStays.
Kept ==
  \A i \in DOMAIN evidence' :
    /\ Len(evidence') > Len(evidence)
    /\ RemoveAt(evidence', i) = evidence
    /\ Cardinality({j \in DOMAIN evidence' : "candidate" \in evidence'[j].hits})
         <= SearchLimit
    /\ RootOf(evidence'[i]) # NoRoot
    /\ RootOf(evidence'[i]) = Winner(evidence)
    => Winner(evidence') = Winner(evidence)

\* More evidence of the repository that the evidence makes out never makes it
\* out to be another one, or none, as long as the search returns all there is.
THEOREM MoreEvidenceKeepsTheWinner == PacketSpec => WinnerStays
<1>1. PacketInv' => Kept
  <2>. SUFFICES ASSUME PacketInv', NEW i \in DOMAIN evidence',
                       RemoveAt(evidence', i) = evidence,
                       Cardinality({j \in DOMAIN evidence' : "candidate" \in evidence'[j].hits})
                         <= SearchLimit,
                       RootOf(evidence'[i]) # NoRoot,
                       RootOf(evidence'[i]) = Winner(evidence)
                PROVE  Winner(evidence') = Winner(evidence)
    BY DEF Kept
  <2>1. evidence' \in Seq(RowForms)
    BY DEF PacketInv, PacketTypeOK
  <2>2. Cardinality(Hits(evidence', "candidate")) <= SearchLimit
    BY DEF Hits
  <2>. QED
    BY <2>1, <2>2, WinnerKept
<1>2. PacketInv /\ [PacketNext]_pvars => [Kept]_evidence
  BY <1>1, PacketStepHolds
<1>. QED
  BY <1>2, PacketSound, PTL DEF PacketSpec, WinnerStays, Kept
=============================================================================
