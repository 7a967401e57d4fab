--------------------------- MODULE StockListsProofs ---------------------------
(***************************************************************************)
(* Proofs about the two lists of symbols the code pages through: the       *)
(* symbols with an active alert (AlertSweep) and the catalog of US stocks  *)
(* (StockCatalog).  Both rest on one fact about a strict order of a finite *)
(* set: the places of its elements are 0, 1, 2, and so on, each once.      *)
(***************************************************************************)
EXTENDS StockCatalog, AlertSweep, FiniteSetTheorems, SequenceTheorems, TLAPS

\* R is a strict order of S, in which any two elements can be compared.
StrictOrder(S, R) ==
    /\ \A x \in S : <<x, x>> \notin R
    /\ \A x, y, z \in S : <<x, y>> \in R /\ <<y, z>> \in R => <<x, z>> \in R
    /\ \A x, y \in S : x = y \/ <<x, y>> \in R \/ <<y, x>> \in R

-----------------------------------------------------------------------------
(* The state of the sweep and of the catalog, strengthened until every step preserves it *)

\* The offset is a number of full pages.  What was passed over in this round waits for at
\* most as many cycles as the round has had, what is still ahead also for the last round.
SweepInv ==
    LET K == Cardinality(Tickers) \div BatchSize
        place(s) == PlaceIn(active, BySymbol, s)
    IN  /\ active \subseteq Tickers
        /\ unpolled \in [Tickers -> Nat]
        /\ \A s \in Tickers \ active : unpolled[s] = 0
        /\ \E j \in 0..K :
             /\ sweepAt = j * BatchSize
             /\ \A s \in active :
                  unpolled[s] <= IF place(s) < sweepAt THEN j - 1 ELSE K + j

\* Each stock once; and in order.
Complete(s) == Range(s) = Stocks /\ IsInjective(s)
Ordered(s) == Range(s) = Stocks /\ \A i, j \in 1..Len(s) : i < j => s[i] < s[j]

CatalogTypeOK ==
    /\ slice \in [Slices -> Seq(Stocks)]
    /\ catalog \in Slices \cup {NoList}
    /\ left \in Nat
    /\ at \in [Callers -> {"idle", "miss", "lead", "wait", "listed", "sorting", "publish", "read"}]
    /\ mine \in [Callers -> Slices \cup {NoList}]
    /\ raced \subseteq Slices

\* A caller holds a slice from the answer on.  It holds each stock once, in order when it is
\* published, unless it was sorted twice at once; so does the catalog.
CatalogInv ==
    /\ CatalogTypeOK
    /\ left > 0 => catalog \in Slices
    /\ catalog \in Slices \ raced => Ordered(slice[catalog])
    /\ \A c \in Callers :
         /\ at[c] \in {"idle", "miss", "lead", "wait"} <=> mine[c] = NoList
         /\ at[c] \in {"listed", "sorting"} /\ mine[c] \notin raced => Complete(slice[mine[c]])
         /\ at[c] \in {"publish", "read"} /\ mine[c] \notin raced => Ordered(slice[mine[c]])

-----------------------------------------------------------------------------
(* Places in an order *)

\* What comes before x comes before all that x comes before: places grow along the order.
LEMMA PlaceGrows ==
    ASSUME NEW S, IsFiniteSet(S), NEW R, StrictOrder(S, R), NEW x \in S, NEW y \in S, <<x, y>> \in R
    PROVE  PlaceIn(S, R, x) < PlaceIn(S, R, y)
<1> DEFINE B(z) == {u \in S : <<u, z>> \in R}
<1>1. B(x) \cup {x} \subseteq B(y) /\ x \notin B(x)
    BY DEF StrictOrder
<1>2. IsFiniteSet(B(x)) /\ IsFiniteSet(B(y))
    BY FS_Subset
<1>3. Cardinality(B(x) \cup {x}) = Cardinality(B(x)) + 1 /\ Cardinality(B(x)) \in Nat
    BY <1>1, <1>2, FS_AddElement, FS_CardinalityType
<1>4. Cardinality(B(x) \cup {x}) <= Cardinality(B(y)) /\ Cardinality(B(y)) \in Nat
    BY <1>1, <1>2, FS_Subset, FS_CardinalityType
<1>5. PlaceIn(S, R, x) = Cardinality(B(x)) /\ PlaceIn(S, R, y) = Cardinality(B(y))
    BY DEF PlaceIn
<1> HIDE DEF B
<1> QED BY <1>3, <1>4, <1>5

\* A place is a number smaller than the number of elements.
LEMMA PlaceType ==
    ASSUME NEW S, IsFiniteSet(S), NEW R, StrictOrder(S, R), NEW x \in S
    PROVE  PlaceIn(S, R, x) \in 0..(Cardinality(S) - 1)
<1> DEFINE B == {u \in S : <<u, x>> \in R}
<1>1. B \cup {x} \subseteq S /\ x \notin B
    BY DEF StrictOrder
<1>2. IsFiniteSet(B)
    BY FS_Subset
<1>3. Cardinality(B \cup {x}) = Cardinality(B) + 1 /\ Cardinality(B) \in Nat
    BY <1>1, <1>2, FS_AddElement, FS_CardinalityType
<1>4. Cardinality(B \cup {x}) <= Cardinality(S) /\ Cardinality(S) \in Nat
    BY <1>1, FS_Subset, FS_CardinalityType
<1>5. PlaceIn(S, R, x) = Cardinality(B)
    BY DEF PlaceIn
<1> HIDE DEF B
<1> QED BY <1>3, <1>4, <1>5

\* Two elements with one place are one element.
LEMMA PlaceIsUnique ==
    ASSUME NEW S, IsFiniteSet(S), NEW R, StrictOrder(S, R), NEW x \in S, NEW y \in S,
           PlaceIn(S, R, x) = PlaceIn(S, R, y)
    PROVE  x = y
<1>1. PlaceIn(S, R, x) \in Int
    BY PlaceType
<1>2. <<x, y>> \notin R /\ <<y, x>> \notin R
    BY <1>1, PlaceGrows
<1> QED BY <1>2 DEF StrictOrder

\* Every number smaller than the number of elements is a place.
LEMMA PlaceIsTaken ==
    ASSUME NEW S, IsFiniteSet(S), NEW R, StrictOrder(S, R), NEW k \in 0..(Cardinality(S) - 1)
    PROVE  \E x \in S : PlaceIn(S, R, x) = k
<1> DEFINE N == Cardinality(S)
           f == [x \in S |-> PlaceIn(S, R, x)]
<1>1. N \in Nat
    BY FS_CardinalityType
<1>2. f \in [S -> 0..(N - 1)]
    BY PlaceType
<1>3. f \in Injection(S, 0..(N - 1))
    BY <1>2, PlaceIsUnique DEF Injection, IsInjective
<1>4. IsFiniteSet(0..(N - 1)) /\ Cardinality(0..(N - 1)) = N
  <2>1. 0 \in Int /\ N - 1 \in Int
    BY <1>1
  <2> HIDE DEF N
  <2>2. /\ IsFiniteSet(0..(N - 1))
        /\ Cardinality(0..(N - 1)) = IF 0 > N - 1 THEN 0 ELSE (N - 1) - 0 + 1
    BY <2>1, FS_Interval
  <2> QED BY <1>1, <2>2
<1>5. f \in Surjection(S, 0..(N - 1))
    BY <1>3, <1>4, FS_Injection
<1> QED BY <1>5 DEF Surjection

\* The arranged list has each element at its place.
LEMMA ArrangedByPlace ==
    ASSUME NEW S, IsFiniteSet(S), NEW R, StrictOrder(S, R)
    PROVE  /\ Cardinality(S) \in Nat
           /\ Arranged(S, R) \in [1..Cardinality(S) -> S]
           /\ \A n \in 1..Cardinality(S) : PlaceIn(S, R, Arranged(S, R)[n]) = n - 1
           /\ \A x \in S : /\ PlaceIn(S, R, x) + 1 \in 1..Cardinality(S)
                           /\ Arranged(S, R)[PlaceIn(S, R, x) + 1] = x
<1> DEFINE N == Cardinality(S)
           A == Arranged(S, R)
<1>1. N \in Nat
    BY FS_CardinalityType
<1>2. \A n \in 1..N : A[n] \in S /\ PlaceIn(S, R, A[n]) = n - 1
  <2> SUFFICES ASSUME NEW n \in 1..N
               PROVE  A[n] \in S /\ PlaceIn(S, R, A[n]) = n - 1
      OBVIOUS
  <2>1. n - 1 \in 0..(N - 1)
      BY <1>1
  <2>2. \E x \in S : PlaceIn(S, R, x) = n - 1
      BY <2>1, PlaceIsTaken
  <2>3. A[n] = CHOOSE x \in S : PlaceIn(S, R, x) = n - 1
      BY DEF Arranged
  <2> QED BY <2>2, <2>3
<1>3. A \in [1..N -> S]
    BY <1>2 DEF Arranged
<1>4. ASSUME NEW x \in S
      PROVE  PlaceIn(S, R, x) + 1 \in 1..N /\ A[PlaceIn(S, R, x) + 1] = x
  <2>1. PlaceIn(S, R, x) \in 0..(N - 1)
      BY PlaceType
  <2>2. PlaceIn(S, R, x) + 1 \in 1..N
      BY <1>1, <2>1
  <2>3. PlaceIn(S, R, A[PlaceIn(S, R, x) + 1]) = PlaceIn(S, R, x)
      BY <1>1, <1>2, <2>1, <2>2
  <2> QED BY <1>2, <2>2, <2>3, PlaceIsUnique
<1> QED BY <1>1, <1>2, <1>3, <1>4

-----------------------------------------------------------------------------
(* The sweep over the symbols with an active alert *)

LEMMA SymbolsAreOrdered ==
    ASSUME NEW S \in SUBSET Tickers
    PROVE  IsFiniteSet(S) /\ StrictOrder(S, BySymbol)
<1>1. IsFiniteSet(S)
    BY SweepAssumption, FS_Subset
<1>2. \A x, y \in S : <<x, y>> \in BySymbol <=> x < y
    BY DEF BySymbol
<1>3. S \subseteq Int
    BY SweepAssumption
<1> QED BY <1>1, <1>2, <1>3 DEF StrictOrder

\* The pages that fit in a list, counted by division.
LEMMA PagesThatFit ==
    ASSUME NEW n \in Nat, NEW b \in Nat \ {0}, NEW j \in Nat
    PROVE  /\ n \div b \in Nat
           /\ j * b \in Nat
           /\ (j + 1) * b = j * b + b
           /\ j * b <= n <=> j <= n \div b
<1>1. n \div b \in Nat /\ n % b \in 0..(b - 1) /\ n = b * (n \div b) + (n % b)
    BY SMT
<1> DEFINE d == n \div b
           r == n % b
<1>2. d \in Nat /\ r \in 0..(b - 1) /\ n = b * d + r
    BY <1>1
<1> HIDE DEF d, r
<1>3. j * b \in Nat /\ (j + 1) * b = j * b + b
    BY SMT
<1>4. j <= d => j * b <= n
    BY <1>2, SMT
<1>5. ~(j <= d) => ~(j * b <= n)
    BY <1>2, SMT
<1> QED BY <1>2, <1>3, <1>4, <1>5 DEF d

\* The page at an offset holds the symbols whose place is on it; it is full when that many
\* symbols are left.
LEMMA PageByPlace ==
    ASSUME active \subseteq Tickers, sweepAt \in Nat
    PROVE  LET page == ActiveSymbols(sweepAt)
               n == Cardinality(active)
           IN  /\ n \in Nat
               /\ Len(page) = IF sweepAt + BatchSize <= n THEN BatchSize
                              ELSE IF sweepAt <= n THEN n - sweepAt ELSE 0
               /\ \A s \in active :
                     s \in ToSet(page) <=> /\ PlaceIn(active, BySymbol, s) >= sweepAt
                                           /\ PlaceIn(active, BySymbol, s) < sweepAt + BatchSize
<1> DEFINE L == Arranged(active, BySymbol)
           n == Cardinality(active)
           at0 == sweepAt
           top == IF n < at0 + BatchSize THEN n ELSE at0 + BatchSize
           page == SubSeq(L, at0 + 1, top)
           P == [s \in active |-> PlaceIn(active, BySymbol, s)]
<1>1. IsFiniteSet(active) /\ StrictOrder(active, BySymbol)
    BY SymbolsAreOrdered
<1>2. /\ n \in Nat /\ L \in [1..n -> active]
      /\ \A i \in 1..n : P[L[i]] = i - 1
      /\ \A s \in active : P[s] + 1 \in 1..n /\ L[P[s] + 1] = s
    BY <1>1, ArrangedByPlace
<1>3. \A s \in active : P[s] \in Nat
    BY <1>1, <1>2, PlaceType
<1>4. Len(L) = n /\ BatchSize \in Nat \ {0}
    BY <1>2, SweepAssumption
<1>5. ActiveSymbols(sweepAt) = page
    BY <1>4 DEF ActiveSymbols, Page
<1> HIDE DEF L, P, n
<1>6. at0 \in Nat /\ top \in Nat /\ top <= n
    BY <1>2, <1>4
<1>7. \A i \in (at0 + 1)..top : L[i] \in active
    BY <1>2, <1>6
<1>8. /\ page \in Seq(active)
      /\ Len(page) = IF at0 + 1 <= top THEN top - (at0 + 1) + 1 ELSE 0
      /\ \A i \in 1..(top - (at0 + 1) + 1) : page[i] = L[at0 + 1 + i - 1]
  <2>1. at0 + 1 \in Int /\ top \in Int
    BY <1>6
  <2> HIDE DEF top
  <2> QED BY <1>7, <2>1, SubSeqProperties
<1>9. Len(page) = IF at0 + BatchSize <= n THEN BatchSize
                  ELSE IF at0 <= n THEN n - at0 ELSE 0
    BY <1>2, <1>4, <1>6, <1>8
<1>10. ASSUME NEW s \in active
       PROVE  s \in ToSet(page) <=> P[s] >= at0 /\ P[s] < at0 + BatchSize
  <2>1. ASSUME s \in ToSet(page)
        PROVE  P[s] >= at0 /\ P[s] < at0 + BatchSize
    <3>1. PICK i \in 1..Len(page) : page[i] = s
        BY <1>8, <2>1 DEF ToSet
    <3>2. page[i] = L[at0 + 1 + i - 1] /\ at0 + i \in 1..n /\ i <= BatchSize /\ i >= 1
        BY <1>2, <1>4, <1>6, <1>8, <3>1
    <3>3. at0 + 1 + i - 1 = at0 + i
        BY <1>6, <3>1
    <3>4. L[at0 + i] = s
        BY <3>1, <3>2, <3>3, Zenon
    <3>5. P[L[at0 + i]] = at0 + i - 1
      <4> DEFINE k == at0 + i
      <4>1. k \in 1..n
          BY <3>2
      <4> HIDE DEF k
      <4>2. P[L[k]] = k - 1
          BY <1>2, <4>1
      <4> QED BY <4>2 DEF k
    <3>6. i \in Nat
        BY <3>1
    <3> QED BY <1>4, <1>6, <3>2, <3>4, <3>5, <3>6
  <2>2. ASSUME P[s] >= at0, P[s] < at0 + BatchSize
        PROVE  s \in ToSet(page)
    <3> DEFINE i == P[s] + 1 - at0
    <3>1. P[s] \in Nat /\ P[s] + 1 <= n
        BY <1>2, <1>3
    <3>a. i \in Nat /\ 1 <= i /\ at0 + i = P[s] + 1 /\ at0 + i <= top /\ at0 + 1 + i - 1 = P[s] + 1
        BY <1>2, <1>4, <1>6, <2>2, <3>1
    <3>2. i \in 1..(top - (at0 + 1) + 1) /\ i \in 1..Len(page) /\ at0 + 1 + i - 1 = P[s] + 1
      <4> HIDE DEF i, top
      <4> QED BY <1>6, <1>8, <3>a
    <3>3. page[i] = s
        BY <1>2, <1>8, <3>2
    <3>4. DOMAIN page = 1..Len(page)
        BY <1>8
    <3> QED BY <3>2, <3>3, <3>4 DEF ToSet
  <2> QED BY <2>1, <2>2
<1> QED BY <1>2, <1>5, <1>9, <1>10 DEF n, P

LEMMA SweepConstants ==
    LET K == Cardinality(Tickers) \div BatchSize IN
        /\ Cardinality(Tickers) \in Nat /\ BatchSize \in Nat \ {0} /\ K \in Nat
        /\ \A j \in Nat : /\ j * BatchSize \in Nat
                          /\ (j + 1) * BatchSize = j * BatchSize + BatchSize
                          /\ (j + 1) * BatchSize <= Cardinality(Tickers) => j + 1 <= K
<1>1. Cardinality(Tickers) \in Nat /\ BatchSize \in Nat \ {0}
    BY SweepAssumption, FS_CardinalityType
<1>2. \A j \in Nat : j + 1 \in Nat
    OBVIOUS
<1> QED BY <1>1, <1>2, PagesThatFit

\* A place of a symbol is a number.
LEMMA PlacesAreNumbers ==
    ASSUME NEW S \in SUBSET Tickers, NEW s \in S
    PROVE  PlaceIn(S, BySymbol, s) \in Nat
<1>1. PlaceIn(S, BySymbol, s) \in 0..(Cardinality(S) - 1) /\ Cardinality(S) \in Nat
    BY SymbolsAreOrdered, PlaceType, FS_CardinalityType
<1> QED BY <1>1

\* A symbol that joins the list moves no other to an earlier place.
LEMMA JoiningMovesOn ==
    ASSUME NEW S \in SUBSET Tickers, NEW t \in Tickers, NEW s \in S
    PROVE  PlaceIn(S, BySymbol, s) <= PlaceIn(S \cup {t}, BySymbol, s)
<1> DEFINE A == {y \in S : <<y, s>> \in BySymbol}
           B == {y \in S \cup {t} : <<y, s>> \in BySymbol}
<1>1. IsFiniteSet(S \cup {t})
    BY SymbolsAreOrdered, FS_AddElement
<1>2. IsFiniteSet(B)
    BY <1>1, FS_Subset
<1>3. A \in SUBSET B
    OBVIOUS
<1> HIDE DEF A, B
<1>4. Cardinality(A) <= Cardinality(B)
    BY <1>2, <1>3, FS_Subset
<1> QED BY <1>4 DEF PlaceIn, A, B

\* Every step of the sweep preserves its invariant.
LEMMA SweepStep == SweepInv /\ [SweepNext]_sweepVars => SweepInv'
<1> SUFFICES ASSUME SweepInv, [SweepNext]_sweepVars
             PROVE  SweepInv'
    OBVIOUS
<1> DEFINE K == Cardinality(Tickers) \div BatchSize
           at0(s) == PlaceIn(active, BySymbol, s)
<1>1. /\ active \subseteq Tickers
      /\ unpolled \in [Tickers -> Nat]
      /\ \A s \in Tickers \ active : unpolled[s] = 0
    BY DEF SweepInv
<1>2. PICK j \in 0..K :
          /\ sweepAt = j * BatchSize
          /\ \A s \in active :
               unpolled[s] <= IF at0(s) < sweepAt THEN j - 1 ELSE K + j
    BY DEF SweepInv
<1>3. K \in Nat /\ BatchSize \in Nat \ {0} /\ j \in Nat /\ sweepAt \in Nat
    BY <1>2, SweepConstants
<1>4. (j + 1) * BatchSize = sweepAt + BatchSize
    BY <1>2, <1>3, SweepConstants
<1>5. \A s \in active : at0(s) \in Nat
    BY <1>1, PlacesAreNumbers
\* The offset is zero in the first page only.
<1>6. j = 0 => sweepAt = 0
    BY <1>2, <1>3
<1>7. 0 * BatchSize = 0
    BY <1>3
<1> HIDE DEF K
<1>8. CASE RunCycle
  <2> DEFINE page == ActiveSymbols(sweepAt)
             n == Cardinality(active)
  <2>1. /\ n \in Nat
        /\ Len(page) = IF sweepAt + BatchSize <= n THEN BatchSize
                       ELSE IF sweepAt <= n THEN n - sweepAt ELSE 0
        /\ \A s \in active : s \in ToSet(page) <=> at0(s) >= sweepAt /\ at0(s) < sweepAt + BatchSize
      BY <1>1, <1>3, PageByPlace
  <2>2. /\ sweepAt' = IF Len(page) < BatchSize THEN 0 ELSE sweepAt + Len(page)
        /\ unpolled' = [s \in Tickers |->
                          IF s \in active \ ToSet(page) THEN unpolled[s] + 1 ELSE 0]
        /\ active' = active
      BY <1>8 DEF RunCycle, NextOffset
  <2>3. /\ active' \subseteq Tickers
        /\ unpolled' \in [Tickers -> Nat]
        /\ \A s \in Tickers \ active' : unpolled'[s] = 0
      BY <1>1, <2>2
  <2>4. \A s \in active : PlaceIn(active, BySymbol, s)' = at0(s)
      BY <2>2 DEF BySymbol
  <2> HIDE DEF page, n
  <2>5. CASE sweepAt + BatchSize <= n
    <3>1. n <= Cardinality(Tickers) /\ Cardinality(Tickers) \in Nat
        BY <1>1, SweepAssumption, FS_Subset, FS_CardinalityType DEF n
    <3>2. j + 1 \in 0..K
        BY <1>3, <1>4, <2>1, <2>5, <3>1, SweepConstants DEF K
    <3>3. sweepAt' = (j + 1) * BatchSize
        BY <1>3, <1>4, <2>1, <2>2, <2>5
    <3>4. ASSUME NEW s \in active
          PROVE  unpolled'[s] <= IF at0(s) < sweepAt' THEN (j + 1) - 1 ELSE K + (j + 1)
        <4>1. unpolled[s] \in Nat /\ at0(s) \in Nat
            BY <1>1, <1>5
        <4>2. unpolled[s] <= IF at0(s) < sweepAt THEN j - 1 ELSE K + j
            BY <1>2
        <4>3. unpolled'[s] = IF at0(s) >= sweepAt /\ at0(s) < sweepAt + BatchSize
                             THEN 0 ELSE unpolled[s] + 1
            BY <1>1, <2>1, <2>2
        <4> HIDE DEF at0
        <4> QED BY <1>3, <1>4, <3>3, <4>1, <4>2, <4>3
    <3> QED BY <2>2, <2>3, <2>4, <3>2, <3>3, <3>4 DEF SweepInv, K
  <2>6. CASE ~(sweepAt + BatchSize <= n)
    <3>1. sweepAt' = 0
        BY <1>3, <2>1, <2>2, <2>6
    <3>2. ASSUME NEW s \in active
          PROVE  unpolled'[s] <= K + 0 /\ ~(at0(s) < 0)
        <4>1. unpolled[s] \in Nat /\ at0(s) \in Nat
            BY <1>1, <1>5
        <4>2. unpolled[s] <= IF at0(s) < sweepAt THEN j - 1 ELSE K + j
            BY <1>2
        <4>3. unpolled'[s] = IF at0(s) >= sweepAt /\ at0(s) < sweepAt + BatchSize
                             THEN 0 ELSE unpolled[s] + 1
            BY <1>1, <2>1, <2>2
        <4>4. at0(s) \in 0..(n - 1)
            BY <1>1, SymbolsAreOrdered, PlaceType DEF n
        <4>5. j <= K
            BY <1>2
        <4> HIDE DEF at0
        <4> QED BY <1>3, <2>1, <2>6, <4>1, <4>2, <4>3, <4>4, <4>5
    <3>3. 0 \in 0..K /\ sweepAt' = 0 * BatchSize
        BY <1>3, <1>7, <3>1
    <3>4. ASSUME NEW s \in active'
          PROVE  unpolled'[s] <= IF PlaceIn(active, BySymbol, s)' < sweepAt' THEN 0 - 1 ELSE K + 0
      <4> HIDE DEF at0
      <4> QED BY <2>2, <2>4, <3>1, <3>2
    <3> QED BY <2>3, <3>3, <3>4 DEF SweepInv, K
  <2> QED BY <2>5, <2>6
\* A recount leaves nothing to bound; the offset is that of some page still.
<1>9. ASSUME NEW i \in 0..K, sweepAt' = i * BatchSize, Recount, active' \subseteq Tickers
      PROVE  SweepInv'
  <2>1. unpolled' = [s \in Tickers |-> 0] /\ unpolled' \in [Tickers -> Nat]
      BY <1>9 DEF Recount
  <2>2. i \in Nat /\ (i = 0 => sweepAt' = 0)
      BY <1>3, <1>9
  <2>3. ASSUME NEW s \in active'
        PROVE  unpolled'[s] <= IF PlaceIn(active', BySymbol, s) < sweepAt' THEN i - 1 ELSE K + i
    <3>1. PlaceIn(active', BySymbol, s) \in Nat
        BY <1>9, PlacesAreNumbers
    <3>2. unpolled'[s] = 0
        BY <1>9, <2>1
    <3> QED BY <1>3, <2>2, <3>1, <3>2
  <2> QED BY <1>9, <2>1, <2>3 DEF SweepInv, K, PlaceIn, BySymbol
<1>10. ASSUME NEW t \in Tickers, Activate(t)
       PROVE  SweepInv'
  <2>1. t \notin active /\ active' = active \cup {t} /\ sweepAt' = sweepAt /\ unpolled' = unpolled
      BY <1>10 DEF Activate
  <2>2. ASSUME NEW s \in active'
        PROVE  unpolled'[s] <= IF PlaceIn(active', BySymbol, s) < sweepAt' THEN j - 1 ELSE K + j
    <3>1. PlaceIn(active', BySymbol, s) \in Nat /\ unpolled[s] \in Nat
        BY <1>1, <2>1, PlacesAreNumbers
    <3>2. CASE s = t
      <4>1. unpolled[s] = 0
          BY <1>1, <2>1, <3>2
      <4> QED BY <1>3, <1>6, <2>1, <3>1, <4>1
    <3>3. CASE s \in active
      <4>1. at0(s) <= PlaceIn(active', BySymbol, s) /\ at0(s) \in Nat
          BY <1>1, <1>5, <2>1, <3>3, JoiningMovesOn
      <4>2. unpolled[s] <= IF at0(s) < sweepAt THEN j - 1 ELSE K + j
          BY <1>2, <3>3
      <4> HIDE DEF at0
      <4> QED BY <1>3, <2>1, <3>1, <4>1, <4>2
    <3> QED BY <2>1, <3>2, <3>3
  <2> QED BY <1>1, <1>2, <2>1, <2>2 DEF SweepInv, K, PlaceIn, BySymbol
<1>11. CASE UNCHANGED sweepVars \/ CycleFails
  <2>1. active' = active /\ sweepAt' = sweepAt /\ unpolled' = unpolled
      BY <1>11 DEF CycleFails, sweepVars
  <2> QED BY <2>1 DEF SweepInv, PlaceIn, BySymbol
<1>12. CASE Restart
  <2>1. 0 \in 0..K /\ sweepAt' = 0 * BatchSize /\ Recount /\ active' = active
      BY <1>3, <1>7, <1>12 DEF Restart
  <2> QED BY <1>1, <1>9, <2>1
<1>13. ASSUME NEW t \in Tickers, Deactivate(t)
       PROVE  SweepInv'
  <2>1. sweepAt' = j * BatchSize /\ Recount /\ active' \subseteq Tickers
      BY <1>1, <1>2, <1>13 DEF Deactivate
  <2> QED BY <1>9, <2>1
<1> QED BY <1>8, <1>10, <1>11, <1>12, <1>13 DEF SweepNext

\* SweepSpec: the bound on the wait of a symbol with an active alert, for every number of
\* symbols and size of a page.
THEOREM PollsInTime == SweepSpec => []PolledInTime
<1>1. SweepInit => SweepInv
  <2> SUFFICES ASSUME SweepInit PROVE SweepInv
      OBVIOUS
  <2> DEFINE K == Cardinality(Tickers) \div BatchSize
  <2>1. K \in Nat /\ 0 \in 0..K /\ sweepAt = 0 * BatchSize /\ sweepAt = 0
      BY SweepConstants DEF SweepInit
  <2>2. /\ active \subseteq Tickers /\ unpolled \in [Tickers -> Nat]
        /\ \A s \in Tickers : unpolled[s] = 0
      BY DEF SweepInit
  <2> HIDE DEF K
  <2>3. \A s \in active : unpolled[s] <= IF PlaceIn(active, BySymbol, s) < sweepAt THEN 0 - 1 ELSE K + 0
      BY <2>1, <2>2, PlacesAreNumbers
  <2> QED BY <2>1, <2>2, <2>3 DEF SweepInv, K
<1>2. SweepInv => PolledInTime
  <2> SUFFICES ASSUME SweepInv, NEW s \in active
               PROVE  unpolled[s] <= 2 * (Cardinality(Tickers) \div BatchSize)
      BY DEF PolledInTime
  <2> DEFINE K == Cardinality(Tickers) \div BatchSize
  <2>1. K \in Nat /\ unpolled[s] \in Nat
      BY SweepConstants DEF SweepInv
  <2>2. PICK j \in 0..K :
            unpolled[s] <= IF PlaceIn(active, BySymbol, s) < sweepAt THEN j - 1 ELSE K + j
      BY DEF SweepInv
  <2> HIDE DEF K
  <2>3. unpolled[s] <= 2 * K
      BY <2>1, <2>2
  <2> QED BY <2>3 DEF K
<1> QED BY <1>1, <1>2, SweepStep, PTL DEF SweepSpec

-----------------------------------------------------------------------------
(* Lists of stocks *)

LEMMA StocksAreNumbers == Stocks \subseteq Nat /\ Stocks \subseteq Int
<1>1. Stocks \subseteq Nat
    BY CatalogAssumption, Zenon
<1> QED BY <1>1

\* The entries picked at the positions P, in the order R: which they are and how they stand.
LEMMA PickedInOrder ==
    ASSUME NEW S, NEW list, NEW P, NEW R, IsFiniteSet(P), StrictOrder(P, R),
           \A i \in P : list[i] \in S
    PROVE  LET picked == Picked(list, P, R)
               order == Arranged(P, R)
               n == Cardinality(P)
           IN  /\ n \in Nat /\ picked \in Seq(S) /\ Len(picked) = n
               /\ picked \in [1..n -> S] /\ order \in [1..n -> P]
               /\ Range(picked) = {list[i] : i \in P}
               /\ \A k \in 1..n : /\ picked[k] = list[order[k]]
                                  /\ PlaceIn(P, R, order[k]) = k - 1
               /\ \A k, m \in 1..n : k < m => <<order[k], order[m]>> \in R
<1> DEFINE picked == Picked(list, P, R)
           order == Arranged(P, R)
           n == Cardinality(P)
<1>1. /\ n \in Nat /\ order \in [1..n -> P]
      /\ \A k \in 1..n : PlaceIn(P, R, order[k]) = k - 1
      /\ \A i \in P : \E k \in 1..n : order[k] = i
    BY ArrangedByPlace
<1>2. picked = [k \in 1..n |-> list[order[k]]]
    BY DEF Picked
<1> HIDE DEF picked, order, n
<1>3. picked \in [1..n -> S]
    BY <1>1, <1>2
<1>4. picked \in Seq(S) /\ Len(picked) = n
    BY <1>1, <1>3
<1>5. Range(picked) = {list[i] : i \in P}
    BY <1>1, <1>2 DEF Range
<1>6. ASSUME NEW k \in 1..n, NEW m \in 1..n, k < m
      PROVE  <<order[k], order[m]>> \in R
  <2>1. order[k] \in P /\ order[m] \in P
      BY <1>1
  <2>2. PlaceIn(P, R, order[k]) = k - 1 /\ PlaceIn(P, R, order[m]) = m - 1
      BY <1>1
  <2>3. order[k] # order[m]
      BY <1>1, <1>6, <2>2
  <2>4. <<order[m], order[k]>> \in R => PlaceIn(P, R, order[m]) < PlaceIn(P, R, order[k])
      BY <2>1, PlaceGrows
  <2>5. ~(m - 1 < k - 1)
      BY <1>1, <1>6
  <2> QED BY <2>1, <2>2, <2>3, <2>4, <2>5 DEF StrictOrder
<1> QED BY <1>1, <1>2, <1>3, <1>4, <1>5, <1>6 DEF picked, order, n

LEMMA PositionsAreOrdered ==
    ASSUME NEW list \in Seq(Stocks), NEW P \in SUBSET DOMAIN list, NEW rank \in [Stocks -> Int]
    PROVE  IsFiniteSet(P) /\ StrictOrder(P, ByRank(list, P, rank))
<1>1. DOMAIN list = 1..Len(list) /\ Len(list) \in Nat /\ \A i \in DOMAIN list : list[i] \in Stocks
    OBVIOUS
<1>2. IsFiniteSet(DOMAIN list)
    BY <1>1, FS_Interval
<1>3. IsFiniteSet(P)
    BY <1>2, FS_Subset
<1> DEFINE R == ByRank(list, P, rank)
<1>4. \A i, j \in P :
        <<i, j>> \in R <=> \/ rank[list[i]] < rank[list[j]]
                           \/ rank[list[i]] = rank[list[j]] /\ list[i] < list[j]
                           \/ list[i] = list[j] /\ i < j
    BY DEF ByRank
<1>5. Stocks \subseteq Int
    BY StocksAreNumbers
<1>5a. \A i \in P : i \in Int /\ list[i] \in Int /\ rank[list[i]] \in Int
    BY <1>1, <1>5
<1> HIDE DEF R
<1>6. \A i \in P : <<i, i>> \notin R
    BY <1>4, <1>5a
<1>7. ASSUME NEW i \in P, NEW j \in P
      PROVE  i = j \/ <<i, j>> \in R \/ <<j, i>> \in R
  <2> DEFINE x == list[i]
             y == list[j]
  <2>1. /\ i \in Int /\ j \in Int /\ x \in Int /\ y \in Int /\ rank[x] \in Int /\ rank[y] \in Int
        /\ <<i, j>> \in R <=> rank[x] < rank[y] \/ (rank[x] = rank[y] /\ x < y) \/ (x = y /\ i < j)
        /\ <<j, i>> \in R <=> rank[y] < rank[x] \/ (rank[y] = rank[x] /\ y < x) \/ (y = x /\ j < i)
      BY <1>4, <1>5a
  <2> HIDE DEF x, y
  <2> QED BY <2>1
<1>8. ASSUME NEW i \in P, NEW j \in P, NEW k \in P, <<i, j>> \in R, <<j, k>> \in R
      PROVE  <<i, k>> \in R
  <2> DEFINE x == list[i]
             y == list[j]
             z == list[k]
  <2>1. /\ i \in Int /\ j \in Int /\ k \in Int /\ x \in Int /\ y \in Int /\ z \in Int
        /\ rank[x] \in Int /\ rank[y] \in Int /\ rank[z] \in Int
      BY <1>5a
  <2>2. /\ <<i, k>> \in R <=> rank[x] < rank[z] \/ (rank[x] = rank[z] /\ x < z) \/ (x = z /\ i < k)
        /\ rank[x] < rank[y] \/ (rank[x] = rank[y] /\ x < y) \/ (x = y /\ i < j)
        /\ rank[y] < rank[z] \/ (rank[y] = rank[z] /\ y < z) \/ (y = z /\ j < k)
      BY <1>4, <1>8
  <2> HIDE DEF x, y, z
  <2> QED BY <2>1, <2>2
<1> QED BY <1>3, <1>6, <1>7, <1>8 DEF StrictOrder, R

\* A stock that is in a list has a first position there.
LEMMA FirstPosition ==
    ASSUME NEW S, NEW list \in Seq(S), NEW x \in Range(list)
    PROVE  \E i \in DOMAIN list : list[i] = x /\ \A j \in 1..(i - 1) : list[j] # list[i]
<1> DEFINE P == {i \in DOMAIN list : list[i] = x}
           R == {p \in P \X P : p[1] < p[2]}
<1>1. DOMAIN list = 1..Len(list) /\ Len(list) \in Nat
    OBVIOUS
<1>2. IsFiniteSet(P)
  <2>1. IsFiniteSet(DOMAIN list)
      BY <1>1, FS_Interval
  <2> QED BY <2>1, FS_Subset
<1>3. P \subseteq Int /\ P # {}
    BY <1>1 DEF Range
<1>4. \A i, j \in P : <<i, j>> \in R <=> i < j
    OBVIOUS
<1>5. StrictOrder(P, R)
  <2> HIDE DEF P, R
  <2> QED BY <1>3, <1>4 DEF StrictOrder
<1>6. Cardinality(P) \in Nat /\ Cardinality(P) # 0
    BY <1>2, <1>3, FS_CardinalityType, FS_EmptySet
<1>7. 0 \in 0..(Cardinality(P) - 1)
    BY <1>6
<1>8. PICK i \in P : PlaceIn(P, R, i) = 0
    BY <1>2, <1>5, <1>7, PlaceIsTaken
<1>9. ASSUME NEW j \in P, j < i
      PROVE  FALSE
  <2>1. PlaceIn(P, R, j) < 0 /\ PlaceIn(P, R, j) \in 0..(Cardinality(P) - 1)
    <3>1. <<j, i>> \in R
        BY <1>4, <1>9
    <3> HIDE DEF P, R
    <3> QED BY <1>2, <1>5, <1>8, <3>1, PlaceGrows, PlaceType
  <2> QED BY <1>6, <2>1
<1>10. \A j \in 1..(i - 1) : j \in DOMAIN list /\ j < i
    BY <1>1
<1> QED BY <1>8, <1>9, <1>10

\* The list a flight answers with: each supported stock once.
LEMMA ResponseIsComplete ==
    ASSUME NEW r \in Responses
    PROVE  SearchUSStocks(r) \in Seq(Stocks) /\ Complete(SearchUSStocks(r))
<1> DEFINE first == {i \in DOMAIN r : r[i] \in Stocks /\ \A j \in 1..(i - 1) : r[j] # r[i]}
           R == {p \in first \X first : p[1] < p[2]}
           list == Picked(r, first, R)
           order == Arranged(first, R)
           n == Cardinality(first)
<1>1. r \in Seq(Stocks \cup Unsupported) /\ Stocks \subseteq Range(r)
    BY CatalogAssumption
<1>2. DOMAIN r = 1..Len(r) /\ Len(r) \in Nat
    BY <1>1
<1>3. IsFiniteSet(first)
  <2>1. IsFiniteSet(DOMAIN r)
      BY <1>2, FS_Interval
  <2> QED BY <2>1, FS_Subset
<1>4. first \subseteq Int /\ \A i, j \in first : <<i, j>> \in R <=> i < j
    BY <1>2
<1>5. \A i \in first : r[i] \in Stocks
    OBVIOUS
<1>6. \A i, j \in first : r[i] = r[j] => i = j
    BY <1>2
<1>7. {r[i] : i \in first} = Stocks
    BY <1>1, FirstPosition
<1> HIDE DEF first, R
<1>8. StrictOrder(first, R)
    BY <1>4 DEF StrictOrder
<1>9. /\ n \in Nat /\ list \in Seq(Stocks) /\ list \in [1..n -> Stocks] /\ order \in [1..n -> first]
      /\ Range(list) = {r[i] : i \in first}
      /\ \A k \in 1..n : list[k] = r[order[k]] /\ PlaceIn(first, R, order[k]) = k - 1
    BY <1>3, <1>5, <1>8, PickedInOrder
<1> HIDE DEF list, order, n
<1>10. ASSUME NEW k \in 1..n, NEW m \in 1..n, list[k] = list[m]
       PROVE  k = m
  <2>1. order[k] \in first /\ order[m] \in first /\ r[order[k]] = r[order[m]]
      BY <1>9, <1>10
  <2>1a. order[k] = order[m]
      BY <1>6, <2>1
  <2>2. k - 1 = m - 1
      BY <1>9, <2>1a
  <2> QED BY <1>9, <2>2
<1>11. IsInjective(list)
    BY <1>9, <1>10 DEF IsInjective
<1> QED BY <1>7, <1>9, <1>11 DEF SearchUSStocks, Complete, first, R, list

\* Sorting keeps a list of stocks a list of stocks; one with each stock once comes in order.
LEMMA SortedIsOrdered ==
    ASSUME NEW list \in Seq(Stocks)
    PROVE  /\ Sorted(list) \in Seq(Stocks)
           /\ Complete(list) => Ordered(Sorted(list))
<1> DEFINE rank == [x \in Stocks |-> 0]
           P == DOMAIN list
           R == ByRank(list, P, rank)
           picked == Picked(list, P, R)
           order == Arranged(P, R)
           n == Cardinality(P)
<1>1. rank \in [Stocks -> Int] /\ \A i \in P : list[i] \in Stocks
    OBVIOUS
<1>2. IsFiniteSet(P) /\ StrictOrder(P, R)
    BY <1>1, PositionsAreOrdered
<1>3. /\ n \in Nat /\ picked \in Seq(Stocks) /\ Len(picked) = n
      /\ order \in [1..n -> P]
      /\ Range(picked) = {list[i] : i \in P}
      /\ \A k \in 1..n : picked[k] = list[order[k]] /\ PlaceIn(P, R, order[k]) = k - 1
      /\ \A k, m \in 1..n : k < m => <<order[k], order[m]>> \in R
  <2> HIDE DEF R
  <2> QED BY <1>1, <1>2, PickedInOrder
<1>4. \A i, j \in P : <<i, j>> \in R => list[i] < list[j] \/ (list[i] = list[j] /\ i < j)
  <2>1. \A i \in P : rank[list[i]] = 0
      BY <1>1
  <2>2. \A i, j \in P :
          <<i, j>> \in R <=> \/ rank[list[i]] < rank[list[j]]
                             \/ rank[list[i]] = rank[list[j]] /\ list[i] < list[j]
                             \/ list[i] = list[j] /\ i < j
      BY DEF ByRank
  <2> HIDE DEF rank, R
  <2> QED BY <2>1, <2>2
<1>5. Sorted(list) = picked
    BY DEF Sorted
<1>6. P \subseteq Int
    OBVIOUS
<1> HIDE DEF R, picked, order, n
<1>7. ASSUME Complete(list)
      PROVE  Ordered(picked)
  <2>1. Range(picked) = Stocks /\ \A i, j \in P : list[i] = list[j] => i = j
      BY <1>3, <1>7 DEF Complete, IsInjective, Range
  <2>2. ASSUME NEW k \in 1..n, NEW m \in 1..n, k < m
        PROVE  picked[k] < picked[m]
    <3>1. order[k] \in P /\ order[m] \in P /\ <<order[k], order[m]>> \in R
        BY <1>3, <2>2
    <3>2. ~(order[k] < order[k])
        BY <1>6, <3>1
    <3>3. list[order[k]] < list[order[m]]
        BY <1>4, <2>1, <3>1, <3>2
    <3> QED BY <1>3, <3>3
  <2> QED BY <1>3, <2>1, <2>2 DEF Ordered
<1> QED BY <1>3, <1>5, <1>7

-----------------------------------------------------------------------------
(* The catalog *)

\* The caller that gets an answer holds no slice, so that with one slice more than callers
\* there is one that neither a caller nor the catalog holds.
LEMMA UnusedIsFree ==
    ASSUME CatalogTypeOK, NEW c \in Callers, mine[c] = NoList
    PROVE  Unused \in Slices /\ Unused # catalog /\ \A x \in Callers : mine[x] # Unused
<1> DEFINE f == [x \in Callers |-> IF x = c THEN catalog ELSE mine[x]]
           T == Range(f)
           n == Cardinality(Callers)
<1>1. n \in Nat /\ IsFiniteSet(Callers)
    BY CatalogAssumption, FS_CardinalityType
<1>2. f \in Surjection(Callers, T)
    BY DEF Surjection, Range
<1>3. IsFiniteSet(T) /\ Cardinality(T) <= n /\ Cardinality(T) \in Nat
    BY <1>1, <1>2, FS_Surjection, FS_CardinalityType
<1>4. IsFiniteSet(Slices) /\ Cardinality(Slices) = n + 1
  <2>1. 0 \in Int /\ n \in Int
      BY <1>1
  <2>2. IsFiniteSet(0..n) /\ Cardinality(0..n) = IF 0 > n THEN 0 ELSE n - 0 + 1
      BY <2>1, FS_Interval
  <2> HIDE DEF n
  <2>3. Cardinality(0..n) = n + 1
      BY <1>1, <2>2
  <2> QED BY <2>2, <2>3 DEF Slices, n
<1>5. ~(Slices \subseteq T)
  <2>1. Slices \subseteq T => Cardinality(Slices) <= Cardinality(T)
      BY <1>3, FS_Subset
  <2> HIDE DEF n, T
  <2> QED BY <1>1, <1>3, <1>4, <2>1
<1>6. PICK i \in Slices : i \notin T
    BY <1>5
<1>7. i # catalog /\ \A x \in Callers : mine[x] # i
  <2>1. \A x \in Callers : f[x] # i
      BY <1>6 DEF Range
  <2>2. NoList # i
      BY NoListAssumption
  <2> QED BY <2>1, <2>2
<1> QED BY <1>7 DEF Unused

LEMMA EmptyList == <<>> \in Seq(Stocks)
OBVIOUS

LEMMA CatalogInvInit == CatalogInit => CatalogInv
<1> SUFFICES ASSUME CatalogInit PROVE CatalogInv
    OBVIOUS
<1>1. CatalogTypeOK
    BY EmptyList DEF CatalogInit, CatalogTypeOK
<1> QED BY <1>1, NoListAssumption DEF CatalogInit, CatalogInv

\* Steps that leave the slices and the races alone.
LEMMA CallerStep ==
    ASSUME CatalogInv, NEW c \in Callers,
           \/ CatalogFresh(c) \/ CatalogExpired(c) \/ CatalogFlight(c) \/ CatalogError(c)
           \/ Publish(c) \/ Read(c)
    PROVE  CatalogInv'
<1>1. CatalogTypeOK /\ NoList \notin Slices /\ CatalogTTL \in Nat
    BY NoListAssumption, CatalogAssumption DEF CatalogInv
<1>2. slice' = slice /\ raced' = raced
    BY DEF CatalogFresh, CatalogExpired, CatalogFlight, CatalogError, Publish, Read
<1>3. \A x \in Callers : \A i \in Slices :
         /\ Complete(slice[i])' <=> Complete(slice[i])
         /\ Ordered(slice[i])' <=> Ordered(slice[i])
    BY <1>2 DEF Complete, Ordered
<1>4. CASE CatalogFresh(c)
  <2>1. catalog \in Slices /\ (catalog \notin raced => Ordered(slice[catalog])) /\ left > 0
      BY <1>4 DEF CatalogFresh, CatalogInv
  <2>2. CatalogTypeOK'
      BY <1>1, <1>4, <2>1 DEF CatalogFresh, CatalogTypeOK, At
  <2>3. catalog' = catalog /\ left' = left
      BY <1>4 DEF CatalogFresh
  <2>4. ASSUME NEW x \in Callers
        PROVE  \/ x # c /\ at'[x] = at[x] /\ mine'[x] = mine[x]
               \/ x = c /\ at'[x] = "read" /\ mine'[x] = catalog
      BY <1>1, <1>4 DEF CatalogFresh, At, CatalogTypeOK
  <2> QED BY <1>1, <1>2, <2>1, <2>2, <2>3, <2>4 DEF CatalogInv, Complete, Ordered
<1>5. CASE CatalogExpired(c) \/ CatalogFlight(c)
  <2>1. CatalogTypeOK'
      BY <1>1, <1>5 DEF CatalogExpired, CatalogFlight, CatalogTypeOK, At
  <2>2. catalog' = catalog /\ left' = left /\ mine' = mine
      BY <1>5 DEF CatalogExpired, CatalogFlight
  <2>3. ASSUME NEW x \in Callers
        PROVE  \/ at'[x] = at[x]
               \/ at[x] \in {"idle", "miss"} /\ at'[x] \in {"miss", "lead", "wait"}
      BY <1>1, <1>5 DEF CatalogExpired, CatalogFlight, At, CatalogTypeOK
  <2> QED BY <1>1, <1>2, <2>1, <2>2, <2>3 DEF CatalogInv, Complete, Ordered
<1>6. CASE CatalogError(c)
  <2>1. CatalogTypeOK'
      BY <1>1, <1>6 DEF CatalogError, CatalogTypeOK
  <2>2. catalog' = catalog /\ left' = left /\ mine' = mine
      BY <1>6 DEF CatalogError
  <2>3. ASSUME NEW x \in Callers
        PROVE  at'[x] = at[x] \/ (at[x] \in {"lead", "wait"} /\ at'[x] = "idle")
      BY <1>1, <1>6 DEF CatalogError, CatalogTypeOK
  <2> QED BY <1>1, <1>2, <2>1, <2>2, <2>3 DEF CatalogInv, Complete, Ordered
<1>7. CASE Publish(c)
  <2>1. mine[c] \in Slices /\ (mine[c] \notin raced => Ordered(slice[mine[c]])) /\ at[c] = "publish"
      BY <1>1, <1>7 DEF Publish, CatalogInv, CatalogTypeOK
  <2>2. CatalogTypeOK'
      BY <1>1, <1>7, <2>1 DEF Publish, CatalogTypeOK, At
  <2>3. catalog' = mine[c] /\ mine' = mine
      BY <1>7 DEF Publish
  <2>4. ASSUME NEW x \in Callers
        PROVE  at'[x] = at[x] \/ (at[x] = "publish" /\ at'[x] = "read")
      BY <1>1, <1>7, <2>1 DEF Publish, At, CatalogTypeOK
  <2> QED BY <1>1, <1>2, <2>1, <2>2, <2>3, <2>4 DEF CatalogInv, Complete, Ordered
<1>8. CASE Read(c)
  <2>1. CatalogTypeOK'
      BY <1>1, <1>8 DEF Read, CatalogTypeOK, At
  <2>2. catalog' = catalog /\ left' = left
      BY <1>8 DEF Read
  <2>3. ASSUME NEW x \in Callers
        PROVE  \/ x # c /\ at'[x] = at[x] /\ mine'[x] = mine[x]
               \/ x = c /\ at'[x] = "idle" /\ mine'[x] = NoList
      BY <1>1, <1>8 DEF Read, At, CatalogTypeOK
  <2> QED BY <1>1, <1>2, <2>1, <2>2, <2>3 DEF CatalogInv, Complete, Ordered
<1> QED BY <1>4, <1>5, <1>6, <1>7, <1>8

\* All callers of the flight get a slice nobody holds, with each stock once.
LEMMA AnswerStep ==
    ASSUME CatalogInv, NEW c \in Callers, NEW r \in Responses, CatalogAnswer(c, r)
    PROVE  CatalogInv'
<1> DEFINE i == Unused
<1>1. CatalogTypeOK /\ NoList \notin Slices /\ mine[c] = NoList
    BY NoListAssumption DEF CatalogInv, CatalogAnswer
<1>2. i \in Slices /\ i # catalog /\ \A x \in Callers : mine[x] # i
    BY <1>1, UnusedIsFree
<1>3. SearchUSStocks(r) \in Seq(Stocks) /\ Complete(SearchUSStocks(r))
    BY ResponseIsComplete
<1>4. /\ slice' = [slice EXCEPT ![i] = SearchUSStocks(r)]
      /\ raced' = raced \ {i}
      /\ catalog' = catalog /\ left' = left
      /\ at' = [x \in Callers |-> IF at[x] \in {"lead", "wait"} THEN "listed" ELSE at[x]]
      /\ mine' = [x \in Callers |-> IF at[x] \in {"lead", "wait"} THEN i ELSE mine[x]]
    BY DEF CatalogAnswer
<1> HIDE DEF i
<1>5. CatalogTypeOK'
    BY <1>1, <1>2, <1>3, <1>4 DEF CatalogTypeOK
<1>6. /\ Complete(slice'[i])
      /\ \A k \in Slices : k # i => slice'[k] = slice[k] /\ (k \in raced' <=> k \in raced)
    BY <1>1, <1>2, <1>3, <1>4 DEF CatalogTypeOK
<1>7. catalog' \in Slices \ raced' => Ordered(slice'[catalog'])
    BY <1>2, <1>4, <1>6 DEF CatalogInv
<1>8. ASSUME NEW x \in Callers
      PROVE  /\ at'[x] \in {"idle", "miss", "lead", "wait"} <=> mine'[x] = NoList
             /\ at'[x] \in {"listed", "sorting"} /\ mine'[x] \notin raced' => Complete(slice'[mine'[x]])
             /\ at'[x] \in {"publish", "read"} /\ mine'[x] \notin raced' => Ordered(slice'[mine'[x]])
  <2>1. CASE at[x] \in {"lead", "wait"}
      BY <1>1, <1>2, <1>4, <1>6, <2>1
  <2>2. CASE at[x] \notin {"lead", "wait"}
    <3>1. at'[x] = at[x] /\ mine'[x] = mine[x] /\ mine[x] # i /\ mine[x] \in Slices \cup {NoList}
        BY <1>1, <1>2, <1>4, <2>2 DEF CatalogTypeOK
    <3>2. mine[x] \in Slices => slice'[mine[x]] = slice[mine[x]] /\ (mine[x] \in raced' <=> mine[x] \in raced)
        BY <1>6, <3>1
    <3> QED BY <1>1, <3>1, <3>2 DEF CatalogInv
  <2> QED BY <2>1, <2>2
<1>9. left' > 0 => catalog' \in Slices
    BY <1>4 DEF CatalogInv
<1> QED BY <1>5, <1>7, <1>8, <1>9 DEF CatalogInv, Complete, Ordered

LEMMA SortBeginStep ==
    ASSUME CatalogInv, NEW c \in Callers, SortBegin(c)
    PROVE  CatalogInv'
<1>1. CatalogTypeOK /\ NoList \notin Slices /\ mine[c] \in Slices /\ at[c] = "listed"
    BY NoListAssumption DEF CatalogInv, SortBegin, CatalogTypeOK
<1>2. /\ slice' = slice /\ catalog' = catalog /\ left' = left /\ mine' = mine
      /\ raced \subseteq raced' /\ raced' \subseteq raced \cup {mine[c]}
      /\ at' = [at EXCEPT ![c] = "sorting"]
    BY DEF SortBegin, At
<1>3. CatalogTypeOK'
    BY <1>1, <1>2 DEF CatalogTypeOK
<1>4. \A x \in Callers : at'[x] = at[x] \/ (at[x] = "listed" /\ at'[x] = "sorting")
    BY <1>1, <1>2 DEF CatalogTypeOK
<1> QED BY <1>1, <1>2, <1>3, <1>4 DEF CatalogInv, Complete, Ordered

\* Sorting a slice that others hold, the catalog among them, leaves it in order for them too.
LEMMA SortEndStep ==
    ASSUME CatalogInv, NEW c \in Callers, SortEnd(c)
    PROVE  CatalogInv'
<1> DEFINE i == mine[c]
<1>1. CatalogTypeOK /\ NoList \notin Slices /\ i \in Slices /\ at[c] = "sorting"
    BY NoListAssumption DEF CatalogInv, SortEnd, CatalogTypeOK
<1>2. /\ catalog' = catalog /\ left' = left /\ mine' = mine /\ raced' = raced
      /\ at' = [at EXCEPT ![c] = "publish"]
    BY DEF SortEnd, At
<1>3. slice[i] \in Seq(Stocks)
    BY <1>1 DEF CatalogTypeOK
<1>4. PICK s \in Seq(Stocks) : /\ slice' = [slice EXCEPT ![i] = s]
                               /\ i \notin raced => s = Sorted(slice[i])
  <2>1. CASE i \notin raced
      BY <1>3, <2>1, SortedIsOrdered DEF SortEnd
  <2>2. CASE i \in raced
    <3>1. PICK s \in [1..Len(slice[i]) -> Stocks] : slice' = [slice EXCEPT ![i] = s]
        BY <2>2 DEF SortEnd
    <3>2. Len(slice[i]) \in Nat
        BY <1>3
    <3>3. s \in Seq(Stocks)
        BY <3>2
    <3> QED BY <2>2, <3>1, <3>3
  <2> QED BY <2>1, <2>2
<1>5. i \notin raced => Ordered(s)
    BY <1>1, <1>3, <1>4, SortedIsOrdered DEF CatalogInv
<1> HIDE DEF i
<1>6. CatalogTypeOK'
    BY <1>1, <1>2, <1>4 DEF CatalogTypeOK
<1>7. slice'[i] = s /\ \A k \in Slices : k # i => slice'[k] = slice[k]
    BY <1>1, <1>4 DEF CatalogTypeOK
<1>8. ASSUME NEW k \in Slices, k \notin raced, Ordered(slice[k])
      PROVE  Ordered(slice'[k])
    BY <1>5, <1>7, <1>8
<1>9. \A t : Ordered(t) /\ t \in Seq(Stocks) => Complete(t)
  <2> SUFFICES ASSUME NEW t, Ordered(t), t \in Seq(Stocks)
               PROVE  IsInjective(t)
      BY DEF Complete, Ordered
  <2>0. DOMAIN t = 1..Len(t) /\ Len(t) \in Nat /\ \A k \in 1..Len(t) : t[k] \in Stocks
      OBVIOUS
  <2>1. DOMAIN t = 1..Len(t) /\ \A k \in 1..Len(t) : t[k] \in Int
      BY <2>0, StocksAreNumbers
  <2>2. ASSUME NEW k \in 1..Len(t), NEW m \in 1..Len(t), t[k] = t[m]
        PROVE  k = m
      BY <2>1, <2>2 DEF Ordered
  <2> QED BY <2>1, <2>2 DEF IsInjective
<1>10. ASSUME NEW k \in Slices, k \notin raced, Complete(slice[k])
       PROVE  Complete(slice'[k])
    BY <1>4, <1>5, <1>7, <1>9, <1>10
<1>11. ASSUME NEW x \in Callers
       PROVE  /\ at'[x] \in {"idle", "miss", "lead", "wait"} <=> mine'[x] = NoList
              /\ at'[x] \in {"listed", "sorting"} /\ mine'[x] \notin raced' => Complete(slice'[mine'[x]])
              /\ at'[x] \in {"publish", "read"} /\ mine'[x] \notin raced' => Ordered(slice'[mine'[x]])
  <2>1. CASE x = c
      BY <1>1, <1>2, <1>5, <1>7, <2>1 DEF CatalogTypeOK, i
  <2>2. CASE x # c
    <3>1. at'[x] = at[x] /\ mine'[x] = mine[x] /\ mine[x] \in Slices \cup {NoList}
        BY <1>1, <1>2, <2>2 DEF CatalogTypeOK
    <3> QED BY <1>1, <1>2, <1>8, <1>10, <3>1 DEF CatalogInv
  <2> QED BY <2>1, <2>2
<1>12. catalog' \in Slices \ raced' => Ordered(slice'[catalog'])
    BY <1>2, <1>8 DEF CatalogInv
<1>13. left' > 0 => catalog' \in Slices
    BY <1>2 DEF CatalogInv
<1> QED BY <1>6, <1>11, <1>12, <1>13 DEF CatalogInv, Complete, Ordered

LEMMA CatalogInvStep == CatalogInv /\ [CatalogNext]_catalogVars => CatalogInv'
<1> SUFFICES ASSUME CatalogInv, [CatalogNext]_catalogVars
             PROVE  CatalogInv'
    OBVIOUS
<1>1. ASSUME CatalogElapse
      PROVE  CatalogInv'
  <2>1. /\ left > 0 /\ left' = left - 1 /\ left \in Nat
        /\ slice' = slice /\ catalog' = catalog /\ at' = at /\ mine' = mine /\ raced' = raced
      BY <1>1 DEF CatalogElapse, CatalogInv, CatalogTypeOK
  <2>2. left' \in Nat
      BY <2>1
  <2> QED BY <2>1, <2>2 DEF CatalogInv, CatalogTypeOK, Complete, Ordered
<1>2. ASSUME UNCHANGED catalogVars
      PROVE  CatalogInv'
    BY <1>2 DEF CatalogInv, CatalogTypeOK, Complete, Ordered, catalogVars
<1>3. ASSUME NEW c \in Callers,
             \/ CatalogFresh(c) \/ CatalogExpired(c) \/ CatalogFlight(c) \/ CatalogError(c)
             \/ SortBegin(c) \/ SortEnd(c) \/ Publish(c) \/ Read(c)
             \/ \E r \in Responses : CatalogAnswer(c, r)
      PROVE  CatalogInv'
    BY <1>3, CallerStep, AnswerStep, SortBeginStep, SortEndStep
<1> QED BY <1>1, <1>2, <1>3 DEF CatalogNext

LEMMA CatalogInvariant == CatalogSpec => []CatalogInv
    BY CatalogInvInit, CatalogInvStep, PTL DEF CatalogSpec

\* CatalogSpec: whoever reads an unraced list reads every supported stock once and in order,
\* for every set of stocks, of callers and of answers of the provider.
THEOREM ReadsInOrder == CatalogSpec => []ListIsInOrder
<1>1. CatalogInv => ListIsInOrder
    BY DEF CatalogInv, ListIsInOrder, Ordered
<1> QED BY <1>1, CatalogInvariant, PTL

-----------------------------------------------------------------------------
(* The pages of a search *)

\* A list without repetitions has as many entries at some positions as there are positions.
LEMMA EntriesAtPositions ==
    ASSUME NEW list, IsInjective(list), NEW A \in SUBSET DOMAIN list, IsFiniteSet(A)
    PROVE  Cardinality({list[i] : i \in A}) = Cardinality(A)
<1> DEFINE B == {list[i] : i \in A}
           f == [i \in A |-> list[i]]
<1>1. f \in Bijection(A, B)
  <2>1. f \in [A -> B] /\ \A i, j \in A : f[i] = f[j] => i = j
      BY DEF IsInjective
  <2>2. \A b \in B : \E i \in A : f[i] = b
      OBVIOUS
  <2> QED BY <2>1, <2>2 DEF Bijection, Injection, Surjection, IsInjective
<1>2. ExistsBijection(A, B)
    BY <1>1 DEF ExistsBijection
<1> QED BY <1>2, FS_Bijection

LEMMA OrderedIsInjective ==
    ASSUME NEW s \in Seq(Stocks), Ordered(s)
    PROVE  /\ IsInjective(s)
           /\ \A i, j \in DOMAIN s : i < j <=> s[i] < s[j]
<1>1. DOMAIN s = 1..Len(s) /\ Len(s) \in Nat /\ \A k \in 1..Len(s) : s[k] \in Stocks
    OBVIOUS
<1>2. \A k \in 1..Len(s) : s[k] \in Int
    BY <1>1, StocksAreNumbers
<1>3. \A i, j \in 1..Len(s) : i < j => s[i] < s[j]
    BY DEF Ordered
<1>4. \A i, j \in 1..Len(s) : i \in Int /\ j \in Int /\ (i < j \/ i = j \/ j < i)
    OBVIOUS
<1>5. \A i, j \in 1..Len(s) : s[i] = s[j] => i = j
    BY <1>2, <1>3, <1>4
<1>6. \A i, j \in 1..Len(s) : s[i] < s[j] => i < j
    BY <1>2, <1>3, <1>4
<1> QED BY <1>1, <1>3, <1>5, <1>6 DEF IsInjective

LEMMA RanksAreNumbers ==
    ASSUME NEW q \in Queries
    PROVE  /\ Rank[q] \in [Stocks -> Int] /\ NoMatch \in Int
           /\ q = "" => \A x \in Stocks : Rank[q][x] = 0 /\ Rank[q][x] < NoMatch
<1>1. Rank \in [Queries -> [Stocks -> 0..NoMatch]] /\ NoMatch \in Nat
    BY CatalogAssumption, Zenon
<1>2. \A r \in Queries, x \in Stocks : r = "" => Rank[r][x] = 0 /\ 0 < NoMatch
    BY CatalogAssumption, Zenon
<1>3. Rank[q] \in [Stocks -> 0..NoMatch]
    BY <1>1
<1>4. Rank[q] \in [Stocks -> Int] /\ NoMatch \in Int
    BY <1>1, <1>3
<1>5. ASSUME q = "", NEW x \in Stocks
      PROVE  Rank[q][x] = 0 /\ Rank[q][x] < NoMatch
  <2>1. Rank[q][x] = 0 /\ 0 < NoMatch
      BY <1>2, <1>5, Zenon
  <2> QED BY <2>1
<1> QED BY <1>4, <1>5

\* In the list of an unraced slice each match stands at the place the search gives it.
LEMMA MatchesByPlace ==
    ASSUME NEW s \in Seq(Stocks), Ordered(s), NEW q \in Queries
    PROVE  LET F == Matches(s, q) IN
               /\ F \in Seq(Stocks)
               /\ Range(F) = {x \in Stocks : Rank[q][x] < NoMatch}
               /\ \A k \in 1..Len(F) : Cardinality(Before(q, F[k])) = k - 1
<1>1. /\ DOMAIN s = 1..Len(s) /\ Len(s) \in Nat /\ Range(s) = Stocks
      /\ \A k \in 1..Len(s) : s[k] \in Stocks
    BY DEF Ordered
<1>2. IsInjective(s) /\ \A i, j \in DOMAIN s : i < j <=> s[i] < s[j]
    BY OrderedIsInjective
<1>3. Stocks \subseteq Int
    BY StocksAreNumbers
<1>4. CASE q = ""
  <2>1. Matches(s, q) = s
      BY <1>4 DEF Matches
  <2>2. \A x \in Stocks : Rank[q][x] = 0 /\ Rank[q][x] < NoMatch
      BY <1>4, RanksAreNumbers
  <2>3. Range(s) = {x \in Stocks : Rank[q][x] < NoMatch}
      BY <1>1, <2>2
  <2>4. ASSUME NEW k \in 1..Len(s)
        PROVE  Cardinality(Before(q, s[k])) = k - 1
    <3> DEFINE A == 1..(k - 1)
    <3>1. A \subseteq DOMAIN s /\ \A i \in DOMAIN s : i \in A <=> i < k
        BY <1>1
    <3>2. k - 1 \in Int /\ k - 1 >= 0 /\ 1 \in Int
        BY <1>1
    <3>3. IsFiniteSet(A) /\ Cardinality(A) = IF 1 > k - 1 THEN 0 ELSE (k - 1) - 1 + 1
        BY <3>2, FS_Interval
    <3>4. Before(q, s[k]) = {y \in Stocks : y < s[k]}
        BY <1>1, <2>2 DEF Before
    <3>5. {y \in Stocks : y < s[k]} = {s[i] : i \in A}
      <4>1. ASSUME NEW y \in Stocks, y < s[k]
            PROVE  \E i \in A : s[i] = y
          BY <1>1, <1>2, <3>1, <4>1 DEF Range
      <4>2. ASSUME NEW i \in A
            PROVE  s[i] \in Stocks /\ s[i] < s[k]
          BY <1>1, <1>2, <3>1
      <4> HIDE DEF A
      <4> QED BY <4>1, <4>2
    <3>6. Cardinality({s[i] : i \in A}) = Cardinality(A)
        BY <1>2, <3>1, <3>3, EntriesAtPositions
    <3> HIDE DEF A
    <3>7. Cardinality(A) = k - 1
        BY <1>1, <3>2, <3>3
    <3> QED BY <3>4, <3>5, <3>6, <3>7, Zenon
  <2> QED BY <2>1, <2>3, <2>4
<1>5. CASE q # ""
  <2> DEFINE P == {i \in DOMAIN s : Rank[q][s[i]] < NoMatch}
             R == ByRank(s, P, Rank[q])
             F == Picked(s, P, R)
             order == Arranged(P, R)
             n == Cardinality(P)
  <2>1. Matches(s, q) = F
      BY <1>5 DEF Matches
  <2>2. Rank[q] \in [Stocks -> Int] /\ NoMatch \in Int
      BY RanksAreNumbers
  <2>3. IsFiniteSet(P) /\ StrictOrder(P, R) /\ \A i \in P : s[i] \in Stocks
      BY <1>1, <2>2, PositionsAreOrdered
  <2>4. /\ n \in Nat /\ F \in Seq(Stocks) /\ Len(F) = n
        /\ order \in [1..n -> P]
        /\ Range(F) = {s[i] : i \in P}
        /\ \A k \in 1..n : F[k] = s[order[k]] /\ PlaceIn(P, R, order[k]) = k - 1
    <3> HIDE DEF P, R
    <3>1. /\ n \in Nat /\ F \in Seq(Stocks) /\ Len(F) = n
          /\ F \in [1..n -> Stocks] /\ order \in [1..n -> P]
          /\ Range(F) = {s[i] : i \in P}
          /\ \A k \in 1..n : F[k] = s[order[k]] /\ PlaceIn(P, R, order[k]) = k - 1
          /\ \A k, m \in 1..n : k < m => <<order[k], order[m]>> \in R
        BY <2>3, PickedInOrder, Zenon
    <3> QED BY <3>1
  <2>5. Range(F) = {x \in Stocks : Rank[q][x] < NoMatch}
      BY <1>1, <2>4 DEF Range
  <2>6. ASSUME NEW k \in 1..n
        PROVE  Cardinality(Before(q, F[k])) = k - 1
    <3> DEFINE i == order[k]
               A == {j \in P : <<j, i>> \in R}
    <3>1. i \in P /\ F[k] = s[i] /\ PlaceIn(P, R, i) = k - 1
        BY <2>4
    <3>2. Cardinality(A) = k - 1
        BY <3>1 DEF PlaceIn
    <3>3. A \subseteq DOMAIN s /\ IsFiniteSet(A)
        BY <2>3, FS_Subset
    <3>4. Cardinality({s[j] : j \in A}) = Cardinality(A)
        BY <1>2, <3>3, EntriesAtPositions
    <3>5. \A j \in P : <<j, i>> \in R <=> \/ Rank[q][s[j]] < Rank[q][s[i]]
                                          \/ Rank[q][s[j]] = Rank[q][s[i]] /\ s[j] < s[i]
                                          \/ s[j] = s[i] /\ j < i
        BY <3>1 DEF ByRank
    <3> HIDE DEF i, R, order, F, n
    <3>6. ASSUME NEW y \in Before(q, s[i])
          PROVE  \E j \in A : s[j] = y
      <4>1. y \in Stocks /\ (\/ Rank[q][y] < Rank[q][s[i]]
                             \/ Rank[q][y] = Rank[q][s[i]] /\ y < s[i])
          BY DEF Before
      <4>2. PICK j \in DOMAIN s : s[j] = y
          BY <1>1, <4>1 DEF Range
      <4>3. Rank[q][y] \in Int /\ Rank[q][s[i]] \in Int /\ Rank[q][s[i]] < NoMatch
          BY <2>2, <2>3, <3>1, <4>1
      <4>4. j \in P
          BY <2>2, <4>1, <4>2, <4>3
      <4> QED BY <3>5, <4>1, <4>2, <4>4
    <3>7. ASSUME NEW j \in A
          PROVE  s[j] \in Before(q, s[i])
      <4>1. j \in P /\ <<j, i>> \in R /\ s[j] \in Stocks
          BY <2>3
      <4>2. ~(s[j] = s[i] /\ j < i)
        <5>1. j \in DOMAIN s /\ i \in DOMAIN s /\ s[i] \in Int
            BY <1>3, <2>3, <3>1, <4>1
        <5> QED BY <1>2, <5>1
      <4> QED BY <3>5, <4>1, <4>2 DEF Before
    <3>8. Before(q, s[i]) = {s[j] : j \in A}
      <4> HIDE DEF A, P
      <4> QED BY <3>6, <3>7
    <3> QED BY <3>1, <3>2, <3>4, <3>8
  <2> HIDE DEF F, n
  <2> QED BY <2>1, <2>4, <2>5, <2>6
<1> QED BY <1>4, <1>5

\* Nothing wraps below the largest int.
LEMMA NoOverflow ==
    ASSUME NEW x \in 0..MaxInt
    PROVE  Wrap(x) = x
<1>1. MaxInt \in Nat
    BY CatalogAssumption
<1> DEFINE w == MaxInt + 1
<1>2. x + w \in 0..(2 * w - 1) /\ 2 * w \in Nat \ {0}
    BY <1>1
<1>3. \A m \in Nat \ {0} : \A y \in 0..(m - 1) : y % m = y
    BY SMT
<1>4. (x + w) % (2 * w) = x + w
    BY <1>2, <1>3
<1>5. x + MaxInt + 1 = x + w
    BY <1>1
<1> QED BY <1>1, <1>4, <1>5 DEF Wrap

LEMMA PageBounds ==
    ASSUME NEW k \in Nat, NEW l \in Nat \ {0}, NEW p \in Nat \ {0}
    PROVE  k \div l = p - 1 <=> (p - 1) * l <= k /\ k < (p - 1) * l + l
<1>1. p - 1 \in Nat /\ (p - 1) + 1 = p
    OBVIOUS
<1>2. /\ k \div l \in Nat
      /\ (p - 1) * l \in Nat
      /\ ((p - 1) + 1) * l = (p - 1) * l + l
      /\ (p - 1) * l <= k <=> p - 1 <= k \div l
    BY <1>1, PagesThatFit
<1>3. p * l \in Nat /\ (p * l <= k <=> p <= k \div l)
    BY PagesThatFit
<1>4. p * l = (p - 1) * l + l
    BY <1>1, <1>2
<1> DEFINE a == k \div l
           b == (p - 1) * l
<1> HIDE DEF a, b
<1>5. a \in Nat /\ b \in Nat /\ (b <= k <=> p - 1 <= a) /\ (b + l <= k <=> p <= a)
    BY <1>2, <1>3, <1>4 DEF a, b
<1>6. a = p - 1 <=> b <= k /\ k < b + l
    BY <1>5
<1> QED BY <1>6 DEF a, b

\* A page of a list holds the entries whose places it stands for, whatever its number.
LEMMA PageOfList ==
    ASSUME NEW s, NEW q, NEW p \in PageNumbers, NEW l \in PageSizes,
           Matches(s, q) \in Seq(Stocks), Len(Matches(s, q)) + MaxLimit <= MaxInt
    PROVE  Range(Search(s, q, p, l))
             = {Matches(s, q)[k] : k \in {k \in 1..Len(Matches(s, q)) : (k - 1) \div l = p - 1}}
<1> DEFINE F == Matches(s, q)
           n == Len(F)
           start == PageStart(n, p, l)
           end == IF Wrap(start + l) > n THEN n ELSE Wrap(start + l)
           b == (p - 1) * l
<1>1. /\ n \in Nat /\ MaxInt \in Nat /\ MaxLimit \in Nat
      /\ p \in Nat \ {0} /\ l \in Nat \ {0} /\ l <= MaxLimit
  <2>1. MaxInt \in Nat /\ MaxLimit \in Nat
      BY CatalogAssumption
  <2> QED BY <2>1 DEF PageNumbers, PageSizes
<1>2. n + l <= MaxInt
    BY <1>1
<1>3. /\ p - 1 \in Nat /\ n \div l \in Nat /\ b \in Nat
      /\ b <= n <=> p - 1 <= n \div l
  <2>1. p - 1 \in Nat
      BY <1>1
  <2> QED BY <1>1, <2>1, PagesThatFit
<1>4. \/ p <= n \div l + 1 /\ b <= n /\ start = b
      \/ b > n /\ start = n
  <2>1. CASE p <= n \div l + 1
    <3>1. b <= n
        BY <1>1, <1>3, <2>1
    <3>2. b \in 0..MaxInt
        BY <1>1, <1>2, <1>3, <3>1
    <3>3. Wrap(b) = b
        BY <3>2, NoOverflow
    <3> QED BY <2>1, <3>1, <3>3 DEF PageStart
  <2>2. CASE ~(p <= n \div l + 1)
    <3>1. b > n
        BY <1>1, <1>3, <2>2
    <3> QED BY <2>2, <3>1 DEF PageStart
  <2> QED BY <2>1, <2>2
<1>5. start \in Nat /\ start <= n
    BY <1>1, <1>3, <1>4
<1> HIDE DEF n, start, b
<1>6. Wrap(start + l) = start + l
  <2>1. start + l \in 0..MaxInt
      BY <1>1, <1>2, <1>5
  <2> QED BY <2>1, NoOverflow
<1>7. end = (IF start + l > n THEN n ELSE start + l) /\ end \in Nat /\ start <= end /\ end <= n
    BY <1>1, <1>5, <1>6
<1>8. Search(s, q, p, l) = SubSeq(F, start + 1, end)
    BY <1>5, <1>7 DEF Search, n, start
<1> HIDE DEF end
<1>9. \A k \in 1..n : (k - 1) \div l = p - 1 <=> k \in (start + 1)..end
  <2> SUFFICES ASSUME NEW k \in 1..n
               PROVE  (k - 1) \div l = p - 1 <=> k \in (start + 1)..end
      OBVIOUS
  <2>1. k - 1 \in Nat
      BY <1>1
  <2>2. (k - 1) \div l = p - 1 <=> b <= k - 1 /\ k - 1 < b + l
      BY <1>1, <2>1, PageBounds DEF b
  <2> QED BY <1>1, <1>3, <1>4, <1>5, <1>7, <2>1, <2>2
<1>10. F \in Seq(Stocks) /\ \A i \in (start + 1)..end : F[i] \in Stocks
  <2>1. \A i \in (start + 1)..end : i \in 1..n
      BY <1>1, <1>5, <1>7
  <2>2. \A i \in 1..n : F[i] \in Stocks
      BY DEF n
  <2> QED BY <2>1, <2>2
<1>11. Range(SubSeq(F, start + 1, end)) = {F[k] : k \in (start + 1)..end}
  <2> DEFINE page == SubSeq(F, start + 1, end)
             m == end - start
  <2>1. start + 1 \in Int /\ end \in Int
      BY <1>5, <1>7
  <2> HIDE DEF F
  <2>2. /\ page \in Seq(Stocks)
        /\ Len(page) = IF start + 1 <= end THEN end - (start + 1) + 1 ELSE 0
        /\ \A i \in 1..(end - (start + 1) + 1) : page[i] = F[start + 1 + i - 1]
      BY <1>10, <2>1, SubSeqProperties
  <2>3. m \in Nat /\ end - (start + 1) + 1 = m
      BY <1>5, <1>7
  <2>4. Len(page) = m /\ DOMAIN page = 1..m
      BY <1>5, <1>7, <2>2, <2>3
  <2>5. \A i \in 1..m : page[i] = F[start + i] /\ start + i \in (start + 1)..end
    <3> SUFFICES ASSUME NEW i \in 1..m
                 PROVE  page[i] = F[start + i] /\ start + i \in (start + 1)..end
        OBVIOUS
    <3>1. start + 1 + i - 1 = start + i
        BY <1>5, <2>3
    <3>2. page[i] = F[start + 1 + i - 1]
        BY <2>2, <2>3
    <3>3. start + i \in (start + 1)..end
        BY <1>5, <1>7, <2>3
    <3> HIDE DEF page
    <3> QED BY <3>1, <3>2, <3>3
  <2>6. \A k \in (start + 1)..end : k - start \in 1..m /\ start + (k - start) = k
      BY <1>5, <1>7
  <2> HIDE DEF page, m
  <2>7. ASSUME NEW k \in (start + 1)..end
        PROVE  \E i \in DOMAIN page : page[i] = F[k]
    <3>1. k - start \in DOMAIN page /\ page[k - start] = F[start + (k - start)]
        BY <2>4, <2>5, <2>6
    <3>2. F[start + (k - start)] = F[k]
        BY <2>6
    <3> QED BY <3>1, <3>2
  <2>8. ASSUME NEW i \in DOMAIN page
        PROVE  \E k \in (start + 1)..end : page[i] = F[k]
      BY <2>4, <2>5
  <2>9. {page[i] : i \in DOMAIN page} = {F[k] : k \in (start + 1)..end}
      BY <2>7, <2>8
  <2> QED BY <2>9 DEF Range, page
<1>12. {k \in 1..n : (k - 1) \div l = p - 1} = (start + 1)..end
  <2>1. \A k \in (start + 1)..end : k \in 1..n
      BY <1>1, <1>5, <1>7
  <2> QED BY <1>9, <2>1
<1> QED BY <1>8, <1>11, <1>12 DEF n

\* CatalogSpec: the pages of a search partition its matches, for every catalog, every ranking
\* and every page and size that are accepted; no product of the two overflows.
THEOREM PagesAreAPartition == CatalogSpec => []PagesPartitionMatches
<1>1. ASSUME NEW s \in Seq(Stocks), Ordered(s), NEW q \in Queries,
             NEW p \in PageNumbers, NEW l \in PageSizes
      PROVE  Range(Search(s, q, p, l))
               = {x \in Stocks : /\ Rank[q][x] < NoMatch
                                 /\ Cardinality(Before(q, x)) \div l = p - 1}
  <2> DEFINE F == Matches(s, q)
  <2>1. /\ F \in Seq(Stocks)
        /\ Range(F) = {x \in Stocks : Rank[q][x] < NoMatch}
        /\ \A k \in 1..Len(F) : Cardinality(Before(q, F[k])) = k - 1
      BY <1>1, MatchesByPlace
  <2> HIDE DEF F
  <2>2. DOMAIN F = 1..Len(F) /\ Len(F) \in Nat /\ \A k \in 1..Len(F) : F[k] \in Stocks
      BY <2>1
  <2>3. Len(F) + MaxLimit <= MaxInt
    <3>1. F \in Injection(1..Len(F), Stocks)
      <4>1. \A k, m \in 1..Len(F) : F[k] = F[m] => k - 1 = m - 1
          BY <2>1
      <4>2. \A k, m \in 1..Len(F) : k - 1 = m - 1 => k = m
          BY <2>2
      <4>3. F \in [1..Len(F) -> Stocks]
          BY <2>1
      <4> QED BY <4>1, <4>2, <4>3 DEF Injection, IsInjective
    <3>2. IsFiniteSet(Stocks) /\ Cardinality(Stocks) \in Nat
        BY CatalogAssumption, FS_CardinalityType
    <3>3. Cardinality(1..Len(F)) <= Cardinality(Stocks)
        BY <3>1, <3>2, FS_Injection
    <3>4. Cardinality(1..Len(F)) = IF 1 > Len(F) THEN 0 ELSE Len(F) - 1 + 1
      <4>1. 1 \in Int /\ Len(F) \in Int
          BY <2>2
      <4> QED BY <4>1, FS_Interval
    <3>5. Len(F) <= Cardinality(Stocks)
        BY <2>2, <3>3, <3>4
    <3>6. MaxLimit \in Nat /\ MaxInt \in Nat /\ Cardinality(Stocks) + MaxLimit <= MaxInt
        BY CatalogAssumption
    <3> QED BY <2>2, <3>2, <3>5, <3>6
  <2>4. Range(Search(s, q, p, l)) = {F[k] : k \in {k \in 1..Len(F) : (k - 1) \div l = p - 1}}
      BY <1>1, <2>1, <2>3, PageOfList DEF F
  <2>5. ASSUME NEW x \in Stocks, Rank[q][x] < NoMatch, Cardinality(Before(q, x)) \div l = p - 1
        PROVE  \E k \in {k \in 1..Len(F) : (k - 1) \div l = p - 1} : F[k] = x
    <3>1. PICK k \in 1..Len(F) : F[k] = x
        BY <2>1, <2>2, <2>5 DEF Range
    <3>2. Cardinality(Before(q, x)) = k - 1
        BY <2>1, <3>1
    <3> QED BY <2>5, <3>1, <3>2
  <2>6. ASSUME NEW k \in 1..Len(F), (k - 1) \div l = p - 1
        PROVE  F[k] \in {x \in Stocks : /\ Rank[q][x] < NoMatch
                                        /\ Cardinality(Before(q, x)) \div l = p - 1}
    <3>1. F[k] \in Range(F)
        BY <2>2 DEF Range
    <3>2. Cardinality(Before(q, F[k])) \div l = p - 1
        BY <2>1, <2>6
    <3> QED BY <2>1, <3>1, <3>2
  <2> QED BY <2>4, <2>5, <2>6
<1>2. CatalogInv => PagesPartitionMatches
  <2> SUFFICES ASSUME CatalogInv, NEW c \in Callers, at[c] = "read", mine[c] \notin raced
               PROVE  slice[mine[c]] \in Seq(Stocks) /\ Ordered(slice[mine[c]])
      BY <1>1 DEF PagesPartitionMatches
  <2> QED BY DEF CatalogInv, CatalogTypeOK
<1> QED BY <1>2, CatalogInvariant, PTL

=============================================================================
