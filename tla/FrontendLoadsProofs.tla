------------------------- MODULE FrontendLoadsProofs -------------------------
(***************************************************************************)
(* What FrontendLoads promises, for any number of texts, pages, ranges and *)
(* requests in flight.  The one request whose answer counts is the newest, *)
(* and it fits the list as long as the list fits the text.                 *)
(***************************************************************************)
EXTENDS FrontendLoads, SequenceTheorems, FiniteSetTheorems, TLAPS

LatestLoad == loads[Len(loads)]

\* The newest request asks for the first page or for the one that comes next.
NewestFits ==
    /\ \A i \in 1..Len(loads) : ~loads[i].append => loads[i].page = 1
    /\ settled /\ current =>
         /\ LatestLoad.search = query
         /\ LatestLoad.append => LatestLoad.page = page + 1 /\ page < total

\* The effect has one request in flight at most, which nothing has answered.
ChartsFit ==
    /\ IsFiniteSet(charts)
    /\ \A c, d \in charts : c = d
    /\ \A c \in charts : c.range = range /\ (c.stored => series = range) /\ ~broken
    /\ ChartBelongsToRange

LoadsInv == LoadsTypeOK /\ NewestFits /\ ListBelongsToQuery /\ ChartsFit

-----------------------------------------------------------------------------

LEMMA LoadsInvInit == LoadsInit => LoadsInv
  <1> SUFFICES ASSUME LoadsInit PROVE LoadsInv
    OBVIOUS
  <1>1. LoadsTypeOK
    <2>1. /\ query \in Texts /\ {timer, loading, failed, current, settled} \subseteq BOOLEAN
          /\ shown \in Seq(Texts \X Nat) /\ page \in Nat /\ total \in Nat
          /\ loads \in Seq(Loads) /\ (current => loads # <<>>)
      <3>1. /\ query = Empty /\ shown = <<>> /\ page = 1 /\ total = 0 /\ loads = <<>>
            /\ timer = TRUE /\ loading = TRUE /\ failed = FALSE /\ current = FALSE
            /\ settled = FALSE
        BY DEF LoadsInit, ListInit
      <3>2. timer \in BOOLEAN /\ {loading, failed, current, settled} \subseteq BOOLEAN
        BY <3>1
      <3>3. shown \in Seq(Texts \X Nat) /\ loads \in Seq(Loads)
        BY <3>1
      <3> QED BY <3>1, <3>2, <3>3, LoadsAssumption
    <2>2. /\ range \in Ranges /\ series \in Ranges \cup {NoSeries} /\ stored \subseteq Ranges
          /\ waits \in BOOLEAN /\ broken \in BOOLEAN /\ cancelled \in Seq(Charts)
      <3>1. /\ range \in Ranges /\ series \in Ranges \cup {NoSeries} /\ stored \subseteq Ranges
            /\ cancelled \in Seq(Charts)
        BY LoadsAssumption DEF LoadsInit, ChartInit
      <3>2. waits \in BOOLEAN /\ broken \in BOOLEAN
        BY DEF LoadsInit, ChartInit
      <3> QED BY <3>1, <3>2
    <2>3. charts \subseteq Charts
      BY LoadsAssumption DEF LoadsInit, ChartInit, Charts
    <2> QED BY <2>1, <2>2, <2>3 DEF LoadsTypeOK
  <1>2. NewestFits /\ ListBelongsToQuery
    BY DEF LoadsInit, ListInit, NewestFits, ListBelongsToQuery
  <1>3. ChartsFit
    <2>1. /\ range = FirstRange /\ series = IF FirstRange \in stored THEN FirstRange ELSE NoSeries
          /\ (waits <=> FirstRange \notin stored) /\ broken = FALSE
          /\ \A c \in charts : c.range = range /\ (c.stored <=> FirstRange \in stored)
      <3>1. /\ range = FirstRange /\ broken = FALSE
            /\ series = IF FirstRange \in stored THEN FirstRange ELSE NoSeries
        BY DEF LoadsInit, ChartInit
      <3>2. waits <=> FirstRange \notin stored
        BY DEF LoadsInit, ChartInit
      <3>3. \A c \in charts : c = [range |-> FirstRange, stored |-> FirstRange \in stored]
        BY DEF LoadsInit, ChartInit
      <3>4. \A c \in charts : c.range = FirstRange /\ (c.stored <=> FirstRange \in stored)
        <4> SUFFICES ASSUME NEW c \in charts
                     PROVE  c.range = FirstRange /\ (c.stored <=> FirstRange \in stored)
          OBVIOUS
        <4>1. c = [range |-> FirstRange, stored |-> FirstRange \in stored]
          BY <3>3
        <4> QED BY <4>1
      <3> QED BY <3>1, <3>2, <3>4
    <2>2. IsFiniteSet(charts) /\ \A c, d \in charts : c = d
      BY FS_Singleton DEF LoadsInit, ChartInit
    <2> QED BY <2>1, <2>2, LoadsAssumption DEF ChartsFit, ChartBelongsToRange
  <1> QED BY <1>1, <1>2, <1>3 DEF LoadsInv

LEMMA Removed ==
  ASSUME NEW S, NEW s \in Seq(S), NEW i \in 1..Len(s)
  PROVE  /\ RemoveAt(s, i) \in Seq(S) /\ Len(RemoveAt(s, i)) = Len(s) - 1
         /\ \A j \in 1..(Len(s) - 1) :
              RemoveAt(s, i)[j] = IF j < i THEN s[j] ELSE s[j + 1]
  <1> DEFINE a == SubSeq(s, 1, i - 1)
             b == SubSeq(s, i + 1, Len(s))
  <1>1. Len(s) \in Nat /\ i \in Int /\ i - 1 \in Int /\ i + 1 \in Int
        /\ \A j \in 1..Len(s) : s[j] \in S
    OBVIOUS
  <1>2. /\ a \in Seq(S) /\ Len(a) = i - 1
        /\ \A j \in 1..(i - 1) : a[j] = s[j]
    BY <1>1, SubSeqProperties
  <1>3. /\ b \in Seq(S) /\ Len(b) = Len(s) - i
        /\ \A j \in 1..(Len(s) - i) : b[j] = s[i + j]
    <2>1. /\ b \in Seq(S) /\ Len(b) = IF i + 1 <= Len(s) THEN Len(s) - (i + 1) + 1 ELSE 0
          /\ \A j \in 1..(Len(s) - (i + 1) + 1) : b[j] = s[i + 1 + j - 1]
      BY <1>1, SubSeqProperties
    <2> HIDE DEF b
    <2>2. \A j \in 1..(Len(s) - i) : i + 1 + j - 1 = i + j
      OBVIOUS
    <2> QED BY <1>1, <2>1, <2>2
  <1>4. RemoveAt(s, i) = a \o b
    BY DEF RemoveAt
  <1> HIDE DEF a, b
  <1>5. /\ a \o b \in Seq(S) /\ Len(a \o b) = Len(a) + Len(b)
        /\ \A j \in 1..(Len(a) + Len(b)) :
             (a \o b)[j] = IF j <= Len(a) THEN a[j] ELSE b[j - Len(a)]
    BY <1>2, <1>3, ConcatProperties
  <1>6. ASSUME NEW j \in 1..(Len(s) - 1)
        PROVE  (a \o b)[j] = IF j < i THEN s[j] ELSE s[j + 1]
    <2>1. CASE j < i
      BY <2>1, <1>2, <1>3, <1>5
    <2>2. CASE j >= i
      <3>1. (a \o b)[j] = b[j - (i - 1)]
        BY <2>2, <1>2, <1>3, <1>5
      <3>2. j - (i - 1) \in 1..(Len(s) - i) /\ i + (j - (i - 1)) = j + 1
        BY <2>2
      <3>3. b[j - (i - 1)] = s[i + (j - (i - 1))]
        BY <3>2, <1>3
      <3>4. ~(j < i) /\ s[i + (j - (i - 1))] = s[j + 1]
        BY <2>2, <3>2
      <3> QED BY <3>1, <3>3, <3>4
    <2>3. j < i \/ j >= i
      BY <1>1
    <2> QED BY <2>1, <2>2, <2>3
  <1> QED BY <1>1, <1>2, <1>3, <1>4, <1>5, <1>6

LEMMA InOrder ==
  ASSUME NEW S, IsFiniteSet(S)
  PROVE  SetToSeq(S) \in Seq(S)
  <1>1. Cardinality(S) \in Nat /\ ExistsBijection(1..Cardinality(S), S)
    BY FS_CardinalityType
  <1>2. \E f \in [1..Cardinality(S) -> S] : IsInjective(f)
    BY <1>1 DEF ExistsBijection, Bijection, Injection, IsInjective
  <1>3. SetToSeq(S) \in [1..Cardinality(S) -> S]
    BY <1>2 DEF SetToSeq
  <1> QED BY <1>1, <1>3

\* Nothing of the list changes with the chart, and nothing of the chart with the list.
LEMMA ChartApart == LoadsInv /\ UNCHANGED chartVars => ChartsFit'
  BY DEF LoadsInv, ChartsFit, ChartBelongsToRange, chartVars

\* A request is sent.
LEMMA InvLoad ==
  ASSUME LoadsInv, NEW p \in Nat, NEW append \in BOOLEAN, Load(p, append, query),
         timer' \in BOOLEAN, UNCHANGED chartVars,
         ~append => p = 1, append /\ settled => p = page + 1 /\ page < total
  PROVE  LoadsInv'
  <1> DEFINE r == [page |-> p, append |-> append, search |-> query]
  <1>1. /\ loads \in Seq(Loads) /\ r \in Loads
        /\ query \in Texts
    BY DEF LoadsInv, LoadsTypeOK, Loads
  <1>2. /\ loads' = Append(loads, r) /\ current' = TRUE /\ loading' = TRUE /\ failed' = FALSE
        /\ UNCHANGED <<query, shown, page, total, settled>>
    BY DEF Load
  <1>3. /\ r.page = p /\ r.append = append /\ r.search = query
    OBVIOUS
  <1> HIDE DEF r
  <1>4. /\ loads' \in Seq(Loads) /\ Len(loads') = Len(loads) + 1 /\ loads'[Len(loads')] = r
        /\ \A i \in 1..Len(loads) : loads'[i] = loads[i]
    BY <1>1, <1>2
  <1>5. LoadsTypeOK'
    <2>1. loads' # <<>>
      BY <1>1, <1>2
    <2> QED BY <1>2, <1>4, <2>1 DEF LoadsInv, LoadsTypeOK, chartVars
  <1>6. NewestFits'
    <2>1. \A i \in 1..Len(loads') : ~loads'[i].append => loads'[i].page = 1
      <3> SUFFICES ASSUME NEW i \in 1..Len(loads'), ~loads'[i].append
                   PROVE  loads'[i].page = 1
        OBVIOUS
      <3>1. CASE i \in 1..Len(loads)
        BY <3>1, <1>4 DEF LoadsInv, NewestFits
      <3>2. CASE i = Len(loads')
        BY <3>2, <1>3, <1>4
      <3> QED BY <3>1, <3>2, <1>1, <1>4
    <2>2. LatestLoad' = r
      BY <1>4 DEF LatestLoad
    <2> QED BY <2>1, <2>2, <1>2, <1>3 DEF NewestFits
  <1>7. ListBelongsToQuery'
    BY <1>2 DEF LoadsInv, ListBelongsToQuery
  <1> QED BY <1>5, <1>6, <1>7, ChartApart DEF LoadsInv

LEMMA InvSetQuery ==
  ASSUME LoadsInv, NEW q \in Texts, SetQuery(q), UNCHANGED chartVars
  PROVE  LoadsInv'
  <1>1. /\ query' = q /\ timer' = TRUE /\ settled' = FALSE
        /\ UNCHANGED <<shown, page, total, loading, failed, loads, current>>
    BY DEF SetQuery
  <1>2. LoadsTypeOK'
    BY <1>1 DEF LoadsInv, LoadsTypeOK, chartVars
  <1>3. NewestFits' /\ ListBelongsToQuery'
    BY <1>1 DEF LoadsInv, NewestFits, ListBelongsToQuery
  <1> QED BY <1>2, <1>3, ChartApart DEF LoadsInv

\* A request ends, whichever it is; only the newest may change what is shown.
LEMMA InvRemoved ==
  ASSUME LoadsInv, NEW i \in 1..Len(loads), loads' = RemoveAt(loads, i), UNCHANGED chartVars,
         UNCHANGED <<query, timer>>, {loading', failed', current', settled'} \subseteq BOOLEAN,
         shown' \in Seq(Texts \X Nat), page' \in Nat, total' \in Nat,
         IF Newest(i) THEN current' = FALSE ELSE UNCHANGED <<page, total, current, settled>>,
         ListBelongsToQuery'
  PROVE  LoadsInv'
  <1>1. /\ loads \in Seq(Loads) /\ loads' \in Seq(Loads) /\ Len(loads') = Len(loads) - 1
        /\ \A j \in 1..(Len(loads) - 1) : loads'[j] = IF j < i THEN loads[j] ELSE loads[j + 1]
    BY Removed DEF LoadsInv, LoadsTypeOK
  <1>2. current' => /\ i # Len(loads) /\ current /\ Len(loads) > 1
                    /\ UNCHANGED <<page, total, settled>>
                    /\ LatestLoad' = LatestLoad
    <2> SUFFICES ASSUME current'
                 PROVE  /\ i # Len(loads) /\ current /\ Len(loads) > 1
                        /\ UNCHANGED <<page, total, settled>>
                        /\ LatestLoad' = LatestLoad
      OBVIOUS
    <2>1. ~Newest(i) /\ UNCHANGED <<page, total, current, settled>>
      OBVIOUS
    <2>2. current /\ i # Len(loads)
      BY <2>1 DEF Newest
    <2>3. Len(loads) > 1 /\ loads'[Len(loads')] = loads[Len(loads)]
      BY <2>2, <1>1
    <2> QED BY <2>1, <2>2, <2>3 DEF LatestLoad
  <1>3. LoadsTypeOK'
    <2>1. current' => loads' # <<>>
      BY <1>1, <1>2
    <2> QED BY <2>1, <1>1 DEF LoadsInv, LoadsTypeOK, chartVars
  <1>4. NewestFits'
    <2>1. \A j \in 1..Len(loads') : ~loads'[j].append => loads'[j].page = 1
      <3> SUFFICES ASSUME NEW j \in 1..Len(loads'), ~loads'[j].append
                   PROVE  loads'[j].page = 1
        OBVIOUS
      <3>1. PICK k \in 1..Len(loads) : loads'[j] = loads[k]
        BY <1>1
      <3> QED BY <3>1 DEF LoadsInv, NewestFits
    <2>2. settled' /\ current' =>
            /\ LatestLoad'.search = query'
            /\ LatestLoad'.append => LatestLoad'.page = page' + 1 /\ page' < total'
      BY <1>2 DEF LoadsInv, NewestFits
    <2> QED BY <2>1, <2>2 DEF NewestFits
  <1> QED BY <1>3, <1>4, ChartApart DEF LoadsInv

LEMMA InvLoaded ==
  ASSUME LoadsInv, NEW i \in 1..MaxLoads, Loaded(i), UNCHANGED chartVars
  PROVE  LoadsInv'
  <1>1. i \in 1..Len(loads) /\ loads' = RemoveAt(loads, i) /\ UNCHANGED <<query, timer>>
    BY DEF Loaded
  <1>2. CASE ~Newest(i)
    <2>1. UNCHANGED <<shown, page, total, loading, failed, current, settled>>
      BY <1>2 DEF Loaded
    <2>2. ListBelongsToQuery'
      BY <1>1, <2>1 DEF LoadsInv, ListBelongsToQuery
    <2>3. /\ {loading', failed', current', settled'} \subseteq BOOLEAN
          /\ shown' \in Seq(Texts \X Nat) /\ page' \in Nat /\ total' \in Nat
      BY <2>1 DEF LoadsInv, LoadsTypeOK
    <2> QED BY <1>1, <1>2, <2>1, <2>2, <2>3, InvRemoved
  <1>3. CASE Newest(i)
    <2> DEFINE r == loads[i]
    <2>1. /\ shown' = NewList(r) /\ page' = r.page /\ total' = Pages[r.search]
          /\ loading' = FALSE /\ current' = FALSE
          /\ settled' = (settled \/ (~r.append /\ r.search = query))
          /\ failed' = failed
      BY <1>3 DEF Loaded
    <2>2. /\ r.page \in Nat /\ r.append \in BOOLEAN /\ r.search \in Texts
          /\ ~r.append => r.page = 1
      <3>1. loads \in Seq(Loads) /\ (~r.append => r.page = 1)
        BY <1>1 DEF LoadsInv, LoadsTypeOK, NewestFits
      <3>2. r \in Loads
        BY <1>1, <3>1
      <3> QED BY <3>1, <3>2 DEF Loads
    <2>3. settled => /\ r.search = query
                     /\ r.append => r.page = page + 1 /\ page < total
      BY <1>3 DEF Newest, LatestLoad, LoadsInv, NewestFits
    <2> HIDE DEF r
    <2>4. /\ shown \in Seq(Texts \X Nat) /\ page \in Nat /\ settled \in BOOLEAN
          /\ failed \in BOOLEAN /\ query \in Texts
      BY DEF LoadsInv, LoadsTypeOK
    <2>5. total' \in Nat /\ total' >= 1
      BY <2>1, <2>2, LoadsAssumption
    <2>6. shown' \in Seq(Texts \X Nat)
      <3>1. <<r.search, r.page>> \in Texts \X Nat
        BY <2>2
      <3>2. <<<<r.search, r.page>>>> \in Seq(Texts \X Nat)
        BY <3>1
      <3>3. Append(shown, <<r.search, r.page>>) \in Seq(Texts \X Nat)
        BY <3>1, <2>4
      <3> QED BY <2>1, <3>2, <3>3 DEF NewList
    <2>7. ListBelongsToQuery'
      <3> SUFFICES ASSUME settled'
                   PROVE  /\ shown' = [j \in 1..page' |-> <<query, j>>]
                          /\ total' = Pages[query] /\ page' <= total'
        BY <1>1 DEF ListBelongsToQuery
      <3>1. r.search = query
        BY <2>1, <2>3
      <3>2. CASE ~r.append
        <4>1. page' = 1 /\ shown' = <<<<query, 1>>>>
          BY <2>1, <2>2, <3>1, <3>2 DEF NewList
        <4>2. <<<<query, 1>>>> = [j \in 1..1 |-> <<query, j>>]
          OBVIOUS
        <4> QED BY <4>1, <4>2, <2>1, <2>5, <3>1
      <3>3. CASE r.append
        <4>1. /\ settled /\ shown = [j \in 1..page |-> <<query, j>>]
              /\ total = Pages[query] /\ page < total
          BY <2>1, <2>3, <3>3 DEF LoadsInv, ListBelongsToQuery
        <4>2. page' = page + 1 /\ shown' = Append(shown, <<query, page + 1>>)
          BY <2>1, <2>3, <3>1, <3>3, <4>1 DEF NewList
        <4>3. Append([j \in 1..page |-> <<query, j>>], <<query, page + 1>>)
                = [j \in 1..(page + 1) |-> <<query, j>>]
          BY <2>4
        <4>4. total \in Nat
          BY DEF LoadsInv, LoadsTypeOK
        <4> QED BY <4>1, <4>2, <4>3, <4>4, <2>1, <2>4, <3>1
      <3> QED BY <3>2, <3>3
    <2> QED BY <1>1, <1>3, <2>1, <2>2, <2>4, <2>5, <2>6, <2>7, InvRemoved
  <1> QED BY <1>2, <1>3

LEMMA InvLoadFailed ==
  ASSUME LoadsInv, NEW i \in 1..MaxLoads, LoadFailed(i), UNCHANGED chartVars
  PROVE  LoadsInv'
  <1>1. /\ i \in 1..Len(loads) /\ loads' = RemoveAt(loads, i)
        /\ UNCHANGED <<query, timer, shown, page, total, settled>>
        /\ IF Newest(i) THEN failed' = TRUE /\ loading' = FALSE /\ current' = FALSE
                        ELSE UNCHANGED <<failed, loading, current>>
    BY DEF LoadFailed
  <1>2. /\ {loading', failed', current', settled'} \subseteq BOOLEAN
        /\ shown' \in Seq(Texts \X Nat) /\ page' \in Nat /\ total' \in Nat
    BY <1>1 DEF LoadsInv, LoadsTypeOK
  <1>3. ListBelongsToQuery'
    BY <1>1 DEF LoadsInv, ListBelongsToQuery
  <1> QED BY <1>1, <1>2, <1>3, InvRemoved

LEMMA InvList == LoadsInv /\ ListNext /\ UNCHANGED chartVars => LoadsInv'
  <1> SUFFICES ASSUME LoadsInv, ListNext, UNCHANGED chartVars PROVE LoadsInv'
    OBVIOUS
  <1>1. page \in Nat /\ timer \in BOOLEAN
    BY DEF LoadsInv, LoadsTypeOK
  <1>2. CASE Debounced \/ OnSearch
    <2>1. Load(1, FALSE, query) /\ timer' \in BOOLEAN
      BY <1>1, <1>2 DEF Debounced, OnSearch
    <2> QED BY <2>1, InvLoad
  <1>3. CASE LoadMore
    <2>1. Load(page + 1, TRUE, query) /\ timer' \in BOOLEAN /\ Len(shown) < total
      BY <1>1, <1>3 DEF LoadMore
    <2>2. settled => page < total
      <3> SUFFICES ASSUME settled PROVE page < total
        OBVIOUS
      <3>1. shown = [j \in 1..page |-> <<query, j>>]
        BY DEF LoadsInv, ListBelongsToQuery
      <3>2. Len(shown) = page
        BY <3>1, <1>1
      <3> QED BY <3>2, <2>1
    <2>3. page + 1 \in Nat /\ TRUE \in BOOLEAN
      BY <1>1
    <2> QED BY <2>1, <2>2, <2>3, InvLoad
  <1> QED BY <1>2, <1>3, InvSetQuery, InvLoaded, InvLoadFailed DEF ListNext

-----------------------------------------------------------------------------

LEMMA InvChart == LoadsInv /\ ChartNext /\ UNCHANGED listVars => LoadsInv'
  <1> SUFFICES ASSUME LoadsInv, ChartNext, UNCHANGED listVars PROVE LoadsInv'
    OBVIOUS
  <1>0. ListBelongsToQuery' /\ NewestFits'
    BY DEF LoadsInv, ListBelongsToQuery, NewestFits, LatestLoad, listVars
  <1>1. /\ query' \in Texts /\ {timer', loading', failed', current', settled'} \subseteq BOOLEAN
        /\ shown' \in Seq(Texts \X Nat) /\ page' \in Nat /\ total' \in Nat
        /\ loads' \in Seq(Loads) /\ (current' => loads' # <<>>)
    BY DEF LoadsInv, LoadsTypeOK, listVars
  <1>2. ASSUME NEW r \in Ranges, SetRange(r)
        PROVE  LoadsInv'
    <2>1. ChartsFit'
      <3>1. /\ range' = r /\ series' = (IF r \in stored THEN r ELSE NoSeries)
            /\ (waits' <=> r \notin stored) /\ broken' = FALSE
            /\ charts' = {[range |-> r, stored |-> r \in stored]}
        BY <1>2 DEF SetRange, Effect
      <3>2. IsFiniteSet(charts') /\ \A c, d \in charts' : c = d
        BY <3>1, FS_Singleton
      <3>3. \A c \in charts' : c.range = r /\ (c.stored <=> r \in stored)
        <4> SUFFICES ASSUME NEW c \in charts'
                     PROVE  c.range = r /\ (c.stored <=> r \in stored)
          OBVIOUS
        <4>1. c = [range |-> r, stored |-> r \in stored]
          BY <3>1
        <4> QED BY <4>1
      <3> QED BY <3>1, <3>2, <3>3, LoadsAssumption DEF ChartsFit, ChartBelongsToRange
    <2>2. cancelled' \in Seq(Charts)
      <3>1. charts \subseteq Charts /\ cancelled \in Seq(Charts) /\ IsFiniteSet(charts)
        BY DEF LoadsInv, LoadsTypeOK, ChartsFit
      <3>2. SetToSeq(charts) \in Seq(charts)
        BY <3>1, InOrder
      <3>3. SetToSeq(charts) \in Seq(Charts)
        BY <3>1, <3>2
      <3> QED BY <1>2, <3>1, <3>3 DEF SetRange
    <2>3. LoadsTypeOK'
      <3>1. /\ range' \in Ranges /\ series' \in Ranges \cup {NoSeries} /\ stored' \subseteq Ranges
            /\ broken' \in BOOLEAN
        BY <1>2 DEF SetRange, Effect, LoadsInv, LoadsTypeOK
      <3>2. waits' \in BOOLEAN
        BY <1>2 DEF SetRange, Effect
      <3>3. charts' \subseteq Charts
        BY <1>2 DEF SetRange, Effect, Charts
      <3> QED BY <1>1, <2>2, <3>1, <3>2, <3>3 DEF LoadsTypeOK
    <2> QED BY <1>0, <2>1, <2>3 DEF LoadsInv
  <1>3. ASSUME NEW c \in charts, Charted(c) \/ ChartFailed(c)
        PROVE  LoadsInv'
    <2>1. /\ c.range = range /\ c.range \in Ranges /\ c.stored \in BOOLEAN
          /\ (c.stored => series = range)
      BY DEF LoadsInv, LoadsTypeOK, Charts, ChartsFit
    <2>2. /\ charts' = charts \ {c} /\ waits' = FALSE /\ range' = range /\ cancelled' = cancelled
          /\ stored' \in {stored, stored \cup {range}}
          /\ \/ series' = range /\ broken' = broken
             \/ ~c.stored /\ series' = NoSeries /\ broken' = TRUE
             \/ c.stored /\ series' = series /\ broken' = broken
      BY <1>3, <2>1 DEF Charted, ChartFailed
    <2>3. /\ IsFiniteSet(charts') /\ charts' = {} /\ charts \subseteq Charts
      BY <2>2, FS_EmptySet DEF LoadsInv, ChartsFit, LoadsTypeOK
    <2>4. series \in {range, NoSeries} /\ ~broken
      BY DEF LoadsInv, ChartsFit, ChartBelongsToRange
    <2>5. ChartsFit'
      <3>1. /\ series' \in {range', NoSeries} /\ (broken' <=> series' = NoSeries)
        BY <2>1, <2>2, <2>4, LoadsAssumption DEF LoadsInv, LoadsTypeOK
      <3> QED BY <3>1, <2>3 DEF ChartsFit, ChartBelongsToRange
    <2>6. LoadsTypeOK'
      BY <1>1, <2>1, <2>2, <2>3 DEF LoadsInv, LoadsTypeOK
    <2> QED BY <1>0, <2>5, <2>6 DEF LoadsInv
  <1>4. ASSUME NEW i \in 1..MaxCharts, Outdated(i)
        PROVE  LoadsInv'
    <2>1. cancelled' \in Seq(Charts)
      BY <1>4, Removed DEF Outdated, LoadsInv, LoadsTypeOK
    <2>2. LoadsTypeOK' /\ ChartsFit'
      BY <1>1, <1>4, <2>1 DEF Outdated, LoadsInv, LoadsTypeOK, ChartsFit, ChartBelongsToRange
    <2> QED BY <1>0, <2>2 DEF LoadsInv
  <1> QED BY <1>2, <1>3, <1>4 DEF ChartNext

LEMMA LoadsInvNext == LoadsInv /\ [LoadsNext]_<<listVars, chartVars>> => LoadsInv'
  <1> SUFFICES ASSUME LoadsInv, [LoadsNext]_<<listVars, chartVars>> PROVE LoadsInv'
    OBVIOUS
  <1>1. CASE LoadsNext
    BY <1>1, InvList, InvChart DEF LoadsNext
  <1>2. CASE UNCHANGED <<listVars, chartVars>>
    BY <1>2 DEF listVars, chartVars, LoadsInv, LoadsTypeOK, NewestFits, LatestLoad,
                ListBelongsToQuery, ChartsFit, ChartBelongsToRange
  <1> QED BY <1>1, <1>2

-----------------------------------------------------------------------------

\* In every behaviour of the hooks the invariant holds.
THEOREM LoadsInvariant == LoadsSpec => []LoadsInv
  <1> QED BY LoadsInvInit, LoadsInvNext, PTL DEF LoadsSpec

\* A list that has been loaded for a text shows the first pages of its result in order,
\* for any number of requests whose answers overtake each other.
THEOREM ListsBelongToQueries == LoadsSpec => []ListBelongsToQuery
  <1>1. LoadsInv => ListBelongsToQuery
    BY DEF LoadsInv
  <1> QED BY <1>1, LoadsInvariant, PTL

\* The chart never shows a range that is not selected.
THEOREM ChartsBelongToRanges == LoadsSpec => []ChartBelongsToRange
  <1>1. LoadsInv => ChartBelongsToRange
    BY DEF LoadsInv, ChartsFit
  <1> QED BY <1>1, LoadsInvariant, PTL

=============================================================================
