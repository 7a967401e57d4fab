-------------------------- MODULE StockQuotesProofs --------------------------
(***************************************************************************)
(* What StockQuotes promises, for any number of replicas, requests,        *)
(* workers and keys.  A replica has a flight for a key exactly while one   *)
(* of its requests flies it; everything else follows from that.            *)
(***************************************************************************)
EXTENDS StockQuotes, TLAPS

Flies(q, s) == step[q][s] \in {"check", "call", "store"}

\* Requests fly under their replica's flight, one for a key; workers use none of it.
FlightsAreFlown ==
    /\ \A q \in Requests, s \in Keys :
         /\ Flies(q, s) => s \in flight[Home[q]]
         /\ step[q][s] = "wait" => s \in flight[Home[q]]
    /\ \A p, q \in Requests, s \in Keys :
         Flies(p, s) /\ Flies(q, s) /\ Home[p] = Home[q] => p = q
    /\ \A r \in Replicas, s \in Keys :
         s \in flight[r] => \E q \in Requests : Home[q] = r /\ Flies(q, s)
    /\ \A w \in Workers, s \in Keys : step[w][s] \notin {"start", "join", "check", "wait"}

\* An entry, what is stored and what is answered are together no older than they may be.
AgesAreBounded ==
    /\ \A s \in Keys : Cached(s) => cache[s].age + cache[s].left <= Life(s) + Slow
    /\ \A q \in Readers, s \in Keys :
         /\ step[q][s] \notin {"store", "ok"} => age[q][s] = 0
         /\ step[q][s] = "store" => age[q][s] <= Slow
         /\ step[q][s] = "ok" => age[q][s] < Life(s) + Slow

QuotesInv == QuotesTypeOK /\ FlightsAreFlown /\ AgesAreBounded /\ OneFetchPerTTL

-----------------------------------------------------------------------------

LEMMA KindsOfReaders ==
  /\ \A q \in Requests :
       q \in Readers /\ q \notin Workers /\ Home[q] \in Replicas /\ By(q) = Home[q]
  /\ \A w \in Workers : w \in Readers /\ w \notin Requests /\ By(w) = w /\ w \notin Replicas
  /\ \A q \in Readers : q \in Requests \/ q \in Workers
  /\ \A s \in Keys : Life(s) \in Nat \ {0}
  /\ Slow \in Nat
  BY QuotesAssumption DEF Readers, By, Replicas, Life

LEMMA QuotesInvInit == QuotesInit => QuotesInv
  <1> SUFFICES ASSUME QuotesInit PROVE QuotesInv
    OBVIOUS
  <1>1. QuotesTypeOK
    BY DEF QuotesInit, QuotesTypeOK, Steps, Cached
  <1>2. FlightsAreFlown
    BY KindsOfReaders DEF QuotesInit, FlightsAreFlown, Flies
  <1>3. AgesAreBounded
    BY KindsOfReaders DEF QuotesInit, AgesAreBounded, Cached
  <1>4. OneFetchPerTTL
    BY DEF QuotesInit, OneFetchPerTTL, Cached
  <1> QED BY <1>1, <1>2, <1>3, <1>4 DEF QuotesInv

\* What To does to the function step.
LEMMA Moved ==
  ASSUME QuotesTypeOK, NEW q \in Readers, NEW s \in Keys, NEW p \in Steps, To(q, s, p)
  PROVE  /\ step' \in [Readers -> [Keys -> Steps]] /\ step'[q][s] = p
         /\ \A x \in Readers, k \in Keys : x # q \/ k # s => step'[x][k] = step[x][k]
  BY DEF QuotesTypeOK, To

\* A goroutine goes on outside of a flight.
LEMMA InvOutside ==
  ASSUME QuotesInv, NEW q \in Readers, NEW s \in Keys,
         NEW p \in {"look", "join", "wait", "call"}, To(q, s, p),
         step[q][s] \in {"none", "start", "look", "join"},
         p = "wait" => s \in flight[Home[q]],
         p = "call" => q \in Workers, q \in Workers => p \in {"look", "call"},
         UNCHANGED <<cache, flight, age, blind>>
  PROVE  QuotesInv'
  <1>1. /\ step' \in [Readers -> [Keys -> Steps]] /\ step'[q][s] = p
        /\ \A x \in Readers, k \in Keys : x # q \/ k # s => step'[x][k] = step[x][k]
    BY Moved DEF QuotesInv, Steps
  <1>2. QuotesTypeOK'
    BY <1>1 DEF QuotesInv, QuotesTypeOK, Cached
  <1>3. FlightsAreFlown'
    <2>1. \A x \in Requests, k \in Keys : Flies(x, k) <=> Flies(x, k)'
      BY <1>1, KindsOfReaders DEF Flies
    <2>2. \A x \in Requests, k \in Keys : step'[x][k] = "wait" => k \in flight[Home[x]]
      BY <1>1, KindsOfReaders DEF QuotesInv, FlightsAreFlown
    <2>3. \A w \in Workers, k \in Keys : step'[w][k] \notin {"start", "join", "check", "wait"}
      BY <1>1, KindsOfReaders DEF QuotesInv, FlightsAreFlown
    <2> QED BY <2>1, <2>2, <2>3, KindsOfReaders DEF QuotesInv, FlightsAreFlown
  <1>4. AgesAreBounded'
    BY <1>1 DEF QuotesInv, AgesAreBounded, Cached
  <1>5. OneFetchPerTTL'
    BY <1>1, KindsOfReaders DEF QuotesInv, OneFetchPerTTL, Cached
  <1> QED BY <1>2, <1>3, <1>4, <1>5 DEF QuotesInv

\* A flight goes on.
LEMMA InvInside ==
  ASSUME QuotesInv, NEW q \in Readers, NEW s \in Keys,
         CheckMiss(q, s) \/ ProviderAnswer(q, s) \/ ProviderCandles(q, s)
  PROVE  QuotesInv'
  <1>0. PICK p \in {"call", "store"} :
          /\ To(q, s, p)
          /\ \/ p = "call" /\ step[q][s] = "check" /\ (Cached(s) => s \in blind'[q])
             \/ p = "store" /\ step[q][s] = "call" /\ blind' = blind
    BY DEF CheckMiss, ProviderAnswer, ProviderCandles, QuotesInv, QuotesTypeOK
  <1>1. /\ step' \in [Readers -> [Keys -> Steps]] /\ step'[q][s] = p
        /\ \A x \in Readers, k \in Keys : x # q \/ k # s => step'[x][k] = step[x][k]
    BY <1>0, Moved DEF QuotesInv, Steps
  <1>a. /\ UNCHANGED <<cache, flight, age>> /\ blind' \in [Readers -> SUBSET Keys]
        /\ \A x \in Readers : blind[x] \subseteq blind'[x]
    <2>1. CASE CheckMiss(q, s)
      <3>1. blind \in [Readers -> SUBSET Keys] /\ UNCHANGED <<cache, flight, age>>
        BY <2>1 DEF CheckMiss, QuotesInv, QuotesTypeOK
      <3>2. /\ blind' \in [Readers -> SUBSET Keys]
            /\ \A x \in Readers : blind[x] \subseteq blind'[x]
        BY <2>1, <3>1 DEF CheckMiss
      <3> QED BY <3>1, <3>2
    <2>2. CASE ProviderAnswer(q, s) \/ ProviderCandles(q, s)
      BY <2>2 DEF ProviderAnswer, ProviderCandles, QuotesInv, QuotesTypeOK
    <2> QED BY <2>1, <2>2
  <1>2. QuotesTypeOK'
    BY <1>1, <1>a DEF QuotesInv, QuotesTypeOK, Cached
  <1>3. FlightsAreFlown'
    <2>1. \A x \in Readers, k \in Keys : Flies(x, k) <=> Flies(x, k)'
      BY <1>0, <1>1 DEF Flies
    <2>2. \A x \in Readers, k \in Keys :
            step'[x][k] \in {"wait", "start", "join", "check"} => step'[x][k] = step[x][k]
      BY <1>1
    <2> QED BY <2>1, <2>2, <1>a, KindsOfReaders DEF QuotesInv, FlightsAreFlown
  <1>4. AgesAreBounded'
    <2>1. age[q][s] = 0
      BY <1>0 DEF QuotesInv, AgesAreBounded
    <2> QED BY <2>1, <1>0, <1>1, <1>a, KindsOfReaders DEF QuotesInv, AgesAreBounded, Cached
  <1>5. OneFetchPerTTL'
    <2> SUFFICES ASSUME NEW x \in Requests, NEW k \in Keys,
                        step'[x][k] \in {"call", "store"}, k \notin blind'[x], Cached(k)
                 PROVE  cache[k].by # Home[x]
      BY <1>a DEF OneFetchPerTTL, Cached
    <2>1. k \notin blind[x]
      BY <1>a, KindsOfReaders
    <2>2. step[x][k] \in {"call", "store"}
      BY <1>0, <1>1, KindsOfReaders
    <2> QED BY <2>1, <2>2 DEF QuotesInv, OneFetchPerTTL
  <1> QED BY <1>2, <1>3, <1>4, <1>5 DEF QuotesInv

\* Get is the one step outside of a flight that gives a reader an age.
LEMMA InvGet ==
  ASSUME QuotesInv, NEW q \in Readers, NEW s \in Keys, Get(q, s)
  PROVE  QuotesInv'
  <1>1. /\ step' \in [Readers -> [Keys -> Steps]] /\ step'[q][s] = "ok"
        /\ \A x \in Readers, k \in Keys : x # q \/ k # s => step'[x][k] = step[x][k]
    BY Moved DEF Get, QuotesInv, Steps
  <1>2. /\ step[q][s] = "look" /\ Cached(s) /\ UNCHANGED <<cache, flight, blind>>
    BY DEF Get
  <1>3. /\ age' \in [Readers -> [Keys -> Nat]] /\ age'[q][s] = cache[s].age
        /\ \A x \in Readers, k \in Keys : x # q \/ k # s => age'[x][k] = age[x][k]
    BY <1>2 DEF Get, QuotesInv, QuotesTypeOK, Entries, Cached
  <1>4. QuotesTypeOK'
    BY <1>1, <1>2, <1>3 DEF QuotesInv, QuotesTypeOK, Cached
  <1>5. FlightsAreFlown'
    <2>1. \A x \in Readers, k \in Keys : Flies(x, k) <=> Flies(x, k)'
      BY <1>1, <1>2 DEF Flies
    <2>2. \A x \in Readers, k \in Keys :
            step'[x][k] \in {"wait", "start", "join", "check"} => step'[x][k] = step[x][k]
      BY <1>1
    <2> QED BY <2>1, <2>2, <1>2, KindsOfReaders DEF QuotesInv, FlightsAreFlown
  <1>6. AgesAreBounded'
    <2>1. cache[s].age < Life(s) + Slow
      <3>1. cache[s].age \in Nat /\ cache[s].left \in 1..Life(s)
        BY <1>2 DEF QuotesInv, QuotesTypeOK, Entries, Cached
      <3> QED BY <1>2, <3>1, KindsOfReaders DEF QuotesInv, AgesAreBounded
    <2> QED BY <2>1, <1>1, <1>2, <1>3 DEF QuotesInv, AgesAreBounded, Cached
  <1>7. OneFetchPerTTL'
    BY <1>1, <1>2, KindsOfReaders DEF QuotesInv, OneFetchPerTTL, Cached
  <1> QED BY <1>4, <1>5, <1>6, <1>7 DEF QuotesInv

\* A request for several symbols starts several goroutines at once.
LEMMA InvQuotes ==
  ASSUME QuotesInv, NEW q \in Readers, NEW asked, NEW supported, Quotes(q, asked, supported)
  PROVE  QuotesInv'
  <1>1. /\ q \in Requests /\ UNCHANGED <<cache, flight, age, blind>>
        /\ step' \in [Readers -> [Keys -> Steps]]
        /\ \A k \in Keys : step[q][k] = "none" /\ step'[q][k] \in {"none", "start", "error"}
        /\ \A x \in Readers \ {q}, k \in Keys : step'[x][k] = step[x][k]
    BY DEF Quotes, Idle, QuotesInv, QuotesTypeOK, Steps
  <1>2. QuotesTypeOK'
    BY <1>1 DEF QuotesInv, QuotesTypeOK, Cached
  <1>3. FlightsAreFlown'
    <2>1. \A x \in Readers, k \in Keys : Flies(x, k) <=> Flies(x, k)'
      BY <1>1 DEF Flies
    <2>2. \A x \in Requests, k \in Keys : step'[x][k] = "wait" => step[x][k] = "wait"
      BY <1>1, KindsOfReaders
    <2>3. \A w \in Workers, k \in Keys : step'[w][k] = step[w][k]
      BY <1>1, KindsOfReaders
    <2> QED BY <2>1, <2>2, <2>3, <1>1, KindsOfReaders DEF QuotesInv, FlightsAreFlown
  <1>4. AgesAreBounded'
    BY <1>1 DEF QuotesInv, AgesAreBounded, Cached
  <1>5. OneFetchPerTTL'
    BY <1>1, KindsOfReaders DEF QuotesInv, OneFetchPerTTL, Cached
  <1> QED BY <1>2, <1>3, <1>4, <1>5 DEF QuotesInv

\* A flight begins.
LEMMA InvLead ==
  ASSUME QuotesInv, NEW q \in Readers, NEW s \in Keys, Lead(q, s)
  PROVE  QuotesInv'
  <1>1. /\ step' \in [Readers -> [Keys -> Steps]] /\ step'[q][s] = "check"
        /\ \A x \in Readers, k \in Keys : x # q \/ k # s => step'[x][k] = step[x][k]
    BY Moved DEF Lead, QuotesInv, Steps
  <1>2. /\ step[q][s] = "join" /\ UNCHANGED <<cache, age, blind>> /\ q \in Requests
        /\ s \notin flight[Home[q]]
    BY KindsOfReaders DEF Lead, QuotesInv, FlightsAreFlown
  <1>3. /\ flight' \in [Replicas -> SUBSET Keys] /\ flight'[Home[q]] = flight[Home[q]] \cup {s}
        /\ \A r \in Replicas : r # Home[q] => flight'[r] = flight[r]
    BY <1>2, KindsOfReaders DEF Lead, QuotesInv, QuotesTypeOK
  <1>4. QuotesTypeOK'
    BY <1>1, <1>2, <1>3 DEF QuotesInv, QuotesTypeOK, Cached
  <1>5. FlightsAreFlown'
    <2>1. /\ \A x \in Readers, k \in Keys : Flies(x, k)' <=> Flies(x, k) \/ (x = q /\ k = s)
          /\ \A x \in Readers, k \in Keys : step'[x][k] = "wait" => step[x][k] = "wait"
      BY <1>1 DEF Flies
    <2>2. \A x \in Requests, k \in Keys :
            /\ Flies(x, k)' => k \in flight'[Home[x]]
            /\ step'[x][k] = "wait" => k \in flight'[Home[x]]
      BY <2>1, <1>2, <1>3, KindsOfReaders DEF QuotesInv, FlightsAreFlown
    <2>3. \A x, y \in Requests, k \in Keys :
            Flies(x, k)' /\ Flies(y, k)' /\ Home[x] = Home[y] => x = y
      BY <2>1, <1>2, KindsOfReaders DEF QuotesInv, FlightsAreFlown
    <2>4. \A r \in Replicas, k \in Keys :
            k \in flight'[r] => \E x \in Requests : Home[x] = r /\ Flies(x, k)'
      BY <2>1, <1>2, <1>3, KindsOfReaders DEF QuotesInv, FlightsAreFlown
    <2>5. \A w \in Workers, k \in Keys : step'[w][k] \notin {"start", "join", "check", "wait"}
      BY <1>1, <1>2, KindsOfReaders DEF QuotesInv, FlightsAreFlown
    <2> QED BY <2>2, <2>3, <2>4, <2>5 DEF FlightsAreFlown
  <1>6. AgesAreBounded'
    BY <1>1, <1>2 DEF QuotesInv, AgesAreBounded, Cached
  <1>7. OneFetchPerTTL'
    BY <1>1, <1>2, KindsOfReaders DEF QuotesInv, OneFetchPerTTL, Cached
  <1> QED BY <1>4, <1>5, <1>6, <1>7 DEF QuotesInv

\* A flight, or a worker's fetch, ends with an answer for all it serves.
LEMMA Landed ==
  ASSUME QuotesInv, NEW q \in Readers, NEW s \in Keys, NEW p \in {"ok", "error"}, NEW a \in Nat,
         Flies(q, s), EndFlight(q, s, p, a)
  PROVE  /\ step' \in [Readers -> [Keys -> Steps]] /\ age' \in [Readers -> [Keys -> Nat]]
         /\ \A x \in Readers, k \in Keys :
              \/ /\ k = s /\ x \in Served(q, s)
                 /\ step'[x][k] = p /\ age'[x][k] = a
              \/ /\ k # s \/ x \notin Served(q, s)
                 /\ step'[x][k] = step[x][k] /\ age'[x][k] = age[x][k]
  <1>1. p \in Steps /\ step \in [Readers -> [Keys -> Steps]] /\ age \in [Readers -> [Keys -> Nat]]
    BY DEF QuotesInv, QuotesTypeOK, Steps
  <1> DEFINE served == Served(q, s)
  <1>2. /\ step' = [x \in Readers |-> IF x \in served THEN [step[x] EXCEPT ![s] = p] ELSE step[x]]
        /\ age' = [x \in Readers |-> IF x \in served THEN [age[x] EXCEPT ![s] = a] ELSE age[x]]
    BY DEF EndFlight
  <1> HIDE DEF served
  <1>3. step' \in [Readers -> [Keys -> Steps]]
    BY <1>1, <1>2
  <1>4. age' \in [Readers -> [Keys -> Nat]]
    BY <1>1, <1>2
  <1>5. \A x \in Readers, k \in Keys :
           \/ /\ k = s /\ x \in served
              /\ step'[x][k] = p /\ age'[x][k] = a
           \/ /\ k # s \/ x \notin served
              /\ step'[x][k] = step[x][k] /\ age'[x][k] = age[x][k]
    BY <1>1, <1>2
  <1> QED BY <1>3, <1>4, <1>5 DEF served

\* Nobody of the replica flies the key, or waits for it, when its flight has ended.
LEMMA FlightsLanded ==
  ASSUME QuotesInv, NEW q \in Readers, NEW s \in Keys, NEW p \in {"ok", "error"}, NEW a \in Nat,
         Flies(q, s), EndFlight(q, s, p, a)
  PROVE  FlightsAreFlown' /\ flight' \in [Replicas -> SUBSET Keys]
  <1>1. \A x \in Readers, k \in Keys :
           \/ k = s /\ x \in Served(q, s) /\ step'[x][k] = p
           \/ (k # s \/ x \notin Served(q, s)) /\ step'[x][k] = step[x][k]
    BY Landed
  <1>2. q \in Served(q, s)
    BY DEF Served
  <1>3. /\ flight' \in [Replicas -> SUBSET Keys]
        /\ \A r \in Replicas, k \in Keys :
             (k \in flight'[r]) <=> (k \in flight[r] /\ ~(k = s /\ r = By(q)))
    BY DEF EndFlight, QuotesInv, QuotesTypeOK
  <1>4. \A x \in Readers, k \in Keys :
           /\ Flies(x, k)' => Flies(x, k) /\ step'[x][k] = step[x][k]
           /\ ~(k = s /\ x \in Served(q, s)) => (Flies(x, k)' <=> Flies(x, k))
    BY <1>1 DEF Flies
  <1>5. \A x \in Requests : By(q) = Home[x] /\ (Flies(x, s) \/ step[x][s] = "wait")
                            => x \in Served(q, s)
    <2> SUFFICES ASSUME NEW x \in Requests, By(q) = Home[x], Flies(x, s) \/ step[x][s] = "wait"
                 PROVE  x \in Served(q, s)
      OBVIOUS
    <2>1. q \in Requests /\ q \notin Workers /\ Home[q] = Home[x]
      BY KindsOfReaders
    <2>2. CASE Flies(x, s)
      <3>1. x = q
        BY <2>1, <2>2 DEF QuotesInv, FlightsAreFlown
      <3> QED BY <3>1, <1>2
    <2>3. CASE step[x][s] = "wait"
      BY <2>1, <2>3 DEF Served
    <2> QED BY <2>2, <2>3
  <1>6. \A x \in Requests, k \in Keys :
          /\ Flies(x, k)' => k \in flight'[Home[x]]
          /\ step'[x][k] = "wait" => k \in flight'[Home[x]]
    <2> SUFFICES ASSUME NEW x \in Requests, NEW k \in Keys, Flies(x, k)' \/ step'[x][k] = "wait"
                 PROVE  k \in flight'[Home[x]]
      OBVIOUS
    <2>1. /\ step'[x][k] = step[x][k] /\ (k # s \/ x \notin Served(q, s))
          /\ Flies(x, k) \/ step[x][k] = "wait"
      BY <1>1, <1>4, KindsOfReaders DEF Flies
    <2>2. k \in flight[Home[x]]
      BY <2>1 DEF QuotesInv, FlightsAreFlown
    <2>3. ~(k = s /\ Home[x] = By(q))
      BY <2>1, <1>5
    <2> QED BY <2>2, <2>3, <1>3, KindsOfReaders
  <1>7. \A x, y \in Requests, k \in Keys :
          Flies(x, k)' /\ Flies(y, k)' /\ Home[x] = Home[y] => x = y
    BY <1>4, KindsOfReaders DEF QuotesInv, FlightsAreFlown
  <1>8. \A r \in Replicas, k \in Keys :
          k \in flight'[r] => \E x \in Requests : Home[x] = r /\ Flies(x, k)'
    <2> SUFFICES ASSUME NEW r \in Replicas, NEW k \in Keys, k \in flight'[r]
                 PROVE  \E x \in Requests : Home[x] = r /\ Flies(x, k)'
      OBVIOUS
    <2>1. k \in flight[r] /\ ~(k = s /\ r = By(q))
      BY <1>3
    <2>2. PICK x \in Requests : Home[x] = r /\ Flies(x, k)
      BY <2>1 DEF QuotesInv, FlightsAreFlown
    <2>3. ~(k = s /\ x \in Served(q, s))
      BY <2>1, <2>2, KindsOfReaders DEF Served
    <2> QED BY <2>2, <2>3, <1>4, KindsOfReaders
  <1>9. \A w \in Workers, k \in Keys : step'[w][k] \notin {"start", "join", "check", "wait"}
    BY <1>1, KindsOfReaders DEF QuotesInv, FlightsAreFlown
  <1> QED BY <1>3, <1>6, <1>7, <1>8, <1>9 DEF FlightsAreFlown

\* A flight ends, with or without an entry for the cache.
LEMMA InvEnd ==
  ASSUME QuotesInv, NEW q \in Readers, NEW s \in Keys, NEW p \in {"ok", "error"}, NEW a \in Nat,
         Flies(q, s), EndFlight(q, s, p, a),
         a < Life(s) + Slow, p = "error" => a = 0,
         \/ UNCHANGED cache
         \/ a <= Slow /\ cache' = [cache EXCEPT ![s] = [age |-> a, left |-> Life(s), by |-> By(q)]]
  PROVE  QuotesInv'
  <1>1. /\ step' \in [Readers -> [Keys -> Steps]] /\ age' \in [Readers -> [Keys -> Nat]]
        /\ \A x \in Readers, k \in Keys :
             \/ /\ k = s /\ x \in Served(q, s)
                /\ step'[x][k] = p /\ age'[x][k] = a
             \/ /\ k # s \/ x \notin Served(q, s)
                /\ step'[x][k] = step[x][k] /\ age'[x][k] = age[x][k]
    BY Landed
  <1>2. FlightsAreFlown' /\ flight' \in [Replicas -> SUBSET Keys]
    BY FlightsLanded
  <1>3. /\ blind' \in [Readers -> SUBSET Keys]
        /\ \A x \in Readers, k \in Keys : k \in blind[x] => k \in blind'[x] \/ (x = q /\ k = s)
    <2>1. blind' = [blind EXCEPT ![q] = @ \ {s}] /\ blind \in [Readers -> SUBSET Keys]
      BY DEF EndFlight, QuotesInv, QuotesTypeOK
    <2> QED BY <2>1
  <1>4. By(q) \in Replicas \cup Workers
    BY KindsOfReaders
  <1>5. /\ cache' \in [Keys -> Entries \cup {Uncached}]
        /\ \A k \in Keys :
             \/ cache'[k] = cache[k]
             \/ /\ k = s /\ cache'[k] = [age |-> a, left |-> Life(s), by |-> By(q)]
                /\ a <= Slow
    BY <1>4, KindsOfReaders DEF QuotesInv, QuotesTypeOK, Entries
  <1>6. \A k \in Keys : Cached(k)' => /\ cache'[k].left \in 1..Life(k)
                                     /\ cache'[k].age + cache'[k].left <= Life(k) + Slow
    <2> SUFFICES ASSUME NEW k \in Keys, cache'[k] # Uncached
                 PROVE  /\ cache'[k].left \in 1..Life(k)
                        /\ cache'[k].age + cache'[k].left <= Life(k) + Slow
      BY DEF Cached
    <2>1. CASE cache'[k] = cache[k]
      BY <2>1 DEF QuotesInv, QuotesTypeOK, AgesAreBounded, Cached
    <2>2. CASE k = s /\ a <= Slow /\ cache'[k] = [age |-> a, left |-> Life(s), by |-> By(q)]
      BY <2>2, KindsOfReaders
    <2> QED BY <2>1, <2>2, <1>5
  <1>7. QuotesTypeOK'
    BY <1>1, <1>2, <1>3, <1>5, <1>6 DEF QuotesTypeOK
  <1>8. AgesAreBounded'
    <2>1. \A x \in Readers, k \in Keys :
            /\ step'[x][k] \notin {"store", "ok"} => age'[x][k] = 0
            /\ step'[x][k] = "store" => age'[x][k] <= Slow
            /\ step'[x][k] = "ok" => age'[x][k] < Life(k) + Slow
      BY <1>1 DEF QuotesInv, AgesAreBounded
    <2> QED BY <2>1, <1>6 DEF AgesAreBounded
  <1>9. OneFetchPerTTL'
    <2> SUFFICES ASSUME NEW x \in Requests, NEW k \in Keys,
                        step'[x][k] \in {"call", "store"}, k \notin blind'[x], Cached(k)'
                 PROVE  cache'[k].by # Home[x]
      BY DEF OneFetchPerTTL
    <2>1. /\ ~(k = s /\ x \in Served(q, s)) /\ step'[x][k] = step[x][k] /\ k \notin blind[x]
      <3>1. q \in Served(q, s)
        BY DEF Served
      <3> QED BY <3>1, <1>1, <1>3, KindsOfReaders
    <2>2. CASE cache'[k] = cache[k]
      BY <2>1, <2>2 DEF QuotesInv, OneFetchPerTTL, Cached
    <2>3. CASE k = s /\ cache'[k].by = By(q)
      <3> SUFFICES ASSUME By(q) = Home[x] PROVE FALSE
        BY <2>3
      <3>1. q \in Requests /\ Home[q] = Home[x]
        BY KindsOfReaders
      <3>2. Flies(x, s)
        BY <2>1, <2>3 DEF Flies
      <3>3. x = q
        BY <3>1, <3>2 DEF QuotesInv, FlightsAreFlown
      <3> QED BY <3>3, <2>1, <2>3 DEF Served
    <2> QED BY <2>2, <2>3, <1>5
  <1> QED BY <1>2, <1>7, <1>8, <1>9 DEF QuotesInv

LEMMA InvLands ==
  ASSUME QuotesInv, NEW q \in Readers, NEW s \in Keys,
         CheckHit(q, s) \/ ProviderError(q, s) \/ Store(q, s)
  PROVE  QuotesInv'
  <1>1. CASE CheckHit(q, s)
    <2>1. Cached(s) /\ Flies(q, s) /\ EndFlight(q, s, "ok", cache[s].age) /\ UNCHANGED cache
      BY <1>1 DEF CheckHit, Flies
    <2>2. cache[s].age \in Nat /\ cache[s].left \in 1..Life(s)
      BY <2>1 DEF QuotesInv, QuotesTypeOK, Entries, Cached
    <2>3. cache[s].age < Life(s) + Slow
      BY <2>1, <2>2, KindsOfReaders DEF QuotesInv, AgesAreBounded
    <2> QED BY <2>1, <2>2, <2>3, InvEnd
  <1>2. CASE ProviderError(q, s)
    BY <1>2, InvEnd, KindsOfReaders DEF ProviderError, Flies
  <1>3. CASE Store(q, s)
    <2>1. /\ Flies(q, s) /\ EndFlight(q, s, "ok", age[q][s]) /\ step[q][s] = "store"
          /\ \/ UNCHANGED cache
             \/ cache' = [cache EXCEPT ![s] = [age |-> age[q][s], left |-> Life(s), by |-> By(q)]]
      BY <1>3, QuotesAssumption DEF Store, Flies, SetQuote, SetCandles, Written, Life
    <2>2. age[q][s] \in Nat /\ age[q][s] <= Slow /\ age[q][s] < Life(s) + Slow
      <3>1. age[q][s] \in Nat
        BY DEF QuotesInv, QuotesTypeOK
      <3>2. age[q][s] <= Slow
        BY <2>1 DEF QuotesInv, AgesAreBounded
      <3>3. Life(s) \in Nat \ {0} /\ Slow \in Nat
        BY KindsOfReaders
      <3> QED BY <3>1, <3>2, <3>3
    <2> QED BY <2>1, <2>2, InvEnd
  <1> QED BY <1>1, <1>2, <1>3

LEMMA InvReply ==
  ASSUME QuotesInv, NEW q \in Readers, Reply(q)
  PROVE  QuotesInv'
  <1>1. /\ UNCHANGED <<cache, flight, blind>>
        /\ step' \in [Readers -> [Keys -> Steps]] /\ age' \in [Readers -> [Keys -> Nat]]
        /\ \A k \in Keys : step[q][k] \in {"none", "ok", "error"} /\ step'[q][k] = "none"
                         /\ age'[q][k] = 0
        /\ \A x \in Readers \ {q}, k \in Keys : step'[x][k] = step[x][k] /\ age'[x][k] = age[x][k]
    BY DEF Reply, QuotesInv, QuotesTypeOK, Steps
  <1>2. QuotesTypeOK'
    BY <1>1 DEF QuotesInv, QuotesTypeOK, Cached
  <1>3. FlightsAreFlown'
    <2>1. \A x \in Readers, k \in Keys : Flies(x, k) <=> Flies(x, k)'
      BY <1>1 DEF Flies
    <2>2. \A x \in Readers, k \in Keys :
            step'[x][k] \in {"wait", "start", "join", "check"} => step'[x][k] = step[x][k]
      BY <1>1
    <2>3. flight' = flight
      BY <1>1
    <2> QED BY <2>1, <2>2, <2>3, KindsOfReaders DEF QuotesInv, FlightsAreFlown
  <1>4. AgesAreBounded'
    BY <1>1 DEF QuotesInv, AgesAreBounded, Cached
  <1>5. OneFetchPerTTL'
    BY <1>1, KindsOfReaders DEF QuotesInv, OneFetchPerTTL, Cached
  <1> QED BY <1>2, <1>3, <1>4, <1>5 DEF QuotesInv

\* Time leaves the sum of an entry's age and of its life as it is.
LEMMA InvElapse == QuotesInv /\ Elapse => QuotesInv'
  <1> SUFFICES ASSUME QuotesInv, Elapse PROVE QuotesInv'
    OBVIOUS
  <1>1. UNCHANGED <<flight, step, blind>>
    BY DEF Elapse
  <1>2. \A k \in Keys :
          \/ cache'[k] = Uncached
          \/ /\ Cached(k) /\ cache[k].left # 1
             /\ cache'[k] = [cache[k] EXCEPT !.age = @ + 1, !.left = @ - 1]
    BY DEF Elapse
  <1>3. \A k \in Keys : Cached(k) =>
          /\ cache[k] \in Entries /\ cache[k].left \in 1..Life(k)
          /\ cache[k].age + cache[k].left <= Life(k) + Slow
    BY DEF QuotesInv, QuotesTypeOK, AgesAreBounded, Cached
  <1>4. \A k \in Keys : cache'[k] # Uncached =>
          /\ Cached(k) /\ cache'[k] \in Entries /\ cache'[k].left \in 1..Life(k)
          /\ cache'[k].age + cache'[k].left <= Life(k) + Slow /\ cache'[k].by = cache[k].by
    <2> SUFFICES ASSUME NEW k \in Keys, cache'[k] # Uncached
                 PROVE  /\ Cached(k) /\ cache'[k] \in Entries /\ cache'[k].left \in 1..Life(k)
                        /\ cache'[k].age + cache'[k].left <= Life(k) + Slow
                        /\ cache'[k].by = cache[k].by
      OBVIOUS
    <2>1. /\ Cached(k) /\ cache[k].left # 1
          /\ cache'[k] = [cache[k] EXCEPT !.age = @ + 1, !.left = @ - 1]
      BY <1>2
    <2>2. /\ cache[k] \in Entries /\ cache[k].left \in 1..Life(k)
          /\ cache[k].age + cache[k].left <= Life(k) + Slow
      BY <2>1, <1>3
    <2>3. /\ cache'[k].age = cache[k].age + 1 /\ cache'[k].left = cache[k].left - 1
          /\ cache'[k].by = cache[k].by /\ cache'[k] \in Entries
      <3> DEFINE e == cache[k]
      <3>1. e \in [age : Nat, left : Nat, by : Replicas \cup Workers] /\ e.left >= 1
        BY <2>2, KindsOfReaders DEF Entries
      <3>2. cache'[k] = [e EXCEPT !.age = @ + 1, !.left = @ - 1]
        BY <2>1
      <3> HIDE DEF e
      <3>3. e.age + 1 \in Nat /\ e.left - 1 \in Nat
        BY <3>1
      <3>4. /\ cache'[k].age = e.age + 1 /\ cache'[k].left = e.left - 1
            /\ cache'[k].by = e.by
            /\ cache'[k] \in [age : Nat, left : Nat, by : Replicas \cup Workers]
        BY <3>1, <3>2, <3>3
      <3> QED BY <3>4 DEF e, Entries
    <2>4. cache[k].age \in Nat /\ cache[k].left \in Nat /\ Life(k) \in Nat
      BY <2>2, KindsOfReaders DEF Entries
    <2> QED BY <2>1, <2>2, <2>3, <2>4, KindsOfReaders
  <1>5. /\ age' \in [Readers -> [Keys -> Nat]]
        /\ \A x \in Readers, k \in Keys :
             \/ step[x][k] = "store" /\ age[x][k] < Slow /\ age'[x][k] = age[x][k] + 1
             \/ step[x][k] # "store" /\ age'[x][k] = age[x][k]
    <2>1. age \in [Readers -> [Keys -> Nat]]
      BY DEF QuotesInv, QuotesTypeOK
    <2>2. \A x \in Readers, k \in Keys : step[x][k] = "store" => age[x][k] < Slow
      BY DEF Elapse
    <2>3. age' = [x \in Readers |-> [k \in Keys |->
                    IF step[x][k] = "store" THEN age[x][k] + 1 ELSE age[x][k]]]
      BY DEF Elapse
    <2>4. \A x \in Readers, k \in Keys :
            age'[x][k] = IF step[x][k] = "store" THEN age[x][k] + 1 ELSE age[x][k]
      BY <2>3
    <2>5. \A x \in Readers, k \in Keys :
            (IF step[x][k] = "store" THEN age[x][k] + 1 ELSE age[x][k]) \in Nat
      BY <2>1
    <2>6. age' \in [Readers -> [Keys -> Nat]]
      BY <2>3, <2>5
    <2> QED BY <2>2, <2>4, <2>6
  <1>6. QuotesTypeOK'
    <2>1. cache' \in [Keys -> Entries \cup {Uncached}]
      <3>1. cache' = [k \in Keys |-> cache'[k]]
        BY DEF Elapse
      <3> QED BY <3>1, <1>4
    <2> QED BY <2>1, <1>1, <1>4, <1>5 DEF QuotesInv, QuotesTypeOK, Cached
  <1>7. FlightsAreFlown'
    BY <1>1 DEF QuotesInv, FlightsAreFlown, Flies
  <1>8. AgesAreBounded'
    <2>1. \A x \in Readers, k \in Keys :
            /\ step'[x][k] \notin {"store", "ok"} => age'[x][k] = 0
            /\ step'[x][k] = "store" => age'[x][k] <= Slow
            /\ step'[x][k] = "ok" => age'[x][k] < Life(k) + Slow
      <3> SUFFICES ASSUME NEW x \in Readers, NEW k \in Keys
                   PROVE  /\ step'[x][k] \notin {"store", "ok"} => age'[x][k] = 0
                          /\ step'[x][k] = "store" => age'[x][k] <= Slow
                          /\ step'[x][k] = "ok" => age'[x][k] < Life(k) + Slow
        OBVIOUS
      <3>1. age[x][k] \in Nat
        BY DEF QuotesInv, QuotesTypeOK
      <3>2. CASE step[x][k] = "store"
        BY <3>1, <3>2, <1>1, <1>5, KindsOfReaders
      <3>3. CASE step[x][k] # "store"
        BY <3>3, <1>1, <1>5 DEF QuotesInv, AgesAreBounded
      <3> QED BY <3>2, <3>3
    <2> QED BY <2>1, <1>4 DEF AgesAreBounded, Cached
  <1>9. OneFetchPerTTL'
    BY <1>1, <1>4 DEF QuotesInv, OneFetchPerTTL, Cached
  <1> QED BY <1>6, <1>7, <1>8, <1>9 DEF QuotesInv

LEMMA QuotesInvNext == QuotesInv /\ [QuotesNext]_quotesVars => QuotesInv'
  <1> SUFFICES ASSUME QuotesInv, [QuotesNext]_quotesVars PROVE QuotesInv'
    OBVIOUS
  <1>1. CASE Elapse
    BY <1>1, InvElapse
  <1>2. CASE \E q \in Readers : Reply(q)
    BY <1>2, InvReply
  <1>3. ASSUME NEW q \in Readers, NEW s \in Keys,
               Quote(q, s) \/ Candles(q, s) \/ WorkerQuote(q, s) \/ Acquire(q, s)
        PROVE  QuotesInv'
    <2>1. /\ To(q, s, "look") /\ step[q][s] \in {"none", "start"}
          /\ UNCHANGED <<cache, flight, age, blind>>
      BY <1>3 DEF Quote, Candles, WorkerQuote, Acquire, Idle
    <2> QED BY <2>1, InvOutside
  <1>4. ASSUME NEW q \in Readers, NEW s \in Keys, GetMiss(q, s)
        PROVE  QuotesInv'
    <2>1. PICK p \in {"call", "join"} :
            /\ To(q, s, p) /\ (p = "call" <=> q \in Workers)
            /\ step[q][s] = "look" /\ UNCHANGED <<cache, flight, age, blind>>
      BY <1>4 DEF GetMiss
    <2>2. CASE p = "call"
      BY <2>1, <2>2, InvOutside
    <2>3. CASE p = "join"
      <3>1. q \notin Workers
        BY <2>1, <2>3
      <3>2. /\ To(q, s, "join") /\ step[q][s] = "look"
            /\ UNCHANGED <<cache, flight, age, blind>>
        BY <2>1, <2>3
      <3> QED BY <3>1, <3>2, InvOutside
    <2> QED BY <2>1, <2>2, <2>3
  <1>5. ASSUME NEW q \in Readers, NEW s \in Keys, Follow(q, s)
        PROVE  QuotesInv'
    <2>1. /\ To(q, s, "wait") /\ step[q][s] = "join" /\ s \in flight[Home[q]]
          /\ q \notin Workers /\ UNCHANGED <<cache, flight, age, blind>>
      BY <1>5 DEF Follow, QuotesInv, FlightsAreFlown
    <2> QED BY <2>1, InvOutside
  <1>6. ASSUME NEW q \in Readers, NEW s \in Keys, GoOn(q, s)
        PROVE  QuotesInv'
    BY <1>6, <1>3, <1>4, <1>5, InvGet, InvLead, InvInside, InvLands DEF GoOn
  <1>7. CASE UNCHANGED quotesVars
    BY <1>7 DEF quotesVars, QuotesInv, QuotesTypeOK, FlightsAreFlown, Flies, AgesAreBounded,
                OneFetchPerTTL, Cached
  <1>8. CASE QuotesNext
    BY <1>8, <1>1, <1>2, <1>3, <1>6, InvQuotes DEF QuotesNext
  <1> QED BY <1>7, <1>8

-----------------------------------------------------------------------------

\* In every behaviour of the replicas and the workers the invariant holds.
THEOREM QuotesInvariant == QuotesSpec => []QuotesInv
  <1> QED BY QuotesInvInit, QuotesInvNext, PTL DEF QuotesSpec

\* The types of StockQuotes.
THEOREM QuotesTypeCorrect == QuotesSpec => []QuotesTypeOK
  <1>1. QuotesInv => QuotesTypeOK
    BY DEF QuotesInv
  <1> QED BY <1>1, QuotesInvariant, PTL

\* No quote or series a request answers, or a worker compares with a target, was given by
\* the provider longer ago than the life of an entry and the slowest SET allow, for any
\* number of replicas and workers that overwrite each other's entries.
THEOREM AnswersAreFresh == QuotesSpec => []Fresh
  <1>1. QuotesInv => Fresh
    BY DEF QuotesInv, AgesAreBounded, Fresh
  <1> QED BY <1>1, QuotesInvariant, PTL

\* A replica that can read the cache never asks the provider for what it has stored.
THEOREM NoRepeatedFetch == QuotesSpec => []OneFetchPerTTL
  <1>1. QuotesInv => OneFetchPerTTL
    BY DEF QuotesInv
  <1> QED BY <1>1, QuotesInvariant, PTL

\* Who waits for a flight waits for exactly one goroutine of its replica.
THEOREM NobodyWaitsInVain == QuotesSpec => []WaitersAreServed
  <1>1. QuotesInv => WaitersAreServed
    <2> SUFFICES ASSUME QuotesInv, NEW q \in Requests, NEW s \in Keys, step[q][s] = "wait"
                 PROVE  \E p \in Requests :
                          /\ Home[p] = Home[q] /\ Flies(p, s)
                          /\ \A x \in Requests \ {p} : Home[x] = Home[q] => ~Flies(x, s)
      BY DEF WaitersAreServed, Flies
    <2>1. s \in flight[Home[q]]
      BY DEF QuotesInv, FlightsAreFlown
    <2>2. PICK p \in Requests : Home[p] = Home[q] /\ Flies(p, s)
      BY <2>1, KindsOfReaders DEF QuotesInv, FlightsAreFlown
    <2> QED BY <2>2 DEF QuotesInv, FlightsAreFlown
  <1> QED BY <1>1, QuotesInvariant, PTL

=============================================================================
