--------------------------- MODULE BalancerProofs ---------------------------
(***************************************************************************)
(* Proofs about EndpointCache and Balancer, for every number of instances, *)
(* endpoints, callers, tries and events.                                   *)
(***************************************************************************)
EXTENDS Balancer, FiniteSetTheorems, SequenceTheorems, TLAPS

-----------------------------------------------------------------------------
(***************************************************************************)
(* The elements of a set of numbers in their order                         *)
(***************************************************************************)
\* How many elements of T there are up to i: the place of i in T.
Rank(T, i) == Cardinality({j \in T : j <= i})

\* The places of the elements are numbers from 1 to the size of the set.
LEMMA RankRange ==
  ASSUME NEW T \in SUBSET Nat, IsFiniteSet(T), NEW i \in T
  PROVE  Rank(T, i) \in 1 .. Cardinality(T)
<1> DEFINE U == {j \in T : j <= i}
<1>1. U \in SUBSET T /\ i \in U
  OBVIOUS
<1> HIDE DEF U
<1>2. IsFiniteSet(U) /\ Cardinality(U) <= Cardinality(T)
  BY <1>1, FS_Subset
<1>3. Cardinality(U) \in Nat /\ Cardinality(T) \in Nat /\ Cardinality(U) # 0
  BY <1>1, <1>2, FS_CardinalityType, FS_EmptySet
<1> QED
  BY <1>2, <1>3 DEF Rank, U

\* A greater element has a later place.
LEMMA RankGrows ==
  ASSUME NEW T \in SUBSET Nat, IsFiniteSet(T), NEW i \in T, NEW k \in T, i < k
  PROVE  Rank(T, i) < Rank(T, k)
<1> DEFINE U == {j \in T : j <= i}
           V == {j \in T : j <= k}
<1>0. /\ i \in Nat /\ k \in Nat /\ ~(k <= i) /\ k <= k
      /\ \A j \in T : j <= i => j <= k
  OBVIOUS
<1>1. U \in SUBSET T /\ V \in SUBSET T /\ U \cup {k} \in SUBSET V /\ k \notin U
  BY <1>0
<1> HIDE DEF U, V
<1>2. IsFiniteSet(U) /\ IsFiniteSet(V)
  BY <1>1, FS_Subset
<1>3. /\ Cardinality(U \cup {k}) = Cardinality(U) + 1
      /\ Cardinality(U \cup {k}) <= Cardinality(V)
      /\ Cardinality(U) \in Nat /\ Cardinality(V) \in Nat
  BY <1>1, <1>2, FS_AddElement, FS_Subset, FS_CardinalityType
<1>4. Cardinality(U) < Cardinality(V)
  BY <1>3
<1> QED
  BY <1>4 DEF Rank, U, V

\* So no two elements have the same place.
LEMMA RankDistinct ==
  ASSUME NEW T \in SUBSET Nat, IsFiniteSet(T), NEW i \in T, NEW k \in T, Rank(T, i) = Rank(T, k)
  PROVE  i = k
<1>1. i \in Nat /\ k \in Nat /\ Rank(T, i) \in Nat /\ Rank(T, k) \in Nat
  BY RankRange, FS_CardinalityType
<1>2. CASE i < k
  BY <1>1, <1>2, RankGrows
<1>3. CASE k < i
  BY <1>1, <1>3, RankGrows
<1> QED
  BY <1>1, <1>2, <1>3

\* And every place is some element's.
LEMMA RankHits ==
  ASSUME NEW T \in SUBSET Nat, IsFiniteSet(T), NEW n \in 1 .. Cardinality(T)
  PROVE  \E i \in T : Rank(T, i) = n
<1> DEFINE places == 1 .. Cardinality(T)
           f == [i \in T |-> Rank(T, i)]
<1>1. Cardinality(T) \in Nat
  BY FS_CardinalityType
<1>2. IsFiniteSet(places) /\ Cardinality(places) = Cardinality(T)
  BY <1>1, FS_Interval
<1>3. f \in [T -> places] /\ \A i, k \in T : f[i] = f[k] => i = k
  BY RankRange, RankDistinct
<1>4. f \in Injection(T, places)
  BY <1>3 DEF Injection, IsInjective
<1> HIDE DEF f, places
<1>5. f \in Surjection(T, places)
  BY <1>2, <1>4, FS_Injection
<1>6. \E i \in T : f[i] = n
  BY <1>5 DEF Surjection, places
<1> QED
  BY <1>6 DEF f

\* Nth(T, n) is the element at place n.
LEMMA NthFacts ==
  ASSUME NEW T \in SUBSET Nat, IsFiniteSet(T), NEW n \in 1 .. Cardinality(T)
  PROVE  Nth(T, n) \in T /\ Rank(T, Nth(T, n)) = n
<1>1. \E i \in T : Cardinality({j \in T : j <= i}) = n
  BY RankHits DEF Rank
<1> QED
  BY <1>1 DEF Nth, Rank

\* The element at the place of i is i.
LEMMA NthRank ==
  ASSUME NEW T \in SUBSET Nat, IsFiniteSet(T), NEW i \in T
  PROVE  Nth(T, Rank(T, i)) = i
<1> DEFINE k == Nth(T, Rank(T, i))
<1>1. Rank(T, i) \in 1 .. Cardinality(T)
  BY RankRange
<1>2. k \in T /\ Rank(T, k) = Rank(T, i)
  BY <1>1, NthFacts
<1> HIDE DEF k
<1>3. k = i
  BY <1>2, RankDistinct
<1> QED
  BY <1>3 DEF k

\* A list of one element for each of a set of numbers, in their order.
Listing(T, f) == [k \in 1 .. Cardinality(T) |-> f[Nth(T, k)]]
LEMMA ListingFacts ==
  ASSUME NEW T \in SUBSET Nat, IsFiniteSet(T), NEW A, NEW f, \A i \in T : f[i] \in A
  PROVE  /\ Listing(T, f) \in Seq(A) /\ Len(Listing(T, f)) = Cardinality(T)
         /\ ToSet(Listing(T, f)) = {f[i] : i \in T}
<1> DEFINE s == Listing(T, f)
<1>1. Cardinality(T) \in Nat
  BY FS_CardinalityType
<1>2. \A k \in 1 .. Cardinality(T) : Nth(T, k) \in T /\ s[k] = f[Nth(T, k)]
  BY NthFacts DEF Listing
<1>3. s \in [1 .. Cardinality(T) -> A]
  BY <1>2 DEF Listing
<1> HIDE DEF s
<1>4. s \in Seq(A) /\ Len(s) = Cardinality(T) /\ DOMAIN s = 1 .. Cardinality(T)
  BY <1>1, <1>3, SeqDef, LenProperties
<1>5. ASSUME NEW i \in T PROVE f[i] \in ToSet(s)
  <2>1. Rank(T, i) \in 1 .. Cardinality(T) /\ Nth(T, Rank(T, i)) = i
    BY RankRange, NthRank
  <2> QED
    BY <1>2, <1>4, <2>1 DEF ToSet
<1>6. ToSet(s) \subseteq {f[i] : i \in T}
  BY <1>2, <1>4 DEF ToSet
<1> QED
  BY <1>4, <1>5, <1>6 DEF s

-----------------------------------------------------------------------------
(***************************************************************************)
(* The cache                                                               *)
(***************************************************************************)
\* Two instances never share an endpoint, and the numbers of the endpoints are
\* those of the ones made.
CacheInv ==
  /\ \A i \in Cached : cache[i] <= made
  /\ \A i, j \in Cached : cache[i] = cache[j] => i = j
  /\ shut \subseteq 1 .. made

\* The instances a set of the registry may name.
LEMMA InstanceSets ==
  ASSUME NEW S \in SUBSET Instances
  PROVE  S \in SUBSET Nat /\ IsFiniteSet(S) /\ Cardinality(S) \in Nat
BY InstancesAssumption, FS_Subset, FS_CardinalityType

\* The numbers the factory gives to the endpoints it makes are the next ones.
LEMMA NewFacts ==
  ASSUME NEW ok \in SUBSET Instances, made \in Nat
  PROVE  /\ \A i \in ok : New(ok, i) \in made + 1 .. made + Cardinality(ok)
         /\ \A i, j \in ok : New(ok, i) = New(ok, j) => i = j
         /\ \A e \in made + 1 .. made + Cardinality(ok) : \E i \in ok : New(ok, i) = e
<1>0. ok \in SUBSET Nat /\ IsFiniteSet(ok) /\ Cardinality(ok) \in Nat
  BY InstanceSets
<1>1. \A i \in ok : New(ok, i) = made + Rank(ok, i)
  BY DEF New, Rank
<1>2. \A i \in ok : Rank(ok, i) \in 1 .. Cardinality(ok)
  BY <1>0, RankRange
<1>3. \A i \in ok : New(ok, i) \in made + 1 .. made + Cardinality(ok)
  BY <1>0, <1>1, <1>2
<1>4. ASSUME NEW i \in ok, NEW j \in ok, New(ok, i) = New(ok, j) PROVE i = j
  <2>1. made + Rank(ok, i) = made + Rank(ok, j)
    BY <1>1, <1>4
  <2>2. Rank(ok, i) = Rank(ok, j)
    BY <1>0, <1>2, <2>1
  <2> QED
    BY <1>0, <2>2, RankDistinct
<1>5. ASSUME NEW e \in made + 1 .. made + Cardinality(ok) PROVE \E i \in ok : New(ok, i) = e
  <2>1. e - made \in 1 .. Cardinality(ok) /\ made + (e - made) = e
    BY <1>0
  <2>2. PICK i \in ok : Rank(ok, i) = e - made
    BY <1>0, <2>1, RankHits
  <2> QED
    BY <1>1, <2>1, <2>2
<1> QED
  BY <1>3, <1>4, <1>5

\* updateCache: what it makes of the cache, what it offers and what it closes.
LEMMA UpdateCacheFacts ==
  ASSUME CacheTypeOK, CacheInv, OpenIffOffered, NEW S \in SUBSET Instances, UpdateCache(S)
  PROVE  /\ cache' \in [Instances -> Eps \cup {NoEp}] /\ endpoints' \in Seq(Eps)
         /\ made' \in 0 .. MaxMade /\ made <= made' /\ shut' \subseteq Eps
         /\ CacheInv'
         /\ \A e \in 1 .. made' : e \in shut' <=> \A i \in Instances : cache'[i] # e
         /\ ToSet(endpoints') = {cache'[i] : i \in Cached'}
         /\ Len(endpoints') = Cardinality(Cached')
         /\ \A e \in ToSet(endpoints') : e \in ToSet(endpoints) \/ e > made
<1>0. /\ cache \in [Instances -> Eps \cup {NoEp}] /\ made \in Nat /\ made <= MaxMade /\ MaxMade \in Nat
      /\ NoEp = 0 /\ shut \subseteq Eps
      /\ \A i \in Cached : i \in Instances /\ cache[i] \in 1 .. made
  BY EpsAssumption DEF CacheTypeOK, CacheInv, Cached, Eps
<1>1. PICK ok \in SUBSET (S \ Cached) :
        /\ made + Cardinality(ok) <= MaxMade
        /\ made' = made + Cardinality(ok)
        /\ cache' = [i \in Instances |-> IF i \in ok THEN New(ok, i)
                                         ELSE IF i \in S THEN cache[i] ELSE NoEp]
        /\ shut' = shut \cup Leftover(S)
        /\ LET present == {i \in S : cache'[i] # NoEp}
           IN endpoints' = [k \in 1 .. Cardinality(present) |-> cache'[Nth(present, k)]]
  BY DEF UpdateCache
<1>2. /\ ok \in SUBSET Instances /\ Cardinality(ok) \in Nat
      /\ \A i \in ok : i \in S /\ i \in Instances /\ i \notin Cached
  BY <1>1, InstanceSets
<1>3. /\ \A i \in ok : New(ok, i) \in made + 1 .. made'
      /\ \A i, j \in ok : New(ok, i) = New(ok, j) => i = j
      /\ \A e \in made + 1 .. made' : \E i \in ok : New(ok, i) = e
  BY <1>0, <1>1, <1>2, NewFacts
<1>4. /\ made' \in 0 .. MaxMade /\ made <= made' /\ made' \in Nat
  BY <1>0, <1>1, <1>2
<1>5. \A i \in Instances : /\ i \in ok => cache'[i] = New(ok, i) /\ cache'[i] \in made + 1 .. made'
                           /\ i \in S \ ok => cache'[i] = cache[i]
                           /\ i \notin S => cache'[i] = NoEp
  BY <1>1, <1>2, <1>3
<1>6. /\ Cached' = {i \in S : cache'[i] # NoEp}
      /\ \A i \in Cached' : \/ i \in ok /\ cache'[i] \in made + 1 .. made' /\ cache'[i] = New(ok, i)
                            \/ i \notin ok /\ i \in Cached /\ i \in S /\ cache'[i] = cache[i]
  BY <1>5 DEF Cached
<1>7. \A i \in Cached' : cache'[i] \in 1 .. made' /\ cache'[i] \in Eps
  BY <1>0, <1>4, <1>6 DEF Eps
<1>8. cache' \in [Instances -> Eps \cup {NoEp}]
  <2>1. \A i \in Instances : cache'[i] \in Eps \cup {NoEp}
    BY <1>7 DEF Cached
  <2> QED
    BY <1>1, <2>1
<1>9. /\ endpoints' \in Seq(Eps)
      /\ ToSet(endpoints') = {cache'[i] : i \in Cached'}
      /\ Len(endpoints') = Cardinality(Cached')
  <2> DEFINE P == Cached'
  <2>1. P \in SUBSET Nat /\ IsFiniteSet(P)
    <3>1. P \in SUBSET Instances
      BY <1>6
    <3> QED
      BY <3>1, InstanceSets
  <2>2. endpoints' = Listing(P, cache')
    BY <1>1, <1>6 DEF Listing
  <2>3. \A i \in P : cache'[i] \in Eps
    BY <1>7
  <2> HIDE DEF P
  <2>4. endpoints' \in Seq(Eps) /\ Len(endpoints') = Cardinality(P) /\ ToSet(endpoints') = {cache'[i] : i \in P}
    BY <2>1, <2>2, <2>3, ListingFacts
  <2> QED
    BY <2>4 DEF P
<1>10. Leftover(S) \subseteq 1 .. made
  BY <1>0 DEF Leftover
<1>11. shut' \subseteq 1 .. made' /\ shut' \subseteq Eps
  <2>1. shut \subseteq 1 .. made
    BY DEF CacheInv
  <2>2. 1 .. made \subseteq 1 .. made' /\ 1 .. made' \subseteq Eps
    BY <1>0, <1>4 DEF Eps
  <2> QED
    BY <1>1, <1>10, <2>1, <2>2
<1>12. ASSUME NEW i \in Cached', NEW j \in Cached', cache'[i] = cache'[j] PROVE i = j
  <2>1. CASE i \in ok /\ j \in ok
    BY <1>3, <1>6, <1>12, <2>1
  <2>2. CASE i \notin ok /\ j \notin ok
    BY <1>6, <1>12, <2>2 DEF CacheInv
  <2>3. CASE (i \in ok /\ j \notin ok) \/ (i \notin ok /\ j \in ok)
    BY <1>0, <1>4, <1>6, <1>12, <2>3
  <2> QED
    BY <2>1, <2>2, <2>3
<1>13. CacheInv'
  <2>1. \A i \in Cached' : cache'[i] <= made'
    BY <1>4, <1>7
  <2> QED
    BY <1>11, <1>12, <2>1 DEF CacheInv
<1>14. ASSUME NEW e \in 1 .. made'
       PROVE  e \in shut' <=> \A i \in Instances : cache'[i] # e
  <2>1. CASE e <= made
    <3>0. e \in 1 .. made /\ e # NoEp /\ e \notin made + 1 .. made'
      BY <1>0, <1>4, <2>1
    <3>1. e \in shut <=> \A i \in Instances : cache[i] # e
      BY <3>0 DEF OpenIffOffered
    <3>2. ASSUME e \in shut, NEW i \in Instances PROVE cache'[i] # e
      <4>1. cache[i] # e
        BY <3>1, <3>2
      <4> QED
        BY <1>5, <3>0, <4>1
    <3>3. ASSUME e \in Leftover(S), NEW i \in Instances PROVE cache'[i] # e
      <4>1. PICK j \in Cached \ S : cache[j] = e
        BY <3>3 DEF Leftover
      <4>2. CASE i \in S \ ok
        <5>1. ASSUME cache[i] = e PROVE FALSE
          <6>1. i \in Cached
            BY <3>0, <5>1 DEF Cached
          <6> QED
            BY <4>1, <4>2, <5>1, <6>1 DEF CacheInv
        <5> QED
          BY <1>5, <4>2, <5>1
      <4> QED
        BY <1>2, <1>5, <3>0, <4>2
    <3>4. ASSUME \A i \in Instances : cache'[i] # e PROVE e \in shut'
      <4>1. CASE e \in shut
        BY <1>1, <4>1
      <4>2. CASE e \notin shut
        <5>1. PICK i \in Instances : cache[i] = e
          BY <3>1, <4>2
        <5>2. i \in Cached
          BY <3>0, <5>1 DEF Cached
        <5>3. i \notin S
          BY <1>2, <1>5, <3>4, <5>1, <5>2
        <5> QED
          BY <1>1, <5>1, <5>2, <5>3 DEF Leftover
      <4> QED
        BY <4>1, <4>2
    <3> QED
      BY <1>1, <3>2, <3>3, <3>4
  <2>2. CASE e > made
    <3>1. e \in made + 1 .. made' /\ e \notin 1 .. made
      BY <1>0, <1>4, <2>2
    <3>2. PICK i \in ok : New(ok, i) = e
      BY <1>3, <3>1
    <3>3. cache'[i] = e /\ i \in Instances
      BY <1>2, <1>5, <3>2
    <3>4. e \notin shut'
      BY <1>1, <1>10, <3>1 DEF CacheInv
    <3> QED
      BY <3>3, <3>4
  <2> QED
    BY <1>0, <2>1, <2>2
<1>15. ASSUME NEW e \in ToSet(endpoints') PROVE e \in ToSet(endpoints) \/ e > made
  <2>1. PICK i \in Cached' : cache'[i] = e
    BY <1>9, <1>15
  <2>2. CASE i \in ok
    BY <1>0, <1>4, <1>6, <2>1, <2>2
  <2>3. CASE i \notin ok
    BY <1>6, <2>1, <2>3 DEF OpenIffOffered
  <2> QED
    BY <2>2, <2>3
<1> QED
  BY <1>4, <1>8, <1>9, <1>11, <1>13, <1>14, <1>15

\* Everything about the cache that a step of any actor keeps.
CacheOK == OpenIffOffered /\ CacheInv

\* A step that leaves the cache alone.
LEMMA CacheUnchanged ==
  ASSUME CacheOK, UNCHANGED <<cache, endpoints, made, shut>>, CacheTypeOK'
  PROVE  CacheOK'
<1>1. Cached' = Cached
  BY DEF Cached
<1> QED
  BY <1>1 DEF CacheOK, OpenIffOffered, CacheInv

\* A step that updates it.
LEMMA CacheUpdated ==
  ASSUME CacheOK, NEW S \in SUBSET Instances, UpdateCache(S),
         err' \in BOOLEAN, expired' \in BOOLEAN,
         recv' \in Events \cup {NoEvent}, UNCHANGED <<latest, sending, listed, events, closePc>>
  PROVE  CacheOK'
<1>1. CacheTypeOK /\ CacheInv
  BY DEF CacheOK, OpenIffOffered
<1>2. /\ cache' \in [Instances -> Eps \cup {NoEp}] /\ endpoints' \in Seq(Eps)
      /\ made' \in 0 .. MaxMade /\ shut' \subseteq Eps
      /\ CacheInv'
      /\ \A e \in 1 .. made' : e \in shut' <=> \A i \in Instances : cache'[i] # e
      /\ ToSet(endpoints') = {cache'[i] : i \in Cached'}
      /\ Len(endpoints') = Cardinality(Cached')
  BY <1>1, UpdateCacheFacts DEF CacheOK
<1>3. CacheTypeOK'
  BY <1>1, <1>2 DEF CacheTypeOK
<1> QED
  BY <1>2, <1>3 DEF CacheOK, OpenIffOffered

\* The steps of the instancer, of the receive goroutine and of Close.
LEMMA CacheDiscover ==
  ASSUME CacheOK, Discover
  PROVE  CacheOK'
<1> USE DEF cacheVars, chanVars
<1>1. CacheTypeOK
  BY DEF CacheOK, OpenIffOffered
<1>2. CASE Update
  <2>1. CASE recv = Err /\ Sad
    <3>1. err' \in BOOLEAN /\ expired' \in BOOLEAN
      <4>1. CASE InvalidateOnError /\ ~err
        <5>1. err' = TRUE /\ expired' = FALSE
          BY <2>1, <4>1 DEF Sad
        <5> QED
          BY <5>1
      <4>2. CASE ~(InvalidateOnError /\ ~err)
        BY <1>1, <2>1, <4>2 DEF Sad, CacheTypeOK
      <4> QED
        BY <4>1, <4>2
    <3>2. /\ UNCHANGED <<cache, endpoints, made, shut, latest, sending, listed, events, closePc>>
          /\ recv' = NoEvent
      BY <1>2, <2>1 DEF Update, Sad
    <3>3. CacheTypeOK'
      BY <1>1, <3>1, <3>2 DEF CacheTypeOK
    <3> QED
      BY <3>2, <3>3, CacheUnchanged
  <2>2. CASE recv # Err /\ Happy(recv)
    <3>1. recv \in SUBSET Instances /\ UpdateCache(recv)
      BY <1>2, <2>2 DEF Update, Happy, Events, Lists
    <3>2. err' = FALSE /\ expired' = FALSE
      BY <2>2 DEF Happy
    <3>3. err' \in BOOLEAN /\ expired' \in BOOLEAN
      BY <3>2
    <3>4. recv' \in Events \cup {NoEvent} /\ UNCHANGED <<latest, sending, listed, events, closePc>>
      BY <1>2 DEF Update
    <3> QED
      BY <3>1, <3>3, <3>4, CacheUpdated
  <2> QED
    BY <1>2, <2>1, <2>2 DEF Update
<1>3. CASE Deliver \/ Publish \/ Close \/ Deregister \/ CloseChan
  <2>1. UNCHANGED <<cache, endpoints, made, shut, err, expired>>
    BY <1>3 DEF Deliver, Publish, Close, Deregister, CloseChan
  <2>2. /\ recv' \in Events \cup {NoEvent} /\ latest' \in Events
        /\ sending' \in Events \cup {NoEvent}
        /\ closePc' \in {"new", "open", "deregister", "close", "closed"}
    BY <1>1, <1>3 DEF CacheTypeOK, Deliver, Publish, Close, Deregister, CloseChan
  <2>3. events' \in 0 .. MaxEvents
    BY <1>1, <1>3, EpsAssumption DEF CacheTypeOK, Deliver, Publish, Close, Deregister, CloseChan
  <2>4. listed' \in BOOLEAN
    <3>1. listed' = listed \/ listed' = FALSE
      BY <1>3 DEF Deliver, Publish, Close, Deregister, CloseChan
    <3> QED
      BY <1>1, <3>1 DEF CacheTypeOK
  <2>5. CacheTypeOK'
    BY <1>1, <2>1, <2>2, <2>3, <2>4 DEF CacheTypeOK
  <2> QED
    BY <2>1, <2>5, CacheUnchanged
<1>4. CASE Expire
  <2>1. expired' = TRUE /\ UNCHANGED <<cache, endpoints, made, shut, err, chanVars>>
    BY <1>4 DEF Expire
  <2>2. expired' \in BOOLEAN
    BY <2>1
  <2>3. CacheTypeOK'
    BY <1>1, <2>1, <2>2 DEF CacheTypeOK
  <2> QED
    BY <2>1, <2>3, CacheUnchanged
<1> QED
  BY <1>2, <1>3, <1>4 DEF Discover

\* A step of a caller, or of nobody: at most the error path of Endpoints, which
\* closes every endpoint, touches the cache.
LEMMA CacheCaller ==
  ASSUME CacheOK, [Next]_vars, ~Background
  PROVE  CacheOK'
<1> USE DEF cacheVars, chanVars
<1>1. CacheTypeOK
  BY DEF CacheOK, OpenIffOffered
<1>2. UNCHANGED <<err, expired, recv, latest, sending, listed, events, closePc>>
  BY DEF Next, Minute, Begin, Caller, Endpoints, EndpointsLocked, Choose, Check, Reset, Look, Crash, Insert,
     Enter, Leave, vars
<1>3. UNCHANGED <<cache, endpoints, made, shut>> \/ UpdateCache({})
  BY DEF Next, Minute, Begin, Caller, Endpoints, EndpointsLocked, Choose, Check, Reset, Look, Crash, Insert,
     Enter, Leave, vars
<1>4. CASE UNCHANGED <<cache, endpoints, made, shut>>
  <2>1. CacheTypeOK'
    BY <1>1, <1>2, <1>4 DEF CacheTypeOK
  <2> QED
    BY <1>4, <2>1, CacheUnchanged
<1>5. CASE UpdateCache({})
  <2>1. err' \in BOOLEAN /\ expired' \in BOOLEAN /\ recv' \in Events \cup {NoEvent}
    BY <1>1, <1>2 DEF CacheTypeOK
  <2>2. {} \in SUBSET Instances
    OBVIOUS
  <2> QED
    BY <1>2, <1>5, <2>1, <2>2, CacheUpdated
<1> QED
  BY <1>3, <1>4, <1>5

\* The cache is right and, with it, its types.
LEMMA CacheCorrect == Spec => []CacheOK
<1>1. Init => CacheOK
  <2> SUFFICES ASSUME Init PROVE CacheOK
    OBVIOUS
  <2>1. Cached = {} /\ made = 0 /\ shut = {} /\ endpoints = <<>>
    BY DEF Init, CacheInit, Cached
  <2>2. err = FALSE /\ expired = FALSE /\ listed = TRUE /\ cache = [i \in Instances |-> NoEp]
    BY DEF Init, CacheInit
  <2>3. err \in BOOLEAN /\ expired \in BOOLEAN /\ listed \in BOOLEAN
    BY <2>2
  <2>4. recv = NoEvent /\ latest \in Events /\ sending = latest /\ events = 0 /\ closePc = "new"
    BY DEF Init, CacheInit
  <2>5. 0 \in 0 .. MaxMade /\ 0 \in 0 .. MaxEvents /\ 1 .. 0 = {}
    BY EpsAssumption
  <2>6. CacheTypeOK
    BY <2>1, <2>2, <2>3, <2>4, <2>5 DEF CacheTypeOK
  <2>7. ToSet(endpoints) = {} /\ Len(endpoints) = 0 /\ Cardinality(Cached) = 0
    BY <2>1, FS_EmptySet DEF ToSet
  <2> QED
    BY <2>1, <2>5, <2>6, <2>7 DEF CacheOK, OpenIffOffered, CacheInv
<1>2. CacheOK /\ [Next]_vars => CacheOK'
  BY CacheDiscover, CacheCaller DEF Background
<1> QED
  BY <1>1, <1>2, PTL DEF Spec

\* An endpoint is open exactly as long as it is offered, and what is offered is
\* what is cached: whatever events arrive, whichever factories fail and whoever
\* clears the cache after an error.
THEOREM OpenAsLongAsOffered == Spec => []OpenIffOffered
<1>1. CacheOK => OpenIffOffered
  BY DEF CacheOK
<1> QED
  BY <1>1, CacheCorrect, PTL

-----------------------------------------------------------------------------
(***************************************************************************)
(* Requests                                                                *)
(***************************************************************************)
Reqs == [try : Nat, eps : Seq(Eps), obj : Objs \cup {NoObj}, ep : Eps \cup {NoEp}, old : SUBSET Eps]
Places == {"idle", "ask", "ask again", "choose", "check", "reset", "look", "insert", "call", "in"}

\* The types of what Balancer adds, where a count may still be negative.
ReqTypes ==
  /\ strategy \in Strategies
  /\ epCalls \in [Eps -> Objs \cup {NoObj}] /\ call \in [Objs -> Int]
  /\ lastLen \in Nat /\ minute \in BOOLEAN
  /\ pc \in [Callers -> Places] /\ me \in [Callers -> Reqs]
  /\ requests \in 0 .. MaxRequests /\ fatal \in BOOLEAN

\* Whoever adds to the map has no object of his own yet.
ReqInv == /\ ReqTypes
          /\ \A p \in Callers : pc[p] = "insert" => me[p].obj = NoObj /\ me[p].ep \in Eps

\* The objects are numbers other than NoObj, one for every endpoint and caller.
LEMMA ObjectsCounted ==
  /\ IsFiniteSet(Objs) /\ Cardinality(Objs) = MaxMade + Cardinality(Callers)
  /\ MaxMade \in Nat /\ Cardinality(Callers) \in Nat
  /\ Objs \in SUBSET Nat /\ NoObj \notin Objs
  /\ IsFiniteSet(Eps) /\ Cardinality(Eps) = MaxMade /\ Eps \in SUBSET Nat
<1>1. MaxMade \in Nat /\ Cardinality(Callers) \in Nat
  BY EpsAssumption, CallersAssumption, FS_CardinalityType
<1>2. /\ IsFiniteSet(1 .. MaxMade + Cardinality(Callers))
      /\ Cardinality(1 .. MaxMade + Cardinality(Callers)) = MaxMade + Cardinality(Callers)
      /\ IsFiniteSet(1 .. MaxMade) /\ Cardinality(1 .. MaxMade) = MaxMade
  <2>1. ASSUME NEW n \in Nat PROVE IsFiniteSet(1 .. n) /\ Cardinality(1 .. n) = n
    <3>1. IsFiniteSet(1 .. n) /\ Cardinality(1 .. n) = IF 1 > n THEN 0 ELSE n - 1 + 1
      BY FS_Interval
    <3>2. (IF 1 > n THEN 0 ELSE n - 1 + 1) = n
      OBVIOUS
    <3> QED
      BY <3>1, <3>2
  <2>2. MaxMade + Cardinality(Callers) \in Nat
    BY <1>1
  <2> QED
    BY <1>1, <2>1, <2>2
<1> QED
  BY <1>1, <1>2 DEF Objs, NoObj, Eps

\* The values of a function on a finite set are no more than its arguments.
LEMMA ImageSize ==
  ASSUME NEW D, IsFiniteSet(D), NEW f
  PROVE  /\ IsFiniteSet({f[x] : x \in D})
         /\ Cardinality({f[x] : x \in D}) <= Cardinality(D)
<1> DEFINE g == [x \in D |-> f[x]]
<1>1. g \in Surjection(D, {f[x] : x \in D})
  BY DEF Surjection
<1> HIDE DEF g
<1> QED
  BY <1>1, FS_Surjection

\* If only the endpoints in D have an object, and only the callers in Q hold
\* one, the other endpoints and callers leave one object each that is free.
LEMMA FreeObjects ==
  ASSUME ReqTypes, NEW D \in SUBSET Eps, NEW Q \in SUBSET Callers,
         \A e \in Eps \ D : epCalls[e] = NoObj,
         \A p \in Callers \ Q : me[p].obj = NoObj
  PROVE  /\ IsFiniteSet(Objs \ Held) /\ Objs \ Held \in SUBSET Nat
         /\ Cardinality(Objs \ Held) \in Nat
         /\ Cardinality(Objs \ Held) >= (MaxMade + Cardinality(Callers)) - (Cardinality(D) + Cardinality(Q))
<1> DEFINE f == [p \in Callers |-> me[p].obj]
           A == {epCalls[e] : e \in D}
           B == {f[p] : p \in Q}
           U == A \cup B
<1>1. /\ IsFiniteSet(D) /\ Cardinality(D) \in Nat
      /\ IsFiniteSet(Q) /\ Cardinality(Q) \in Nat
  BY ObjectsCounted, CallersAssumption, FS_Subset, FS_CardinalityType
<1>2. /\ IsFiniteSet(A) /\ Cardinality(A) <= Cardinality(D)
      /\ IsFiniteSet(B) /\ Cardinality(B) <= Cardinality(Q)
  <2> HIDE DEF f
  <2> QED
    BY <1>1, ImageSize
<1>3. Held \cap Objs \subseteq U
  BY ObjectsCounted DEF Held
<1> HIDE DEF A, B, f
<1>4. /\ IsFiniteSet(U) /\ Cardinality(U) \in Nat
      /\ Cardinality(U) <= Cardinality(A) + Cardinality(B)
      /\ Cardinality(A) \in Nat /\ Cardinality(B) \in Nat
  <2>1. IsFiniteSet(A \cap B)
    BY <1>2, FS_Subset
  <2>2. Cardinality(A \cap B) \in Nat /\ Cardinality(A) \in Nat /\ Cardinality(B) \in Nat
    BY <1>2, <2>1, FS_CardinalityType
  <2>3. IsFiniteSet(U) /\ Cardinality(U) = Cardinality(A) + Cardinality(B) - Cardinality(A \cap B)
    BY <1>2, FS_Union
  <2>4. Cardinality(U) \in Nat
    BY <2>3, FS_CardinalityType
  <2> QED
    BY <2>2, <2>3, <2>4
<1> HIDE DEF U
<1>5. /\ IsFiniteSet(Objs \ U) /\ Cardinality(Objs \ U) = Cardinality(Objs) - Cardinality(Objs \cap U)
      /\ Cardinality(Objs \cap U) <= Cardinality(U) /\ Cardinality(Objs \cap U) \in Nat
  <2>1. IsFiniteSet(Objs) /\ Objs \cap U \in SUBSET U
    BY ObjectsCounted
  <2>2. IsFiniteSet(Objs \cap U) /\ Cardinality(Objs \cap U) <= Cardinality(U)
    BY <1>4, <2>1, FS_Subset
  <2> QED
    BY <2>1, <2>2, FS_Difference, FS_CardinalityType
<1>6. /\ IsFiniteSet(Objs \ Held) /\ Cardinality(Objs \ U) <= Cardinality(Objs \ Held)
      /\ Cardinality(Objs \ Held) \in Nat /\ Cardinality(Objs \ U) \in Nat
  <2>1. IsFiniteSet(Objs \ Held)
    BY ObjectsCounted, FS_Subset
  <2>2. Objs \ U \in SUBSET (Objs \ Held)
    BY <1>3
  <2> QED
    BY <1>5, <2>1, <2>2, FS_Subset, FS_CardinalityType
<1> QED
  <2>1. /\ Cardinality(Objs) = MaxMade + Cardinality(Callers)
        /\ MaxMade \in Nat /\ Cardinality(Callers) \in Nat /\ Objs \in SUBSET Nat
    BY ObjectsCounted
  <2>2. Cardinality(Objs \ Held) >= (MaxMade + Cardinality(Callers)) - (Cardinality(D) + Cardinality(Q))
    BY <1>1, <1>2, <1>4, <1>5, <1>6, <2>1
  <2> QED
    BY <1>6, <2>1, <2>2

\* The objects given to the endpoints in E are free ones if there are enough.
LEMMA NewForFree ==
  ASSUME NEW E \in SUBSET Eps, NEW e \in E, Cardinality(E) <= Cardinality(Objs \ Held)
  PROVE  NewFor(E, e) \in Objs /\ NewFor(E, e) \notin Held
<1> DEFINE T == Objs \ Held
<1>1. /\ T \in SUBSET Nat /\ IsFiniteSet(T) /\ Cardinality(T) \in Nat
      /\ E \in SUBSET Nat /\ IsFiniteSet(E) /\ Cardinality(E) \in Nat
  BY ObjectsCounted, FS_Subset, FS_CardinalityType
<1> HIDE DEF T
<1>2. Rank(E, e) \in 1 .. Cardinality(E)
  BY <1>1, RankRange
<1>3. Rank(E, e) \in 1 .. Cardinality(T)
  BY <1>1, <1>2 DEF T
<1>4. Nth(T, Rank(E, e)) \in T
  BY <1>1, <1>3, NthFacts
<1> QED
  BY <1>4 DEF NewFor, Rank, T

\* Reset has an object for every endpoint it adds to the map ...
LEMMA FreeForReset ==
  ASSUME ReqInv, NEW E \in SUBSET Eps, NEW e \in E \ Keep(E)
  PROVE  NewFor(E \ Keep(E), e) \in Objs /\ NewFor(E \ Keep(E), e) \notin Held
<1> DEFINE add == E \ Keep(E)
           D == Eps \ add
<1>1. add \in SUBSET Eps /\ D \in SUBSET Eps /\ e \in add /\ \A x \in Eps \ D : epCalls[x] = NoObj
  BY DEF Keep
<1> HIDE DEF add
<1>2. /\ Cardinality(D) = Cardinality(Eps) - Cardinality(add)
      /\ Cardinality(add) \in Nat /\ Cardinality(Eps) = MaxMade /\ MaxMade \in Nat
      /\ Cardinality(Callers) \in Nat
  <2>1. /\ IsFiniteSet(Eps) /\ Cardinality(Eps) = MaxMade /\ MaxMade \in Nat
        /\ Cardinality(Callers) \in Nat /\ IsFiniteSet(add)
    BY <1>1, ObjectsCounted, FS_Subset
  <2>2. Eps \cap add = add /\ Cardinality(D) = Cardinality(Eps) - Cardinality(Eps \cap add)
    BY <1>1, <2>1, FS_Difference
  <2> QED
    BY <2>1, <2>2, FS_CardinalityType
<1> HIDE DEF D
<1>3. /\ Cardinality(Objs \ Held) \in Nat
      /\ Cardinality(Objs \ Held) >= (MaxMade + Cardinality(Callers)) - (Cardinality(D) + Cardinality(Callers))
  BY <1>1, FreeObjects DEF ReqInv
<1>4. Cardinality(add) <= Cardinality(Objs \ Held)
  BY <1>2, <1>3
<1> QED
  BY <1>1, <1>4, NewForFree DEF add

\* ... and Insert, whose caller has none, has one for its endpoint.
LEMMA FreeForInsert ==
  ASSUME ReqInv, NEW p \in Callers, pc[p] = "insert"
  PROVE  /\ me[p].ep \in Eps
         /\ NewFor({me[p].ep}, me[p].ep) \in Objs /\ NewFor({me[p].ep}, me[p].ep) \notin Held
<1> DEFINE Q == Callers \ {p}
<1>1. me[p].ep \in Eps /\ Q \in SUBSET Callers /\ \A q \in Callers \ Q : me[q].obj = NoObj
  BY DEF ReqInv
<1>2. /\ Cardinality(Q) = Cardinality(Callers) - 1
      /\ Cardinality(Eps) = MaxMade /\ MaxMade \in Nat /\ Cardinality(Callers) \in Nat
  BY ObjectsCounted, CallersAssumption, FS_RemoveElement
<1> HIDE DEF Q
<1>3. /\ Cardinality(Objs \ Held) \in Nat
      /\ Cardinality(Objs \ Held) >= (MaxMade + Cardinality(Callers)) - (Cardinality(Eps) + Cardinality(Q))
  <2>1. \A e \in Eps \ Eps : epCalls[e] = NoObj
    OBVIOUS
  <2> QED
    BY <1>1, <2>1, FreeObjects DEF ReqInv
<1>4. Cardinality({me[p].ep}) <= Cardinality(Objs \ Held)
  <2>1. Cardinality({me[p].ep}) = 1
    BY FS_Singleton
  <2> QED
    BY <1>2, <1>3, <2>1
<1> QED
  BY <1>1, <1>4, NewForFree

\* The forms a request takes.
LEMMA AskType ==
  ASSUME CacheTypeOK, NEW n \in Nat
  PROVE  /\ Ask(n) \in Reqs /\ Ask(n).obj = NoObj
         /\ Ask(n).old = (1 .. made) \ ToSet(endpoints) /\ Ask(n).eps = <<>>
<1>1. (1 .. made) \ ToSet(endpoints) \in SUBSET Eps
  <2>1. made \in 0 .. MaxMade /\ MaxMade \in Nat
    BY EpsAssumption DEF CacheTypeOK
  <2> QED
    BY <2>1 DEF Eps
<1>2. <<>> \in Seq(Eps)
  OBVIOUS
<1> QED
  BY <1>1, <1>2 DEF Ask, NoReq, Reqs

LEMMA NoReqType == NoReq \in Reqs /\ NoReq.obj = NoObj /\ NoReq.old = {} /\ NoReq.eps = <<>>
<1>1. <<>> \in Seq(Eps)
  OBVIOUS
<1> QED
  BY <1>1 DEF NoReq, Reqs

\* What becomes of a caller whose attempt failed.
LEMMA FailedFacts ==
  ASSUME CacheTypeOK, ReqTypes, NEW p \in Callers, Failed(p) \/ Return(p)
  PROVE  \E r \in Reqs, to \in {"ask", "idle"} :
           /\ me' = [me EXCEPT ![p] = r] /\ pc' = [pc EXCEPT ![p] = to]
           /\ r.obj = NoObj /\ r.eps = <<>>
           /\ r.old = {} \/ r.old = (1 .. made) \ ToSet(endpoints)
<1>1. CASE Return(p)
  BY <1>1, NoReqType DEF Return, Goto
<1>2. CASE MaxTries > me[p].try /\ me' = [me EXCEPT ![p] = Ask(me[p].try + 1)] /\ Goto(p, "ask")
  <2>1. me[p].try + 1 \in Nat
    BY DEF ReqTypes, Reqs
  <2> QED
    BY <1>2, <2>1, AskType DEF Goto
<1> QED
  BY <1>1, <1>2 DEF Failed

\* Every step of a caller, by what it does to the caller's request, to the map
\* and to the counts.  Quiet steps touch neither map nor counts.
Quiet(p) == Begin(p) \/ Endpoints(p) \/ EndpointsLocked(p) \/ Choose(p) \/ Check(p) \/ Look(p)

LEMMA QuietFacts ==
  ASSUME CacheTypeOK, ReqInv, NEW p \in Callers, Quiet(p)
  PROVE  /\ UNCHANGED <<epCalls, call>>
         /\ \/ UNCHANGED <<me, pc>>
            \/ \E r \in Reqs, to \in Places \ {"in"} :
                 /\ me' = [me EXCEPT ![p] = r] /\ pc' = [pc EXCEPT ![p] = to]
                 /\ pc[p] # "in" /\ (to = "insert" => r.obj = NoObj /\ r.ep \in Eps)
                 /\ r.obj \in {NoObj, me[p].obj} \cup {epCalls[e] : e \in Eps}
<1> USE DEF leastVars, Goto, Places
<1>0. ReqTypes /\ me[p] \in Reqs /\ pc[p] \in Places
  BY DEF ReqInv, ReqTypes
<1>1. CASE Begin(p)
  <2>1. me' = [me EXCEPT ![p] = Ask(1)] /\ pc' = [pc EXCEPT ![p] = "ask"] /\ pc[p] = "idle"
    BY <1>1 DEF Begin
  <2>2. Ask(1) \in Reqs /\ Ask(1).obj = NoObj
    <3>1. 1 \in Nat
      OBVIOUS
    <3> QED
      BY <3>1, AskType
  <2>3. UNCHANGED <<epCalls, call>> /\ "ask" \in Places \ {"in"} /\ "ask" # "insert"
    BY <1>1 DEF Begin
  <2> QED
    BY <2>1, <2>2, <2>3
<1>2. ASSUME Taken(p) \/ Failed(p)
      PROVE  \E r \in Reqs, to \in Places \ {"in", "insert"} :
               /\ me' = [me EXCEPT ![p] = r] /\ pc' = [pc EXCEPT ![p] = to]
               /\ r.obj \in {NoObj, me[p].obj}
  <2>1. CASE Failed(p)
    <3>1. PICK r \in Reqs, to \in {"ask", "idle"} :
            /\ me' = [me EXCEPT ![p] = r] /\ pc' = [pc EXCEPT ![p] = to]
            /\ r.obj = NoObj
      BY <1>0, <2>1, FailedFacts
    <3>2. to \in Places \ {"in", "insert"}
      OBVIOUS
    <3> QED
      BY <3>1, <3>2
  <2>2. CASE me' = [me EXCEPT ![p].eps = endpoints]
             /\ Goto(p, IF strategy = "least" THEN "check" ELSE "choose")
    <3> DEFINE r == [me[p] EXCEPT !.eps = endpoints]
    <3>1. r \in Reqs /\ r.obj = me[p].obj
      BY <1>0 DEF Reqs, CacheTypeOK
    <3>2. me' = [me EXCEPT ![p] = r]
      BY <2>2
    <3>3. PICK to \in Places \ {"in", "insert"} : pc' = [pc EXCEPT ![p] = to]
      <4>1. CASE strategy = "least"
        <5>1. pc' = [pc EXCEPT ![p] = "check"]
          BY <2>2, <4>1
        <5>2. "check" \in Places \ {"in", "insert"}
          OBVIOUS
        <5> QED
          BY <5>1, <5>2
      <4>2. CASE strategy # "least"
        BY <2>2, <4>2
      <4> QED
        BY <4>1, <4>2
    <3> HIDE DEF r
    <3> QED
      BY <3>1, <3>2, <3>3
  <2> QED
    BY <1>2, <2>1, <2>2 DEF Taken
<1>3. CASE Endpoints(p)
  <2>1. pc[p] = "ask" /\ UNCHANGED <<epCalls, call>>
    BY <1>3 DEF Endpoints
  <2>2. CASE Valid
    BY <1>2, <1>3, <2>1, <2>2 DEF Endpoints
  <2>3. CASE ~Valid
    <3>1. me' = me /\ pc' = [pc EXCEPT ![p] = "ask again"]
      BY <1>3, <2>3 DEF Endpoints
    <3>2. me' = [me EXCEPT ![p] = me[p]]
      BY <3>1 DEF ReqTypes, ReqInv
    <3> QED
      BY <1>0, <2>1, <3>1, <3>2
  <2> QED
    BY <2>2, <2>3
<1>4. CASE EndpointsLocked(p)
  BY <1>2, <1>4 DEF EndpointsLocked
<1>5. CASE Choose(p)
  <2>1. PICK k \in DOMAIN me[p].eps :
          me' = [me EXCEPT ![p].ep = me[p].eps[k], ![p].eps = <<>>]
    BY <1>5 DEF Choose
  <2> DEFINE r == [me[p] EXCEPT !.ep = me[p].eps[k], !.eps = <<>>]
  <2>2. me[p].eps[k] \in Eps /\ <<>> \in Seq(Eps)
    <3>1. me[p].eps \in Seq(Eps)
      BY <1>0 DEF Reqs
    <3>2. <<>> \in Seq(Eps)
      OBVIOUS
    <3>3. me[p].eps[k] \in Eps
      BY <3>1, ElementOfSeq, LenProperties
    <3> QED
      BY <3>2, <3>3
  <2>3. r \in Reqs /\ r.obj = me[p].obj
    BY <1>0, <2>2 DEF Reqs
  <2>4. me' = [me EXCEPT ![p] = r]
    BY <2>1
  <2> HIDE DEF r
  <2> QED
    BY <1>5, <2>3, <2>4 DEF Choose
<1>6. CASE Check(p)
  <2>1. me' = [me EXCEPT ![p] = me[p]]
    BY <1>6 DEF Check, ReqTypes, ReqInv
  <2> QED
    BY <1>0, <1>6, <2>1 DEF Check
<1>7. CASE Look(p)
  <2>1. CASE Crash(p)
    BY <2>1 DEF Crash
  <2>2. CASE ~Crash(p)
    <3>1. PICK e \in Picks(p) :
            /\ me' = [me EXCEPT ![p].ep = e, ![p].obj = epCalls[e], ![p].eps = <<>>]
            /\ pc' = [pc EXCEPT ![p] = IF epCalls[e] = NoObj THEN "insert" ELSE "call"]
            /\ UNCHANGED <<epCalls, call>>
      BY <1>7, <2>2 DEF Look
    <3> DEFINE r == [me[p] EXCEPT !.ep = e, !.obj = epCalls[e], !.eps = <<>>]
               to == IF epCalls[e] = NoObj THEN "insert" ELSE "call"
    <3>2. e \in Eps
      <4>1. e \in ToSet(me[p].eps)
        BY <3>1 DEF Picks, Leasts, Unknown, Idle, ListedBy
      <4>2. me[p].eps \in Seq(Eps)
        BY <1>0 DEF Reqs
      <4> QED
        BY <4>1, <4>2, ElementOfSeq, LenProperties DEF ToSet
    <3>3. epCalls[e] \in Objs \cup {NoObj} /\ <<>> \in Seq(Eps)
      <4>1. <<>> \in Seq(Eps)
        OBVIOUS
      <4>2. epCalls[e] \in Objs \cup {NoObj}
        BY <1>0, <3>2 DEF ReqTypes
      <4> QED
        BY <4>1, <4>2
    <3>4. r \in Reqs /\ r.obj = epCalls[e] /\ r.ep = e
      BY <1>0, <3>2, <3>3 DEF Reqs
    <3>5. me' = [me EXCEPT ![p] = r] /\ pc' = [pc EXCEPT ![p] = to]
      BY <3>1
    <3>6. to \in Places \ {"in"} /\ (to = "insert" => r.obj = NoObj) /\ pc[p] # "in"
      BY <1>7, <3>4 DEF Look
    <3>7. r.obj \in {NoObj, me[p].obj} \cup {epCalls[x] : x \in Eps}
      BY <3>2, <3>4
    <3> HIDE DEF r, to
    <3>8. \E x \in Reqs, y \in Places \ {"in"} :
            /\ me' = [me EXCEPT ![p] = x] /\ pc' = [pc EXCEPT ![p] = y]
            /\ pc[p] # "in" /\ (y = "insert" => x.obj = NoObj /\ x.ep \in Eps)
            /\ x.obj \in {NoObj, me[p].obj} \cup {epCalls[z] : z \in Eps}
      BY <3>2, <3>4, <3>5, <3>6, <3>7
    <3> QED
      BY <3>1, <3>8
  <2> QED
    BY <2>1, <2>2
<1> QED
  BY <1>1, <1>3, <1>4, <1>5, <1>6, <1>7 DEF Quiet

\* The calls that run through an object.
Running(o) == {p \in Callers : pc[p] = "in" /\ me[p].obj = o}

\* An object that somebody still refers to has exactly its running calls.
Counted == ReqInv /\ \A o \in Objs : o \in Held => call[o] = Cardinality(Running(o))

LEMMA RunningFinite ==
  ASSUME NEW o
  PROVE  IsFiniteSet(Running(o)) /\ Cardinality(Running(o)) \in Nat
<1>1. Running(o) \in SUBSET Callers
  BY DEF Running
<1> QED
  BY <1>1, CallersAssumption, FS_Subset, FS_CardinalityType

\* A step that changes at most one request, away from "in", and no map.
LEMMA QuietCounted ==
  ASSUME CacheTypeOK, Counted, NEW p \in Callers, Quiet(p),
         UNCHANGED <<strategy, lastLen, minute>>, requests' \in 0 .. MaxRequests, fatal' \in BOOLEAN
  PROVE  Counted'
<1>0. ReqInv /\ ReqTypes
  BY DEF Counted, ReqInv
<1>1. UNCHANGED <<epCalls, call>>
  BY <1>0, QuietFacts
<1>2. CASE UNCHANGED <<me, pc>>
  <2>1. ReqInv'
    BY <1>0, <1>1, <1>2 DEF ReqInv, ReqTypes
  <2>2. Held' = Held
    BY <1>1, <1>2 DEF Held
  <2>3. \A o \in Objs : Running(o)' = Running(o)
    BY <1>2 DEF Running
  <2> QED
    BY <1>1, <2>1, <2>2, <2>3 DEF Counted
<1>3. ASSUME NEW r \in Reqs, NEW to \in Places \ {"in"},
             me' = [me EXCEPT ![p] = r], pc' = [pc EXCEPT ![p] = to],
             pc[p] # "in", to = "insert" => r.obj = NoObj /\ r.ep \in Eps,
             r.obj \in {NoObj, me[p].obj} \cup {epCalls[e] : e \in Eps}
      PROVE  Counted'
  <2>1. ReqTypes'
    BY <1>0, <1>1, <1>3 DEF ReqTypes
  <2>2. ReqInv'
    BY <1>0, <1>3, <2>1 DEF ReqInv, ReqTypes
  <2>3. ASSUME NEW o \in Objs, o \in Held' PROVE o \in Held
    <3>1. o # NoObj
      BY ObjectsCounted
    <3>2. CASE \E e \in Eps : o = epCalls'[e]
      BY <1>1, <3>2 DEF Held
    <3>3. CASE \E q \in Callers : o = me'[q].obj
      <4>1. PICK q \in Callers : o = me'[q].obj
        BY <3>3
      <4>2. CASE q = p
        BY <1>0, <1>3, <3>1, <4>1, <4>2 DEF Held, ReqTypes
      <4>3. CASE q # p
        BY <1>0, <1>3, <4>1, <4>3 DEF Held, ReqTypes
      <4> QED
        BY <4>2, <4>3
    <3> QED
      BY <2>3, <3>2, <3>3 DEF Held
  <2>4. \A o \in Objs : Running(o)' = Running(o)
    BY <1>0, <1>3 DEF Running, ReqTypes
  <2> QED
    BY <1>1, <2>2, <2>3, <2>4 DEF Counted
<1> QED
  BY <1>0, <1>2, <1>3, QuietFacts

\* Reset: the objects that join the map are new ones, with no call.
LEMMA ResetCounted ==
  ASSUME CacheTypeOK, Counted, NEW p \in Callers, Reset(p)
  PROVE  Counted'
<1> USE DEF callVars
<1>0. ReqInv /\ ReqTypes /\ me[p].eps \in Seq(Eps)
  BY DEF Counted, ReqInv, ReqTypes, Reqs
<1>1. /\ pc' = [pc EXCEPT ![p] = "look"] /\ pc[p] = "reset"
      /\ UNCHANGED <<strategy, me, requests, fatal>>
  BY DEF Reset, Goto
<1>2. \A o \in Objs : Running(o)' = Running(o)
  BY <1>0, <1>1 DEF Running, ReqTypes
<1>3. pc' \in [Callers -> Places] /\ \A q \in Callers : pc'[q] = "insert" => pc[q] = "insert"
  BY <1>0, <1>1 DEF ReqTypes, Places
<1>4. CASE UNCHANGED leastVars
  <2>1. ReqInv'
    BY <1>0, <1>1, <1>3, <1>4 DEF leastVars, ReqInv, ReqTypes
  <2>2. Held' = Held
    BY <1>1, <1>4 DEF Held, leastVars
  <2> QED
    BY <1>2, <1>4, <2>1, <2>2 DEF Counted, leastVars
<1>5. CASE ~(UNCHANGED leastVars)
  <2> DEFINE E == ToSet(me[p].eps)
             add == E \ Keep(E)
  <2>1. /\ epCalls' = [e \in Eps |-> IF e \in add THEN NewFor(add, e)
                                     ELSE IF e \in E THEN epCalls[e] ELSE NoObj]
        /\ call' = [o \in Objs |-> IF \E e \in add : NewFor(add, e) = o THEN 0 ELSE call[o]]
        /\ lastLen' = Len(me[p].eps) /\ minute' = FALSE
    BY <1>5 DEF Reset
  <2>2. E \in SUBSET Eps
    BY <1>0, ElementOfSeq, LenProperties DEF ToSet
  <2>3. \A e \in add : e \in Eps /\ NewFor(add, e) \in Objs /\ NewFor(add, e) \notin Held
    BY <1>0, <2>2, FreeForReset
  <2> HIDE DEF E, add
  <2>4. epCalls' \in [Eps -> Objs \cup {NoObj}]
    BY <1>0, <2>1, <2>3 DEF ReqTypes
  <2>5. call' \in [Objs -> Int]
    BY <1>0, <2>1 DEF ReqTypes
  <2>6. lastLen' \in Nat
    BY <1>0, <2>1, LenProperties
  <2>7. minute' \in BOOLEAN
    BY <2>1
  <2>8. ReqInv'
    <3>1. ReqTypes'
      BY <1>0, <1>1, <1>3, <2>4, <2>5, <2>6, <2>7 DEF ReqTypes
    <3> QED
      BY <1>0, <1>1, <1>3, <3>1 DEF ReqInv
  <2>9. ASSUME NEW o \in Objs, o \in Held' PROVE call'[o] = Cardinality(Running(o))
    <3>1. CASE \E e \in add : NewFor(add, e) = o
      <4>1. o \notin Held
        BY <2>3, <3>1
      <4>2. Running(o) = {}
        BY <4>1 DEF Running, Held
      <4>3. call'[o] = 0
        BY <2>1, <3>1
      <4> QED
        BY <4>2, <4>3, FS_EmptySet
    <3>2. CASE ~\E e \in add : NewFor(add, e) = o
      <4>1. call'[o] = call[o]
        BY <2>1, <3>2
      <4>2. o \in Held
        <5>1. CASE \E e \in Eps : o = epCalls'[e]
          <6>1. PICK e \in Eps : o = epCalls'[e]
            BY <5>1
          <6>2. e \notin add /\ o # NoObj
            BY <2>1, <3>2, <6>1, ObjectsCounted
          <6>3. o = epCalls[e]
            BY <2>1, <6>1, <6>2
          <6> QED
            BY <6>3 DEF Held
        <5>2. CASE \E q \in Callers : o = me'[q].obj
          BY <1>1, <5>2 DEF Held
        <5> QED
          BY <2>9, <5>1, <5>2 DEF Held
      <4> QED
        BY <4>1, <4>2 DEF Counted
    <3> QED
      BY <3>1, <3>2
  <2> QED
    BY <1>2, <2>8, <2>9 DEF Counted
<1> QED
  BY <1>4, <1>5

\* Insert: so is the object that a single endpoint gets.
LEMMA InsertCounted ==
  ASSUME CacheTypeOK, Counted, NEW p \in Callers, Insert(p)
  PROVE  Counted'
<1> USE DEF callVars
<1>0. ReqInv /\ ReqTypes
  BY DEF Counted, ReqInv
<1>1. CASE Crash(p)
  <2>1. fatal' = TRUE /\ UNCHANGED <<leastVars, strategy, pc, me, requests>>
    BY <1>1 DEF Crash
  <2>2. fatal' \in BOOLEAN
    BY <2>1
  <2>3. ReqInv'
    BY <1>0, <2>1, <2>2 DEF leastVars, ReqInv, ReqTypes
  <2>4. Held' = Held /\ \A o \in Objs : Running(o)' = Running(o)
    BY <2>1 DEF Held, Running, leastVars
  <2> QED
    BY <2>1, <2>3, <2>4 DEF Counted, leastVars
<1>2. CASE ~Crash(p)
  <2> DEFINE e == me[p].ep
             n == NewFor({e}, e)
             r == [me[p] EXCEPT !.obj = n]
  <2>1. /\ pc[p] = "insert" /\ pc' = [pc EXCEPT ![p] = "call"]
        /\ epCalls' = [epCalls EXCEPT ![e] = n] /\ call' = [call EXCEPT ![n] = 0]
        /\ me' = [me EXCEPT ![p].obj = n]
        /\ UNCHANGED <<strategy, lastLen, minute, requests, fatal>>
    BY <1>2 DEF Insert, Goto
  <2>2. e \in Eps /\ n \in Objs /\ n \notin Held
    BY <1>0, <2>1, FreeForInsert
  <2>3. r \in Reqs /\ r.obj = n /\ me' = [me EXCEPT ![p] = r]
    BY <1>0, <2>1, <2>2 DEF ReqTypes, Reqs
  <2> HIDE DEF e, n, r
  <2>4. ReqTypes'
    <3>1. epCalls' \in [Eps -> Objs \cup {NoObj}]
      BY <1>0, <2>1, <2>2 DEF ReqTypes
    <3>2. call' \in [Objs -> Int]
      BY <1>0, <2>1, <2>2 DEF ReqTypes
    <3>3. pc' \in [Callers -> Places]
      BY <1>0, <2>1 DEF ReqTypes, Places
    <3>4. me' \in [Callers -> Reqs]
      BY <1>0, <2>3 DEF ReqTypes
    <3> QED
      BY <1>0, <2>1, <3>1, <3>2, <3>3, <3>4 DEF ReqTypes
  <2>5. ReqInv'
    BY <1>0, <2>1, <2>3, <2>4 DEF ReqInv, ReqTypes
  <2>6. \A o \in Objs : Running(o)' = Running(o)
    BY <1>0, <2>1, <2>3 DEF Running, ReqTypes
  <2>7. ASSUME NEW o \in Objs, o \in Held' PROVE call'[o] = Cardinality(Running(o))
    <3>1. CASE o = n
      <4>1. Running(o) = {}
        BY <2>2, <3>1 DEF Running, Held
      <4>2. call'[o] = 0
        BY <1>0, <2>1, <3>1 DEF ReqTypes
      <4> QED
        BY <4>1, <4>2, FS_EmptySet
    <3>2. CASE o # n
      <4>1. call'[o] = call[o]
        BY <1>0, <2>1, <3>2 DEF ReqTypes
      <4>2. o \in Held
        BY <1>0, <2>1, <2>3, <2>7, <3>2 DEF Held, ReqTypes
      <4> QED
        BY <4>1, <4>2 DEF Counted
    <3> QED
      BY <3>1, <3>2
  <2> QED
    BY <2>5, <2>6, <2>7 DEF Counted
<1> QED
  BY <1>1, <1>2

\* Enter and Leave: the count of the caller's object moves with its calls.
LEMMA EnterCounted ==
  ASSUME CacheTypeOK, Counted, NEW p \in Callers, Enter(p)
  PROVE  Counted'
<1> DEFINE h == me[p].obj
           r == [me[p] EXCEPT !.old = {}]
<1>0. ReqInv /\ ReqTypes
  BY DEF Counted, ReqInv
<1>1. /\ pc[p] = "call" /\ pc' = [pc EXCEPT ![p] = "in"]
      /\ call' = IF h = NoObj THEN call ELSE [call EXCEPT ![h] = @ + 1]
      /\ me' = [me EXCEPT ![p].old = {}]
      /\ UNCHANGED <<epCalls, strategy, lastLen, minute, requests, fatal>>
  BY DEF Enter, Goto
<1>2. r \in Reqs /\ r.obj = h /\ me' = [me EXCEPT ![p] = r] /\ h \in Objs \cup {NoObj} /\ h \in Held
  BY <1>0, <1>1 DEF ReqTypes, Reqs, Held
<1> HIDE DEF h, r
<1>3. ReqInv'
  <2>1. call' \in [Objs -> Int]
    <3>1. CASE h = NoObj
      BY <1>0, <1>1, <3>1 DEF ReqTypes
    <3>2. CASE h # NoObj
      BY <1>0, <1>1, <1>2, <3>2 DEF ReqTypes
    <3> QED
      BY <3>1, <3>2
  <2>2. pc' \in [Callers -> Places]
    BY <1>0, <1>1, <1>2 DEF ReqTypes, Places
  <2>3. me' \in [Callers -> Reqs]
    BY <1>0, <1>2 DEF ReqTypes
  <2>4. ReqTypes'
    BY <1>0, <1>1, <2>1, <2>2, <2>3 DEF ReqTypes
  <2> QED
    BY <1>0, <1>1, <1>2, <2>4 DEF ReqInv, ReqTypes
<1>4. \A q \in Callers : me'[q].obj = me[q].obj
  BY <1>0, <1>2 DEF ReqTypes, h
<1>5. Held' = Held
  BY <1>1, <1>4 DEF Held
<1>6. ASSUME NEW o \in Objs, o \in Held PROVE call'[o] = Cardinality(Running(o)')
  <2>0. call[o] = Cardinality(Running(o)) /\ call[o] \in Int
    BY <1>0, <1>6 DEF Counted, ReqTypes
  <2>1. CASE o = h
    <3>1. Running(o)' = Running(o) \cup {p} /\ p \notin Running(o)
      BY <1>0, <1>1, <1>4, <2>1 DEF Running, ReqTypes, h
    <3>2. Cardinality(Running(o)') = Cardinality(Running(o)) + 1
      BY <3>1, RunningFinite, FS_AddElement
    <3>3. call'[o] = call[o] + 1
      BY <1>0, <1>1, <2>1, ObjectsCounted DEF ReqTypes
    <3> QED
      BY <2>0, <3>2, <3>3
  <2>2. CASE o # h
    <3>1. Running(o)' = Running(o)
      BY <1>0, <1>1, <1>4, <2>2 DEF Running, ReqTypes, h
    <3>2. call'[o] = call[o]
      BY <1>0, <1>1, <2>2 DEF ReqTypes
    <3> QED
      BY <2>0, <3>1, <3>2
  <2> QED
    BY <2>1, <2>2
<1> QED
  BY <1>3, <1>5, <1>6 DEF Counted

LEMMA LeaveCounted ==
  ASSUME CacheTypeOK, Counted, NEW p \in Callers, Leave(p)
  PROVE  Counted'
<1> DEFINE h == me[p].obj
<1>0. ReqInv /\ ReqTypes /\ h \in Objs \cup {NoObj} /\ h \in Held
  BY DEF Counted, ReqInv, ReqTypes, Reqs, Held
<1>1. /\ pc[p] = "in"
      /\ call' = IF h = NoObj THEN call ELSE [call EXCEPT ![h] = @ - 1]
      /\ Failed(p) \/ Return(p)
      /\ UNCHANGED <<epCalls, strategy, lastLen, minute, requests, fatal>>
  BY DEF Leave, Uncount
<1>2. PICK r \in Reqs, to \in {"ask", "idle"} :
        me' = [me EXCEPT ![p] = r] /\ pc' = [pc EXCEPT ![p] = to] /\ r.obj = NoObj
  BY <1>0, <1>1, FailedFacts
<1> HIDE DEF h
<1>3. ReqInv'
  <2>1. call' \in [Objs -> Int]
    <3>1. CASE h = NoObj
      BY <1>0, <1>1, <3>1 DEF ReqTypes
    <3>2. CASE h # NoObj
      BY <1>0, <1>1, <1>2, <3>2 DEF ReqTypes
    <3> QED
      BY <3>1, <3>2
  <2>2. pc' \in [Callers -> Places]
    BY <1>0, <1>1, <1>2 DEF ReqTypes, Places
  <2>3. me' \in [Callers -> Reqs]
    BY <1>0, <1>2 DEF ReqTypes
  <2>4. ReqTypes'
    BY <1>0, <1>1, <2>1, <2>2, <2>3 DEF ReqTypes
  <2> QED
    BY <1>0, <1>1, <1>2, <2>4 DEF ReqInv, ReqTypes
<1>4. ASSUME NEW o \in Objs, o \in Held' PROVE o \in Held
  <2>1. o # NoObj
    BY ObjectsCounted
  <2> QED
    BY <1>0, <1>1, <1>2, <1>4, <2>1 DEF Held, ReqTypes
<1>5. ASSUME NEW o \in Objs, o \in Held PROVE call'[o] = Cardinality(Running(o)')
  <2>0. call[o] = Cardinality(Running(o)) /\ call[o] \in Int /\ o # NoObj
    BY <1>0, <1>5, ObjectsCounted DEF Counted, ReqTypes
  <2>1. CASE o = h
    <3>1. Running(o)' = Running(o) \ {p} /\ p \in Running(o)
      BY <1>0, <1>1, <1>2, <2>0, <2>1 DEF Running, ReqTypes, h
    <3>2. Cardinality(Running(o)') = Cardinality(Running(o)) - 1
      BY <3>1, RunningFinite, FS_RemoveElement
    <3>3. call'[o] = call[o] - 1
      BY <1>0, <1>1, <2>0, <2>1 DEF ReqTypes
    <3> QED
      BY <2>0, <3>2, <3>3
  <2>2. CASE o # h
    <3>1. Running(o)' = Running(o)
      BY <1>0, <1>1, <1>2, <2>0, <2>2 DEF Running, ReqTypes, h
    <3>2. call'[o] = call[o]
      BY <1>0, <1>1, <2>2 DEF ReqTypes
    <3> QED
      BY <2>0, <3>1, <3>2
  <2> QED
    BY <2>1, <2>2
<1> QED
  BY <1>3, <1>4, <1>5 DEF Counted

-----------------------------------------------------------------------------
(***************************************************************************)
(* Every step of a caller keeps the counts                                 *)
(***************************************************************************)
LEMMA QuietRest ==
  ASSUME ReqTypes, NEW p \in Callers, Quiet(p)
  PROVE  /\ UNCHANGED <<strategy, lastLen, minute>>
         /\ requests' \in 0 .. MaxRequests /\ fatal' \in BOOLEAN
<1> USE DEF leastVars
<1>1. UNCHANGED <<strategy, lastLen, minute>>
  BY DEF Quiet, Begin, Endpoints, EndpointsLocked, Choose, Check, Look, Crash
<1>2. requests' \in 0 .. MaxRequests
  <2>1. requests \in 0 .. MaxRequests /\ MaxRequests \in Nat
    BY TriesAssumption DEF ReqTypes
  <2>2. requests' = requests \/ (requests < MaxRequests /\ requests' = requests + 1)
    BY DEF Quiet, Begin, Endpoints, EndpointsLocked, Choose, Check, Look, Crash
  <2> QED
    BY <2>1, <2>2
<1>3. fatal' = fatal \/ fatal' = TRUE
  BY DEF Quiet, Begin, Endpoints, EndpointsLocked, Choose, Check, Look, Crash
<1>4. fatal' \in BOOLEAN
  <2>1. CASE fatal' = TRUE
    BY <2>1
  <2>2. CASE fatal' = fatal
    BY <2>2 DEF ReqTypes
  <2> QED
    BY <1>3, <2>1, <2>2
<1> QED
  BY <1>1, <1>2, <1>4

LEMMA CallerCounted ==
  ASSUME CacheTypeOK, Counted, NEW p \in Callers, Begin(p) \/ Caller(p)
  PROVE  Counted'
<1>1. ReqTypes
  BY DEF Counted, ReqInv
<1>2. CASE Quiet(p)
  BY <1>1, <1>2, QuietRest, QuietCounted
<1>3. CASE Reset(p)
  BY <1>3, ResetCounted
<1>4. CASE Insert(p)
  BY <1>4, InsertCounted
<1>5. CASE Enter(p)
  BY <1>5, EnterCounted
<1>6. CASE Leave(p)
  BY <1>6, LeaveCounted
<1> QED
  BY <1>2, <1>3, <1>4, <1>5, <1>6 DEF Caller, Quiet

\* No count goes below zero: who leaves an object has entered it.
LEMMA NeverNegative ==
  ASSUME CacheTypeOK, Counted, call \in [Objs -> Nat], NEW p \in Callers, Begin(p) \/ Caller(p)
  PROVE  call' \in [Objs -> Nat]
<1> USE DEF leastVars
<1>0. ReqInv /\ ReqTypes
  BY DEF Counted, ReqInv
<1>1. CASE Quiet(p)
  BY <1>0, <1>1, QuietFacts
<1>2. CASE Reset(p)
  <2>1. CASE UNCHANGED call
    BY <2>1
  <2>2. CASE ~UNCHANGED call
    <3> DEFINE add == ToSet(me[p].eps) \ Keep(ToSet(me[p].eps))
    <3>1. call' = [o \in Objs |-> IF \E e \in add : NewFor(add, e) = o THEN 0 ELSE call[o]]
      BY <1>2, <2>2 DEF Reset
    <3> HIDE DEF add
    <3> QED
      BY <3>1
  <2> QED
    BY <2>1, <2>2
<1>3. CASE Insert(p)
  <2>1. UNCHANGED call \/ \E o : call' = [call EXCEPT ![o] = 0]
    BY <1>3 DEF Insert, Crash
  <2> QED
    BY <2>1
<1>4. CASE Enter(p)
  <2>1. UNCHANGED call \/ \E o : call' = [call EXCEPT ![o] = @ + 1]
    BY <1>4 DEF Enter
  <2> QED
    BY <2>1
<1>5. CASE Leave(p)
  <2> DEFINE h == me[p].obj
  <2>1. pc[p] = "in" /\ call' = IF h = NoObj THEN call ELSE [call EXCEPT ![h] = @ - 1]
    BY <1>5 DEF Leave, Uncount
  <2>2. h \in Objs \cup {NoObj} /\ h \in Held
    BY <1>0 DEF ReqTypes, Reqs, Held
  <2>3. CASE h = NoObj
    BY <2>1, <2>3
  <2>4. CASE h # NoObj
    <3>1. h \in Objs /\ call[h] = Cardinality(Running(h)) /\ p \in Running(h)
      BY <2>1, <2>2, <2>4 DEF Counted, Running
    <3> HIDE DEF h
    <3>2. call[h] \in Nat /\ call[h] # 0
      BY <3>1, RunningFinite, FS_EmptySet
    <3> QED
      BY <2>1, <2>4, <3>1, <3>2
  <2> QED
    BY <2>3, <2>4
<1> QED
  BY <1>1, <1>2, <1>3, <1>4, <1>5 DEF Caller, Quiet

\* A step that touches neither requests, nor the map, nor the counts.
LEMMA StillCounted ==
  ASSUME Counted, UNCHANGED <<strategy, epCalls, call, lastLen, pc, me, requests, fatal>>, minute' \in BOOLEAN
  PROVE  Counted'
<1>1. Held' = Held /\ \A o \in Objs : Running(o)' = Running(o)
  BY DEF Held, Running
<1> QED
  BY <1>1 DEF Counted, ReqInv, ReqTypes

LEMMA CountedCorrect == Spec => [](CacheOK /\ Counted /\ call \in [Objs -> Nat])
<1> DEFINE I == Counted /\ call \in [Objs -> Nat]
<1>1. Init => I
  <2> SUFFICES ASSUME Init PROVE I
    OBVIOUS
  <2>1. /\ epCalls = [e \in Eps |-> NoObj] /\ call = [o \in Objs |-> 0]
        /\ lastLen = 0 /\ minute = FALSE /\ strategy \in Strategies
        /\ pc = [p \in Callers |-> "idle"] /\ me = [p \in Callers |-> NoReq]
        /\ requests = 0 /\ fatal = FALSE
    BY DEF Init
  <2>2. minute \in BOOLEAN /\ fatal \in BOOLEAN
    BY <2>1
  <2>3. requests \in 0 .. MaxRequests
    BY <2>1, TriesAssumption
  <2>4. me \in [Callers -> Reqs] /\ pc \in [Callers -> Places]
    BY <2>1, NoReqType DEF Places
  <2>5. epCalls \in [Eps -> Objs \cup {NoObj}]
    BY <2>1
  <2>6. call \in [Objs -> Nat] /\ call \in [Objs -> Int]
    BY <2>1
  <2>7. ReqInv
    BY <2>1, <2>2, <2>3, <2>4, <2>5, <2>6 DEF ReqInv, ReqTypes
  <2>8. \A o \in Objs : o \notin Held
    BY <2>1, ObjectsCounted, NoReqType DEF Held
  <2> QED
    BY <2>6, <2>7, <2>8 DEF Counted
<1>2. CacheOK /\ I /\ [Next]_vars => I'
  <2> SUFFICES ASSUME CacheOK, I, [Next]_vars PROVE I'
    OBVIOUS
  <2>0. CacheTypeOK
    BY DEF CacheOK, OpenIffOffered
  <2>1. CASE UNCHANGED vars \/ Background
    <3>1. UNCHANGED <<strategy, epCalls, call, lastLen, minute, pc, me, requests, fatal>>
      BY <2>1 DEF vars, Background, leastVars, callVars
    <3>2. minute' \in BOOLEAN
      BY <3>1 DEF Counted, ReqInv, ReqTypes
    <3> QED
      BY <3>1, <3>2, StillCounted
  <2>2. CASE Minute
    <3>1. UNCHANGED <<strategy, epCalls, call, lastLen, pc, me, requests, fatal>> /\ minute' = TRUE
      BY <2>2 DEF Minute, callVars
    <3>2. minute' \in BOOLEAN
      BY <3>1
    <3> QED
      BY <3>1, <3>2, StillCounted
  <2>3. CASE \E p \in Callers : Begin(p) \/ Caller(p)
    BY <2>0, <2>3, CallerCounted, NeverNegative
  <2> QED
    BY <2>1, <2>2, <2>3 DEF Next
<1> HIDE DEF I
<1>3. Spec => []I
  BY <1>1, <1>2, CacheCorrect, PTL DEF Spec
<1>4. CacheOK /\ I => CacheOK /\ Counted /\ call \in [Objs -> Nat]
  BY DEF I
<1> QED
  BY <1>3, <1>4, CacheCorrect, PTL

\* As long as the map or a caller refers to it, an object counts exactly the
\* calls that run through it: a count neither stays up nor goes below zero,
\* though objects are replaced and forgotten while calls run.
THEOREM CallsAreCounted == Spec => []CallsCounted
<1>1. CacheOK /\ Counted /\ call \in [Objs -> Nat] => CallsCounted
  <2> SUFFICES ASSUME CacheOK, Counted, call \in [Objs -> Nat] PROVE CallsCounted
    OBVIOUS
  <2>1. CacheTypeOK /\ ReqTypes
    BY DEF CacheOK, OpenIffOffered, Counted, ReqInv
  <2>2. \A p \in Callers : /\ me[p].try \in Nat /\ me[p].eps \in Seq(Eps)
                           /\ me[p].obj \in Objs \cup {NoObj} /\ me[p].ep \in Eps \cup {NoEp}
    BY <2>1 DEF ReqTypes, Reqs
  <2>3. TypeOK
    BY <2>1, <2>2 DEF TypeOK, ReqTypes, Places
  <2> QED
    BY <2>3 DEF CallsCounted, Counted, Running
<1> QED
  BY <1>1, CountedCorrect, PTL

-----------------------------------------------------------------------------
(***************************************************************************)
(* Endpoints that left before an attempt                                   *)
(***************************************************************************)
\* A request knows endpoints that were made, are not offered any more, and are
\* not in the list it has taken.
Apart(r) == /\ r.old \subseteq 1 .. made
            /\ r.old \cap ToSet(endpoints) = {}
            /\ r.old \cap ToSet(r.eps) = {}

Departed == \A p \in Callers : /\ Apart(me[p])
                               /\ pc[p] \in {"insert", "call"} => me[p].ep \notin me[p].old

\* What joins the list is newer than what ever left it.
LEMMA ListGrowsByNew ==
  ASSUME CacheOK, [Next]_vars
  PROVE  made \in Nat /\ made' \in Nat /\ made <= made' /\ \A e \in ToSet(endpoints') : e \in ToSet(endpoints) \/ e > made
<1> USE DEF cacheVars, chanVars
<1>1. CacheTypeOK /\ CacheInv /\ OpenIffOffered /\ made \in Nat
  BY EpsAssumption DEF CacheOK, OpenIffOffered, CacheTypeOK
<1>2. UNCHANGED <<made, endpoints>> \/ \E S \in SUBSET Instances : UpdateCache(S)
  <2>1. CASE Background
    <3>1. CASE Update
      <4>1. CASE recv = Err /\ Sad
        BY <4>1 DEF Sad
      <4>2. CASE recv # Err /\ Happy(recv)
        <5>1. recv \in SUBSET Instances
          BY <3>1, <4>2 DEF Update, Events, Lists
        <5>2. UpdateCache(recv)
          BY <4>2 DEF Happy
        <5> QED
          BY <5>1, <5>2
      <4> QED
        BY <3>1, <4>1, <4>2 DEF Update
    <3>2. CASE ~Update
      BY <2>1, <3>2 DEF Background, Discover, Deliver, Publish, Close, Deregister, CloseChan, Expire
    <3> QED
      BY <3>1, <3>2
  <2>2. CASE ~Background
    <3>1. UNCHANGED <<made, endpoints>> \/ UpdateCache({})
      BY <2>2 DEF Next, Minute, Begin, Caller, Endpoints, EndpointsLocked, Choose, Check, Reset, Look, Crash,
         Insert, Enter, Leave, vars
    <3>2. {} \in SUBSET Instances
      OBVIOUS
    <3> QED
      BY <3>1, <3>2
  <2> QED
    BY <2>1, <2>2
<1>3. CASE UNCHANGED <<made, endpoints>>
  BY <1>1, <1>3
<1>4. ASSUME NEW S \in SUBSET Instances, UpdateCache(S)
      PROVE  made' \in Nat /\ made <= made' /\ \A e \in ToSet(endpoints') : e \in ToSet(endpoints) \/ e > made
  <2>1. made' \in 0 .. MaxMade /\ made <= made' /\ \A e \in ToSet(endpoints') : e \in ToSet(endpoints) \/ e > made
    BY <1>1, <1>4, UpdateCacheFacts
  <2>2. made' \in Nat
    BY <2>1, EpsAssumption
  <2> QED
    BY <2>1, <2>2
<1> QED
  BY <1>1, <1>2, <1>3, <1>4

\* So a request stays apart from the list, whoever updates it.
LEMMA StaysApart ==
  ASSUME CacheOK, [Next]_vars, NEW r, Apart(r)
  PROVE  /\ r.old \subseteq 1 .. made'
         /\ r.old \cap ToSet(endpoints') = {}
         /\ r.old \cap ToSet(r.eps) = {}
<1>1. \A e \in r.old : e \in 1 .. made /\ ~(e > made)
  BY ListGrowsByNew DEF Apart
<1>2. \A e \in 1 .. made : e \in 1 .. made'
  BY ListGrowsByNew
<1> QED
  BY <1>1, <1>2, ListGrowsByNew DEF Apart

\* A request begins with the endpoints that are not offered then.
LEMMA AskApart ==
  ASSUME CacheTypeOK, ReqTypes, NEW p \in Callers, Failed(p) \/ Return(p)
  PROVE  \E r \in Reqs, to \in {"ask", "idle"} :
           me' = [me EXCEPT ![p] = r] /\ pc' = [pc EXCEPT ![p] = to] /\ Apart(r)
<1>1. PICK r \in Reqs, to \in {"ask", "idle"} :
        /\ me' = [me EXCEPT ![p] = r] /\ pc' = [pc EXCEPT ![p] = to]
        /\ r.eps = <<>>
        /\ r.old = {} \/ r.old = (1 .. made) \ ToSet(endpoints)
  BY FailedFacts
<1>2. ToSet(r.eps) = {}
  BY <1>1 DEF ToSet
<1>3. Apart(r)
  BY <1>1, <1>2 DEF Apart
<1> QED
  BY <1>1, <1>3

\* What a caller does to its own request.
LEMMA CallerApart ==
  ASSUME CacheTypeOK, ReqInv, Departed, NEW p \in Callers, Begin(p) \/ Caller(p)
  PROVE  \/ UNCHANGED <<me, pc>>
         \/ \E r \in Reqs, to \in Places :
              /\ me' = [me EXCEPT ![p] = r] /\ pc' = [pc EXCEPT ![p] = to]
              /\ Apart(r) /\ (to \in {"insert", "call"} => r.ep \notin r.old)
<1> USE DEF Goto, Places
<1>0. /\ ReqTypes /\ me[p] \in Reqs /\ me[p].eps \in Seq(Eps) /\ pc \in [Callers -> Places]
      /\ Apart(me[p]) /\ me = [me EXCEPT ![p] = me[p]]
  BY DEF ReqInv, ReqTypes, Reqs, Departed
<1> DEFINE Goal == \E r \in Reqs, to \in Places :
                     /\ me' = [me EXCEPT ![p] = r] /\ pc' = [pc EXCEPT ![p] = to]
                     /\ Apart(r) /\ (to \in {"insert", "call"} => r.ep \notin r.old)
<1>a. ASSUME NEW e \in ToSet(me[p].eps) PROVE e \in Eps /\ e \notin me[p].old
  <2>1. e \in Eps
    <3>1. PICK k \in DOMAIN me[p].eps : e = me[p].eps[k]
      BY <1>a DEF ToSet
    <3>2. me[p].eps \in Seq(Eps) /\ k \in 1 .. Len(me[p].eps)
      BY <1>0, <3>1, LenProperties
    <3> QED
      BY <3>1, <3>2, ElementOfSeq
  <2>2. e \notin me[p].old
    BY <1>0, <1>a DEF Apart
  <2> QED
    BY <2>1, <2>2
<1>b. \A r : r.old = me[p].old /\ r.eps \in {me[p].eps, <<>>, endpoints} => Apart(r)
  <2>1. ToSet(<<>>) = {}
    BY DEF ToSet
  <2> QED
    BY <1>0, <2>1 DEF Apart
<1>c. <<>> \in Seq(Eps)
  OBVIOUS
<1>1. CASE Begin(p)
  <2>1. 1 \in Nat /\ ToSet(<<>>) = {}
    BY DEF ToSet
  <2>2. /\ Ask(1) \in Reqs /\ Ask(1).old = (1 .. made) \ ToSet(endpoints) /\ Ask(1).eps = <<>>
    BY <2>1, AskType
  <2>3. Apart(Ask(1))
    BY <2>1, <2>2 DEF Apart
  <2>4. me' = [me EXCEPT ![p] = Ask(1)] /\ pc' = [pc EXCEPT ![p] = "ask"]
    BY <1>1 DEF Begin
  <2> QED
    BY <2>2, <2>3, <2>4
<1>2. ASSUME Failed(p) \/ Return(p) PROVE Goal
  <2>1. PICK r \in Reqs, to \in {"ask", "idle"} :
          me' = [me EXCEPT ![p] = r] /\ pc' = [pc EXCEPT ![p] = to] /\ Apart(r)
    BY <1>0, <1>2, AskApart
  <2>2. to \in Places /\ to \notin {"insert", "call"}
    OBVIOUS
  <2> QED
    BY <2>1, <2>2
<1>3. ASSUME Taken(p) PROVE Goal
  <2>1. CASE Failed(p)
    BY <1>2, <2>1
  <2>2. CASE me' = [me EXCEPT ![p].eps = endpoints]
             /\ Goto(p, IF strategy = "least" THEN "check" ELSE "choose")
    <3> DEFINE r == [me[p] EXCEPT !.eps = endpoints]
    <3>1. r \in Reqs /\ Apart(r)
      <4>1. r \in Reqs /\ r.old = me[p].old /\ r.eps = endpoints
        BY <1>0 DEF Reqs, CacheTypeOK
      <4> HIDE DEF r
      <4> QED
        BY <1>b, <4>1
    <3>2. me' = [me EXCEPT ![p] = r]
      BY <2>2
    <3>3. PICK to \in Places \ {"insert", "call"} : pc' = [pc EXCEPT ![p] = to]
      <4>1. CASE strategy = "least"
        <5>1. pc' = [pc EXCEPT ![p] = "check"]
          BY <2>2, <4>1
        <5>2. "check" \in Places \ {"insert", "call"}
          OBVIOUS
        <5> QED
          BY <5>1, <5>2
      <4>2. CASE strategy # "least"
        <5>1. pc' = [pc EXCEPT ![p] = "choose"]
          BY <2>2, <4>2
        <5>2. "choose" \in Places \ {"insert", "call"}
          OBVIOUS
        <5> QED
          BY <5>1, <5>2
      <4> QED
        BY <4>1, <4>2
    <3> HIDE DEF r
    <3> QED
      BY <3>1, <3>2, <3>3
  <2> QED
    BY <1>3, <2>1, <2>2 DEF Taken
<1>4. CASE Endpoints(p)
  <2>1. CASE Valid
    BY <1>3, <1>4, <2>1 DEF Endpoints
  <2>2. CASE ~Valid
    <3>1. me' = me /\ pc' = [pc EXCEPT ![p] = "ask again"]
      BY <1>4, <2>2 DEF Endpoints
    <3>2. me' = [me EXCEPT ![p] = me[p]] /\ "ask again" \in Places /\ "ask again" \notin {"insert", "call"}
      BY <1>0, <3>1
    <3> QED
      BY <1>0, <3>1, <3>2
  <2> QED
    BY <2>1, <2>2
<1>5. CASE EndpointsLocked(p)
  BY <1>2, <1>3, <1>5 DEF EndpointsLocked
<1>6. CASE Choose(p)
  <2>1. PICK k \in DOMAIN me[p].eps :
          /\ me' = [me EXCEPT ![p].ep = me[p].eps[k], ![p].eps = <<>>]
          /\ pc' = [pc EXCEPT ![p] = "call"]
    BY <1>6 DEF Choose
  <2> DEFINE e == me[p].eps[k]
             r == [me[p] EXCEPT !.ep = e, !.eps = <<>>]
  <2>2. e \in ToSet(me[p].eps)
    BY DEF ToSet
  <2>3. e \in Eps /\ e \notin me[p].old
    BY <1>a, <2>2
  <2>4. r \in Reqs /\ r.old = me[p].old /\ r.eps = <<>> /\ r.ep = e /\ me' = [me EXCEPT ![p] = r]
    BY <1>0, <1>c, <2>1, <2>3 DEF Reqs
  <2> HIDE DEF e, r
  <2>5. Apart(r) /\ r.ep \notin r.old /\ "call" \in Places
    BY <1>b, <2>3, <2>4
  <2> QED
    BY <2>1, <2>4, <2>5
<1>7. CASE Check(p)
  <2>1. me' = [me EXCEPT ![p] = me[p]]
    BY <1>0, <1>7 DEF Check
  <2>2. PICK to \in Places \ {"insert", "call"} : pc' = [pc EXCEPT ![p] = to]
    <3>1. CASE Fresh(p)
      <4>1. pc' = [pc EXCEPT ![p] = "look"]
        BY <1>7, <3>1 DEF Check
      <4>2. "look" \in Places \ {"insert", "call"}
        OBVIOUS
      <4> QED
        BY <4>1, <4>2
    <3>2. CASE ~Fresh(p)
      <4>1. pc' = [pc EXCEPT ![p] = "reset"]
        BY <1>7, <3>2 DEF Check
      <4>2. "reset" \in Places \ {"insert", "call"}
        OBVIOUS
      <4> QED
        BY <4>1, <4>2
    <3> QED
      BY <3>1, <3>2
  <2> QED
    BY <1>0, <2>1, <2>2
<1>8. CASE Reset(p)
  <2>1. me' = [me EXCEPT ![p] = me[p]] /\ pc' = [pc EXCEPT ![p] = "look"] /\ "look" \in Places
    BY <1>0, <1>8 DEF Reset, callVars
  <2>2. "look" \notin {"insert", "call"}
    OBVIOUS
  <2> QED
    BY <1>0, <2>1, <2>2
<1>9. CASE Look(p)
  <2>1. CASE Crash(p)
    BY <2>1 DEF Crash
  <2>2. CASE ~Crash(p)
    <3>1. PICK e \in Picks(p) :
            /\ me' = [me EXCEPT ![p].ep = e, ![p].obj = epCalls[e], ![p].eps = <<>>]
            /\ pc' = [pc EXCEPT ![p] = IF epCalls[e] = NoObj THEN "insert" ELSE "call"]
      BY <1>9, <2>2 DEF Look
    <3> DEFINE r == [me[p] EXCEPT !.ep = e, !.obj = epCalls[e], !.eps = <<>>]
               to == IF epCalls[e] = NoObj THEN "insert" ELSE "call"
    <3>2. e \in ToSet(me[p].eps)
      BY <3>1 DEF Picks, Leasts, Unknown, Idle, ListedBy
    <3>3. e \in Eps /\ e \notin me[p].old
      BY <1>a, <3>2
    <3>4. epCalls[e] \in Objs \cup {NoObj}
      BY <1>0, <3>3 DEF ReqTypes
    <3>5. r \in Reqs /\ r.old = me[p].old /\ r.eps = <<>> /\ r.ep = e /\ me' = [me EXCEPT ![p] = r]
      BY <1>0, <1>c, <3>1, <3>3, <3>4 DEF Reqs
    <3>6. to \in Places /\ pc' = [pc EXCEPT ![p] = to]
      BY <3>1
    <3> HIDE DEF r, to
    <3>7. Apart(r) /\ r.ep \notin r.old
      BY <1>b, <3>3, <3>5
    <3> QED
      BY <3>5, <3>6, <3>7
  <2> QED
    BY <2>1, <2>2
<1>10. CASE Insert(p)
  <2>1. CASE Crash(p)
    BY <2>1 DEF Crash
  <2>2. CASE ~Crash(p)
    <3> DEFINE o == NewFor({me[p].ep}, me[p].ep)
               r == [me[p] EXCEPT !.obj = o]
    <3>1. pc[p] = "insert" /\ me' = [me EXCEPT ![p].obj = o] /\ pc' = [pc EXCEPT ![p] = "call"]
      BY <1>10, <2>2 DEF Insert
    <3>2. o \in Objs
      BY <3>1, FreeForInsert
    <3>3. /\ r \in Reqs /\ r.old = me[p].old /\ r.eps = me[p].eps /\ r.ep = me[p].ep
          /\ me' = [me EXCEPT ![p] = r]
      BY <1>0, <3>1, <3>2 DEF Reqs
    <3>4. me[p].ep \notin me[p].old /\ "call" \in Places
      BY <3>1 DEF Departed
    <3> HIDE DEF o, r
    <3>5. Apart(r) /\ r.ep \notin r.old
      BY <1>b, <3>3, <3>4
    <3> QED
      BY <3>1, <3>3, <3>4, <3>5
  <2> QED
    BY <2>1, <2>2
<1>11. CASE Enter(p)
  <2> DEFINE r == [me[p] EXCEPT !.old = {}]
  <2>1. me' = [me EXCEPT ![p].old = {}] /\ pc' = [pc EXCEPT ![p] = "in"] /\ "in" \in Places
    BY <1>11 DEF Enter
  <2>2. r \in Reqs /\ r.old = {} /\ me' = [me EXCEPT ![p] = r]
    BY <1>0, <2>1 DEF Reqs
  <2> HIDE DEF r
  <2>3. Apart(r) /\ r.ep \notin r.old
    BY <2>2 DEF Apart
  <2> QED
    BY <2>1, <2>2, <2>3
<1>12. CASE Leave(p)
  BY <1>2, <1>12 DEF Leave
<1> QED
  BY <1>1, <1>4, <1>5, <1>6, <1>7, <1>8, <1>9, <1>10, <1>11, <1>12 DEF Caller

LEMMA DepartedStays ==
  ASSUME CacheOK, Counted, Departed, [Next]_vars
  PROVE  Departed'
<1>0. CacheTypeOK /\ ReqInv /\ ReqTypes
  BY DEF CacheOK, OpenIffOffered, Counted, ReqInv
<1>1. ASSUME NEW q \in Callers, NEW r, Apart(r), me'[q] = r PROVE Apart(me[q])'
  <2>1. /\ r.old \subseteq 1 .. made'
        /\ r.old \cap ToSet(endpoints') = {}
        /\ r.old \cap ToSet(r.eps) = {}
    BY <1>1, StaysApart
  <2> QED
    BY <1>1, <2>1 DEF Apart
<1>2. CASE UNCHANGED <<me, pc>>
  BY <1>1, <1>2 DEF Departed
<1>3. ASSUME NEW p \in Callers, Begin(p) \/ Caller(p), ~UNCHANGED <<me, pc>> PROVE Departed'
  <2>1. PICK r \in Reqs, to \in Places :
          /\ me' = [me EXCEPT ![p] = r] /\ pc' = [pc EXCEPT ![p] = to]
          /\ Apart(r) /\ (to \in {"insert", "call"} => r.ep \notin r.old)
    BY <1>0, <1>3, CallerApart
  <2>2. me \in [Callers -> Reqs] /\ pc \in [Callers -> Places]
    BY <1>0 DEF ReqTypes
  <2>3. ASSUME NEW q \in Callers
        PROVE  Apart(me[q])' /\ (pc'[q] \in {"insert", "call"} => me'[q].ep \notin me'[q].old)
    <3>1. CASE q = p
      <4>1. me'[q] = r /\ pc'[q] = to
        BY <2>1, <2>2, <3>1
      <4> QED
        BY <1>1, <2>1, <4>1
    <3>2. CASE q # p
      <4>1. me'[q] = me[q] /\ pc'[q] = pc[q]
        BY <2>1, <2>2, <3>2
      <4> QED
        BY <1>1, <4>1 DEF Departed
    <3> QED
      BY <3>1, <3>2
  <2> QED
    BY <2>3 DEF Departed
<1>4. UNCHANGED <<me, pc>> \/ \E p \in Callers : Begin(p) \/ Caller(p)
  BY DEF Next, Background, Minute, callVars, vars
<1> QED
  BY <1>2, <1>3, <1>4

LEMMA DepartedIsInv == Spec => []Departed
<1>1. Init => Departed
  <2> SUFFICES ASSUME Init PROVE Departed
    OBVIOUS
  <2>1. \A p \in Callers : me[p].old = {}
    BY NoReqType DEF Init
  <2> QED
    BY <2>1 DEF Departed, Apart
<1>2. CacheOK /\ Counted /\ Departed /\ [Next]_vars => Departed'
  BY DepartedStays
<1> QED
  BY <1>1, <1>2, CountedCorrect, PTL DEF Spec

\* An attempt that begins after an endpoint has left the list never calls it,
\* however long the balancer's own map still knows it.
THEOREM DepartedNotCalled == Spec => []NoCallToDeparted
<1>1. Departed => NoCallToDeparted
  BY DEF Departed, NoCallToDeparted
<1> QED
  BY <1>1, DepartedIsInv, PTL

-----------------------------------------------------------------------------
\* Only its own step moves a caller.
LEMMA OwnStep ==
  ASSUME ReqTypes, [Next]_vars, NEW p \in Callers, pc'[p] # pc[p]
  PROVE  Begin(p) \/ Caller(p)
<1>1. PICK q \in Callers : Begin(q) \/ Caller(q)
  BY DEF Next, Background, Minute, callVars, vars
<1>2. \A x \in Callers : x # q => pc'[x] = pc[x]
  BY <1>1 DEF Begin, Caller, Endpoints, EndpointsLocked, Taken, Failed, Return, Choose, Check, Reset, Look, Insert,
     Enter, Leave, Crash, Goto, ReqTypes
<1> QED
  BY <1>1, <1>2

\* The count of a running call of an endpoint on offer is lost only to a caller
\* whose attempt is older than the endpoint, or that missed it in the map before
\* the object that counts the call was there.
THEOREM LostOnlyToLaggards == Spec => LostToLaggards
<1> DEFINE Fair == \A q \in Callers : CountLost(q) => \E p \in Callers : Behind(p, me[q].ep)
<1>1. CacheOK /\ Counted /\ Departed /\ [Next]_vars => Fair
  <2> SUFFICES ASSUME CacheOK, Counted, Departed, [Next]_vars, NEW q \in Callers, CountLost(q)
               PROVE  \E p \in Callers : Behind(p, me[q].ep)
    OBVIOUS
  <2> DEFINE e == me[q].ep
  <2>1. /\ ReqTypes /\ e \in Eps /\ epCalls \in [Eps -> Objs \cup {NoObj}]
        /\ epCalls[e] = me[q].obj /\ epCalls'[e] # epCalls[e] /\ epCalls[e] # NoObj
        /\ e \in ToSet(endpoints)
    <3>1. ReqTypes /\ epCalls \in [Eps -> Objs \cup {NoObj}] /\ endpoints \in Seq(Eps)
      BY DEF Counted, ReqInv, ReqTypes, CacheOK, OpenIffOffered, CacheTypeOK
    <3>2. e \in Eps
      BY <3>1, ElementOfSeq, LenProperties DEF CountLost, ToSet
    <3> QED
      BY <3>1, <3>2 DEF CountLost
  <2>2. PICK p \in Callers : Reset(p) \/ Insert(p)
    BY <2>1 DEF Next, Background, Minute, Begin, Caller, Endpoints, EndpointsLocked, Choose, Check,
       Look, Crash, Enter, Leave, vars, leastVars
  <2>3. CASE Insert(p)
    <3>1. pc[p] = "insert" /\ me[p].ep = e
      BY <2>1, <2>3 DEF Insert, Crash, leastVars
    <3> QED
      BY <3>1 DEF Behind
  <2>4. CASE Reset(p)
    <3> DEFINE E == ToSet(me[p].eps)
               add == E \ Keep(E)
    <3>1. /\ pc[p] = "reset"
          /\ epCalls' = [x \in Eps |-> IF x \in add THEN NewFor(add, x)
                                        ELSE IF x \in E THEN epCalls[x] ELSE NoObj]
      BY <2>1, <2>4 DEF Reset, leastVars
    <3>2. e \in E => e \notin add
      BY <2>1 DEF Keep
    <3>3. Apart(me[p])
      BY DEF Departed
    <3>4. e \notin me[p].old
      BY <2>1, <3>3 DEF Apart
    <3> HIDE DEF add, E
    <3>5. e \notin E
      BY <2>1, <3>1, <3>2
    <3> QED
      BY <3>1, <3>4, <3>5 DEF Behind, E
  <2> QED
    BY <2>2, <2>3, <2>4
<1>2. Spec => [][Fair]_vars
  BY <1>1, DepartedIsInv, CountedCorrect, PTL DEF Spec
<1> QED
  BY <1>2 DEF LostToLaggards

\* A caller that saw the error clears the list only if the error is still there,
\* and too old, when it has the write lock.
THEOREM RestoredIsKept == Spec => RestoredKept
<1> DEFINE Kept == \A p \in Callers : pc[p] = "ask again" /\ pc'[p] # "ask again" /\ endpoints' # endpoints
                                      => err /\ expired
<1>1. CacheOK /\ Counted /\ [Next]_vars => Kept
  <2> SUFFICES ASSUME CacheOK, Counted, [Next]_vars, NEW p \in Callers,
                      pc[p] = "ask again", pc'[p] # "ask again", endpoints' # endpoints
               PROVE  err /\ expired
    OBVIOUS
  <2>1. ReqTypes
    BY DEF Counted, ReqInv
  <2>2. EndpointsLocked(p)
    <3>1. Begin(p) \/ Caller(p)
      BY <2>1, OwnStep
    <3> QED
      BY <3>1 DEF Caller, Begin, Endpoints, Choose, Check, Reset, Look, Insert, Enter, Leave
  <2> QED
    BY <2>2 DEF EndpointsLocked, Recheck, Valid, cacheVars
<1>2. Spec => [][Kept]_vars
  BY <1>1, CountedCorrect, PTL DEF Spec
<1> QED
  BY <1>2 DEF RestoredKept
=============================================================================
