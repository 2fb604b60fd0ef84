--------------------------- MODULE GrpcPoolsProofs ---------------------------
(***************************************************************************)
(* GRPCPools behaves as RpcPools allows, whatever the strategy and however *)
(* the callers race for index; so everything proved of RpcPools holds of   *)
(* it.                                                                     *)
(***************************************************************************)
EXTENDS GrpcPools, RpcPoolsProofs

-----------------------------------------------------------------------------
\* What a pick rests on: the counter and what callers read of it are numbers,
\* and a caller is somewhere in a pick only while it picks.
Places == {"no", "rolled", "chosen", "asked", "scan"}
Picks == /\ tmp \in [Callers -> Nat] /\ index \in Nat
         /\ scanned \in [Callers -> Nat] /\ at \in [Callers -> Places]
         /\ \A p \in Callers : at[p] # "no" => pc[p] = "pick"

\* While one scans, mtPool is read-held: the slice is what it was, not empty.
ScanHolds == Scanning => ~mtHeld /\ pools # <<>>
PickInv   == TypeOK /\ Picks /\ ScanHolds

LEMMA InitPicks == GInit => Init /\ Picks /\ ScanHolds
<1>1. 0 \in Nat
  OBVIOUS
<1> QED
  BY <1>1 DEF GInit, Picks, Places, ScanHolds, Scanning

\* Whatever the counter is, get_index_ex reads inside the slice.
LEMMA SeenInSlice ==
  ASSUME TypeOK, Picks, NEW p \in Callers, NEW i \in Nat, pools # <<>>
  PROVE  Seen(p, i) \in Nat /\ Seen(p, i) + 1 \in DOMAIN pools
<1>1. pools \in Seq(Pools) /\ Len(pools) \in Nat \ {0} /\ DOMAIN pools = 1 .. Len(pools)
  BY DEF TypeOK
<1>2. tmp[p] + i \in Nat
  BY DEF Picks
<1>3. (tmp[p] + i) % IndexSpan \in Nat
  BY <1>2, IndexAssumption
<1>4. \A a \in Nat, n \in Nat \ {0} : a % n \in 0 .. n - 1
  OBVIOUS
<1>5. Seen(p, i) \in 0 .. Len(pools) - 1
  BY <1>1, <1>3, <1>4 DEF Seen
<1> QED
  BY <1>1, <1>5

\* What RpcPools has of a caller's way leaves a caller alone that is picking.
LEMMA OthersDoNotPick ==
  ASSUME TypeOK, NEW q \in Callers, GBegin(q) \/ Other(q), NEW p \in Callers, pc[p] = "pick"
  PROVE  pc'[p] = "pick"
<1> USE DEF Leave, Fail, Got
<1>1. pc \in [Callers -> Pcs]
  BY DEF TypeOK, Pcs
<1>2. q # p => pc'[p] = pc[p]
  <2>1. CASE GBegin(q)
    BY <1>1, <2>1 DEF GBegin, Begin
  <2>2. CASE Attempt(q)
    BY <1>1, <2>2 DEF Attempt, Check
  <2>3. CASE GetAddr(q) \/ New(q)
    BY <1>1, <2>3 DEF GetAddr, New
  <2>4. CASE Make(q)
    BY <1>1, <2>4 DEF Make
  <2>5. CASE Push(q)
    BY <1>1, <2>5 DEF Push
  <2>6. CASE UsePool(q)
    BY <1>1, <2>6 DEF UsePool, Count, Use, End
  <2>7. CASE CloseServer(q)
    BY <1>1, <2>7 DEF CloseServer, Find, CutServer
  <2> QED
    BY <2>1, <2>2, <2>3, <2>4, <2>5, <2>6, <2>7 DEF Other, GetAndPush
<1>3. q # p
  BY DEF GBegin, Begin, Other, Attempt, Check, GetAndPush, GetAddr, New, Make, Push, UsePool,
         Count, Use, End, CloseServer, Find, CutServer
<1> QED
  BY <1>2, <1>3

\* Choosing an index touches nothing RpcPools knows of.
LEMMA ChooseStutters ==
  ASSUME PickInv, NEW p \in Callers, Choose(p)
  PROVE  UNCHANGED vars /\ Picks' /\ ScanHolds'
<1> USE DEF PickInv
<1>1. UNCHANGED vars /\ UNCHANGED scanned /\ pc[p] = "pick"
  BY DEF Choose, scanVars
<1>2. tmp' \in [Callers -> Nat] /\ index' \in Nat
  <2>1. CASE RollRead(p) \/ ReadIndex(p)
    BY <2>1 DEF RollRead, ReadIndex, Picks
  <2>2. CASE RollWrite(p)
    <3>1. (tmp[p] + 1) % IndexSpan \in Nat
      BY IndexAssumption DEF Picks
    <3> QED
      BY <2>2, <3>1 DEF RollWrite, PlusOne, Picks
  <2>3. CASE Draw(p)
    BY <2>3, IndexAssumption DEF Draw, Picks
  <2>4. CASE Least(p)
    <3>1. DOMAIN pools = 1 .. Len(pools)
      BY DEF TypeOK
    <3>2. PICK k \in Compared : index' = k - 1
      BY <2>4 DEF Least
    <3>3. k \in 1 .. Len(pools)
      BY <3>1, <3>2 DEF Compared, Leasts
    <3>4. k - 1 \in Nat
      BY <3>3
    <3> QED
      BY <2>4, <3>2, <3>4 DEF Least, Picks
  <2> QED
    BY <2>1, <2>2, <2>3, <2>4 DEF Choose
<1>3. PICK to \in {"rolled", "chosen", "asked"} : at' = [at EXCEPT ![p] = to]
  BY DEF Choose, RollRead, RollWrite, Draw, Least, ReadIndex, Step
<1>4. Picks'
  BY <1>1, <1>2, <1>3 DEF Picks, Places, vars, callVars
<1>5. Scanning' => Scanning
  BY <1>3 DEF Scanning, Picks
<1> QED
  BY <1>1, <1>4, <1>5 DEF ScanHolds, vars, tableVars, closeVars

\* A pick that ends leaves a caller as RpcPools' Pick does.
LEMMA PickedPicks ==
  ASSUME PickInv, NEW p \in Callers, pc[p] = "pick", ~mtHeld, pools # <<>>,
         NEW i \in Nat, Picked(p, Nth(p, i)), UNCHANGED <<poolVars, tableVars, mtNew>>
  PROVE  Pick(p)
<1>1. Seen(p, i) + 1 \in DOMAIN pools
  BY SeenInSlice DEF PickInv
<1> QED
  BY <1>1 DEF Picked, Nth, Pick

\* get_index_ex ends as RpcPools' Pick of some pool of the slice; until then it
\* touches nothing RpcPools knows of.
LEMMA GetPicks ==
  ASSUME PickInv, NEW p \in Callers, GetIndexEx(p)
  PROVE  Pick(p) \/ UNCHANGED <<poolVars, tableVars, mtNew, pc, me>>
<1> USE DEF PickInv
<1>1. 0 \in Nat /\ scanned[p] \in Nat
  BY DEF Picks
<1>2. at[p] = "scan" => ~mtHeld /\ pools # <<>>
  BY DEF ScanHolds, Scanning
<1>3. CASE AskFirst(p)
  BY <1>1, <1>3, PickedPicks DEF GetIndexEx, AskFirst, ReadLocked
<1>4. CASE Ask(p)
  BY <1>1, <1>2, <1>4, PickedPicks DEF GetIndexEx, Ask
<1>5. CASE AskedAll(p)
  BY <1>1, <1>2, <1>5, PickedPicks DEF GetIndexEx, AskedAll
<1> QED
  BY <1>3, <1>4, <1>5 DEF GetIndexEx

\* A step of get_index_ex, or finding no pool at all, keeps the others' picks,
\* and the caller's own until it ends.
LEMMA GetKeepsPicks ==
  ASSUME PickInv, NEW p \in Callers, GetIndexEx(p) \/ NoPools(p), UNCHANGED closeVars
  PROVE  Picks' /\ ScanHolds'
<1> USE DEF PickInv
<1>1. tmp' \in [Callers -> Nat] /\ scanned' \in [Callers -> Nat]
  <2>1. 0 \in Nat /\ scanned[p] + 1 \in Nat
    BY DEF Picks
  <2>2. tmp' = tmp \/ tmp' = [tmp EXCEPT ![p] = 0]
    BY DEF GetIndexEx, AskFirst, Ask, AskedAll, NoPools, Picked
  <2>3. scanned' \in {scanned, [scanned EXCEPT ![p] = 0], [scanned EXCEPT ![p] = scanned[p] + 1]}
    BY DEF GetIndexEx, AskFirst, Ask, AskedAll, NoPools, Picked, scanVars
  <2> QED
    BY <2>1, <2>2, <2>3 DEF Picks
<1>2. index' \in Nat
  <2>1. CASE UNCHANGED index
    BY <2>1 DEF Picks
  <2>2. CASE index' = Seen(p, scanned[p]) /\ at[p] = "scan"
    BY <2>2, SeenInSlice DEF Picks, ScanHolds, Scanning
  <2> QED
    BY <2>1, <2>2 DEF GetIndexEx, AskFirst, Ask, AskedAll, NoPools
<1>3. /\ \A q \in Callers : q # p => pc'[q] = pc[q] /\ at'[q] = at[q]
      /\ at' \in [Callers -> Places] /\ pc[p] = "pick"
      /\ at'[p] # "no" => pc'[p] = pc[p]
  <2> USE DEF TypeOK, Picks, Places, Got, Fail, Leave
  <2>1. CASE GetIndexEx(p)
    <3>1. pc[p] = "pick"
      BY <2>1 DEF GetIndexEx
    <3>2. CASE \E x : Picked(p, x)
      BY <3>1, <3>2 DEF Picked
    <3>3. CASE UNCHANGED pc /\ (UNCHANGED at \/ at' = [at EXCEPT ![p] = "scan"])
      BY <3>1, <3>3
    <3> QED
      BY <2>1, <3>2, <3>3 DEF GetIndexEx, AskFirst, Ask, AskedAll
  <2>2. CASE NoPools(p)
    BY <2>2 DEF NoPools, Step
  <2> QED
    BY <2>1, <2>2
<1>4. Picks'
  BY <1>1, <1>2, <1>3 DEF Picks
<1>5. UNCHANGED <<pools, mtHeld>>
  BY DEF GetIndexEx, NoPools, tableVars, closeVars
<1>6. Scanning' => Scanning \/ (~mtHeld /\ pools # <<>>)
  <2> SUFFICES ASSUME Scanning', ~Scanning
               PROVE  ~mtHeld /\ pools # <<>>
    OBVIOUS
  <2>1. at'[p] = "scan" /\ at[p] # "scan"
    BY <1>3 DEF Scanning
  <2>2. AskFirst(p)
    BY <2>1 DEF GetIndexEx, AskFirst, Ask, AskedAll, NoPools, Step, Picked, Picks
  <2> QED
    BY <2>2 DEF AskFirst, ReadLocked
<1> QED
  BY <1>4, <1>5, <1>6 DEF ScanHolds

\* Every step of GRPCPools is a step of RpcPools, or changes only the counter
\* and its readers.
LEMMA StepImplements ==
  ASSUME PickInv, [GNext]_gvars
  PROVE  [Next]_vars /\ Picks' /\ ScanHolds'
<1> USE DEF PickInv
<1> DEFINE Goal == [Next]_vars /\ Picks' /\ ScanHolds'
<1>1. ASSUME NEW p \in Callers, GCaller(p)
      PROVE  Goal
  <2>1. CASE Choose(p)
    BY <2>1, ChooseStutters
  <2>2. CASE (GetIndexEx(p) \/ NoPools(p)) /\ UNCHANGED <<ops, idleVars, closeVars>>
    <3>1. Picks' /\ ScanHolds'
      BY <2>2, GetKeepsPicks
    <3>2. CASE Pick(p)
      BY <1>1, <2>2, <3>1, <3>2 DEF GCaller, Next, Caller, Operation
    <3>3. CASE UNCHANGED <<poolVars, tableVars, mtNew, pc, me>>
      BY <2>2, <3>1, <3>3 DEF vars, callVars
    <3>4. NoPools(p) => Pick(p)
      BY DEF NoPools, Pick
    <3> QED
      BY <2>2, <3>2, <3>3, <3>4, GetPicks
  <2>3. CASE /\ GBegin(p) \/ (Other(p) /\ UNCHANGED ops)
             /\ NowConnected /\ Excluded
             /\ UNCHANGED <<idleVars, closeVars, strategy, index, at, tmp, scanned>>
    <3>1. Begin(p) \/ Operation(p)
      BY <2>3 DEF GBegin, Other, Attempt, GetAndPush, UsePool, CloseServer, Operation
    <3>2. \A q \in Callers : pc[q] = "pick" => pc'[q] = "pick"
      BY <2>3, OthersDoNotPick
    <3>3. Picks'
      BY <2>3, <3>2 DEF Picks
    <3>4. ScanHolds'
      BY <2>3 DEF ScanHolds, Scanning, Excluded, tableVars
    <3> QED
      BY <1>1, <2>3, <3>1, <3>3, <3>4 DEF GCaller, Next, Caller
  <2> QED
    BY <1>1, <2>1, <2>2, <2>3 DEF GCaller
<1>2. CASE GRest
  <2>1. [Next]_vars /\ UNCHANGED callVars
    BY <1>2 DEF GRest, GIdleLoop, GClose, Next, IdleLoop, Close, Time
  <2>2. ScanHolds' /\ Picks'
    BY <1>2, <2>1 DEF GRest, ScanHolds, Scanning, Excluded, tableVars, Picks, callVars
  <2> QED
    BY <2>1, <2>2
<1>3. CASE Flip \/ UNCHANGED gvars
  <2>1. UNCHANGED <<vars, index, at, tmp, scanned>>
    BY <1>3 DEF Flip, gvars, pickVars, scanVars
  <2>2. Picks' /\ ScanHolds'
    BY <2>1 DEF Picks, ScanHolds, Scanning, vars, callVars, tableVars, closeVars
  <2> QED
    BY <2>1, <2>2
<1> QED
  BY <1>1, <1>2, <1>3 DEF GNext

\* GRPCPools implements RpcPools: every behaviour of the one is a behaviour of
\* the other, for any number of pools, callers and addresses, whichever the
\* strategy.
THEOREM GrpcImplementsRpc == GSafety => Safety
<1>1. PickInv /\ [GNext]_gvars => [Next]_vars /\ Picks' /\ ScanHolds'
  BY StepImplements
<1>2. Init => TypeOK
  BY InitType
<1>3. TypeOK /\ [Next]_vars => TypeOK'
  BY NextType
<1> QED
  BY <1>1, <1>2, <1>3, InitPicks, PTL DEF GSafety, Safety, PickInv

\* What is proved of RpcPools holds of GRPCPools: the tables agree, no pool is
\* leaked, no address has two, the counts are exact, and Close is final.
THEOREM GrpcInherits ==
  GSafety => [](PoolsAgree /\ OpenListed /\ OnePoolPerAddr /\ CallsExact /\ ClosedForGood)
BY GrpcImplementsRpc, TablesAgree, OpenPoolsListed, OnePoolForAddr, CallsCounted,
   ClosedStaysClosed, PTL

-----------------------------------------------------------------------------
(***************************************************************************)
(* PicksConnected.  A scan has asked no pool that was connected throughout *)
(* without taking it; and as long as the uint32 does not wrap, it asks all *)
(* of them.                                                                *)
(***************************************************************************)
\* The scan from a on, all around the slice, meets every index of it.
LEMMA ScanMeetsAll ==
  ASSUME NEW n \in Nat \ {0}, NEW a \in Nat, NEW k \in 1 .. n
  PROVE  \E i \in 0 .. n - 1 : (a + i) % n = k - 1
<1> DEFINE r == a % n
           i == IF r <= k - 1 THEN k - 1 - r ELSE k - 1 - r + n
<1>1. r \in 0 .. n - 1
  OBVIOUS
<1>2. PICK d \in Nat : a = d * n + r
  <2>1. a \div n \in Nat /\ a = (a \div n) * n + r
    OBVIOUS
  <2> QED
    BY <2>1
<1> HIDE DEF r
<1>3. i \in 0 .. n - 1
  BY <1>1
<1>4. a + i = d * n + (k - 1) \/ a + i = (d + 1) * n + (k - 1)
  <2>1. d * n \in Nat /\ (d + 1) * n = d * n + n
    BY <1>2
  <2> QED
    BY <1>1, <1>2, <2>1
<1>5. \A e \in Nat : (e * n + (k - 1)) % n = k - 1
  OBVIOUS
<1>6. (a + i) % n = k - 1
  <2>1. d + 1 \in Nat
    BY <1>2
  <2> QED
    BY <1>2, <1>4, <1>5, <2>1
<1> HIDE DEF i
<1> QED
  BY <1>3, <1>6

\* As long as the sum stays below 2^32, get_index_ex looks at every pool.
LEMMA SeesAll ==
  ASSUME TypeOK, Picks, NEW p \in Callers, tmp[p] + Len(pools) <= IndexSpan,
         NEW k \in DOMAIN pools
  PROVE  \E i \in 0 .. Len(pools) - 1 : Seen(p, i) + 1 = k
<1>1. pools \in Seq(Pools) /\ Len(pools) \in Nat /\ DOMAIN pools = 1 .. Len(pools)
  BY DEF TypeOK
<1>2. Len(pools) \in Nat \ {0} /\ k \in 1 .. Len(pools) /\ tmp[p] \in Nat
  BY <1>1 DEF Picks
<1>3. PICK i \in 0 .. Len(pools) - 1 : (tmp[p] + i) % Len(pools) = k - 1
  BY <1>2, ScanMeetsAll
<1>4. tmp[p] + i \in 0 .. IndexSpan - 1
  BY <1>2, <1>3, IndexAssumption
<1>5. (tmp[p] + i) % IndexSpan = tmp[p] + i
  BY <1>4, IndexAssumption
<1>6. Seen(p, i) = k - 1
  BY <1>3, <1>5 DEF Seen
<1> QED
  BY <1>2, <1>3, <1>6

\* What was connected ever since p's scan began still is, and was not asked.
Passed(p) == at[p] = "scan" => /\ steady[p] \subseteq connected
                               /\ \A i \in 0 .. scanned[p] - 1 : Nth(p, i) \notin steady[p]
PassedInv == /\ steady \in [Callers -> SUBSET Pools] /\ connected \subseteq Pools
             /\ \A p \in Callers : Passed(p)

\* What PicksConnected says of one step of one caller.
PickFair(p) == at[p] \in {"asked", "scan"} /\ pc'[p] = "count" =>
                 \/ me'[p].pool \in connected
                 \/ at[p] = "scan" /\ \A k \in DOMAIN pools : pools[k] \notin steady[p]
                 \/ tmp[p] + Len(pools) > IndexSpan

\* A caller leaves its pick with the pool it took.
LEMMA PickedIsGot ==
  ASSUME TypeOK, NEW p \in Callers, NEW x, Picked(p, x), pc'[p] = "count"
  PROVE  me'[p].pool = x
<1>1. ~Leave(p)
  BY DEF TypeOK, Leave
<1>2. me' = [me EXCEPT ![p].pool = x]
  BY <1>1 DEF Picked, Got
<1> QED
  BY <1>2 DEF TypeOK

\* get_index_ex takes a connected pool, or has asked every pool of the slice.
LEMMA GetIndexFair ==
  ASSUME PickInv, PassedInv, NEW p \in Callers, GetIndexEx(p)
  PROVE  PickFair(p)
<1> USE DEF PickInv
<1>1. SUFFICES ASSUME pc'[p] = "count", ~(tmp[p] + Len(pools) > IndexSpan),
                      me'[p].pool \notin connected
               PROVE  at[p] = "scan" /\ \A k \in DOMAIN pools : pools[k] \notin steady[p]
  BY DEF PickFair
<1>2. pc[p] # pc'[p]
  BY <1>1 DEF GetIndexEx
<1>3. AskedAll(p)
  <2>1. CASE AskFirst(p)
    BY <1>1, <1>2, <2>1, PickedIsGot DEF AskFirst
  <2>2. CASE Ask(p)
    BY <1>1, <1>2, <2>2, PickedIsGot DEF Ask
  <2> QED
    BY <2>1, <2>2 DEF GetIndexEx
<1>4. Len(pools) \in Nat /\ tmp[p] \in Nat /\ scanned[p] \in Nat /\ scanned[p] >= Len(pools)
  BY <1>3 DEF TypeOK, Picks, AskedAll, ScanLength
<1>5. tmp[p] + Len(pools) <= IndexSpan
  BY <1>1, <1>4, IndexAssumption
<1>6. \A k \in DOMAIN pools : pools[k] \notin steady[p]
  <2> TAKE k \in DOMAIN pools
  <2>1. PICK i \in 0 .. Len(pools) - 1 : Seen(p, i) + 1 = k
    BY <1>5, SeesAll
  <2>2. i \in 0 .. scanned[p] - 1
    BY <1>4, <2>1
  <2> QED
    BY <1>3, <2>1, <2>2 DEF PassedInv, Passed, Nth, AskedAll
<1> QED
  BY <1>3, <1>6 DEF AskedAll

\* A scan keeps its own record, and every other scan's.
LEMMA GetKeepsPassed ==
  ASSUME PickInv, PassedInv, NEW p \in Callers, GetIndexEx(p) \/ NoPools(p)
  PROVE  PassedInv'
<1> USE DEF PickInv
<1>1. UNCHANGED <<pools, connected>>
  BY DEF GetIndexEx, NoPools, tableVars
<1>2. /\ at \in [Callers -> Places] /\ tmp \in [Callers -> Nat]
      /\ scanned \in [Callers -> Nat] /\ steady \in [Callers -> SUBSET Pools]
  BY DEF Picks, PassedInv
<1>3. ASSUME NEW q \in Callers, at'[q] = at[q], tmp'[q] = tmp[q], scanned'[q] = scanned[q],
             steady'[q] = steady[q]
      PROVE  Passed(q)'
  BY <1>1, <1>3 DEF PassedInv, Passed, Nth, Seen
<1>4. CASE \E x : Picked(p, x)
  <2>1. \A q \in Callers : q # p => Passed(q)'
    BY <1>2, <1>3, <1>4 DEF Picked
  <2>2. Passed(p)' /\ steady' \in [Callers -> SUBSET Pools]
    BY <1>2, <1>4 DEF Picked, Passed
  <2> QED
    BY <1>1, <2>1, <2>2 DEF PassedInv
<1>5. CASE /\ at' = [at EXCEPT ![p] = "scan"] /\ steady' = [steady EXCEPT ![p] = connected]
           /\ scanned' = [scanned EXCEPT ![p] = 0] /\ UNCHANGED tmp
  <2>1. \A q \in Callers : q # p => Passed(q)'
    BY <1>2, <1>3, <1>5
  <2>2. Passed(p)' /\ steady' \in [Callers -> SUBSET Pools]
    BY <1>1, <1>2, <1>5 DEF Passed, PassedInv
  <2> QED
    BY <1>1, <2>1, <2>2 DEF PassedInv
<1>6. CASE /\ scanned' = [scanned EXCEPT ![p] = @ + 1] /\ UNCHANGED <<at, tmp, steady>>
           /\ at[p] = "scan" /\ Nth(p, scanned[p]) \notin connected
  <2>1. \A q \in Callers : q # p => Passed(q)'
    BY <1>2, <1>3, <1>6
  <2>2. scanned'[p] = scanned[p] + 1 /\ steady'[p] = steady[p] /\ tmp'[p] = tmp[p]
    BY <1>2, <1>6
  <2>3. Passed(p)
    BY DEF PassedInv
  <2>4. \A i : Nth(p, i)' = Nth(p, i)
    BY <1>1, <2>2 DEF Nth, Seen
  <2>5. Passed(p)'
    <3>1. \A i \in 0 .. scanned[p] : i \in 0 .. scanned[p] - 1 \/ i = scanned[p]
      BY <1>2
    <3>2. scanned'[p] - 1 = scanned[p]
      BY <1>2, <2>2
    <3> QED
      BY <1>1, <1>6, <2>2, <2>3, <2>4, <3>1, <3>2 DEF Passed
  <2> QED
    BY <1>1, <1>6, <2>1, <2>5 DEF PassedInv
<1>7. CASE NoPools(p)
  <2>1. at' = [at EXCEPT ![p] = "no"] /\ tmp' = [tmp EXCEPT ![p] = 0] /\ UNCHANGED scanVars
    BY <1>7 DEF NoPools, Step
  <2>2. \A q \in Callers : q # p => Passed(q)'
    BY <1>2, <1>3, <2>1 DEF scanVars
  <2>3. Passed(p)'
    BY <1>2, <2>1 DEF Passed
  <2> QED
    BY <1>1, <2>1, <2>2, <2>3 DEF PassedInv, scanVars
<1> QED
  BY <1>4, <1>5, <1>6, <1>7 DEF GetIndexEx, AskFirst, Ask, AskedAll

\* Everybody else's steps, and the connections themselves, keep the records: the
\* slice stays as it is while one scans.
LEMMA RestKeepsPassed ==
  ASSUME PickInv, PassedInv, UNCHANGED <<at, tmp, scanned>>, StillSteady,
         Scanning => UNCHANGED pools, connected' \subseteq Pools
  PROVE  PassedInv'
<1>1. steady' \in [Callers -> SUBSET Pools]
  BY DEF StillSteady, PassedInv
<1>2. ASSUME NEW p \in Callers, at[p] = "scan"
      PROVE  Passed(p)'
  <2>1. UNCHANGED pools
    BY <1>2 DEF Scanning
  <2>2. \A i : Nth(p, i)' = Nth(p, i)
    BY <2>1 DEF Nth, Seen
  <2>3. steady'[p] = steady[p] \cap connected'
    BY DEF StillSteady
  <2>4. Passed(p)
    BY DEF PassedInv
  <2> QED
    BY <1>2, <2>2, <2>3, <2>4 DEF Passed
<1>3. ASSUME NEW p \in Callers
      PROVE  Passed(p)'
  BY <1>2 DEF Passed
<1> QED
  BY <1>1, <1>3 DEF PassedInv

\* A caller that chooses an index is not scanning.
LEMMA ChooseKeepsPassed ==
  ASSUME PickInv, PassedInv, NEW p \in Callers, Choose(p)
  PROVE  PassedInv'
<1>1. UNCHANGED <<pools, connected, scanned, steady>>
  BY DEF Choose, vars, tableVars, scanVars
<1>2. PICK to \in {"rolled", "chosen", "asked"} : at' = [at EXCEPT ![p] = to]
  BY DEF Choose, RollRead, RollWrite, Draw, Least, ReadIndex, Step
<1>3. tmp' = tmp \/ tmp' = [tmp EXCEPT ![p] = index]
  BY DEF Choose, RollRead, RollWrite, Draw, Least, ReadIndex
<1>4. at \in [Callers -> Places] /\ tmp \in [Callers -> Nat]
  BY DEF PickInv, Picks
<1>5. ASSUME NEW q \in Callers, q # p
      PROVE  Passed(q)'
  <2>1. at'[q] = at[q] /\ tmp'[q] = tmp[q]
    BY <1>2, <1>3, <1>4, <1>5
  <2>2. Passed(q)
    BY DEF PassedInv
  <2> QED
    BY <1>1, <2>1, <2>2 DEF Passed, Nth, Seen
<1>6. Passed(p)'
  BY <1>2, <1>4 DEF Passed
<1> QED
  BY <1>1, <1>5, <1>6 DEF PassedInv

\* One step keeps the records and picks fairly.
LEMMA PickStep ==
  ASSUME PickInv, PassedInv, [GNext]_gvars
  PROVE  PassedInv' /\ \A p \in Callers : PickFair(p)
<1> USE DEF PickInv
<1>1. pc \in [Callers -> Pcs]
  BY DEF TypeOK, Pcs
<1>2. ASSUME \A p \in Callers : pc[p] = "pick" => pc'[p] = "pick"
      PROVE  \A p \in Callers : PickFair(p)
  BY <1>2 DEF Picks, PickFair
<1>3. ASSUME NEW q \in Callers, Choose(q)
      PROVE  PassedInv' /\ \A p \in Callers : PickFair(p)
  <2>1. pc' = pc
    BY <1>3 DEF Choose, vars, callVars
  <2> QED
    BY <1>2, <1>3, <2>1, ChooseKeepsPassed
<1>4. ASSUME NEW q \in Callers, GetIndexEx(q) \/ NoPools(q)
      PROVE  PassedInv' /\ \A p \in Callers : PickFair(p)
  <2>1. \A p \in Callers : p # q => pc'[p] = pc[p]
    BY <1>1, <1>4 DEF GetIndexEx, AskFirst, Ask, AskedAll, Picked, NoPools, Got, Fail, Leave
  <2>2. \A p \in Callers : p # q => PickFair(p)
    BY <2>1 DEF Picks, PickFair
  <2>3. CASE NoPools(q)
    <3>1. pc'[q] \in {"idle", "check"}
      BY <1>1, <2>3 DEF NoPools, Fail, Leave
    <3>2. PickFair(q)
      BY <3>1 DEF PickFair
    <3> QED
      BY <2>2, <2>3, <3>2, GetKeepsPassed
  <2>4. CASE GetIndexEx(q)
    BY <2>2, <2>4, GetKeepsPassed, GetIndexFair
  <2> QED
    BY <1>4, <2>3, <2>4
<1>5. NowConnected => connected' \subseteq Pools
  BY DEF NowConnected
<1>6. ASSUME NEW q \in Callers, GCaller(q)
      PROVE  PassedInv' /\ \A p \in Callers : PickFair(p)
  <2>1. CASE /\ GBegin(q) \/ Other(q)
             /\ NowConnected /\ Excluded /\ UNCHANGED <<at, tmp, scanned>>
    <3>1. PassedInv'
      BY <1>5, <2>1, RestKeepsPassed DEF NowConnected, Excluded, tableVars
    <3> QED
      BY <1>2, <2>1, <3>1, OthersDoNotPick
  <2> QED
    BY <1>3, <1>4, <1>6, <2>1 DEF GCaller
<1>7. CASE GRest
  <2>1. UNCHANGED pc
    BY <1>7 DEF GRest, GIdleLoop, GClose, IdleLoop, Close, Time, callVars
  <2>2. PassedInv'
    BY <1>5, <1>7, RestKeepsPassed DEF GRest, NowConnected, Excluded, tableVars
  <2> QED
    BY <1>2, <2>1, <2>2
<1>8. CASE Flip
  <2>1. connected' \subseteq Pools
    BY <1>8 DEF Flip, PassedInv
  <2>2. UNCHANGED <<pc, pools>>
    BY <1>8 DEF Flip, vars, callVars, tableVars
  <2>3. PassedInv'
    BY <1>8, <2>1, <2>2, RestKeepsPassed DEF Flip
  <2> QED
    BY <1>2, <2>2, <2>3
<1>9. CASE UNCHANGED gvars
  <2>1. UNCHANGED <<pc, pools, connected, at, tmp, scanned, steady>>
    BY <1>9 DEF gvars, pickVars, scanVars, vars, callVars, tableVars
  <2>2. PassedInv'
    BY <2>1 DEF PassedInv, Passed, Nth, Seen
  <2> QED
    BY <1>2, <2>1, <2>2
<1> QED
  BY <1>6, <1>7, <1>8, <1>9 DEF GNext

\* grpc/pools.go:547 (get_index_ex): a pool that is connected for the whole scan
\* is never passed over for one that is not, however the connections of the
\* others come and go meanwhile and the callers race for the counter, unless the
\* counter wraps around 2^32 in the middle of the scan.
THEOREM ConnectedIsPicked == GSafety => PicksConnected
<1>1. GInit => PickInv /\ PassedInv
  <2>1. GInit => PassedInv
    BY DEF GInit, PassedInv, Passed
  <2> QED
    BY <2>1, InitPicks, InitType DEF PickInv
<1>2. PickInv /\ PassedInv /\ [GNext]_gvars =>
        PickInv' /\ PassedInv' /\ \A p \in Callers : PickFair(p)
  BY PickStep, StepImplements, NextType DEF PickInv
<1>3. GSafety => [][\A p \in Callers : PickFair(p)]_gvars
  BY <1>1, <1>2, PTL DEF GSafety
<1> QED
  BY <1>3 DEF PicksConnected, PickFair
=============================================================================
