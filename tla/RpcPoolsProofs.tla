--------------------------- MODULE RpcPoolsProofs ---------------------------
(***************************************************************************)
(* Proofs about RpcPools for every number of pools, addresses and callers. *)
(***************************************************************************)
EXTENDS RpcPools, ListFacts, FiniteSetTheorems, TLAPS

-----------------------------------------------------------------------------
(***************************************************************************)
(* Types                                                                   *)
(***************************************************************************)
Pcs == {"idle", "check", "pick", "get", "new", "make", "push", "count", "use",
        "end", "find", "remove"}
Op  == [op : {"call", "conn", "close"}, want : Addrs \cup {AnyAddr},
        pool : Pools \cup {NoPool}, fine : BOOLEAN,
        retry : 0 .. RetryTimes - 1, index : Nat]

PoolType  == /\ addrOf \in [Pools -> Addrs]
             /\ static \in [Pools -> BOOLEAN] /\ open \in [Pools -> BOOLEAN]
             /\ stale \in [Pools -> BOOLEAN] /\ calls \in [Pools -> Int]
TableType == pools \in Seq(Pools) /\ addr2pool \in [Addrs -> Pools \cup {NoPool}]
LockType  == mtNew \in Callers \cup {NoOne, Closer}
CallType  == /\ pc \in [Callers -> Pcs] /\ me \in [Callers -> Op]
             /\ \A p \in Callers : pc[p] \in {"get", "new", "make", "push", "find"} => me[p].want \in Addrs
             /\ \A p \in Callers : pc[p] \in {"push", "count", "use", "end"} => me[p].pool \in Pools
             /\ ops \in 0 .. MaxOps
IdleType  == /\ idlePc \in {"select", "get", "read", "remove", "done"} /\ idleI \in Nat
             /\ panicked \in BOOLEAN
CloseType == /\ isClosed \in BOOLEAN /\ mtHeld \in BOOLEAN
             /\ closePc \in {"open", "wait", "exit", "closed"}

\* TypeOK by groups of variables that change together.
LEMMA TypeParts ==
  TypeOK <=> PoolType /\ TableType /\ LockType /\ CallType /\ IdleType /\ CloseType
BY DEF TypeOK, PoolType, TableType, LockType, CallType, IdleType, CloseType, Pcs, Op

\* A caller moves on: its own entries change, within their types.
LEMMA MoveTypes ==
  ASSUME CallType, NEW p \in Callers, NEW v \in Pcs, NEW m \in Op,
         pc' = [pc EXCEPT ![p] = v], me' = [me EXCEPT ![p] = m],
         v \in {"get", "new", "make", "push", "find"} => m.want \in Addrs,
         v \in {"push", "count", "use", "end"} => m.pool \in Pools,
         ops' \in 0 .. MaxOps
  PROVE  CallType'
BY DEF CallType

\* What a caller that leaves, or tries again, is at.
LEMMA LeaveTypes ==
  ASSUME CallType, NEW p \in Callers, Leave(p), ops' = ops
  PROVE  CallType'
<1>1. NoOp \in Op
  BY BoundsAssumption DEF NoOp, Op
<1> QED
  BY <1>1, MoveTypes DEF Leave, Pcs, CallType

\* What a caller whose attempt failed is at.
LEMMA FailTypes ==
  ASSUME CallType, NEW p \in Callers, Fail(p), ops' = ops
  PROVE  CallType'
<1>1. CASE Leave(p)
  BY <1>1, LeaveTypes
<1>2. CASE /\ ~LastTry(p)
           /\ pc' = [pc EXCEPT ![p] = "check"]
           /\ me' = [me EXCEPT ![p].pool = NoPool, ![p].fine = TRUE, ![p].retry = @ + 1]
  <2> DEFINE m == [me[p] EXCEPT !.pool = NoPool, !.fine = TRUE, !.retry = @ + 1]
  <2>1. me[p] \in Op /\ me[p].retry \in 0 .. RetryTimes - 1
    BY DEF CallType, Op
  <2>2. me[p].retry + 1 \in 0 .. RetryTimes - 1
    BY <1>2, <2>1, BoundsAssumption DEF LastTry
  <2>3. m \in Op
    BY <2>1, <2>2 DEF Op
  <2>4. me' = [me EXCEPT ![p] = m]
    BY <1>2 DEF CallType
  <2> HIDE DEF m
  <2> QED
    BY <1>2, <2>3, <2>4, MoveTypes DEF Pcs, CallType
<1> QED
  BY <1>1, <1>2 DEF Fail

\* What a caller that has its pool is at.
LEMMA GotTypes ==
  ASSUME CallType, NEW p \in Callers, NEW x \in Pools, Got(p, x), ops' = ops
  PROVE  CallType'
<1>1. CASE Leave(p)
  BY <1>1, LeaveTypes
<1>2. CASE pc' = [pc EXCEPT ![p] = "count"] /\ me' = [me EXCEPT ![p].pool = x]
  <2> DEFINE m == [me[p] EXCEPT !.pool = x]
  <2>1. m \in Op /\ m.pool \in Pools
    BY DEF CallType, Op
  <2>2. me' = [me EXCEPT ![p] = m]
    BY <1>2 DEF CallType
  <2> HIDE DEF m
  <2> QED
    BY <1>2, <2>1, <2>2, MoveTypes DEF Pcs, CallType
<1> QED
  BY <1>1, <1>2 DEF Got

\* Taking a pool out of the slice keeps the types of everything it writes.
LEMMA RemoveTypes ==
  ASSUME PoolType, TableType, NEW i \in Nat, RemoveIndex(i)
  PROVE  PoolType' /\ TableType'
<1>1. CASE i >= Len(pools)
  <2>1. UNCHANGED <<poolVars, tableVars>>
    BY <1>1, LenProperties DEF RemoveIndex, TableType
  <2> QED
    BY <2>1 DEF poolVars, tableVars, PoolType, TableType
<1>2. CASE i < Len(pools)
  <2> DEFINE x == pools[i + 1]
  <2>1. /\ pools' = RemoveAt(pools, i + 1)
        /\ addr2pool' = [addr2pool EXCEPT ![addrOf[x]] = NoPool]
        /\ open' = [open EXCEPT ![x] = FALSE]
        /\ UNCHANGED <<addrOf, static, calls, stale>>
    BY <1>2, LenProperties DEF RemoveIndex, Without, Shut, TableType
  <2>2. i + 1 \in 1 .. Len(pools)
    BY <1>2, LenProperties DEF TableType
  <2>3. pools' \in Seq(Pools)
    BY <2>1, <2>2, RemoveAtFacts DEF TableType
  <2> HIDE DEF x
  <2> QED
    BY <2>1, <2>3 DEF PoolType, TableType
<1>3. Len(pools) \in Nat
  BY LenProperties DEF TableType
<1> QED
  BY <1>1, <1>2, <1>3

\* A step of an operation under way keeps every type.
LEMMA OperationTypes ==
  ASSUME TypeOK, NEW p \in Callers, Operation(p), UNCHANGED <<idleVars, closeVars>>
  PROVE  TypeOK'
<1>1. PoolType /\ TableType /\ LockType /\ CallType /\ IdleType /\ CloseType
  BY TypeParts
<1>2. IdleType' /\ CloseType'
  BY <1>1 DEF idleVars, closeVars, IdleType, CloseType
<1>3. ops' = ops
  BY DEF Operation
<1>4. \A k \in DOMAIN pools : pools[k] \in Pools
  BY <1>1, ElementOfSeq, LenProperties DEF TableType
<1>5. PoolType' /\ TableType' /\ LockType' /\ CallType'
  <2> USE DEF poolVars, tableVars
  <2>1. CASE Check(p)
    <3>1. CallType'
      <4>1. CASE Leave(p)
        BY <1>1, <1>3, <4>1, LeaveTypes
      <4>2. CASE /\ pc' = [pc EXCEPT ![p] = IF me[p].want = AnyAddr THEN "pick" ELSE "get"]
                 /\ UNCHANGED me
        BY <1>1, <1>3, <4>2 DEF CallType, Pcs, Op
      <4> QED
        BY <2>1, <4>1, <4>2 DEF Check
    <3> QED
      BY <1>1, <2>1, <3>1 DEF Check, PoolType, TableType, LockType
  <2>2. CASE Pick(p)
    <3>1. CallType'
      BY <1>1, <1>3, <1>4, <2>2, FailTypes, GotTypes DEF Pick
    <3> QED
      BY <1>1, <2>2, <3>1 DEF Pick, PoolType, TableType, LockType
  <2>3. CASE GetAddr(p)
    <3>1. me[p].want \in Addrs
      BY <1>1, <2>3 DEF GetAddr, CallType
    <3>2. CallType'
      <4>1. CASE addr2pool[me[p].want] # NoPool /\ Got(p, addr2pool[me[p].want])
        <5>1. addr2pool[me[p].want] \in Pools
          BY <1>1, <3>1, <4>1 DEF TableType
        <5> QED
          BY <1>1, <1>3, <4>1, <5>1, GotTypes
      <4>2. CASE pc' = [pc EXCEPT ![p] = "new"] /\ UNCHANGED me
        BY <1>1, <1>3, <3>1, <4>2 DEF CallType, Pcs
      <4> QED
        BY <2>3, <4>1, <4>2 DEF GetAddr
    <3> QED
      BY <1>1, <2>3, <3>2 DEF GetAddr, PoolType, TableType, LockType
  <2>4. CASE New(p)
    <3>1. me[p].want \in Addrs
      BY <1>1, <2>4 DEF New, CallType
    <3>2. CallType'
      <4>1. CASE Fail(p)
        BY <1>1, <1>3, <4>1, FailTypes
      <4>2. CASE MadeMeanwhile(p) /\ Got(p, addr2pool[me[p].want])
        <5>1. addr2pool[me[p].want] \in Pools
          BY <1>1, <3>1, <4>2 DEF TableType, MadeMeanwhile
        <5> QED
          BY <1>1, <1>3, <4>2, <5>1, GotTypes
      <4>3. CASE pc' = [pc EXCEPT ![p] = "make"] /\ UNCHANGED me
        BY <1>1, <1>3, <3>1, <4>3 DEF CallType, Pcs
      <4> QED
        BY <2>4, <4>1, <4>2, <4>3 DEF New
    <3> QED
      BY <1>1, <2>4, <3>2 DEF New, PoolType, TableType, LockType
  <2>5. CASE Make(p)
    <3>1. me[p].want \in Addrs
      BY <1>1, <2>5 DEF Make, CallType
    <3>2. CASE Fail(p) /\ UnlockNew /\ UNCHANGED poolVars
      BY <1>1, <1>3, <2>5, <3>2, FailTypes DEF Make, UnlockNew, PoolType, TableType, LockType
    <3>3. ASSUME NEW x \in Free,
                 addrOf' = [addrOf EXCEPT ![x] = me[p].want],
                 static' = [static EXCEPT ![x] = FALSE],
                 open' = [open EXCEPT ![x] = TRUE],
                 calls' = [calls EXCEPT ![x] = 0],
                 stale' = [stale EXCEPT ![x] = FALSE],
                 me' = [me EXCEPT ![p].pool = x],
                 pc' = [pc EXCEPT ![p] = "push"],
                 UNCHANGED mtNew
          PROVE  PoolType' /\ TableType' /\ LockType' /\ CallType'
      <4>1. x \in Pools
        BY DEF Free
      <4>2. PoolType'
        BY <1>1, <3>1, <3>3, <4>1 DEF PoolType
      <4>3. CallType'
        <5> DEFINE m == [me[p] EXCEPT !.pool = x]
        <5>1. m \in Op /\ m.pool \in Pools /\ m.want \in Addrs
          BY <1>1, <3>1, <4>1 DEF CallType, Op
        <5>2. me' = [me EXCEPT ![p] = m]
          BY <1>1, <3>3 DEF CallType
        <5> HIDE DEF m
        <5> QED
          BY <1>1, <1>3, <3>3, <5>1, <5>2, MoveTypes DEF Pcs, CallType
      <4> QED
        BY <1>1, <2>5, <3>3, <4>2, <4>3 DEF Make, TableType, LockType
    <3> QED
      BY <2>5, <3>2, <3>3 DEF Make
  <2>6. CASE Push(p)
    <3> DEFINE old == addr2pool[me[p].want]
    <3>1. me[p].want \in Addrs /\ me[p].pool \in Pools /\ old \in Pools \cup {NoPool}
      BY <1>1, <2>6 DEF Push, CallType, TableType
    <3>2. LockType'
      BY <2>6 DEF Push, UnlockNew, LockType
    <3>3. CASE /\ pools' = Append(pools, me[p].pool)
               /\ addr2pool' = [addr2pool EXCEPT ![me[p].want] = me[p].pool]
               /\ Got(p, me[p].pool)
               /\ UNCHANGED poolVars
      BY <1>1, <1>3, <3>1, <3>2, <3>3, GotTypes, AppendFacts DEF PoolType, TableType
    <3>4. CASE /\ old # NoPool
               /\ static' = [static EXCEPT ![old] = FALSE]
               /\ stale' = [stale EXCEPT ![old] = FALSE]
               /\ open' = [open EXCEPT ![me[p].pool] = FALSE]
               /\ Got(p, old)
               /\ UNCHANGED <<addrOf, calls, tableVars>>
      <4>1. CallType'
        BY <1>1, <1>3, <3>1, <3>4, GotTypes
      <4> QED
        BY <1>1, <3>2, <3>4, <4>1 DEF PoolType, TableType
    <3> QED
      BY <2>6, <3>3, <3>4 DEF Push
  <2>7. CASE Count(p)
    <3>1. me[p].pool \in Pools
      BY <1>1, <2>7 DEF Count, CallType
    <3> QED
      BY <1>1, <1>3, <2>7, <3>1 DEF Count, PoolType, TableType, LockType, CallType, Pcs
  <2>8. CASE Use(p)
    <3>1. me[p].pool \in Pools
      BY <1>1, <2>8 DEF Use, CallType
    <3>2. PICK ok \in BOOLEAN : me' = [me EXCEPT ![p].fine = ok]
      BY <2>8 DEF Use
    <3>3. CallType'
      <4> DEFINE m == [me[p] EXCEPT !.fine = ok]
      <4>1. m \in Op /\ m.pool \in Pools
        BY <1>1, <3>1 DEF CallType, Op
      <4>2. me' = [me EXCEPT ![p] = m]
        BY <1>1, <3>2 DEF CallType
      <4> HIDE DEF m
      <4> QED
        BY <1>1, <1>3, <2>8, <4>1, <4>2, MoveTypes DEF Use, Pcs, CallType
    <3>4. PoolType'
      <4>1. CASE calls' = Uncounted(p) /\ UNCHANGED stale
        BY <1>1, <2>8, <3>1, <4>1 DEF Use, Uncounted, PoolType
      <4>2. CASE stale' = Touched(p) /\ UNCHANGED calls
        BY <1>1, <2>8, <3>1, <4>2 DEF Use, Touched, PoolType
      <4> QED
        BY <2>8, <4>1, <4>2 DEF Use
    <3> QED
      BY <1>1, <2>8, <3>3, <3>4 DEF Use, TableType, LockType
  <2>9. CASE End(p)
    <3>1. me[p].pool \in Pools
      BY <1>1, <2>9 DEF End, CallType
    <3>2. CallType'
      BY <1>1, <1>3, <2>9, LeaveTypes, FailTypes DEF End
    <3>3. PoolType'
      <4>1. CASE calls' = Uncounted(p) /\ UNCHANGED stale
        BY <1>1, <2>9, <3>1, <4>1 DEF End, Uncounted, PoolType
      <4>2. CASE stale' = Touched(p) /\ UNCHANGED calls
        BY <1>1, <2>9, <3>1, <4>2 DEF End, Touched, PoolType
      <4> QED
        BY <2>9, <4>1, <4>2 DEF End
    <3> QED
      BY <1>1, <2>9, <3>2, <3>3 DEF End, TableType, LockType
  <2>10. CASE Find(p)
    <3>1. CallType'
      <4>1. CASE Leave(p)
        BY <1>1, <1>3, <4>1, LeaveTypes
      <4>2. ASSUME NEW k \in DOMAIN pools,
                   me' = [me EXCEPT ![p].index = k - 1],
                   pc' = [pc EXCEPT ![p] = "remove"]
            PROVE  CallType'
        <5> DEFINE m == [me[p] EXCEPT !.index = k - 1]
        <5>1. k - 1 \in Nat
          BY <1>1, LenProperties DEF TableType
        <5>2. m \in Op
          BY <1>1, <5>1 DEF CallType, Op
        <5>3. me' = [me EXCEPT ![p] = m]
          BY <1>1, <4>2 DEF CallType
        <5> HIDE DEF m
        <5> QED
          BY <1>1, <1>3, <4>2, <5>2, <5>3, MoveTypes DEF Pcs, CallType
      <4> QED
        BY <2>10, <4>1, <4>2 DEF Find
    <3> QED
      BY <1>1, <2>10, <3>1 DEF Find, PoolType, TableType, LockType
  <2>11. CASE CutServer(p)
    <3>1. me[p].index \in Nat
      BY <1>1 DEF CallType, Op
    <3> QED
      BY <1>1, <1>3, <2>11, <3>1, LeaveTypes, RemoveTypes DEF CutServer, LockType
  <2> QED
    BY <2>1, <2>2, <2>3, <2>4, <2>5, <2>6, <2>7, <2>8, <2>9, <2>10, <2>11 DEF Operation
<1> QED
  BY <1>2, <1>5 DEF TypeOK, PoolType, TableType, LockType, CallType, IdleType, CloseType, Pcs, Op

\* Beginning an operation keeps every type.
LEMMA BeginTypes ==
  ASSUME TypeOK, NEW p \in Callers, Begin(p), UNCHANGED <<idleVars, closeVars>>
  PROVE  TypeOK'
<1>1. PoolType /\ TableType /\ LockType /\ CallType /\ IdleType /\ CloseType
  BY TypeParts
<1>2. PoolType' /\ TableType' /\ LockType' /\ IdleType' /\ CloseType'
  BY <1>1 DEF Begin, poolVars, tableVars, idleVars, closeVars,
              PoolType, TableType, LockType, IdleType, CloseType
<1>3. ops' \in 0 .. MaxOps
  BY <1>1, BoundsAssumption DEF Begin, CallType
<1>4. CallType'
  <2>1. ASSUME NEW a \in Addrs \cup {AnyAddr}, me' = [me EXCEPT ![p].want = a],
               pc' = [pc EXCEPT ![p] = "check"]
        PROVE  CallType'
    <3> DEFINE m == [me[p] EXCEPT !.want = a]
    <3>1. m \in Op /\ me' = [me EXCEPT ![p] = m]
      BY <1>1, <2>1 DEF CallType, Op
    <3> HIDE DEF m
    <3> QED
      BY <1>1, <1>3, <2>1, <3>1, MoveTypes DEF Pcs
  <2>2. ASSUME NEW a \in Addrs, NEW o \in {"conn", "close"}, NEW v \in {"get", "find"},
               me' = [me EXCEPT ![p].op = o, ![p].want = a], pc' = [pc EXCEPT ![p] = v]
        PROVE  CallType'
    <3> DEFINE m == [me[p] EXCEPT !.op = o, !.want = a]
    <3>1. m \in Op /\ me' = [me EXCEPT ![p] = m] /\ m.want \in Addrs
      BY <1>1, <2>2 DEF CallType, Op
    <3> HIDE DEF m
    <3> QED
      BY <1>1, <1>3, <2>2, <3>1, MoveTypes DEF Pcs
  <2> QED
    BY <2>1, <2>2 DEF Begin
<1> QED
  BY <1>2, <1>4 DEF TypeOK, PoolType, TableType, LockType, CallType, IdleType, CloseType, Pcs, Op

\* A step of the idle loop keeps every type.
LEMMA IdleLoopTypes ==
  ASSUME TypeOK, IdleLoop
  PROVE  TypeOK'
<1>1. PoolType /\ TableType /\ LockType /\ CallType /\ IdleType /\ CloseType
  BY TypeParts
<1>2. LockType' /\ CallType' /\ CloseType'
  BY <1>1 DEF IdleLoop, callVars, closeVars, LockType, CallType, CloseType
<1>3. PoolType' /\ TableType'
  <2>1. CASE IdleRemove
    BY <1>1, <2>1, RemoveTypes DEF IdleRemove, IdleType
  <2>2. CASE IdleTick \/ IdleGet \/ IdleRead
    BY <1>1, <2>2 DEF IdleTick, IdleGet, IdleRead, poolVars, tableVars, PoolType, TableType
  <2> QED
    BY <2>1, <2>2 DEF IdleLoop
<1>4. IdleType'
  <2>1. panicked' = panicked \/ panicked' = TRUE
    BY DEF IdleLoop, IdleTick, IdleGet, IdleRead, IdleRemove
  <2>2. panicked' \in BOOLEAN
    BY <1>1, <2>1 DEF IdleType
  <2>3. /\ idlePc' \in {"select", "get", "read", "remove", "done"}
        /\ idleI' = idleI \/ idleI' = idleI + 1 \/ idleI' = 0
    BY <1>1 DEF IdleLoop, IdleTick, FirstIndex, IdleGet, IdleRead, IdleRemove, IdleType
  <2> QED
    BY <1>1, <2>2, <2>3 DEF IdleType
<1> QED
  BY <1>2, <1>3, <1>4 DEF TypeOK, PoolType, TableType, LockType, CallType, IdleType, CloseType, Pcs, Op

\* A step of Close keeps every type.
LEMMA CloseTypes ==
  ASSUME TypeOK, Close
  PROVE  TypeOK'
<1>1. PoolType /\ TableType /\ LockType /\ CallType /\ IdleType /\ CloseType
  BY TypeParts
<1>2. CallType'
  BY <1>1 DEF Close, callVars, CallType
<1>3. PoolType' /\ TableType' /\ LockType'
  <2>1. CASE CloseExit
    <3>1. /\ open' \in [Pools -> BOOLEAN]
          /\ pools' = <<>> /\ addr2pool' \in [Addrs -> Pools \cup {NoPool}]
      BY <2>1 DEF CloseExit
    <3>2. pools' \in Seq(Pools)
      BY <3>1, EmptySeq
    <3> QED
      BY <1>1, <2>1, <3>1, <3>2 DEF CloseExit, PoolType, TableType, LockType
  <2>2. CASE CloseCall \/ CloseLock
    BY <1>1, <2>2 DEF CloseCall, CloseLock, poolVars, tableVars, PoolType, TableType, LockType
  <2> QED
    BY <2>1, <2>2 DEF Close
<1>4. IdleType' /\ CloseType'
  BY <1>1 DEF Close, CloseCall, CloseLock, CloseExit, idleVars, IdleType, CloseType
<1> QED
  BY <1>2, <1>3, <1>4 DEF TypeOK, PoolType, TableType, LockType, CallType, IdleType, CloseType, Pcs, Op

\* Time keeps every type.
LEMMA TimeTypes ==
  ASSUME TypeOK, Time
  PROVE  TypeOK'
<1>1. PoolType /\ TableType /\ LockType /\ CallType /\ IdleType /\ CloseType
  BY TypeParts
<1>2. TableType' /\ LockType' /\ CallType' /\ IdleType' /\ CloseType'
  BY <1>1 DEF Time, tableVars, callVars, idleVars, closeVars,
              TableType, LockType, CallType, IdleType, CloseType
<1>3. PoolType'
  BY <1>1 DEF Time, Elapse, PoolType
<1> QED
  BY <1>2, <1>3 DEF TypeOK, PoolType, TableType, LockType, CallType, IdleType, CloseType, Pcs, Op

\* What NewRpcPools leaves: the tables hold First, each pool under its address.
LEMMA InitTables ==
  ASSUME Init
  PROVE  /\ pools = First /\ First \in Seq(Pools)
         /\ addrOf \in [Pools -> Addrs]
         /\ addr2pool \in [Addrs -> Pools \cup {NoPool}]
         /\ \A k \in DOMAIN First : /\ First[k] \in Pools /\ FirstAddr[k] \in Addrs
                                    /\ addrOf[First[k]] = FirstAddr[k]
                                    /\ addr2pool[FirstAddr[k]] = First[k]
         /\ \A a \in Addrs : addr2pool[a] # NoPool =>
              \E k \in DOMAIN First : a = FirstAddr[k] /\ addr2pool[a] = First[k]
<1>1. /\ DOMAIN First = 1 .. Len(First) /\ DOMAIN FirstAddr = 1 .. Len(First)
      /\ \A k \in DOMAIN First : First[k] \in Pools /\ FirstAddr[k] \in Addrs
  BY FirstAssumption, LenProperties, ElementOfSeq
<1>2. ASSUME NEW x, Contains(First, x)
      PROVE  /\ (CHOOSE k \in DOMAIN First : First[k] = x) \in DOMAIN First
             /\ First[CHOOSE k \in DOMAIN First : First[k] = x] = x
  BY <1>1, <1>2 DEF Contains
<1>3. ASSUME NEW a, Contains(FirstAddr, a)
      PROVE  /\ (CHOOSE k \in DOMAIN First : FirstAddr[k] = a) \in DOMAIN First
             /\ FirstAddr[CHOOSE k \in DOMAIN First : FirstAddr[k] = a] = a
  BY <1>1, <1>3, FirstAssumption DEF Contains
<1>4. \E a \in Addrs : TRUE
  BY AddrsAssumption
<1>5. addrOf \in [Pools -> Addrs]
  BY <1>1, <1>2, <1>4 DEF Init
<1>6. addr2pool \in [Addrs -> Pools \cup {NoPool}]
  BY <1>1, <1>3 DEF Init
<1>7. ASSUME NEW k \in DOMAIN First
      PROVE  addrOf[First[k]] = FirstAddr[k] /\ addr2pool[FirstAddr[k]] = First[k]
  <2>1. Contains(First, First[k]) /\ Contains(FirstAddr, FirstAddr[k])
    BY <1>1, FirstAssumption DEF Contains
  <2>2. (CHOOSE j \in DOMAIN First : First[j] = First[k]) = k
    BY <1>2, <2>1, FirstAssumption
  <2>3. (CHOOSE j \in DOMAIN First : FirstAddr[j] = FirstAddr[k]) = k
    BY <1>3, <2>1, FirstAssumption
  <2> QED
    BY <1>1, <2>1, <2>2, <2>3 DEF Init
<1>8. ASSUME NEW a \in Addrs, addr2pool[a] # NoPool
      PROVE  \E k \in DOMAIN First : a = FirstAddr[k] /\ addr2pool[a] = First[k]
  <2>1. Contains(FirstAddr, a)
    BY <1>8 DEF Init
  <2> QED
    BY <1>3, <1>8, <2>1 DEF Init
<1> QED
  BY <1>1, <1>5, <1>6, <1>7, <1>8, FirstAssumption DEF Init

\* The types hold at first.
LEMMA InitType == Init => TypeOK
<1> SUFFICES ASSUME Init PROVE TypeOK
  OBVIOUS
<1>1. TableType /\ addrOf \in [Pools -> Addrs]
  BY InitTables DEF TableType
<1>2. PoolType
  <2>1. \A x \in Pools : Contains(First, x) \in BOOLEAN
    BY DEF Contains
  <2>2. static \in [Pools -> BOOLEAN] /\ open \in [Pools -> BOOLEAN]
    BY <2>1 DEF Init
  <2>3. stale \in [Pools -> BOOLEAN] /\ calls \in [Pools -> Int]
    BY DEF Init
  <2> QED
    BY <1>1, <2>2, <2>3 DEF PoolType
<1>3. NoOp \in Op
  BY BoundsAssumption DEF NoOp, Op
<1>4. CallType
  BY <1>3, BoundsAssumption DEF Init, CallType, Pcs
<1>5. LockType
  BY DEF Init, LockType
<1>6. IdleType /\ CloseType
  <2>1. panicked = FALSE /\ isClosed = FALSE /\ mtHeld = FALSE
    BY DEF Init
  <2>2. panicked \in BOOLEAN /\ isClosed \in BOOLEAN /\ mtHeld \in BOOLEAN
    BY <2>1
  <2> QED
    BY <2>2 DEF Init, IdleType, CloseType
<1> QED
  BY <1>1, <1>2, <1>4, <1>5, <1>6, TypeParts

\* Every step keeps them.
LEMMA NextType == TypeOK /\ [Next]_vars => TypeOK'
<1> SUFFICES ASSUME TypeOK, [Next]_vars PROVE TypeOK'
  OBVIOUS
<1>1. CASE UNCHANGED vars
  <2>1. PoolType /\ TableType /\ LockType /\ CallType /\ IdleType /\ CloseType
    BY TypeParts
  <2>2. PoolType' /\ TableType' /\ LockType'
    BY <1>1, <2>1 DEF vars, poolVars, tableVars, PoolType, TableType, LockType
  <2>3. CallType' /\ IdleType' /\ CloseType'
    BY <1>1, <2>1 DEF vars, callVars, idleVars, closeVars, CallType, IdleType, CloseType
  <2> QED
    BY <2>2, <2>3 DEF TypeOK, PoolType, TableType, LockType, CallType, IdleType, CloseType, Pcs, Op
<1> QED
  BY <1>1, BeginTypes, OperationTypes, IdleLoopTypes, CloseTypes, TimeTypes DEF Next, Caller

\* Every variable keeps its type: whoever counts, uses or releases a pool has
\* one, and no caller tries more often than RetryTimes.
THEOREM TypeCorrect == Safety => []TypeOK
BY InitType, NextType, PTL DEF Safety

-----------------------------------------------------------------------------
(***************************************************************************)
(* The tables, the open pools and who makes one                            *)
(***************************************************************************)
\* A pool is in the slice once; the map has it under its own address.
Distinct == \A j, k \in DOMAIN pools : pools[j] = pools[k] => j = k
Homed    == \A a \in Addrs : addr2pool[a] # NoPool => addrOf[addr2pool[a]] = a
\* Whoever makes a pool owns mtNew, for an address without one, before Close.
Makers   == {p \in Callers : pc[p] \in {"make", "push"}}
Making   == \A p \in Makers : mtNew = p /\ addr2pool[me[p].want] = NoPool /\ ~isClosed
\* The pool on its way to push is that address's, and dynamic.
Pushing  == \A p \in Callers : pc[p] = "push" =>
              addrOf[me[p].pool] = me[p].want /\ ~static[me[p].pool]
\* What Close has done once it has its locks.
Shutting == /\ closePc = "exit" => isClosed
            /\ closePc = "closed" => isClosed /\ pools = <<>>

Tables == /\ PoolsAgree /\ OpenListed /\ Distinct /\ Homed
          /\ Making /\ Pushing /\ Shutting

\* No step of this kind begins or ends the making of a pool.
StillMaking == \A q \in Callers : \/ pc'[q] = pc[q] /\ me'[q] = me[q]
                                  \/ pc[q] \notin {"make", "push"} /\ pc'[q] \notin {"make", "push"}

\* PoolsAgree in terms of the pools listed.
LEMMA AgreeListed ==
  ASSUME pools \in Seq(Pools)
  PROVE  PoolsAgree <=> /\ \A a \in Addrs : addr2pool[a] # NoPool => Contains(pools, addr2pool[a])
                        /\ \A x \in Pools : Contains(pools, x) => addr2pool[addrOf[x]] = x
<1>1. DOMAIN pools = 1 .. Len(pools) /\ \A k \in 1 .. Len(pools) : pools[k] \in Pools
  BY LenProperties, ElementOfSeq
<1>2. (\A k \in DOMAIN pools : addr2pool[addrOf[pools[k]]] = pools[k])
      <=> \A x \in Pools : Contains(pools, x) => addr2pool[addrOf[x]] = x
  BY <1>1 DEF Contains
<1> QED
  BY <1>2 DEF PoolsAgree

\* The same of the next state, from left to right.
LEMMA AgreeListedNext ==
  ASSUME pools' \in Seq(Pools),
         \A a \in Addrs : addr2pool'[a] # NoPool => Contains(pools', addr2pool'[a]),
         \A x \in Pools : Contains(pools', x) => addr2pool'[addrOf'[x]] = x
  PROVE  PoolsAgree'
<1>1. DOMAIN pools' = 1 .. Len(pools') /\ \A k \in 1 .. Len(pools') : pools'[k] \in Pools
  BY LenProperties, ElementOfSeq
<1>2. \A k \in DOMAIN pools' : addr2pool'[addrOf'[pools'[k]]] = pools'[k]
  BY <1>1 DEF Contains
<1> QED
  BY <1>2 DEF PoolsAgree

\* A caller that is done with an attempt makes nothing.
LEMMA MovesOn ==
  ASSUME TypeOK, NEW p \in Callers, Leave(p) \/ Fail(p) \/ \E x \in Pools : Got(p, x)
  PROVE  /\ pc'[p] \notin {"make", "push"}
         /\ \A q \in Callers \ {p} : pc'[q] = pc[q] /\ me'[q] = me[q]
<1>1. /\ pc \in [Callers -> Pcs] /\ me \in [Callers -> Op]
  BY TypeParts DEF CallType
<1> QED
  BY <1>1 DEF Leave, Fail, Got

\* While nobody begins or ends the making of a pool, the same pools wait for
\* their push.
LEMMA MadeStill ==
  ASSUME StillMaking
  PROVE  /\ Made' = Made /\ Makers' = Makers
         /\ \A p \in Makers : pc'[p] = pc[p] /\ me'[p] = me[p]
<1>1. \A p \in Callers : pc'[p] = "push" <=> pc[p] = "push"
  BY DEF StillMaking
<1>2. \A p \in Callers : pc[p] = "push" => me'[p] = me[p]
  BY DEF StillMaking
<1>3. Made' = {me'[p].pool : p \in {q \in Callers : pc'[q] = "push"}}
  BY DEF Made
<1>4. {q \in Callers : pc'[q] = "push"} = {q \in Callers : pc[q] = "push"}
  BY <1>1
<1>5. Made' = Made
  BY <1>2, <1>3, <1>4 DEF Made
<1> QED
  BY <1>5 DEF StillMaking, Makers

\* A step that leaves tables and locks alone.
LEMMA TablesStill ==
  ASSUME TypeOK, Tables, StillMaking,
         UNCHANGED <<pools, addr2pool, addrOf, static, open, mtNew, isClosed>>,
         closePc' = closePc \/ closePc' = "wait"
  PROVE  Tables'
<1>1. /\ Made' = Made /\ Makers' = Makers
      /\ \A p \in Makers : pc'[p] = pc[p] /\ me'[p] = me[p]
  BY MadeStill
<1>2. PoolsAgree' /\ OpenListed' /\ Distinct' /\ Homed'
  BY <1>1 DEF Tables, PoolsAgree, OpenListed, Distinct, Homed
<1>3. Making' /\ Pushing'
  <2>1. Making'
    BY <1>1 DEF Tables, Making
  <2>2. \A p \in Callers : pc'[p] = "push" => p \in Makers
    BY <1>1 DEF Makers
  <2> QED
    BY <1>1, <2>1, <2>2 DEF Tables, Pushing
<1>4. Shutting'
  BY DEF Tables, Shutting
<1> QED
  BY <1>2, <1>3, <1>4 DEF Tables

\* Removing a pool keeps slice and map together, and closes what it removes.
LEMMA RemoveTables ==
  ASSUME TypeOK, Tables, StillMaking, NEW i \in Nat, RemoveIndex(i),
         UNCHANGED <<mtNew, isClosed, closePc>>
  PROVE  Tables'
<1>0. PoolType /\ TableType /\ CallType
  BY TypeParts
<1>1. Len(pools) \in Nat /\ DOMAIN pools = 1 .. Len(pools) /\ pools \in Seq(Pools)
  BY <1>0, LenProperties DEF TableType
<1>2. CASE i >= Len(pools)
  <2>1. UNCHANGED <<poolVars, tableVars>>
    BY <1>1, <1>2 DEF RemoveIndex
  <2> QED
    BY <2>1, TablesStill DEF poolVars, tableVars
<1>3. CASE i < Len(pools)
  <2> DEFINE x == pools[i + 1]
  <2>1. /\ pools' = RemoveAt(pools, i + 1)
        /\ addr2pool' = [addr2pool EXCEPT ![addrOf[x]] = NoPool]
        /\ open' = [open EXCEPT ![x] = FALSE]
        /\ UNCHANGED <<addrOf, static>>
    BY <1>1, <1>3 DEF RemoveIndex, Without, Shut
  <2>2. i + 1 \in 1 .. Len(pools)
    BY <1>1, <1>3
  <2>3. x \in Pools /\ Contains(pools, x) /\ addrOf[x] \in Addrs
    BY <1>0, <1>1, <2>2, ElementOfSeq DEF Contains, PoolType
  <2>4. /\ \A e : Contains(pools', e) <=> Contains(pools, e) /\ e # x
        /\ Distinct'
    BY <1>1, <2>1, <2>2, RemoveAtDistinct DEF Tables, Distinct
  <2>5. pools' \in Seq(Pools)
    BY <1>1, <2>1, <2>2, RemoveAtFacts
  <2>6. addr2pool[addrOf[x]] = x /\ x # NoPool
    BY <1>1, <2>3, AgreeListed, PoolsAssumption DEF Tables
  <2> HIDE DEF x
  <2>7. \A a \in Addrs : addr2pool'[a] = IF a = addrOf[x] THEN NoPool ELSE addr2pool[a]
    BY <1>0, <2>1 DEF TableType
  <2>8. PoolsAgree'
    <3>1. ASSUME NEW a \in Addrs, addr2pool'[a] # NoPool
          PROVE  Contains(pools', addr2pool'[a])
      <4>1. a # addrOf[x] /\ addr2pool'[a] = addr2pool[a]
        BY <2>7, <3>1
      <4>2. addr2pool[a] # x /\ Contains(pools, addr2pool[a])
        BY <1>1, <3>1, <4>1, AgreeListed DEF Tables, Homed
      <4> QED
        BY <2>4, <4>1, <4>2
    <3>2. ASSUME NEW y \in Pools, Contains(pools', y)
          PROVE  addr2pool'[addrOf'[y]] = y
      <4>1. Contains(pools, y) /\ y # x
        BY <2>4, <3>2
      <4>2. addr2pool[addrOf[y]] = y /\ addrOf[y] \in Addrs
        BY <1>0, <1>1, <4>1, AgreeListed DEF Tables, PoolType
      <4>3. addrOf[y] # addrOf[x]
        BY <2>6, <4>1, <4>2
      <4> QED
        BY <2>1, <2>7, <4>2, <4>3
    <3> QED
      BY <2>5, <3>1, <3>2, AgreeListedNext
  <2>9. /\ Made' = Made /\ Makers' = Makers
        /\ \A p \in Makers : pc'[p] = pc[p] /\ me'[p] = me[p]
    BY MadeStill
  <2>10. \A p \in Makers : me[p].want \in Addrs
    BY <1>0 DEF CallType, Makers
  <2>11. x \notin Made
    <3> SUFFICES ASSUME NEW p \in Callers, pc[p] = "push", me[p].pool = x
                 PROVE  FALSE
      BY DEF Made
    <3> QED
      BY <2>6 DEF Tables, Making, Makers, Pushing
  <2>12. OpenListed'
    <3>1. \A y \in Pools : open'[y] = IF y = x THEN FALSE ELSE open[y]
      BY <1>0, <2>1 DEF PoolType
    <3> QED
      BY <2>4, <2>9, <2>11, <3>1 DEF Tables, OpenListed
  <2>13. Homed'
    BY <2>1, <2>7 DEF Tables, Homed
  <2>14. Making'
    BY <2>7, <2>9, <2>10 DEF Tables, Making
  <2>15. Pushing'
    <3>1. \A p \in Callers : pc'[p] = "push" => p \in Makers
      BY <2>9 DEF Makers
    <3> QED
      BY <2>1, <2>9, <3>1 DEF Tables, Pushing
  <2>16. Shutting'
    <3>1. closePc # "closed"
      BY <1>1, <2>2, EmptySeq DEF Tables, Shutting
    <3> QED
      BY <3>1 DEF Tables, Shutting
  <2> QED
    BY <2>4, <2>8, <2>12, <2>13, <2>14, <2>15, <2>16 DEF Tables
<1> QED
  BY <1>1, <1>2, <1>3

\* While somebody has mtNew nobody else makes a pool.
LEMMA OneMaker ==
  ASSUME Tables
  PROVE  /\ \A p \in Makers : Makers = {p}
         /\ mtNew = NoOne => Makers = {}
         /\ isClosed => Makers = {} /\ Made = {}
<1>1. NoOne \notin Makers /\ \A p \in Makers : mtNew = p /\ ~isClosed
  BY CallersAssumption DEF Tables, Making, Makers
<1>2. Makers = {} => Made = {}
  BY DEF Made, Makers
<1> QED
  BY <1>1, <1>2

\* new_and_push: under mtNew the address has no pool.
LEMMA NewTables ==
  ASSUME TypeOK, Tables, NEW p \in Callers, New(p), UNCHANGED closeVars
  PROVE  Tables'
<1>0. TableType /\ CallType
  BY TypeParts
<1>1. CASE /\ UNCHANGED mtNew
           /\ Fail(p) \/ (MadeMeanwhile(p) /\ Got(p, addr2pool[me[p].want]))
  <2>1. me[p].want \in Addrs /\ pc[p] = "new"
    BY <1>0 DEF New, CallType
  <2>2. MadeMeanwhile(p) => addr2pool[me[p].want] \in Pools
    BY <1>0, <2>1 DEF MadeMeanwhile, TableType
  <2>3. StillMaking
    BY <1>1, <2>1, <2>2, MovesOn DEF StillMaking
  <2> QED
    BY <1>1, <2>3, TablesStill DEF New, poolVars, tableVars, closeVars
<1>2. CASE /\ ~isClosed /\ addr2pool[me[p].want] = NoPool
           /\ mtNew' = p /\ pc' = [pc EXCEPT ![p] = "make"] /\ UNCHANGED me
  <2>1. /\ mtNew = NoOne /\ pc[p] = "new"
        /\ UNCHANGED <<pools, addr2pool, addrOf, static, open, isClosed, closePc>>
    BY DEF New, poolVars, tableVars, closeVars
  <2>2. pc' \in [Callers -> Pcs] /\ pc'[p] = "make" /\ \A q \in Callers \ {p} : pc'[q] = pc[q]
    BY <1>0, <1>2 DEF CallType, Pcs
  <2>3. Makers = {} /\ Makers' = {p}
    BY <2>1, <2>2, OneMaker DEF Makers
  <2>4. \A q \in Callers : pc'[q] # "push" /\ pc[q] # "push"
    BY <2>2, <2>3 DEF Makers
  <2>5. Made = {} /\ Made' = {}
    BY <2>4 DEF Made
  <2>6. PoolsAgree' /\ OpenListed' /\ Distinct' /\ Homed' /\ Shutting'
    BY <2>1, <2>5 DEF Tables, PoolsAgree, OpenListed, Distinct, Homed, Shutting
  <2>7. Making' /\ Pushing'
    BY <1>2, <2>1, <2>3, <2>4 DEF Making, Pushing
  <2> QED
    BY <2>6, <2>7 DEF Tables
<1> QED
  BY <1>1, <1>2 DEF New, ClosedNow, MadeMeanwhile

\* NewRpcPool: the pool is nobody's yet, or it failed and mtNew is free.
LEMMA MakeTables ==
  ASSUME TypeOK, Tables, NEW p \in Callers, Make(p), UNCHANGED closeVars
  PROVE  Tables'
<1>0. PoolType /\ TableType /\ CallType
  BY TypeParts
<1>1. /\ pc[p] = "make" /\ me[p].want \in Addrs /\ p \in Makers
      /\ UNCHANGED <<pools, addr2pool, isClosed, closePc>>
  BY <1>0 DEF Make, CallType, Makers, tableVars, closeVars
<1>2. Makers = {p} /\ mtNew = p /\ addr2pool[me[p].want] = NoPool /\ ~isClosed
  BY <1>1, OneMaker DEF Tables, Making
<1>3. \A q \in Callers : pc[q] # "push" /\ (q # p => pc[q] \notin {"make", "push"})
  BY <1>1, <1>2 DEF Makers
<1>4. Made = {}
  BY <1>3 DEF Made
<1>5. CASE Fail(p) /\ UnlockNew /\ UNCHANGED poolVars
  <2>1. \A q \in Callers : pc'[q] \notin {"make", "push"}
    BY <1>3, <1>5, MovesOn
  <2>2. Makers' = {} /\ Made' = {}
    BY <2>1 DEF Makers, Made
  <2>3. PoolsAgree' /\ OpenListed' /\ Distinct' /\ Homed' /\ Shutting'
    BY <1>1, <1>4, <1>5, <2>2 DEF poolVars, Tables, PoolsAgree, OpenListed, Distinct, Homed, Shutting
  <2>4. Making' /\ Pushing'
    BY <2>1, <2>2 DEF Making, Pushing
  <2> QED
    BY <2>3, <2>4 DEF Tables
<1>6. ASSUME NEW x \in Free,
             addrOf' = [addrOf EXCEPT ![x] = me[p].want],
             static' = [static EXCEPT ![x] = FALSE],
             open' = [open EXCEPT ![x] = TRUE],
             me' = [me EXCEPT ![p].pool = x],
             pc' = [pc EXCEPT ![p] = "push"],
             UNCHANGED mtNew
      PROVE  Tables'
  <2>1. x \in Pools /\ ~open[x] /\ ~Contains(pools, x)
    BY <1>0, LenProperties DEF Free, Known, Contains, TableType
  <2>2. /\ me'[p].pool = x /\ me'[p].want = me[p].want /\ pc'[p] = "push"
        /\ \A q \in Callers \ {p} : pc'[q] = pc[q]
    BY <1>0, <1>6 DEF CallType, Op
  <2>3. /\ Makers' = {p} /\ Made' = {x}
        /\ \A q \in Callers : pc'[q] = "push" => q = p
    BY <1>3, <2>2 DEF Makers, Made
  <2>4. \A y \in Pools : /\ open'[y] = IF y = x THEN TRUE ELSE open[y]
                         /\ y # x => addrOf'[y] = addrOf[y] /\ static'[y] = static[y]
    BY <1>0, <1>6 DEF PoolType
  <2>5. addrOf'[x] = me[p].want /\ static'[x] = FALSE
    BY <1>0, <1>6, <2>1 DEF PoolType
  <2>6. PoolsAgree'
    <3>1. \A a \in Addrs : addr2pool'[a] # NoPool => Contains(pools', addr2pool'[a])
      BY <1>0, <1>1, AgreeListed DEF Tables, TableType
    <3>2. \A y \in Pools : Contains(pools', y) => addr2pool'[addrOf'[y]] = y
      BY <1>0, <1>1, <2>1, <2>4, AgreeListed DEF Tables, TableType
    <3> QED
      BY <1>0, <1>1, <3>1, <3>2, AgreeListedNext DEF TableType
  <2>7. OpenListed'
    BY <1>1, <1>4, <2>1, <2>3, <2>4 DEF Tables, OpenListed
  <2>8. Distinct' /\ Shutting'
    BY <1>1 DEF Tables, Distinct, Shutting
  <2>9. Homed'
    <3> SUFFICES ASSUME NEW a \in Addrs, addr2pool'[a] # NoPool
                 PROVE  addrOf'[addr2pool'[a]] = a
      BY DEF Homed
    <3>1. addr2pool[a] \in Pools /\ addr2pool[a] # x
      BY <1>0, <1>1, <2>1, AgreeListed DEF Tables, TableType
    <3> QED
      BY <1>1, <2>4, <3>1 DEF Tables, Homed
  <2>10. Making'
    BY <1>1, <1>2, <1>6, <2>2, <2>3 DEF Making
  <2>11. Pushing'
    BY <2>2, <2>3, <2>5 DEF Pushing
  <2> QED
    BY <2>6, <2>7, <2>8, <2>9, <2>10, <2>11 DEF Tables
<1> QED
  BY <1>5, <1>6 DEF Make

\* push: the branch for an address that has a pool is never taken.
LEMMA PushTables ==
  ASSUME TypeOK, Tables, NEW p \in Callers, Push(p), UNCHANGED closeVars
  PROVE  Tables'
<1>0. PoolType /\ TableType /\ CallType
  BY TypeParts
<1> DEFINE a == me[p].want
           x == me[p].pool
<1>1. pc[p] = "push" /\ a \in Addrs /\ x \in Pools /\ p \in Makers
  BY <1>0 DEF Push, CallType, Makers
<1>2. Makers = {p} /\ addr2pool[a] = NoPool /\ addrOf[x] = a /\ ~isClosed
  BY <1>1, OneMaker DEF Tables, Making, Pushing
<1>3. /\ pools' = Append(pools, x) /\ addr2pool' = [addr2pool EXCEPT ![a] = x]
      /\ Got(p, x) /\ UNCHANGED <<addrOf, static, open, isClosed, closePc>>
  BY <1>2 DEF Push, poolVars, closeVars
<1>4. Made = {x}
  BY <1>1, <1>2 DEF Made, Makers
<1>5. \A q \in Callers : pc'[q] \notin {"make", "push"}
  BY <1>1, <1>2, <1>3, MovesOn DEF Makers
<1>6. Makers' = {} /\ Made' = {}
  BY <1>5 DEF Makers, Made
<1> HIDE DEF a, x
<1>7. ~Contains(pools, x)
  BY <1>0, <1>1, <1>2, AgreeListed, PoolsAssumption DEF Tables, TableType
<1>8. /\ pools' \in Seq(Pools) /\ Len(pools) \in Nat
      /\ DOMAIN pools = 1 .. Len(pools) /\ DOMAIN pools' = 1 .. Len(pools) + 1
      /\ \A j \in 1 .. Len(pools) + 1 : pools'[j] = IF j <= Len(pools) THEN pools[j] ELSE x
      /\ \A e : Contains(pools', e) <=> Contains(pools, e) \/ e = x
  BY <1>0, <1>1, <1>3, AppendFacts, LenProperties DEF TableType
<1>9. \A b \in Addrs : addr2pool'[b] = IF b = a THEN x ELSE addr2pool[b]
  BY <1>0, <1>3 DEF TableType
<1>10. PoolsAgree'
  <2>1. ASSUME NEW b \in Addrs, addr2pool'[b] # NoPool
        PROVE  Contains(pools', addr2pool'[b])
    BY <1>0, <1>8, <1>9, <2>1, AgreeListed DEF Tables, TableType
  <2>2. ASSUME NEW y \in Pools, Contains(pools', y)
        PROVE  addr2pool'[addrOf'[y]] = y
    <3>1. CASE y = x
      BY <1>1, <1>2, <1>3, <1>9, <3>1
    <3>2. CASE y # x
      <4>1. addr2pool[addrOf[y]] = y /\ addrOf[y] \in Addrs
        BY <1>0, <1>8, <2>2, <3>2, AgreeListed DEF Tables, TableType, PoolType
      <4>2. addrOf[y] # a
        BY <1>2, <4>1, PoolsAssumption
      <4> QED
        BY <1>3, <1>9, <4>1, <4>2
    <3> QED
      BY <3>1, <3>2
  <2> QED
    BY <1>8, <2>1, <2>2, AgreeListedNext
<1>11. OpenListed'
  BY <1>1, <1>3, <1>4, <1>6, <1>8 DEF Tables, OpenListed
<1>12. Distinct'
  <2> SUFFICES ASSUME NEW j \in 1 .. Len(pools) + 1, NEW k \in 1 .. Len(pools) + 1, pools'[j] = pools'[k]
               PROVE  j = k
    BY <1>8 DEF Distinct
  <2>1. \A i \in 1 .. Len(pools) : pools[i] # x
    BY <1>7 DEF Contains
  <2>2. CASE j <= Len(pools) /\ k <= Len(pools)
    BY <1>8, <2>2 DEF Tables, Distinct
  <2>3. CASE j > Len(pools) /\ k > Len(pools)
    BY <1>8, <2>3
  <2>4. CASE j <= Len(pools) /\ k > Len(pools)
    BY <1>8, <2>1, <2>4
  <2>5. CASE j > Len(pools) /\ k <= Len(pools)
    BY <1>8, <2>1, <2>5
  <2> QED
    BY <1>8, <2>2, <2>3, <2>4, <2>5
<1>13. Homed'
  BY <1>1, <1>2, <1>3, <1>9 DEF Tables, Homed
<1>14. Making' /\ Pushing'
  BY <1>5, <1>6 DEF Making, Pushing
<1>15. Shutting'
  BY <1>2, <1>3 DEF Tables, Shutting
<1> QED
  BY <1>10, <1>11, <1>12, <1>13, <1>14, <1>15 DEF Tables

\* The steps of a call that touch neither tables nor mtNew.
LEMMA CallTables ==
  ASSUME TypeOK, Tables, NEW p \in Callers, UNCHANGED closeVars,
         Begin(p) \/ Check(p) \/ Pick(p) \/ GetAddr(p) \/ Count(p) \/ Use(p) \/ End(p) \/ Find(p)
  PROVE  Tables'
<1>0. TableType /\ CallType /\ pc \in [Callers -> Pcs] /\ me \in [Callers -> Op]
  BY TypeParts DEF CallType
<1>1. UNCHANGED <<pools, addr2pool, addrOf, static, open, mtNew, isClosed, closePc>>
  BY DEF Begin, Check, Pick, GetAddr, Count, Use, End, Find, poolVars, tableVars, closeVars
<1>2. pc[p] \notin {"make", "push"}
  BY DEF Begin, Check, Pick, GetAddr, Count, Use, End, Find
<1>3. /\ pc'[p] \notin {"make", "push"}
      /\ \A q \in Callers \ {p} : pc'[q] = pc[q] /\ me'[q] = me[q]
  <2>1. CASE Leave(p) \/ Fail(p) \/ \E x \in Pools : Got(p, x)
    BY <2>1, MovesOn
  <2>2. CASE Begin(p) \/ Count(p) \/ Use(p)
    BY <1>0, <2>2 DEF Begin, Count, Use, Pcs
  <2>3. CASE Check(p) \/ Find(p)
    BY <1>0, <2>1, <2>3 DEF Check, Find, Pcs
  <2>4. CASE Pick(p)
    <3>1. \A k \in DOMAIN pools : pools[k] \in Pools
      BY <1>0, LenProperties, ElementOfSeq DEF TableType
    <3> QED
      BY <2>1, <2>4, <3>1 DEF Pick
  <2>5. CASE GetAddr(p)
    <3>1. me[p].want \in Addrs
      BY <1>0, <2>5 DEF GetAddr, CallType
    <3>2. addr2pool[me[p].want] # NoPool => addr2pool[me[p].want] \in Pools
      BY <1>0, <3>1 DEF TableType
    <3> QED
      BY <1>0, <2>1, <2>5, <3>2 DEF GetAddr, Pcs
  <2>6. CASE End(p)
    BY <2>1, <2>6 DEF End
  <2> QED
    BY <2>2, <2>3, <2>4, <2>5, <2>6
<1>4. StillMaking
  BY <1>2, <1>3 DEF StillMaking
<1> QED
  BY <1>1, <1>4, TablesStill

\* Close waits for mtNew, so it meets nobody who makes a pool, and everything
\* that is open is in the slice.
LEMMA CloseTables ==
  ASSUME TypeOK, Tables, Close
  PROVE  Tables'
<1>0. PoolType /\ TableType /\ CallType /\ CloseType
  BY TypeParts
<1>1. UNCHANGED <<pc, me>> /\ StillMaking
  BY DEF Close, callVars, StillMaking
<1>2. CASE CloseCall
  BY <1>1, <1>2, TablesStill DEF CloseCall, poolVars, tableVars
<1>3. CASE CloseLock
  <2>1. Makers = {} /\ Makers' = {} /\ Made' = Made
    BY <1>1, <1>3, OneMaker, MadeStill DEF CloseLock
  <2>2. \A p \in Callers : pc'[p] # "push"
    BY <2>1 DEF Makers
  <2>3. PoolsAgree' /\ OpenListed' /\ Distinct' /\ Homed'
    BY <1>3, <2>1 DEF CloseLock, poolVars, tableVars, Tables, PoolsAgree, OpenListed, Distinct, Homed
  <2>4. Making' /\ Pushing' /\ Shutting'
    BY <1>3, <2>1, <2>2 DEF CloseLock, Making, Pushing, Shutting
  <2> QED
    BY <2>3, <2>4 DEF Tables
<1>4. CASE CloseExit
  <2>1. /\ open' = [x \in Pools |-> open[x] /\ ~Contains(pools, x)]
        /\ pools' = <<>> /\ addr2pool' = [a \in Addrs |-> NoPool]
        /\ closePc = "exit" /\ closePc' = "closed" /\ isClosed' = isClosed
    BY <1>4 DEF CloseExit
  <2>2. isClosed
    BY <2>1 DEF Tables, Shutting
  <2>3. Makers = {} /\ Made = {} /\ Makers' = {} /\ Made' = {}
    BY <1>1, <2>2, OneMaker, MadeStill
  <2>4. \A p \in Callers : pc'[p] # "push"
    BY <2>3 DEF Makers
  <2>5. \A e : ~Contains(pools', e)
    BY <2>1 DEF Contains
  <2>6. OpenListed'
    BY <2>1, <2>3, <2>5 DEF Tables, OpenListed
  <2>7. PoolsAgree' /\ Distinct' /\ Homed'
    BY <2>1 DEF PoolsAgree, Distinct, Homed
  <2>8. Making' /\ Pushing' /\ Shutting'
    BY <2>1, <2>2, <2>3, <2>4 DEF Making, Pushing, Shutting
  <2> QED
    BY <2>6, <2>7, <2>8 DEF Tables
<1> QED
  BY <1>2, <1>3, <1>4 DEF Close

\* NewRpcPools leaves the tables in order.
LEMMA InitTablesAgree ==
  ASSUME Init
  PROVE  Tables
<1>0. /\ pools = First /\ First \in Seq(Pools)
      /\ \A k \in DOMAIN First : /\ First[k] \in Pools /\ FirstAddr[k] \in Addrs
                                 /\ addrOf[First[k]] = FirstAddr[k]
                                 /\ addr2pool[FirstAddr[k]] = First[k]
      /\ \A a \in Addrs : addr2pool[a] # NoPool =>
           \E k \in DOMAIN First : a = FirstAddr[k] /\ addr2pool[a] = First[k]
  BY InitTables
<1>1. DOMAIN First = 1 .. Len(First)
  BY <1>0, LenProperties
<1>2. PoolsAgree /\ Homed
  BY <1>0, <1>1 DEF PoolsAgree, Homed, Contains
<1>3. Distinct
  BY <1>0, FirstAssumption DEF Distinct
<1>4. Makers = {} /\ Made = {} /\ \A p \in Callers : pc[p] # "push"
  BY DEF Init, Makers, Made
<1>5. OpenListed
  BY <1>0, <1>4 DEF Init, OpenListed
<1>6. Making /\ Pushing /\ Shutting
  BY <1>4 DEF Init, Making, Pushing, Shutting
<1> QED
  BY <1>2, <1>3, <1>5, <1>6 DEF Tables

\* Every step keeps the tables.
LEMMA TablesStep ==
  ASSUME TypeOK, Tables, [Next]_vars
  PROVE  Tables'
<1>1. ASSUME NEW p \in Callers, Caller(p) PROVE Tables'
  <2>1. UNCHANGED closeVars
    BY <1>1 DEF Caller
  <2>2. CASE CutServer(p)
    <3>0. CallType
      BY TypeParts
    <3>1. me[p].index \in Nat
      BY <3>0 DEF CallType, Op
    <3>2. StillMaking
      BY <2>2, MovesOn DEF CutServer, StillMaking
    <3> QED
      BY <2>1, <2>2, <3>1, <3>2, RemoveTables DEF CutServer, closeVars
  <2> QED
    BY <1>1, <2>1, <2>2, CallTables, NewTables, MakeTables, PushTables DEF Caller, Operation
<1>2. CASE IdleLoop
  <2>1. StillMaking /\ UNCHANGED <<mtNew, isClosed, closePc>>
    BY <1>2 DEF IdleLoop, callVars, closeVars, StillMaking
  <2>2. CASE IdleRemove
    BY <2>1, <2>2, RemoveTables DEF IdleRemove, TypeOK
  <2>3. CASE ~IdleRemove
    <3>1. UNCHANGED <<pools, addr2pool, addrOf, static, open>>
      BY <1>2, <2>3 DEF IdleLoop, IdleTick, IdleGet, IdleRead, poolVars, tableVars
    <3> QED
      BY <2>1, <3>1, TablesStill
  <2> QED
    BY <2>2, <2>3
<1>3. CASE Time \/ UNCHANGED vars
  <2>1. /\ StillMaking
        /\ UNCHANGED <<pools, addr2pool, addrOf, static, open, mtNew, isClosed, closePc>>
    BY <1>3 DEF Time, Elapse, vars, poolVars, tableVars, callVars, closeVars, StillMaking
  <2> QED
    BY <2>1, TablesStill
<1> QED
  BY <1>1, <1>2, <1>3, CloseTables DEF Next

\* The tables are in order in every state.
LEMMA TablesAlways == Safety => [](TypeOK /\ Tables)
<1>1. Init => Tables
  BY InitTablesAgree
<1>2. TypeOK /\ Tables /\ [Next]_vars => Tables'
  BY TablesStep
<1> QED
  BY <1>1, <1>2, TypeCorrect, PTL DEF Safety

\* Slice and map hold the same pools, one for each address, whatever is pushed,
\* removed, closed at the same time.
THEOREM TablesAgree == Safety => []PoolsAgree
<1>1. Tables => PoolsAgree
  BY DEF Tables
<1> QED
  BY <1>1, TablesAlways, PTL

\* The pools that are open are those in the slice and the one being pushed:
\* none is leaked and none is closed behind the table's back.
THEOREM OpenPoolsListed == Safety => []OpenListed
<1>1. Tables => OpenListed
  BY DEF Tables
<1> QED
  BY <1>1, TablesAlways, PTL

\* However many callers miss an address at the same time, it has one pool.
THEOREM OnePoolForAddr == Safety => []OnePoolPerAddr
<1>1. TypeOK /\ Tables => OnePoolPerAddr
  <2> SUFFICES ASSUME TypeOK, Tables, NEW x \in Pools, NEW y \in Pools,
                      open[x], open[y], addrOf[x] = addrOf[y]
               PROVE  x = y
    BY DEF OnePoolPerAddr
  <2>0. pools \in Seq(Pools)
    BY DEF TypeOK
  <2>1. \A z \in Pools : open[z] => addr2pool[addrOf[z]] = z \/ z \in Made
    BY <2>0, AgreeListed DEF Tables, OpenListed
  <2>2. \A z \in Made : addr2pool[addrOf[z]] = NoPool
    BY DEF Made, Tables, Making, Makers, Pushing
  <2>3. \A u, v \in Made : u = v
    BY OneMaker DEF Made, Makers
  <2> QED
    BY <2>1, <2>2, <2>3, PoolsAssumption
<1> QED
  BY <1>1, TablesAlways, PTL

\* Once Close has returned no pool is open, and none is opened again.
THEOREM ClosedStaysClosed == Safety => []ClosedForGood
<1>1. TypeOK /\ Tables => ClosedForGood
  <2> SUFFICES ASSUME TypeOK, Tables, closePc = "closed", NEW x \in Pools
               PROVE  ~open[x]
    BY DEF ClosedForGood
  <2>1. isClosed /\ pools = <<>>
    BY DEF Tables, Shutting
  <2>2. Made = {} /\ ~Contains(pools, x)
    BY <2>1, OneMaker DEF Contains
  <2> QED
    BY <2>2 DEF Tables, OpenListed
<1> QED
  BY <1>1, TablesAlways, PTL

-----------------------------------------------------------------------------
(***************************************************************************)
(* Static pools                                                            *)
(***************************************************************************)
\* Static pools come first in the slice.
StaticFirst == \A j, k \in DOMAIN pools : j <= k /\ static[pools[k]] => static[pools[j]]
\* Nothing static stands where the idle loop is about to remove, or behind it.
Doomed == idlePc = "remove" => \A k \in DOMAIN pools : k > idleI => ~static[pools[k]]
Statics == StaticFirst /\ Doomed

\* A step that leaves the slice and the idle loop's aim alone.
LEMMA StaticsStill ==
  ASSUME TypeOK, Statics, UNCHANGED pools, \A x \in Pools : Contains(pools, x) => static'[x] = static[x],
         idlePc' = "remove" => idlePc = "remove" /\ idleI' = idleI
  PROVE  Statics'
<1>1. /\ DOMAIN pools = 1 .. Len(pools)
      /\ \A k \in 1 .. Len(pools) : pools[k] \in Pools /\ Contains(pools, pools[k])
  BY LenProperties, ElementOfSeq DEF TypeOK, Contains
<1> QED
  BY <1>1 DEF Statics, StaticFirst, Doomed

\* What follows a removed pool moves forward, and stays in order.
LEMMA RemoveStatics ==
  ASSUME TypeOK, Statics, NEW i \in Nat, RemoveIndex(i),
         idlePc' = "remove" => idlePc = "remove" /\ idleI' = idleI
  PROVE  Statics'
<1>0. /\ pools \in Seq(Pools) /\ Len(pools) \in Nat /\ DOMAIN pools = 1 .. Len(pools)
      /\ idleI \in Nat
  BY LenProperties DEF TypeOK
<1>1. CASE i >= Len(pools)
  <2>1. UNCHANGED <<pools, static>>
    BY <1>0, <1>1 DEF RemoveIndex, poolVars, tableVars
  <2> QED
    BY <2>1, StaticsStill
<1>2. CASE i < Len(pools)
  <2>1. pools' = RemoveAt(pools, i + 1) /\ static' = static /\ i + 1 \in 1 .. Len(pools)
    BY <1>0, <1>2 DEF RemoveIndex
  <2>2. /\ pools' \in Seq(Pools) /\ Len(pools') = Len(pools) - 1
        /\ \A j \in 1 .. Len(pools) - 1 : pools'[j] = IF j < i + 1 THEN pools[j] ELSE pools[j + 1]
    BY <1>0, <2>1, RemoveAtFacts
  <2>3. DOMAIN pools' = 1 .. Len(pools) - 1
    BY <2>2, LenProperties
  <2> DEFINE at(j) == IF j < i + 1 THEN j ELSE j + 1
  <2>4. \A j \in DOMAIN pools' : pools'[j] = pools[at(j)] /\ at(j) \in DOMAIN pools /\ at(j) >= j
    BY <1>0, <2>1, <2>2, <2>3
  <2>5. \A j, k \in DOMAIN pools' : j <= k => at(j) <= at(k)
    BY <1>0, <2>1, <2>3
  <2> HIDE DEF at
  <2>6. StaticFirst'
    BY <2>1, <2>4, <2>5 DEF Statics, StaticFirst
  <2>7. Doomed'
    <3> SUFFICES ASSUME idlePc' = "remove", NEW k \in DOMAIN pools', k > idleI
                 PROVE  ~static[pools'[k]]
      BY <2>1 DEF Doomed
    <3>1. at(k) \in DOMAIN pools /\ at(k) \in Int /\ k \in Int /\ at(k) >= k
      BY <1>0, <2>3, <2>4
    <3>2. at(k) > idleI
      BY <1>0, <3>1
    <3> QED
      BY <2>4, <3>1, <3>2 DEF Statics, Doomed
  <2> QED
    BY <2>6, <2>7 DEF Statics
<1> QED
  BY <1>0, <1>1, <1>2

\* A pool that is made on demand is dynamic and goes to the end.
LEMMA PushStatics ==
  ASSUME TypeOK, Tables, Statics, NEW p \in Callers, Push(p), UNCHANGED idleVars
  PROVE  Statics'
<1>0. PoolType /\ TableType /\ CallType /\ IdleType
  BY TypeParts
<1> DEFINE x == me[p].pool
<1>1. pc[p] = "push" /\ x \in Pools /\ p \in Makers
  BY <1>0 DEF Push, CallType, Makers
<1>2. addr2pool[me[p].want] = NoPool /\ ~static[x]
  BY <1>1 DEF Tables, Making, Pushing
<1>3. pools' = Append(pools, x) /\ static' = static
  BY <1>2 DEF Push, poolVars
<1> HIDE DEF x
<1>4. /\ Len(pools) \in Nat /\ DOMAIN pools = 1 .. Len(pools)
      /\ DOMAIN pools' = 1 .. Len(pools) + 1
      /\ \A j \in 1 .. Len(pools) + 1 : pools'[j] = IF j <= Len(pools) THEN pools[j] ELSE x
  BY <1>0, <1>1, <1>3, AppendFacts, LenProperties DEF TableType
<1>5. StaticFirst'
  <2> SUFFICES ASSUME NEW j \in 1 .. Len(pools) + 1, NEW k \in 1 .. Len(pools) + 1,
                      j <= k, static[pools'[k]]
               PROVE  static[pools'[j]]
    BY <1>3, <1>4 DEF StaticFirst
  <2>1. k <= Len(pools)
    BY <1>2, <1>4
  <2>2. j \in DOMAIN pools /\ k \in DOMAIN pools /\ pools'[k] = pools[k] /\ pools'[j] = pools[j]
    BY <1>4, <2>1
  <2> QED
    BY <2>2 DEF Statics, StaticFirst
<1>6. Doomed'
  BY <1>2, <1>3, <1>4 DEF Statics, Doomed, idleVars
<1> QED
  BY <1>5, <1>6 DEF Statics

\* Every step keeps the static pools in front and the loop's index behind them.
LEMMA StaticsStep ==
  ASSUME TypeOK, Tables, Statics, [Next]_vars
  PROVE  Statics'
<1>0. PoolType /\ TableType /\ CallType /\ IdleType
  BY TypeParts
<1>1. ASSUME NEW p \in Callers, Caller(p) PROVE Statics'
  <2>1. UNCHANGED <<idlePc, idleI>> /\ UNCHANGED idleVars
    BY <1>1 DEF Caller, idleVars
  <2>2. CASE CutServer(p)
    <3>1. me[p].index \in Nat
      BY <1>0 DEF CallType, Op
    <3> QED
      BY <2>1, <2>2, <3>1, RemoveStatics DEF CutServer
  <2>3. CASE Make(p)
    <3>1. ASSUME NEW x \in Free, static' = [static EXCEPT ![x] = FALSE]
          PROVE  \A y \in Pools : Contains(pools, y) => static'[y] = static[y]
      <4>1. ~Contains(pools, x)
        BY <1>0, LenProperties DEF Free, Known, Contains, TableType
      <4> QED
        BY <1>0, <3>1, <4>1 DEF PoolType
    <3>2. UNCHANGED pools /\ \A y \in Pools : Contains(pools, y) => static'[y] = static[y]
      BY <2>3, <3>1 DEF Make, poolVars, tableVars
    <3> QED
      BY <2>1, <3>2, StaticsStill
  <2>4. CASE Push(p)
    BY <2>1, <2>4, PushStatics
  <2>5. CASE Begin(p) \/ Check(p) \/ Pick(p) \/ GetAddr(p) \/ New(p) \/ Count(p) \/ Use(p) \/ End(p) \/ Find(p)
    <3>1. UNCHANGED <<pools, static>>
      BY <2>5 DEF Begin, Check, Pick, GetAddr, New, Count, Use, End, Find, poolVars, tableVars
    <3> QED
      BY <2>1, <3>1, StaticsStill
  <2> QED
    BY <1>1, <2>2, <2>3, <2>4, <2>5 DEF Caller, Operation
<1>2. CASE IdleLoop
  <2>1. CASE IdleRemove
    BY <1>0, <2>1, RemoveStatics DEF IdleRemove, IdleType
  <2>2. CASE IdleTick \/ IdleGet
    BY <2>2, StaticsStill DEF IdleTick, IdleGet, poolVars, tableVars
  <2>3. CASE IdleRead
    <3>1. UNCHANGED <<pools, static>> /\ idlePc = "read"
      BY <2>3 DEF IdleRead, poolVars, tableVars
    <3>2. CASE idlePc' = "remove"
      <4>0. /\ DOMAIN pools = 1 .. Len(pools) /\ Len(pools) \in Nat /\ idleI \in Nat
        BY <1>0, LenProperties DEF TableType, IdleType
      <4>1. idleI' = idleI /\ (idleI < Len(pools) => Unused(pools[idleI + 1]))
        BY <2>3, <3>2, <4>0 DEF IdleRead
      <4>2. \A k \in DOMAIN pools : k > idleI => ~static[pools[k]]
        <5> SUFFICES ASSUME NEW k \in DOMAIN pools, k > idleI, static[pools[k]] PROVE FALSE
          OBVIOUS
        <5>1. idleI < Len(pools) /\ idleI + 1 \in DOMAIN pools /\ idleI + 1 <= k
          BY <4>0
        <5> QED
          BY <4>1, <5>1 DEF Unused, Statics, StaticFirst
      <4> QED
        BY <3>1, <4>1, <4>2 DEF Statics, StaticFirst, Doomed
    <3>3. CASE idlePc' # "remove"
      BY <3>1, <3>3, StaticsStill
    <3> QED
      BY <3>2, <3>3
  <2> QED
    BY <1>2, <2>1, <2>2, <2>3 DEF IdleLoop
<1>3. CASE Close
  <2>1. CASE CloseExit
    BY <2>1 DEF CloseExit, Statics, StaticFirst, Doomed
  <2>2. CASE CloseCall \/ CloseLock
    BY <2>2, StaticsStill DEF CloseCall, CloseLock, poolVars, tableVars, idleVars
  <2> QED
    BY <1>3, <2>1, <2>2 DEF Close
<1>4. CASE Time \/ UNCHANGED vars
  BY <1>4, StaticsStill DEF Time, Elapse, vars, poolVars, tableVars, idleVars
<1> QED
  BY <1>1, <1>2, <1>3, <1>4 DEF Next

\* The idle loop removes whichever pool has moved to the index it judged; that
\* is never a static one, for static pools stand before all dynamic ones and
\* a removal only brings pools forward.
THEOREM IdleLoopSparesStatic == Safety => IdleSparesStatic
<1>1. Init => Statics
  <2> SUFFICES ASSUME Init PROVE Statics
    OBVIOUS
  <2>1. /\ pools = First /\ idlePc = "select"
        /\ \A k \in DOMAIN First : First[k] \in Pools
    BY InitTables DEF Init
  <2>2. DOMAIN First = 1 .. Len(First)
    BY FirstAssumption, LenProperties
  <2>3. \A k \in DOMAIN pools : static[pools[k]]
    BY <2>1, <2>2 DEF Init, Contains
  <2> QED
    BY <2>1, <2>3 DEF Statics, StaticFirst, Doomed
<1>2. (TypeOK /\ Tables) /\ Statics /\ [Next]_vars => Statics'
  BY StaticsStep
<1>3. (TypeOK /\ Tables) /\ Statics /\ [Next]_vars
        => [\A x \in Pools : IdleRemoves(x) => ~static[x]]_vars
  <2> SUFFICES ASSUME TypeOK, Statics, Next, NEW x \in Pools, IdleRemoves(x)
               PROVE  ~static[x]
    BY DEF IdleRemoves, vars, idleVars
  <2>0. PoolType /\ TableType /\ IdleType
    BY TypeParts
  <2>1. idlePc = "remove" /\ idlePc' = "get" /\ open[x] /\ ~open'[x]
    BY DEF IdleRemoves
  <2>2. IdleRemove
    <3>1. \A p \in Callers : ~Caller(p)
      BY <2>1 DEF Caller, idleVars
    <3>2. ~Close /\ ~Time
      BY <2>1 DEF Close, CloseCall, CloseLock, CloseExit, Time, idleVars
    <3>3. IdleLoop
      BY <3>1, <3>2 DEF Next
    <3> QED
      BY <2>1, <3>3 DEF IdleLoop, IdleTick, IdleGet, IdleRead
  <2>3. RemoveIndex(idleI)
    BY <2>2 DEF IdleRemove
  <2>4. /\ Len(pools) \in Nat /\ DOMAIN pools = 1 .. Len(pools) /\ idleI \in Nat
        /\ \A k \in 1 .. Len(pools) : pools[k] \in Pools
    BY <2>0, LenProperties, ElementOfSeq DEF TableType, IdleType
  <2>5. idleI < Len(pools) /\ open' = [open EXCEPT ![pools[idleI + 1]] = FALSE]
    BY <2>1, <2>3, <2>4 DEF RemoveIndex, Shut, poolVars
  <2>6. x = pools[idleI + 1]
    BY <2>0, <2>1, <2>5 DEF PoolType
  <2>7. idleI + 1 \in DOMAIN pools /\ idleI + 1 > idleI
    BY <2>4, <2>5
  <2> QED
    BY <2>1, <2>6, <2>7 DEF Statics, Doomed
<1> QED
  BY <1>1, <1>2, <1>3, TablesAlways, PTL DEF Safety, IdleSparesStatic
-----------------------------------------------------------------------------
(***************************************************************************)
(* The counts of calls                                                     *)
(***************************************************************************)
\* p has a call of its pool in flight.
Flies(p) == pc[p] = "use" \/ (pc[p] = "end" /\ me[p].want # AnyAddr)

\* Whoever has a call in flight before or after the step keeps it.
StillFlying == \A q \in Callers : \/ pc'[q] = pc[q] /\ me'[q] = me[q]
                                  \/ ~Flies(q) /\ ~Flies(q)'

\* The calls in flight of a pool are finitely many.
LEMMA FlightFinite ==
  ASSUME NEW x
  PROVE  IsFiniteSet(InFlight(x)) /\ Cardinality(InFlight(x)) \in Nat
<1>1. InFlight(x) \subseteq Callers
  BY DEF InFlight
<1> QED
  BY <1>1, CallersAssumption, FS_Subset, FS_CardinalityType

\* A step that neither begins nor ends a call.
LEMMA CountsStill ==
  ASSUME CallsExact, StillFlying, calls' = calls
  PROVE  CallsExact'
<1>1. \A x \in Pools : InFlight(x)' = InFlight(x)
  BY DEF StillFlying, Flies, InFlight
<1> QED
  BY <1>1 DEF CallsExact

\* A caller that is done with an attempt has no call in flight.
LEMMA MovesOnLanded ==
  ASSUME TypeOK, NEW p \in Callers, Leave(p) \/ Fail(p) \/ \E x \in Pools : Got(p, x)
  PROVE  /\ ~Flies(p)'
         /\ \A q \in Callers \ {p} : pc'[q] = pc[q] /\ me'[q] = me[q]
<1>1. /\ pc \in [Callers -> Pcs] /\ me \in [Callers -> Op]
  BY TypeParts DEF CallType
<1> QED
  BY <1>1 DEF Leave, Fail, Got, Flies

\* The attempt of p has ended, its pool's count is one less.
LEMMA CountsLess ==
  ASSUME TypeOK, CallsExact, NEW p \in Callers, Flies(p), ~Flies(p)',
         \A q \in Callers \ {p} : pc'[q] = pc[q] /\ me'[q] = me[q],
         calls' = Uncounted(p)
  PROVE  CallsExact'
<1>1. me[p].pool \in Pools /\ calls \in [Pools -> Int]
  BY TypeParts DEF CallType, PoolType, Flies
<1> SUFFICES ASSUME NEW x \in Pools
             PROVE  calls'[x] = Cardinality(InFlight(x)')
  BY DEF CallsExact
<1>2. CASE x = me[p].pool
  <2>1. p \in InFlight(x) /\ InFlight(x)' = InFlight(x) \ {p}
    BY <1>2 DEF InFlight, Flies
  <2>2. Cardinality(InFlight(x)') = Cardinality(InFlight(x)) - 1
    BY <2>1, FlightFinite, FS_RemoveElement
  <2>3. calls'[x] = calls[x] - 1
    BY <1>1, <1>2 DEF Uncounted
  <2> QED
    BY <2>2, <2>3 DEF CallsExact
<1>3. CASE x # me[p].pool
  <2>1. InFlight(x)' = InFlight(x)
    BY <1>3 DEF InFlight, Flies
  <2>2. calls'[x] = calls[x]
    BY <1>1, <1>3 DEF Uncounted
  <2> QED
    BY <2>1, <2>2 DEF CallsExact
<1> QED
  BY <1>2, <1>3

\* Count begins a call.
LEMMA CountsMore ==
  ASSUME TypeOK, CallsExact, NEW p \in Callers, Count(p)
  PROVE  CallsExact'
<1>1. /\ me[p].pool \in Pools /\ calls \in [Pools -> Int]
      /\ pc \in [Callers -> Pcs] /\ pc[p] = "count"
  BY TypeParts DEF CallType, PoolType, Count
<1>2. /\ calls' = [calls EXCEPT ![me[p].pool] = @ + 1]
      /\ pc' = [pc EXCEPT ![p] = "use"] /\ me' = me
  BY DEF Count
<1> SUFFICES ASSUME NEW x \in Pools
             PROVE  calls'[x] = Cardinality(InFlight(x)')
  BY DEF CallsExact
<1>3. CASE x = me[p].pool
  <2>1. p \notin InFlight(x) /\ InFlight(x)' = InFlight(x) \cup {p}
    BY <1>1, <1>2, <1>3 DEF InFlight
  <2>2. Cardinality(InFlight(x)') = Cardinality(InFlight(x)) + 1
    BY <2>1, FlightFinite, FS_AddElement
  <2>3. calls'[x] = calls[x] + 1
    BY <1>1, <1>2, <1>3
  <2> QED
    BY <2>2, <2>3 DEF CallsExact
<1>4. CASE x # me[p].pool
  <2>1. InFlight(x)' = InFlight(x)
    BY <1>1, <1>2, <1>4 DEF InFlight
  <2>2. calls'[x] = calls[x]
    BY <1>1, <1>2, <1>4
  <2> QED
    BY <2>1, <2>2 DEF CallsExact
<1> QED
  BY <1>3, <1>4

\* A call's return lowers the count before it is noted, or after.
LEMMA CountsReturn ==
  ASSUME TypeOK, CallsExact, NEW p \in Callers, Use(p) \/ End(p)
  PROVE  CallsExact'
<1>1. pc \in [Callers -> Pcs] /\ me \in [Callers -> Op]
  BY TypeParts DEF CallType
<1>2. CASE Use(p)
  <2>1. /\ pc[p] = "use" /\ pc' = [pc EXCEPT ![p] = "end"]
        /\ \E ok \in BOOLEAN : me' = [me EXCEPT ![p].fine = ok]
    BY <1>2 DEF Use
  <2>2. /\ pc'[p] = "end" /\ me'[p].want = me[p].want /\ me'[p].pool = me[p].pool
        /\ \A q \in Callers \ {p} : pc'[q] = pc[q] /\ me'[q] = me[q]
    BY <1>1, <2>1 DEF Op
  <2>3. CASE me[p].want = AnyAddr
    <3>1. Flies(p) /\ ~Flies(p)' /\ calls' = Uncounted(p)
      BY <1>2, <2>1, <2>2, <2>3 DEF Use, Flies
    <3> QED
      BY <2>2, <3>1, CountsLess
  <2>4. CASE me[p].want # AnyAddr
    <3>1. \A x \in Pools : InFlight(x)' = InFlight(x)
      BY <2>1, <2>2, <2>4 DEF InFlight
    <3>2. calls' = calls
      BY <1>2, <2>4 DEF Use
    <3> QED
      BY <3>1, <3>2 DEF CallsExact
  <2> QED
    BY <2>3, <2>4
<1>3. CASE End(p)
  <2>1. pc[p] = "end" /\ (Leave(p) \/ Fail(p))
    BY <1>3 DEF End
  <2>2. ~Flies(p)' /\ \A q \in Callers \ {p} : pc'[q] = pc[q] /\ me'[q] = me[q]
    BY <2>1, MovesOnLanded
  <2>3. CASE me[p].want = AnyAddr
    <3>1. ~Flies(p) /\ calls' = calls
      BY <1>3, <2>1, <2>3 DEF End, Flies
    <3> QED
      BY <2>2, <3>1, CountsStill DEF StillFlying
  <2>4. CASE me[p].want # AnyAddr
    <3>1. Flies(p) /\ calls' = Uncounted(p)
      BY <1>3, <2>1, <2>4 DEF End, Flies
    <3> QED
      BY <2>2, <3>1, CountsLess
  <2> QED
    BY <2>3, <2>4
<1> QED
  BY <1>2, <1>3

\* The pool that is made is nobody's: it has no call in flight.
LEMMA CountsMake ==
  ASSUME TypeOK, CallsExact, NEW p \in Callers, Make(p)
  PROVE  CallsExact'
<1>1. /\ pc \in [Callers -> Pcs] /\ me \in [Callers -> Op]
      /\ calls \in [Pools -> Int] /\ pc[p] = "make" /\ ~Flies(p)
  BY TypeParts DEF CallType, PoolType, Make, Flies
<1>2. CASE Fail(p) /\ UNCHANGED poolVars
  BY <1>1, <1>2, MovesOnLanded, CountsStill DEF StillFlying, poolVars
<1>3. ASSUME NEW x \in Free, calls' = [calls EXCEPT ![x] = 0],
             me' = [me EXCEPT ![p].pool = x], pc' = [pc EXCEPT ![p] = "push"]
      PROVE  CallsExact'
  <2>1. StillFlying
    BY <1>1, <1>3 DEF StillFlying, Flies
  <2>2. \A y \in Pools : InFlight(y)' = InFlight(y)
    BY <2>1 DEF StillFlying, Flies, InFlight
  <2>3. InFlight(x) = {}
    BY DEF InFlight, Free, Known
  <2>4. calls[x] = 0
    BY <2>3, FS_EmptySet DEF CallsExact, Free
  <2> QED
    BY <1>1, <1>3, <2>2, <2>4 DEF CallsExact
<1> QED
  BY <1>2, <1>3 DEF Make

\* The other steps of a caller.
LEMMA CountsCaller ==
  ASSUME TypeOK, Tables, CallsExact, NEW p \in Callers, Begin(p) \/ Operation(p)
  PROVE  CallsExact'
<1>1. /\ pc \in [Callers -> Pcs] /\ me \in [Callers -> Op] /\ TableType /\ PoolType
      /\ \A q \in Callers : pc[q] \in {"get", "new", "make", "push", "find"} => me[q].want \in Addrs
      /\ \A q \in Callers : pc[q] \in {"push", "count", "use", "end"} => me[q].pool \in Pools
  BY TypeParts DEF CallType
<1>2. ASSUME calls' = calls, pc[p] \notin {"use", "end"},
             Leave(p) \/ Fail(p) \/ \E x \in Pools : Got(p, x)
      PROVE  CallsExact'
  BY <1>2, MovesOnLanded, CountsStill DEF StillFlying, Flies
<1>3. ASSUME calls' = calls, pc[p] \notin {"use", "end"}, pc'[p] \notin {"use", "end"},
             \A q \in Callers \ {p} : pc'[q] = pc[q] /\ me'[q] = me[q]
      PROVE  CallsExact'
  <2>1. StillFlying
    BY <1>3 DEF StillFlying, Flies
  <2> QED
    BY <1>3, <2>1, CountsStill
<1>4. CASE Begin(p)
  BY <1>1, <1>3, <1>4 DEF Begin, poolVars
<1>5. CASE Check(p)
  <2>1. calls' = calls /\ pc[p] = "check"
    BY <1>5 DEF Check, poolVars
  <2>2. CASE Leave(p)
    BY <1>2, <2>1, <2>2
  <2>3. CASE ~Leave(p)
    BY <1>1, <1>3, <1>5, <2>1, <2>3 DEF Check
  <2> QED
    BY <2>2, <2>3
<1>6. CASE Pick(p)
  <2>1. \A k \in DOMAIN pools : pools[k] \in Pools
    BY <1>1, ElementOfSeq, LenProperties DEF TableType
  <2>2. calls' = calls /\ pc[p] = "pick"
    BY <1>6 DEF Pick, poolVars
  <2> QED
    BY <1>2, <1>6, <2>1, <2>2 DEF Pick
<1>7. CASE GetAddr(p)
  <2>1. calls' = calls /\ pc[p] = "get" /\ addr2pool[me[p].want] \in Pools \cup {NoPool}
    BY <1>1, <1>7 DEF GetAddr, poolVars, TableType
  <2>2. CASE addr2pool[me[p].want] # NoPool
    BY <1>2, <1>7, <2>1, <2>2 DEF GetAddr
  <2>3. CASE addr2pool[me[p].want] = NoPool
    BY <1>1, <1>3, <1>7, <2>1, <2>3 DEF GetAddr
  <2> QED
    BY <2>2, <2>3
<1>8. CASE New(p)
  <2>1. calls' = calls /\ pc[p] = "new" /\ addr2pool[me[p].want] \in Pools \cup {NoPool}
    BY <1>1, <1>8 DEF New, poolVars, TableType
  <2>2. CASE ClosedNow
    BY <1>2, <1>8, <2>1, <2>2 DEF New
  <2>3. CASE ~ClosedNow /\ MadeMeanwhile(p)
    BY <1>2, <1>8, <2>1, <2>3 DEF New, MadeMeanwhile
  <2>4. CASE ~ClosedNow /\ ~MadeMeanwhile(p)
    BY <1>1, <1>3, <1>8, <2>1, <2>4 DEF New
  <2> QED
    BY <2>2, <2>3, <2>4
<1>9. CASE Push(p)
  <2>1. /\ calls' = calls /\ pc[p] = "push" /\ me[p].pool \in Pools
        /\ addr2pool[me[p].want] \in Pools \cup {NoPool}
    BY <1>1, <1>9 DEF Push, poolVars, TableType
  <2> QED
    BY <1>2, <1>9, <2>1 DEF Push
<1>10. CASE Find(p)
  <2>1. calls' = calls /\ pc[p] = "find"
    BY <1>10 DEF Find, poolVars
  <2>2. CASE Leave(p)
    BY <1>2, <2>1, <2>2
  <2>3. CASE ~Leave(p)
    BY <1>1, <1>3, <1>10, <2>1, <2>3 DEF Find
  <2> QED
    BY <2>2, <2>3
<1>11. CASE CutServer(p)
  <2>1. calls' = calls /\ pc[p] = "remove" /\ Leave(p)
    BY <1>11 DEF CutServer, RemoveIndex, poolVars
  <2> QED
    BY <1>2, <2>1
<1> QED
  BY <1>4, <1>5, <1>6, <1>7, <1>8, <1>9, <1>10, <1>11,
     CountsMore, CountsReturn, CountsMake DEF Operation

\* stpool.call is the number of calls in flight, so that a pool whose count is 0
\* is one that nobody uses, however its calls and their retries interleave.
THEOREM CallsCounted == Safety => []CallsExact
<1>1. Init => CallsExact
  <2> SUFFICES ASSUME Init PROVE CallsExact
    OBVIOUS
  <2>1. \A x \in Pools : InFlight(x) = {} /\ calls[x] = 0
    BY DEF Init, InFlight
  <2> QED
    BY <2>1, FS_EmptySet DEF CallsExact
<1>2. (TypeOK /\ Tables) /\ CallsExact /\ [Next]_vars => CallsExact'
  <2> SUFFICES ASSUME TypeOK, Tables, CallsExact, [Next]_vars
               PROVE  CallsExact'
    OBVIOUS
  <2>1. CASE \E p \in Callers : Caller(p)
    BY <2>1, CountsCaller DEF Caller
  <2>2. CASE IdleLoop
    <3>1. UNCHANGED <<pc, me>> /\ StillFlying
      BY <2>2 DEF IdleLoop, callVars, StillFlying
    <3>2. calls' = calls
      BY <2>2 DEF IdleLoop, IdleTick, IdleGet, IdleRead, IdleRemove, RemoveIndex, poolVars
    <3> QED
      BY <3>1, <3>2, CountsStill
  <2>3. CASE Close
    <3>1. UNCHANGED <<pc, me>> /\ StillFlying
      BY <2>3 DEF Close, callVars, StillFlying
    <3>2. calls' = calls
      BY <2>3 DEF Close, CloseCall, CloseLock, CloseExit, poolVars
    <3> QED
      BY <3>1, <3>2, CountsStill
  <2>4. CASE Time \/ UNCHANGED vars
    <3>1. UNCHANGED <<pc, me, calls>> /\ StillFlying
      BY <2>4 DEF Time, Elapse, vars, poolVars, callVars, StillFlying
    <3> QED
      BY <3>1, CountsStill
  <2> QED
    BY <2>1, <2>2, <2>3, <2>4 DEF Next
<1> QED
  BY <1>1, <1>2, TablesAlways, PTL DEF Safety
=============================================================================
