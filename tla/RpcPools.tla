------------------------------ MODULE RpcPools ------------------------------
(***************************************************************************)
(* One connection pool per server address: RpcPools of pool/rpc/pools.go   *)
(* (GRPCPools of pool/grpc/pools.go keeps the same state under the same    *)
(* locks).  Callers pick a pool, or ask for the pool of an address and     *)
(* make it if there is none; a failed call is tried again.  The idle loop  *)
(* removes pools nobody used for long, CloseServer removes the pool of an  *)
(* address, Close ends them all.                                           *)
(*                                                                         *)
(* A pool here is an stpool with its RpcPool: connected or not, its answer *)
(* to a call is either.  So whichever pool the strategy reads (least,      *)
(* random, roll, and the scan for a connected one) may be the one picked.  *)
(* mtNew is held while a pool is made and over Close, mtPool over each     *)
(* access to the tables, and over a wait by Close alone (mtHeld).          *)
(***************************************************************************)
EXTENDS Integers, FiniteSets, Sequences, SequencesExt

CONSTANTS
  Pools,      \* identities of stpool objects
  NoPool,     \* nil
  Addrs,      \* server addresses
  AnyAddr,    \* a call that names no address
  First,      \* the pools NewRpcPools makes, in order
  FirstAddr,  \* their addresses
  Callers,    \* goroutines that use the pools
  NoOne, Closer, \* who may have mtNew, beside a caller
  RetryTimes, \* RpcPools.retryTimes
  MaxOps      \* bound: how many operations the callers begin

ASSUME PoolsAssumption   == NoPool \notin Pools
ASSUME AddrsAssumption   == AnyAddr \notin Addrs /\ Addrs # {}
ASSUME FirstAssumption   == /\ First \in Seq(Pools) /\ FirstAddr \in Seq(Addrs)
                            /\ Len(First) = Len(FirstAddr)
                            /\ \A i, j \in DOMAIN First :
                                 i # j => First[i] # First[j] /\ FirstAddr[i] # FirstAddr[j]
ASSUME CallersAssumption == /\ IsFiniteSet(Callers) /\ NoOne # Closer
                            /\ NoOne \notin Callers /\ Closer \notin Callers
ASSUME BoundsAssumption  == RetryTimes \in Nat \ {0} /\ MaxOps \in Nat

VARIABLES
  \* the stpools
  addrOf,    \* stpool.pl.addr
  static,    \* stpool.static
  open,      \* the pool was made and is not closed
  calls,     \* stpool.call
  stale,     \* stpool.last is longer ago than idleTimeOut
  \* RpcPools
  pools,     \* the slice
  addr2pool, \* the map
  isClosed,
  mtNew,     \* who has mtNew
  mtHeld,    \* close() holds mtPool
  \* callers
  pc,
  me,        \* what each is at: op, "call" (Call, CallWithAddr), "conn"
             \* (GetServerConn) or "close" (CloseServer); want, the address asked
             \* for; pool, the one it got, or makes; fine, whether the attempt
             \* succeeded; retry, attempts that failed; index, of want's pool
  ops,       \* operations begun
  \* goroutines
  idlePc, idleI,  \* loop_check_idle_time_out_pool
  closePc,        \* Close
  panicked        \* an index was out of range: the program is gone

poolVars  == <<addrOf, static, open, calls, stale>>
tableVars == <<pools, addr2pool>>
callVars  == <<pc, me, ops>>
idleVars  == <<idlePc, idleI, panicked>>
closeVars == <<isClosed, mtHeld, closePc>>
vars == <<poolVars, tableVars, callVars, idleVars, closeVars, mtNew>>

-----------------------------------------------------------------------------
(***************************************************************************)
(* The tables                                                              *)
(***************************************************************************)
Known == {pools[k] : k \in DOMAIN pools} \cup {me[p].pool : p \in Callers}
         \cup {x \in Pools : open[x]}
Free  == Pools \ Known
Fresh == CHOOSE x \in Free : TRUE              \* any will do: they differ in name

\* What becomes of the map when pool x leaves the slice.
MutWithout(x) == addr2pool                     \* mutant: the map keeps x
Without(x) == [addr2pool EXCEPT ![addrOf[x]] = NoPool]

\* pl.Close()
MutShut(x) == open' = open                     \* mutant: it is forgotten
Shut(x) == open' = [open EXCEPT ![x] = FALSE]

\* remove_index: slice, map and the pool's Close, under mtPool.
RemoveIndex(i) ==
  \/ /\ i < Len(pools)
     /\ LET x == pools[i + 1] IN
          /\ pools' = RemoveAt(pools, i + 1)
          /\ addr2pool' = Without(x)
          /\ Shut(x)
     /\ UNCHANGED <<addrOf, static, calls, stale>>
  \/ /\ i >= Len(pools)
     /\ UNCHANGED <<poolVars, tableVars>>

-----------------------------------------------------------------------------
(***************************************************************************)
(* Call, CallWithAddr, GetServerConn                                       *)
(***************************************************************************)
NoOp == [op |-> "call", want |-> AnyAddr, pool |-> NoPool, fine |-> TRUE, retry |-> 0, index |-> 0]

Leave(p) == /\ pc' = [pc EXCEPT ![p] = "idle"]
            /\ me' = [me EXCEPT ![p] = NoOp]

\* call_with_func after an error: sleep and the next attempt, or lastErr.
LastTry(p) == me[p].op = "conn" \/ me[p].retry + 1 >= RetryTimes

Fail(p) == \/ LastTry(p) /\ Leave(p)
           \/ /\ ~LastTry(p)
              /\ pc' = [pc EXCEPT ![p] = "check"]
              /\ me' = [me EXCEPT ![p].pool = NoPool, ![p].fine = TRUE, ![p].retry = @ + 1]

Begin(p) ==
  /\ pc[p] = "idle" /\ ops < MaxOps
  /\ ops' = ops + 1
  /\ \/ /\ \E a \in Addrs \cup {AnyAddr} : me' = [me EXCEPT ![p].want = a]
        /\ pc' = [pc EXCEPT ![p] = "check"]
     \/ /\ \E a \in Addrs : me' = [me EXCEPT ![p].op = "conn", ![p].want = a]
        /\ pc' = [pc EXCEPT ![p] = "get"]
     \/ /\ \E a \in Addrs : me' = [me EXCEPT ![p].op = "close", ![p].want = a]
        /\ pc' = [pc EXCEPT ![p] = "find"]
  /\ UNCHANGED <<poolVars, tableVars, mtNew>>

\* The head of call_with_func's loop.
Check(p) == /\ pc[p] = "check"
            /\ \/ isClosed /\ Leave(p)
               \/ /\ ~isClosed
                  /\ pc' = [pc EXCEPT ![p] = IF me[p].want = AnyAddr THEN "pick" ELSE "get"]
                  /\ UNCHANGED me
            /\ UNCHANGED <<poolVars, tableVars, mtNew>>

\* p has a pool x.
Got(p, x) == \/ me[p].op = "conn" /\ Leave(p)
             \/ /\ me[p].op = "call"
                /\ pc' = [pc EXCEPT ![p] = "count"]
                /\ me' = [me EXCEPT ![p].pool = x]

\* get_pool or roll_get: any pool of the slice, nil if it is empty.
Pick(p) == /\ pc[p] = "pick" /\ ~mtHeld
           /\ \/ pools = <<>> /\ Fail(p)
              \/ \E k \in DOMAIN pools : Got(p, pools[k])
           /\ UNCHANGED <<poolVars, tableVars, mtNew>>

\* get
GetAddr(p) == /\ pc[p] = "get" /\ ~mtHeld
              /\ LET x == addr2pool[me[p].want] IN
                   \/ x # NoPool /\ Got(p, x)
                   \/ x = NoPool /\ pc' = [pc EXCEPT ![p] = "new"] /\ UNCHANGED me
              /\ UNCHANGED <<poolVars, tableVars, mtNew>>

\* new_and_push takes mtNew and looks again: closed, or made meanwhile.
MutClosedNow == FALSE                          \* mutant: isClosed is not looked at
ClosedNow == isClosed
MadeMeanwhile(p) == addr2pool[me[p].want] # NoPool

New(p) == /\ pc[p] = "new" /\ mtNew = NoOne
          /\ \/ ClosedNow /\ Fail(p) /\ UNCHANGED mtNew
             \/ ~ClosedNow /\ MadeMeanwhile(p) /\ Got(p, addr2pool[me[p].want]) /\ UNCHANGED mtNew
             \/ /\ ~ClosedNow /\ ~MadeMeanwhile(p)
                /\ mtNew' = p
                /\ pc' = [pc EXCEPT ![p] = "make"]
                /\ UNCHANGED me
          /\ UNCHANGED <<poolVars, tableVars>>

MutUnlockNew == UNCHANGED mtNew                \* mutant: mtNew stays locked
UnlockNew == mtNew' = NoOne

\* NewRpcPool dials InitCap connections.
Make(p) == /\ pc[p] = "make"
           /\ \/ Fail(p) /\ UnlockNew /\ UNCHANGED poolVars
              \/ \E x \in Free :
                   /\ x = Fresh
                   /\ addrOf' = [addrOf EXCEPT ![x] = me[p].want]
                   /\ static' = [static EXCEPT ![x] = FALSE]
                   /\ open' = [open EXCEPT ![x] = TRUE]
                   /\ calls' = [calls EXCEPT ![x] = 0]
                   /\ stale' = [stale EXCEPT ![x] = FALSE]
                   /\ me' = [me EXCEPT ![p].pool = x]
                   /\ pc' = [pc EXCEPT ![p] = "push"]
                   /\ UNCHANGED mtNew
           /\ UNCHANGED tableVars

\* push, and mtNew is released.  A pool that is in the map already would be
\* closed and its stpool given the new RpcPool.
Push(p) == /\ pc[p] = "push" /\ ~mtHeld
           /\ LET a == me[p].want  x == me[p].pool  old == addr2pool[a] IN
                \/ /\ old = NoPool
                   /\ pools' = Append(pools, x)
                   /\ addr2pool' = [addr2pool EXCEPT ![a] = x]
                   /\ Got(p, x)
                   /\ UNCHANGED poolVars
                \/ /\ old # NoPool
                   /\ static' = [static EXCEPT ![old] = FALSE]
                   /\ stale' = [stale EXCEPT ![old] = FALSE]
                   /\ open' = [open EXCEPT ![x] = FALSE]
                   /\ Got(p, old)
                   /\ UNCHANGED <<addrOf, calls, tableVars>>
           /\ UnlockNew

Count(p) == /\ pc[p] = "count"
            /\ calls' = [calls EXCEPT ![me[p].pool] = @ + 1]
            /\ pc' = [pc EXCEPT ![p] = "use"]
            /\ UNCHANGED <<addrOf, static, open, stale, me, tableVars, mtNew>>

\* stpool.call once an attempt of p has ended.
MutUncounted(p) == [calls EXCEPT ![me[p].pool] = IF me'[p].fine THEN @ - 1 ELSE @]
                                               \* mutant: a failed call stays counted
Uncounted(p) == [calls EXCEPT ![me[p].pool] = @ - 1]
Touched(p)   == [stale EXCEPT ![me[p].pool] = FALSE]

\* The pool's call returned.  call() lowers the count first and then sets
\* last, CallWithAddrEx the other way round.
Use(p) == /\ pc[p] = "use"
          /\ \E ok \in BOOLEAN : me' = [me EXCEPT ![p].fine = ok]
          /\ IF me[p].want = AnyAddr
             THEN calls' = Uncounted(p) /\ UNCHANGED stale
             ELSE stale' = Touched(p) /\ UNCHANGED calls
          /\ pc' = [pc EXCEPT ![p] = "end"]
          /\ UNCHANGED <<addrOf, static, open, tableVars, mtNew>>

End(p) == /\ pc[p] = "end"
          /\ \/ me[p].fine /\ Leave(p)
             \/ ~me[p].fine /\ Fail(p)
          /\ IF me[p].want = AnyAddr
             THEN stale' = Touched(p) /\ UNCHANGED calls
             ELSE calls' = Uncounted(p) /\ UNCHANGED stale
          /\ UNCHANGED <<addrOf, static, open, tableVars, mtNew>>

(***************************************************************************)
(* CloseServer: get_server_index, then remove_index                        *)
(***************************************************************************)
IndexOf(a, k) == addrOf[pools[k]] = a /\ \A j \in 1 .. k - 1 : addrOf[pools[j]] # a

Find(p) == /\ pc[p] = "find" /\ ~mtHeld
           /\ \/ \E k \in DOMAIN pools : /\ IndexOf(me[p].want, k)
                                         /\ me' = [me EXCEPT ![p].index = k - 1]
                                         /\ pc' = [pc EXCEPT ![p] = "remove"]
              \/ /\ \A k \in DOMAIN pools : addrOf[pools[k]] # me[p].want
                 /\ Leave(p)
           /\ UNCHANGED <<poolVars, tableVars, mtNew>>

CutServer(p) == /\ pc[p] = "remove" /\ ~mtHeld
                /\ RemoveIndex(me[p].index)
                /\ Leave(p)
                /\ UNCHANGED mtNew

Operation(p) == /\ \/ Check(p) \/ Pick(p) \/ GetAddr(p) \/ New(p) \/ Make(p) \/ Push(p)
                   \/ Count(p) \/ Use(p) \/ End(p) \/ Find(p) \/ CutServer(p)
                /\ UNCHANGED ops

-----------------------------------------------------------------------------
(***************************************************************************)
(* loop_check_idle_time_out_pool and remove_idle_time_out                  *)
(***************************************************************************)
MutFirstIndex == 1                             \* mutant: off by one
FirstIndex == 0

IdleTick == /\ idlePc = "select"
            /\ idlePc' = "get" /\ idleI' = FirstIndex
            /\ UNCHANGED <<poolVars, tableVars, panicked>>

\* get_index compares i with the length under the read lock ...
IdleGet == /\ idlePc = "get" /\ ~mtHeld
           /\ idlePc' = IF idleI < Len(pools) THEN "read" ELSE "select"
           /\ UNCHANGED <<poolVars, tableVars, idleI, panicked>>

Unused(x) == ~static[x] /\ stale[x] /\ calls[x] = 0

\* ... and reads pools[i] after it is released.  Beyond the end, the read
\* panics, or still sees the old slice and whatever pool was there.
IdleRead == /\ idlePc = "read"
            /\ \/ /\ idleI < Len(pools)
                  /\ IF Unused(pools[idleI + 1])
                     THEN idlePc' = "remove" /\ UNCHANGED idleI
                     ELSE idlePc' = "get" /\ idleI' = idleI + 1
                  /\ UNCHANGED panicked
               \/ /\ idleI >= Len(pools)
                  /\ \/ panicked' = TRUE /\ UNCHANGED <<idlePc, idleI>>
                     \/ idlePc' = "remove" /\ UNCHANGED <<idleI, panicked>>
                     \/ idlePc' = "get" /\ idleI' = idleI + 1 /\ UNCHANGED panicked
            /\ UNCHANGED <<poolVars, tableVars>>

IdleRemove == /\ idlePc = "remove" /\ ~mtHeld
              /\ RemoveIndex(idleI)
              /\ idlePc' = "get"
              /\ UNCHANGED <<idleI, panicked>>

(***************************************************************************)
(* Close                                                                   *)
(***************************************************************************)
CloseCall == /\ closePc = "open"
             /\ closePc' = "wait"
             /\ UNCHANGED <<poolVars, tableVars, mtNew, isClosed, mtHeld, idleVars>>

\* mtNew.Lock, mtPool.Lock, isClosed.
CloseLock == /\ closePc = "wait" /\ mtNew = NoOne
             /\ mtNew' = Closer /\ mtHeld' = TRUE /\ isClosed' = TRUE
             /\ closePc' = "exit"
             /\ UNCHANGED <<poolVars, tableVars, idleVars>>

\* chExit <- 1 meets the idle loop in its select; every pool is closed.
CloseExit == /\ closePc = "exit" /\ idlePc = "select"
             /\ idlePc' = "done"
             /\ open' = [x \in Pools |-> open[x] /\ ~Contains(pools, x)]
             /\ pools' = <<>> /\ addr2pool' = [a \in Addrs |-> NoPool]
             /\ mtNew' = NoOne /\ mtHeld' = FALSE
             /\ closePc' = "closed"
             /\ UNCHANGED <<addrOf, static, calls, stale, isClosed, idleI, panicked>>

\* A pool has not been used for idleTimeOut.
Elapse == /\ \E x \in Pools : /\ open[x] /\ ~stale[x]
                              /\ stale' = [stale EXCEPT ![x] = TRUE]
          /\ UNCHANGED <<addrOf, static, open, calls>>

-----------------------------------------------------------------------------
\* NewRpcPools made a static pool for each of its addresses.
Init ==
  /\ pools = First
  /\ addrOf = [x \in Pools |-> IF Contains(First, x)
                               THEN FirstAddr[CHOOSE k \in DOMAIN First : First[k] = x]
                               ELSE CHOOSE a \in Addrs : TRUE]
  /\ addr2pool = [a \in Addrs |-> IF Contains(FirstAddr, a)
                                  THEN First[CHOOSE k \in DOMAIN First : FirstAddr[k] = a]
                                  ELSE NoPool]
  /\ static = [x \in Pools |-> Contains(First, x)]
  /\ open = [x \in Pools |-> Contains(First, x)]
  /\ calls = [x \in Pools |-> 0] /\ stale = [x \in Pools |-> FALSE]
  /\ isClosed = FALSE /\ mtNew = NoOne /\ mtHeld = FALSE
  /\ pc = [p \in Callers |-> "idle"] /\ me = [p \in Callers |-> NoOp] /\ ops = 0
  /\ idlePc = "select" /\ idleI = 0 /\ panicked = FALSE
  /\ closePc = "open"

Caller(p) == /\ ~panicked /\ (Begin(p) \/ Operation(p))
             /\ UNCHANGED <<idleVars, closeVars>>
IdleLoop  == /\ ~panicked /\ (IdleTick \/ IdleGet \/ IdleRead \/ IdleRemove)
             /\ UNCHANGED <<callVars, closeVars, mtNew>>
Close     == /\ ~panicked /\ (CloseCall \/ CloseLock \/ CloseExit)
             /\ UNCHANGED callVars
Time      == /\ ~panicked /\ Elapse
             /\ UNCHANGED <<tableVars, callVars, idleVars, closeVars, mtNew>>

Next == (\E p \in Callers : Caller(p)) \/ IdleLoop \/ Close \/ Time

\* A call of a pool returns; the loop's ticker ticks; mtNew goes to whoever
\* waits for it (sync.RWMutex does not starve); select takes a ready exit.
Fairness == /\ \A p \in Callers : SF_vars(pc[p] # "idle" /\ Caller(p))
            /\ WF_vars(IdleLoop)
            /\ SF_vars(closePc # "open" /\ Close)

Safety == Init /\ [][Next]_vars
Spec == Safety /\ Fairness

-----------------------------------------------------------------------------
(***************************************************************************)
(* Properties                                                              *)
(***************************************************************************)
\* Every variable keeps its type; whoever is past the pick has a pool, and the
\* count of retries stays below RetryTimes.
TypeOK ==
  /\ addrOf \in [Pools -> Addrs]
  /\ static \in [Pools -> BOOLEAN] /\ open \in [Pools -> BOOLEAN] /\ stale \in [Pools -> BOOLEAN]
  /\ calls \in [Pools -> Int]
  /\ pools \in Seq(Pools) /\ addr2pool \in [Addrs -> Pools \cup {NoPool}]
  /\ isClosed \in BOOLEAN /\ mtHeld \in BOOLEAN /\ mtNew \in Callers \cup {NoOne, Closer}
  /\ pc \in [Callers -> {"idle", "check", "pick", "get", "new", "make", "push", "count", "use",
                         "end", "find", "remove"}]
  /\ me \in [Callers -> [op : {"call", "conn", "close"}, want : Addrs \cup {AnyAddr},
                         pool : Pools \cup {NoPool}, fine : BOOLEAN,
                         retry : 0 .. RetryTimes - 1, index : Nat]]
  /\ \A p \in Callers : pc[p] \in {"get", "new", "make", "push", "find"} => me[p].want \in Addrs
  /\ \A p \in Callers : pc[p] \in {"push", "count", "use", "end"} => me[p].pool \in Pools
  /\ ops \in 0 .. MaxOps
  /\ idlePc \in {"select", "get", "read", "remove", "done"} /\ idleI \in Nat
  /\ panicked \in BOOLEAN /\ closePc \in {"open", "wait", "exit", "closed"}

\* The slice and the map hold the same pools, one for each address.
PoolsAgree ==
  /\ \A a \in Addrs : addr2pool[a] # NoPool => Contains(pools, addr2pool[a])
  /\ \A k \in DOMAIN pools : addr2pool[addrOf[pools[k]]] = pools[k]

\* The pool somebody is about to push.
Made == {me[p].pool : p \in {q \in Callers : pc[q] = "push"}}

\* Every open pool can be found, and every pool that can be found is open: none
\* is leaked by a removal, a failed creation or a race of two creations.
OpenListed == \A x \in Pools : open[x] <=> Contains(pools, x) \/ x \in Made

\* Two callers that miss the same address do not both connect to it.
OnePoolPerAddr == \A x, y \in Pools : open[x] /\ open[y] /\ addrOf[x] = addrOf[y] => x = y

\* stpool.call counts the calls in flight, so that 0 means an unused pool.
InFlight(x) == {p \in Callers : /\ me[p].pool = x
                                /\ pc[p] = "use" \/ (pc[p] = "end" /\ me[p].want # AnyAddr)}
CallsExact == \A x \in Pools : calls[x] = Cardinality(InFlight(x))

\* Close leaves no pool behind, and none is made afterwards.
ClosedForGood == closePc = "closed" => \A x \in Pools : ~open[x]

\* A call ends, whatever fails, as long as nobody closes the pools.
CallsReturn == \A p \in Callers : pc[p] # "idle" ~> pc[p] = "idle" \/ closePc # "open" \/ panicked

\* A dynamic pool that nobody uses is removed by the idle loop.
UnusedLeave == \A x \in Pools : Contains(pools, x) /\ Unused(x)
                                ~> ~Contains(pools, x) \/ ~Unused(x) \/ closePc # "open" \/ panicked

\* README.md:77 ends its example with pls.Close(): Close returns.
CloseReturns == closePc = "wait" ~> closePc = "closed" \/ panicked

\* The idle loop removes x in this step.
IdleRemoves(x) == idlePc = "remove" /\ idlePc' = "get" /\ open[x] /\ ~open'[x]

\* pools.go:27: only a dynamic pool is closed because it is idle.  The loop looks
\* at one pool and removes whichever has its index by then; no static pool can
\* have moved there, for those stand before every dynamic one.
IdleSparesStatic == [][\A x \in Pools : IdleRemoves(x) => ~static[x]]_vars
=============================================================================
