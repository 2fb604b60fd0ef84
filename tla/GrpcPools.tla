------------------------------ MODULE GrpcPools ------------------------------
(***************************************************************************)
(* GRPCPools of pool/grpc/pools.go.  It keeps the tables, locks, retries,  *)
(* idle loop and Close of RpcPools, and this module extends that one; what *)
(* it adds is how a call picks its pool: by a counter, at random, or the   *)
(* least used, and then, in another section of mtPool, the first connected *)
(* pool from there.  index belongs to all callers and is not under a lock  *)
(* that excludes them.                                                     *)
(***************************************************************************)
EXTENDS RpcPools

CONSTANTS
  IndexSpan,    \* 2^32: index is a uint32
  LeastRoundMax \* LEAST_ROUND_MAX: in a longer slice only a sample is compared

ASSUME IndexAssumption == IndexSpan \in Nat \ {0} /\ LeastRoundMax \in Nat

VARIABLES
  strategy,     \* GRPCPools.strategy
  index,        \* GRPCPools.index
  connected,    \* pools with a valid connection (IsConnected)
  at, tmp,      \* how far each caller is with its pick, and the index it read
  scanned,      \* how many pools its scan has asked
  steady        \* history: the pools connected ever since its scan began

scanVars == <<scanned, steady>>
pickVars == <<strategy, index, connected, at, tmp, scanVars>>
gvars == <<vars, pickVars>>

-----------------------------------------------------------------------------
(***************************************************************************)
(* SetStrategy's get_pool                                                  *)
(***************************************************************************)
Step(p, from, to) == at[p] = from /\ at' = [at EXCEPT ![p] = to]

\* roll_get: index++ is a read and a write.
RollRead(p) == /\ strategy = "round" /\ Step(p, "no", "rolled")
               /\ tmp' = [tmp EXCEPT ![p] = index]
               /\ UNCHANGED index
PlusOne(n) == (n + 1) % IndexSpan
RollWrite(p) == /\ Step(p, "rolled", "chosen")
                /\ index' = PlusOne(tmp[p])
                /\ UNCHANGED tmp

\* random_get
Draw(p) == /\ strategy = "random" /\ Step(p, "no", "chosen")
           /\ index' \in 0 .. IndexSpan - 1
           /\ UNCHANGED tmp

\* least_get compares the counts of all pools, from a random one on, or those
\* of a random sample.
Leasts == {k \in DOMAIN pools : \A j \in DOMAIN pools : calls[pools[k]] <= calls[pools[j]]}
Compared == IF Len(pools) <= LeastRoundMax THEN Leasts ELSE DOMAIN pools

Least(p) == /\ strategy = "least" /\ ~mtHeld /\ pools # <<>>
            /\ Step(p, "no", "chosen")
            /\ \E k \in Compared : index' = k - 1
            /\ UNCHANGED tmp

\* The argument of get_index_ex: index as it is by now.
ReadIndex(p) == /\ Step(p, "chosen", "asked")
                /\ tmp' = [tmp EXCEPT ![p] = index]
                /\ UNCHANGED index

Choose(p) == /\ pc[p] = "pick"
             /\ RollRead(p) \/ RollWrite(p) \/ Draw(p) \/ Least(p) \/ ReadIndex(p)
             /\ UNCHANGED <<vars, strategy, connected, scanVars>>

(***************************************************************************)
(* get_index_ex.  It holds mtPool for reading to the end, so that nobody   *)
(* changes the slice meanwhile; but it asks pool by pool, each under that  *)
(* pool's own lock, and connections come and go between two answers.       *)
(***************************************************************************)
\* The i-th pool the scan looks at; both sums are uint32s.
Seen(p, i) == ((tmp[p] + i) % IndexSpan) % Len(pools)
Nth(p, i)  == pools[Seen(p, i) + 1]

MutReadLocked == TRUE                          \* mutant: mtPool is not taken
ReadLocked == ~mtHeld

\* p's pick ends with pool x.
Picked(p, x) == /\ Got(p, x)
                /\ at' = [at EXCEPT ![p] = "no"] /\ tmp' = [tmp EXCEPT ![p] = 0]
                /\ scanned' = [scanned EXCEPT ![p] = 0]
                /\ steady' = [steady EXCEPT ![p] = {}]

\* The pool at index, if it is connected; if not, the scan begins.
AskFirst(p) ==
  /\ at[p] = "asked" /\ ReadLocked /\ pools # <<>>
  /\ \/ Nth(p, 0) \in connected /\ Picked(p, Nth(p, 0))
     \/ /\ Nth(p, 0) \notin connected
        /\ at' = [at EXCEPT ![p] = "scan"]
        /\ scanned' = [scanned EXCEPT ![p] = 0]
        /\ steady' = [steady EXCEPT ![p] = connected]
        /\ UNCHANGED <<pc, me, tmp>>
  /\ UNCHANGED index

MutScanLength == Len(pools) - 1                \* mutant: the last is not asked
ScanLength == Len(pools)

\* The next pool, from the one at index again.
Ask(p) ==
  /\ at[p] = "scan" /\ scanned[p] < ScanLength
  /\ \/ /\ Nth(p, scanned[p]) \in connected
        /\ Picked(p, Nth(p, scanned[p]))
        /\ index' = Seen(p, scanned[p])
     \/ /\ Nth(p, scanned[p]) \notin connected
        /\ scanned' = [scanned EXCEPT ![p] = @ + 1]
        /\ UNCHANGED <<pc, me, index, at, tmp, steady>>

\* None of them: the pool at index after all.
AskedAll(p) == /\ at[p] = "scan" /\ scanned[p] >= ScanLength
               /\ Picked(p, Nth(p, 0))
               /\ UNCHANGED index

GetIndexEx(p) == /\ pc[p] = "pick"
                 /\ AskFirst(p) \/ Ask(p) \/ AskedAll(p)
                 /\ UNCHANGED <<poolVars, tableVars, mtNew, strategy, connected>>

\* Who writes the tables waits for the scans to end.
Scanning == \E p \in Callers : at[p] = "scan"
Excluded == Scanning => UNCHANGED <<tableVars, mtHeld>>

\* There is no pool: least_get sees it at once, the others in get_index_ex.
NoPools(p) == /\ pc[p] = "pick" /\ ~mtHeld /\ pools = <<>>
              /\ Step(p, IF strategy = "least" THEN "no" ELSE "asked", "no")
                   \/ Step(p, "asked", "no")
              /\ Fail(p)
              /\ tmp' = [tmp EXCEPT ![p] = 0]
              /\ UNCHANGED <<poolVars, tableVars, mtNew, strategy, index, connected, scanVars>>

-----------------------------------------------------------------------------
GInit == /\ Init
         /\ strategy \in {"least", "random", "round"} /\ index = 0
         /\ connected = {x \in Pools : Contains(First, x)}
         /\ at = [p \in Callers |-> "no"] /\ tmp = [p \in Callers |-> 0]
         /\ scanned = [p \in Callers |-> 0] /\ steady = [p \in Callers |-> {}]

StillSteady == steady' = [p \in Callers |-> steady[p] \cap connected']

\* A pool gains its first connection or loses its last; a new one has some.
Flip == /\ ~panicked
        /\ \E x \in Pools : /\ open[x]
                            /\ connected' = IF x \in connected THEN connected \ {x}
                                                               ELSE connected \cup {x}
        /\ StillSteady
        /\ UNCHANGED <<vars, strategy, index, at, tmp, scanned>>
NowConnected == /\ connected' = {x \in Pools : open'[x] /\ (x \in connected \/ ~open[x])}
                /\ StillSteady

\* What is line for line as in RpcPools; gRPC has no GetServerConn.
GBegin(p)      == Begin(p) /\ me'[p].op # "conn"
Attempt(p)     == Check(p)                               \* call_with_func
GetAndPush(p)  == GetAddr(p) \/ New(p) \/ Make(p) \/ Push(p)
UsePool(p)     == Count(p) \/ Use(p) \/ End(p)           \* call, CallWithAddrEx
CloseServer(p) == Find(p) \/ CutServer(p)
Other(p) == Attempt(p) \/ GetAndPush(p) \/ UsePool(p) \/ CloseServer(p)

GCaller(p) ==
  /\ ~panicked
  /\ \/ Choose(p)
     \/ /\ GetIndexEx(p) \/ NoPools(p)
        /\ UNCHANGED <<ops, idleVars, closeVars>>
     \/ /\ GBegin(p) \/ (Other(p) /\ UNCHANGED ops)
        /\ NowConnected /\ Excluded
        /\ UNCHANGED <<idleVars, closeVars, strategy, index, at, tmp, scanned>>

GIdleLoop == IdleLoop
GClose    == Close
GRest == /\ GIdleLoop \/ GClose \/ Time
         /\ NowConnected /\ Excluded
         /\ UNCHANGED <<strategy, index, at, tmp, scanned>>

GNext == (\E p \in Callers : GCaller(p)) \/ GRest \/ Flip

GSafety == GInit /\ [][GNext]_gvars

-----------------------------------------------------------------------------
\* Every variable keeps its type; a caller is somewhere in a pick only while it
\* picks.
GTypeOK == /\ TypeOK
           /\ strategy \in {"least", "random", "round"} /\ index \in 0 .. IndexSpan - 1
           /\ connected \subseteq {x \in Pools : open[x]}
           /\ at \in [Callers -> {"no", "rolled", "chosen", "asked", "scan"}]
           /\ tmp \in [Callers -> 0 .. IndexSpan - 1]
           /\ scanned \in [Callers -> 0 .. Cardinality(Pools)]
           /\ steady \in [Callers -> SUBSET Pools]
           /\ \A p \in Callers : at[p] # "no" => pc[p] = "pick"

\* grpc/pools.go:547 (get_index_ex): a pool that has a connection from the first
\* question of the scan to the last is not passed over for one that has none
\* when it is picked, whatever becomes of the others meanwhile; but it may be
\* when the uint32s wrap in the middle, for they then repeat a pool and miss
\* another.
PicksConnected ==
  [][\A p \in Callers : at[p] \in {"asked", "scan"} /\ pc'[p] = "count" =>
       \/ me'[p].pool \in connected
       \/ at[p] = "scan" /\ \A k \in DOMAIN pools : pools[k] \notin steady[p]
       \/ tmp[p] + Len(pools) > IndexSpan]_gvars
=============================================================================
