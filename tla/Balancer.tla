------------------------------ MODULE Balancer ------------------------------
(***************************************************************************)
(* A request of a client: Retry (transport/retry.go) asks a balancer       *)
(* (utils/lb) for an endpoint and calls it, again and again until one      *)
(* answers.  The least balancer counts the calls of each endpoint in an    *)
(* epCall object, which the map epCalls leads to.  The map may change      *)
(* while the calls run, and get_least adds to it under the READ lock: two  *)
(* goroutines may be in a Go map at once then, one of them writing, which  *)
(* the runtime may notice (it ends the program) or not.                    *)
(***************************************************************************)
EXTENDS EndpointCache

CONSTANTS
  Callers,       \* goroutines that make requests
  Strategies,    \* of "least", "random", "round"
  LeastRoundMax, \* LEAST_ROUND_MAX
  MaxTries,      \* Retry's max
  MaxRequests    \* bound: requests of all callers

ASSUME CallersAssumption == IsFiniteSet(Callers)
ASSUME TriesAssumption   == /\ MaxTries \in Int /\ MaxRequests \in Nat
                            /\ LeastRoundMax \in Nat

NoObj == 0
Objs  == 1 .. MaxMade + Cardinality(Callers)
NoReq == [try |-> 0, eps |-> <<>>, obj |-> NoObj, ep |-> NoEp, old |-> {}]

VARIABLES
  strategy,  \* which balancer
  epCalls,   \* least.epCalls: the epCall object of an endpoint
  call,      \* epCall.call of each object
  lastLen,   \* len(least.eps)
  minute,    \* a minute has passed since pre_check_time
  pc, me,    \* where each caller is, and its request
  requests,  \* requests begun
  fatal      \* the runtime found two goroutines in the map

leastVars == <<epCalls, call, lastLen, minute>>
callVars  == <<strategy, pc, me, requests, fatal>>
vars      == <<cacheVars, chanVars, leastVars, callVars>>

-----------------------------------------------------------------------------
\* Objects nobody refers to; the one that becomes the epCall of e, of those made
\* for the endpoints in E.
Held == {epCalls[e] : e \in Eps} \cup {me[p].obj : p \in Callers}
NewFor(E, e) == Nth(Objs \ Held, Cardinality({x \in E : x <= e}))

Goto(p, to) == pc' = [pc EXCEPT ![p] = to]

(***************************************************************************)
(* RetryWithCallback                                                       *)
(***************************************************************************)
\* The endpoints that left before an attempt are remembered, for a property.
Ask(n) == [NoReq EXCEPT !.try = n, !.old = (1 .. made) \ ToSet(endpoints)]

Begin(p) == /\ pc[p] = "idle" /\ requests < MaxRequests
            /\ requests' = requests + 1
            /\ me' = [me EXCEPT ![p] = Ask(1)]
            /\ Goto(p, "ask")
            /\ UNCHANGED <<cacheVars, chanVars, leastVars, strategy, fatal>>

Return(p) == Goto(p, "idle") /\ me' = [me EXCEPT ![p] = NoReq]

\* An attempt failed: sleep and try again, or give up.
Failed(p) == \/ /\ MaxTries > me[p].try
                /\ me' = [me EXCEPT ![p] = Ask(me[p].try + 1)]
                /\ Goto(p, "ask")
             \/ MaxTries <= me[p].try /\ Return(p)

(***************************************************************************)
(* Endpoints, of the cache, and the head of Endpoint, of the balancer      *)
(***************************************************************************)
Valid == ~err \/ ~expired
MutRecheck == FALSE                            \* mutant: the second look is missing
Recheck == Valid

Taken(p) == IF endpoints = <<>> THEN Failed(p)
            ELSE /\ me' = [me EXCEPT ![p].eps = endpoints]
                 /\ Goto(p, IF strategy = "least" THEN "check" ELSE "choose")

Endpoints(p) == /\ pc[p] = "ask"
                /\ IF Valid THEN Taken(p) ELSE Goto(p, "ask again") /\ UNCHANGED me
                /\ UNCHANGED <<cacheVars, chanVars, leastVars, strategy, requests, fatal>>

\* With the write lock: unless the endpoints are back, they are closed.
EndpointsLocked(p) ==
  /\ pc[p] = "ask again"
  /\ \/ Recheck /\ Taken(p) /\ UNCHANGED cacheVars
     \/ ~Recheck /\ UpdateCache({}) /\ Failed(p) /\ UNCHANGED <<err, expired>>
  /\ UNCHANGED <<chanVars, leastVars, strategy, requests, fatal>>

-----------------------------------------------------------------------------
(***************************************************************************)
(* random.Endpoint, and go-kit's round robin: some endpoint of the list    *)
(***************************************************************************)
Choose(p) == /\ pc[p] = "choose"
             /\ \E k \in DOMAIN me[p].eps : me' = [me EXCEPT ![p].ep = me[p].eps[k], ![p].eps = <<>>]
             /\ Goto(p, "call")
             /\ UNCHANGED <<cacheVars, chanVars, leastVars, strategy, requests, fatal>>

(***************************************************************************)
(* least.Endpoint                                                          *)
(***************************************************************************)
Fresh(p) == lastLen = Len(me[p].eps) /\ ~minute

\* try_reset_endpoints looks under the read lock ...
Check(p) == /\ pc[p] = "check"
            /\ Goto(p, IF Fresh(p) THEN "look" ELSE "reset")
            /\ UNCHANGED <<cacheVars, chanVars, leastVars, strategy, me, requests, fatal>>

\* ... and again under the write lock, which waits for the readers.
Writing == {p \in Callers : pc[p] = "insert"}

MutKeep(E) == {}                               \* mutant: every object is new
Keep(E) == {e \in E : epCalls[e] # NoObj}

Reset(p) ==
  /\ pc[p] = "reset" /\ Writing = {}
  /\ \/ Fresh(p) /\ UNCHANGED leastVars
     \/ /\ ~Fresh(p)
        /\ LET E == ToSet(me[p].eps)  add == E \ Keep(E)
           IN /\ epCalls' = [e \in Eps |-> IF e \in add THEN NewFor(add, e)
                                           ELSE IF e \in E THEN epCalls[e] ELSE NoObj]
              /\ call' = [o \in Objs |-> IF \E e \in add : NewFor(add, e) = o
                                         THEN 0 ELSE call[o]]
        /\ lastLen' = Len(me[p].eps) /\ minute' = FALSE
  /\ Goto(p, "look")
  /\ UNCHANGED <<cacheVars, chanVars, strategy, me, requests, fatal>>

\* get_least: the scan starts anywhere; an endpoint that is not in the map or has
\* no call ends it.  Of a long list a sample is looked at.
MutListedBy(p) == ToSet(me[p].eps) \cup {e \in Eps : epCalls[e] # NoObj}
                                               \* mutant: the map, not the list
ListedBy(p) == ToSet(me[p].eps)

Unknown(p) == {e \in ListedBy(p) : epCalls[e] = NoObj}
Calls(e)   == call[epCalls[e]]
Idle(p)    == {e \in ListedBy(p) \ Unknown(p) : Calls(e) = 0}
Leasts(p)  == {e \in ListedBy(p) : \A x \in ListedBy(p) : Calls(e) <= Calls(x)}
Picks(p)   == IF Len(me[p].eps) > LeastRoundMax THEN ListedBy(p)
              ELSE IF Unknown(p) \cup Idle(p) # {} THEN Unknown(p) \cup Idle(p)
              ELSE Leasts(p)

\* Somebody else is writing the map while p is in it.
Races(p) == Writing \ {p} # {}
Crash(p) == fatal' = TRUE /\ UNCHANGED <<cacheVars, chanVars, leastVars, strategy, pc, me, requests>>

Look(p) == /\ pc[p] = "look"
           /\ \/ Races(p) /\ Crash(p)
              \/ /\ \E e \in Picks(p) :
                      /\ me' = [me EXCEPT ![p].ep = e, ![p].obj = epCalls[e], ![p].eps = <<>>]
                      /\ Goto(p, IF epCalls[e] = NoObj THEN "insert" ELSE "call")
                 /\ UNCHANGED <<cacheVars, chanVars, leastVars, strategy, requests, fatal>>

Insert(p) == /\ pc[p] = "insert"
             /\ \/ Races(p) /\ Crash(p)
                \/ LET e == me[p].ep  o == NewFor({e}, e)
                   IN /\ epCalls' = [epCalls EXCEPT ![e] = o]
                      /\ call' = [call EXCEPT ![o] = 0]
                      /\ me' = [me EXCEPT ![p].obj = o]
                      /\ Goto(p, "call")
                      /\ UNCHANGED <<cacheVars, chanVars, lastLen, minute, strategy,
                                     requests, fatal>>

\* The endpoint that Endpoint returns counts the call in its object.
Enter(p) == /\ pc[p] = "call"
            /\ call' = IF me[p].obj = NoObj THEN call ELSE [call EXCEPT ![me[p].obj] = @ + 1]
            /\ me' = [me EXCEPT ![p].old = {}]
            /\ Goto(p, "in")
            /\ UNCHANGED <<cacheVars, chanVars, epCalls, lastLen, minute, strategy,
                           requests, fatal>>

MutUncount(p, ok) == IF me[p].obj = NoObj \/ ~ok THEN call
                     ELSE [call EXCEPT ![me[p].obj] = @ - 1]
                                               \* mutant: a failed call stays counted
Uncount(p, ok) == IF me[p].obj = NoObj THEN call ELSE [call EXCEPT ![me[p].obj] = @ - 1]

Leave(p) == /\ pc[p] = "in"
            /\ \E ok \in BOOLEAN :
                 /\ call' = Uncount(p, ok)
                 /\ IF ok THEN Return(p) ELSE Failed(p)
            /\ UNCHANGED <<cacheVars, chanVars, epCalls, lastLen, minute, strategy,
                           requests, fatal>>

-----------------------------------------------------------------------------
\* Only somebody at a check can tell that it has.
Minute == /\ ~minute /\ \E p \in Callers : pc[p] = "check"
          /\ minute' = TRUE
          /\ UNCHANGED <<cacheVars, chanVars, epCalls, call, lastLen, callVars>>

Init == /\ CacheInit
        /\ strategy \in Strategies
        /\ epCalls = [e \in Eps |-> NoObj] /\ call = [o \in Objs |-> 0]
        /\ lastLen = 0 /\ minute = FALSE
        /\ pc = [p \in Callers |-> "idle"] /\ me = [p \in Callers |-> NoReq]
        /\ requests = 0 /\ fatal = FALSE

Caller(p) == \/ Endpoints(p) \/ EndpointsLocked(p) \/ Choose(p) \/ Check(p) \/ Reset(p)
             \/ Look(p) \/ Insert(p) \/ Enter(p) \/ Leave(p)

Background == Discover /\ UNCHANGED <<leastVars, callVars>>

\* NewEndpointer has returned before there are requests.
Next == /\ ~fatal
        /\ \/ Background \/ Minute
           \/ \E p \in Callers : (closePc # "new" /\ Begin(p)) \/ Caller(p)

\* The receive goroutine does what it can: the mutex it waits for is not starved.
Fairness == WF_vars(~fatal /\ Background /\ (Deliver \/ Update))

Spec == Init /\ [][Next]_vars /\ Fairness

-----------------------------------------------------------------------------
\* Every variable keeps its type, in both modules.
TypeOK ==
  /\ CacheTypeOK
  /\ strategy \in Strategies
  /\ epCalls \in [Eps -> Objs \cup {NoObj}] /\ call \in [Objs -> Nat]
  /\ lastLen \in Nat /\ minute \in BOOLEAN
  /\ pc \in [Callers -> {"idle", "ask", "ask again", "choose", "check", "reset", "look",
                         "insert", "call", "in"}]
  /\ \A p \in Callers : /\ me[p].try \in Nat /\ me[p].eps \in Seq(Eps)
                        /\ me[p].obj \in Objs \cup {NoObj} /\ me[p].ep \in Eps \cup {NoEp}
  /\ requests \in 0 .. MaxRequests /\ fatal \in BOOLEAN

\* least.go:172-176: an object counts the calls that run through it, whether the
\* map still leads to it or not, so that none goes below zero or stays up.
\* (TypeOK is a part of it.)
CallsCounted ==
  /\ TypeOK
  /\ \A o \in Objs : call[o] = Cardinality({p \in Callers : pc[p] = "in" /\ me[p].obj = o})
                     \/ o \notin Held

\* The map no longer leads to the object in which a running call of an endpoint
\* on offer is counted: the endpoint looks less busy than it is.
CountLost(q) == /\ pc[q] = "in" /\ me[q].obj # NoObj /\ me[q].ep \in ToSet(endpoints)
                /\ epCalls[me[q].ep] = me[q].obj /\ epCalls'[me[q].ep] # me[q].obj

\* p's attempt began before e was made, or p missed e in the map before the
\* object of e that is there now was.
Behind(p, e) == \/ pc[p] = "reset" /\ e \notin ToSet(me[p].eps) \cup me[p].old
                \/ pc[p] = "insert" /\ me[p].ep = e

\* least.go:45, 113: the count of a running call is lost to a caller that is
\* behind, and to no other: neither the map's age nor the departure of other
\* endpoints makes a reset forget it.
LostToLaggards == [][\A q \in Callers : CountLost(q) => \E p \in Callers : Behind(p, me[q].ep)]_vars

\* An attempt that begins after an endpoint has left the list does not call it,
\* however old the balancer's own map and list are.
NoCallToDeparted == \A p \in Callers : pc[p] = "call" => me[p].ep \notin me[p].old

\* endpoint_cache.go:138: a caller that found the error clears the list only if
\* the error still holds when it has the write lock.
RestoredKept ==
  [][\A p \in Callers : pc[p] = "ask again" /\ pc'[p] # "ask again" /\ endpoints' # endpoints
       => err /\ expired]_vars

\* endpointer.go:47-53: once there is an update with the instances, normal
\* operation resumes: the callers get what the registry lists, but for instances
\* whose factory failed.
Resumes == latest # Err ~> \/ latest # Err /\ ~err /\ Cached \subseteq latest
                           \/ latest = Err \/ closePc \notin {"new", "open"} \/ fatal
=============================================================================
