---------------------------- MODULE EndpointCache ----------------------------
(***************************************************************************)
(* The endpoints of a service: endpointCache and DefaultEndpointer of      *)
(* gokit/sd.  The instancer (go-kit's, external) holds its mutex while it  *)
(* sends an event; the receive goroutine applies it under mtx.  What       *)
(* happens under mtx is one step.  Callers read the endpoints in           *)
(* Balancer.tla.                                                           *)
(***************************************************************************)
EXTENDS Integers, FiniteSets, Sequences, SequencesExt

CONSTANTS
  Instances,         \* addresses, numbered in their order
  NoEp,              \* no endpoint
  Err, NoEvent,      \* sd.Event with an error; no event at all
  InvalidateOnError, \* whether the option is given
  MaxMade,           \* bound: endpoints the factory makes
  MaxEvents          \* bound: events published after the first

ASSUME InstancesAssumption == Instances \subseteq Nat /\ IsFiniteSet(Instances)
ASSUME EventsAssumption    == Err # NoEvent /\ \A S \in SUBSET Instances : S \notin {Err, NoEvent}
ASSUME EpsAssumption       == MaxMade \in Nat /\ MaxEvents \in Nat /\ NoEp = 0
ASSUME OptionAssumption    == InvalidateOnError \in BOOLEAN

Eps == 1 .. MaxMade
Lists == {S : S \in SUBSET Instances}
Events == Lists \cup {Err}

VARIABLES
  cache,     \* endpointCache.cache: the endpoint of each instance
  endpoints, \* endpointCache.endpoints
  err,       \* endpointCache.err # nil
  expired,   \* the invalidateDeadline has passed
  made,      \* endpoints made so far
  shut,      \* endpoints whose Closer was called
  recv,      \* what receive is at: NoEvent while it waits
  latest,    \* instancer: its state
  sending,   \* instancer: the event it wants to send, its mutex held
  listed,    \* instancer: ch is registered
  events,    \* how many events were published
  closePc    \* DefaultEndpointer: "new", "open", then Close

cacheVars == <<cache, endpoints, err, expired, made, shut>>
chanVars  == <<recv, latest, sending, listed, events, closePc>>

-----------------------------------------------------------------------------
(***************************************************************************)
(* updateCache                                                             *)
(***************************************************************************)
\* The k-th of a set of numbers.
Nth(T, k) == CHOOSE i \in T : Cardinality({j \in T : j <= i}) = k

Cached == {i \in Instances : cache[i] # NoEp}

MutLeftover(S) == {}                           \* mutant: nothing is closed
Leftover(S) == {cache[i] : i \in Cached \ S}

New(ok, i) == made + Cardinality({k \in ok : k <= i})

\* The factory makes the endpoints of some new instances, and fails for others.
UpdateCache(S) ==
  \E ok \in SUBSET (S \ Cached) :
    /\ made + Cardinality(ok) <= MaxMade
    /\ made' = made + Cardinality(ok)
    /\ cache' = [i \in Instances |-> IF i \in ok THEN New(ok, i)
                                     ELSE IF i \in S THEN cache[i] ELSE NoEp]
    /\ shut' = shut \cup Leftover(S)
    /\ LET present == {i \in S : cache'[i] # NoEp}
       IN endpoints' = [k \in 1 .. Cardinality(present) |-> cache'[Nth(present, k)]]

-----------------------------------------------------------------------------
(***************************************************************************)
(* Update, receive, Close                                                  *)
(***************************************************************************)
MutHappy(S) == UpdateCache(S) /\ UNCHANGED <<err, expired>>
                                               \* mutant: the error stays
Happy(S) == UpdateCache(S) /\ err' = FALSE /\ expired' = FALSE

Sad == /\ IF InvalidateOnError /\ ~err
          THEN err' = TRUE /\ expired' = FALSE
          ELSE UNCHANGED <<err, expired>>
       /\ UNCHANGED <<cache, endpoints, made, shut>>

Update == /\ recv \in Events
          /\ \/ recv = Err /\ Sad
             \/ recv # Err /\ Happy(recv)
          /\ recv' = NoEvent
          /\ UNCHANGED <<latest, sending, listed, events, closePc>>

\* The channel has no buffer.  NewEndpointer returns when the first event, which
\* Register sends, is received.
Deliver == /\ sending # NoEvent /\ recv = NoEvent
           /\ recv' = sending /\ sending' = NoEvent
           /\ closePc' = IF closePc = "new" THEN "open" ELSE closePc
           /\ UNCHANGED <<cacheVars, latest, listed, events>>

\* Another state of the service than before is sent to whoever is registered.
Publish == /\ sending = NoEvent /\ events < MaxEvents
           /\ \E e \in Events \ {latest} :
                /\ latest' = e
                /\ sending' = IF listed THEN e ELSE NoEvent
           /\ events' = events + 1
           /\ UNCHANGED <<cacheVars, recv, listed, closePc>>

Close == /\ closePc = "open"
         /\ closePc' = "deregister"
         /\ UNCHANGED <<cacheVars, recv, latest, sending, listed, events>>

\* Deregister waits for the instancer's mutex, that is until nothing is being sent.
Deregister == /\ closePc = "deregister" /\ sending = NoEvent
              /\ listed' = FALSE
              /\ closePc' = "close"
              /\ UNCHANGED <<cacheVars, recv, latest, sending, events>>

CloseChan == /\ closePc = "close"
             /\ closePc' = "closed"
             /\ UNCHANGED <<cacheVars, recv, latest, sending, listed, events>>

Expire == /\ err /\ ~expired
          /\ expired' = TRUE
          /\ UNCHANGED <<cache, endpoints, err, made, shut, chanVars>>

Discover == Update \/ Deliver \/ Publish \/ Close \/ Deregister \/ CloseChan \/ Expire

CacheInit ==
  /\ cache = [i \in Instances |-> NoEp] /\ endpoints = <<>>
  /\ err = FALSE /\ expired = FALSE /\ made = 0 /\ shut = {}
  /\ recv = NoEvent /\ latest \in Events /\ sending = latest /\ listed = TRUE
  /\ events = 0 /\ closePc = "new"

-----------------------------------------------------------------------------
\* Every variable keeps its type.
CacheTypeOK ==
  /\ cache \in [Instances -> Eps \cup {NoEp}] /\ endpoints \in Seq(Eps)
  /\ err \in BOOLEAN /\ expired \in BOOLEAN
  /\ made \in 0 .. MaxMade /\ shut \subseteq Eps
  /\ recv \in Events \cup {NoEvent} /\ latest \in Events /\ sending \in Events \cup {NoEvent}
  /\ listed \in BOOLEAN /\ events \in 0 .. MaxEvents
  /\ closePc \in {"new", "open", "deregister", "close", "closed"}

\* endpoint_cache.go:45-48: an endpoint made stays in use until its instance
\* disappears and is closed then; none is leaked, none is closed while it is
\* offered or closed twice, and what is offered is what is cached.  (The
\* types of the variables are a part of it.)
OpenIffOffered ==
  /\ CacheTypeOK
  /\ \A e \in 1 .. made : e \in shut <=> \A i \in Instances : cache[i] # e
  /\ ToSet(endpoints) = {cache[i] : i \in Cached}
  /\ Len(endpoints) = Cardinality(Cached)
=============================================================================
