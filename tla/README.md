# Specifications of jkfr

jkfr is a Go library on top of go-kit: RPC, gRPC and HTTP clients and servers,
service registration in Consul, connection pools, balancers and retries.  This
directory holds TLA+ specifications of the parts of it that carry state, the
TLC configurations that check them, and TLAPS proofs.

    tlc -workers 2 -config ClientPool_slots.cfg MCClientPool
    tlapm ClientPoolProofs.tla

## The system

| part | state | operations | depends on |
|---|---|---|---|
| connection pool, `gokit/transport/pool/pool.go` | slots `cs`, registered clients `pc2c`, recycle list and its channel, per client: connection, `ref`, `reqTM`, `connTM`, `bDestroy` | `Get`, `Put`, `Close`; goroutines `init_clients`, `loop_remove_idle_time_out_client`, `loop_recycle_clients` | the factory of its options |
| its call wrappers, `pool/rpc/pool.go`, `pool/grpc/pool.go` | none | Get, call, Put GOOD or BAD | connection pool |
| a pool per address, `pool/rpc/pools.go`, `pool/grpc/pools.go` | slice `pools`, map `addr2pool`, call counts, `isClosed`, two locks | `Call`, `CallWithAddr`, `GetServerConn`, `CloseServer`, `Close`; goroutine `loop_check_idle_time_out_pool` | call wrappers |
| timeout codec, `pool/rpc/timeout_codec.go` | requests in order and by sequence number, deadlines, `headerSeq` | `WriteRequest`, `ReadResponseHeader`, `ReadResponseBody` | net/rpc client: one reader, many writers |
| endpoint cache, `gokit/sd` | endpoint per instance, error and its deadline | `Update`, `Endpoints` | Consul instancer, factory |
| balancers, `gokit/utils/lb`; `transport/retry.go` | calls per endpoint | `Endpoint`, retry loop | endpoint cache |
| clients by name, `transport/{rpc,grpc,http}/client.go` | `name2client`, per client: closed parts, actions and their endpoints | Get, Call, GoCall, Registry, Close | retry, pools |
| settings, `transport/{rpc,grpc,http}/*_option.go`, `registry/option.go` | a configuration while it is read | defaults, environment, files, options | |
| servers, `transport/{rpc,grpc,http}/server.go` | listener | `RunServer` | settings, registration |
| registration, `gokit/registry` | Consul client cache, the registering goroutine, the health check server | Register, Deregister | Consul |
| factories, logging, metrics, helpers, demos | none that another part reads back | | |

A client of `transport/rpc` keeps a pool per address (`RpcPools`), which keeps a
connection pool for each server; a call goes through the pick strategy or the
balancer, takes a connection with `Get`, and gives it back with `Put`.  They
share memory under mutexes, signal goroutines over channels, and close each
other's connections.

A client of `transport/*` finds the instances of a service through an endpoint
cache and a balancer; a server registers itself and registers again every hour.

What is hard about it: six kinds of goroutines work on a connection pool, with
three levels of locks, `TryRLock` against `Close`, counters changed outside the
locks, unbuffered exit channels sent on while a lock is held, and connections
that are handed on from slot to recycle list while somebody uses them.
`PROJECT.json` lists each hazard at its line.

What makes each part correct:

* connection pool: what is picked is not about to be closed; the slots and the
  recycle list account for open connections; `ref` tells used clients from unused
  ones; the recycle list is bounded; everybody who enters leaves; `Close` returns
  and closes what is open; the minimum is tended.
* pool per address: slice and map agree, every open pool is in them, one pool an
  address, exact call counts, calls end, an idle pool leaves and no other does,
  `Close` returns and nothing is made after it.
* timeout codec: an answer is never given to another request; a request
  without an answer times out; no deadline is lifted under a pending read.
* endpoint cache: endpoints are those of the last good event, until the
  deadline after an error; each closer is called once.
* balancers, retry: an endpoint's count is that of the calls it has, whenever the
  table is rebuilt; no attempt goes to an instance that had left.
* clients by name: a closed client is not handed out by its name; a miss makes
  one client; a replaced client is closed; every operation ends.
* settings: a stronger source wins over a weaker one, in the documents' order.
* servers, registration: what Consul has is what listens, its check has
  somebody who answers, and a lost registration comes back.

The code does not keep all of it.  Where it does not, either a run refutes the
statement (the minimum, the `Close` of the pools, the order of the registry's
files, reading in step), or the property that is checked says exactly how far it
is kept: a connection put back after it was retired is lost and `Close` leaves it
open (`StrandedByDrop`, `ClosedForGood`), a deadline can be lifted
(`StuckOnlyByLift`), a laggard loses a count (`LostToLaggards`), a client closed
twice by its own name panics (`SequentialSafe`), an operation may lock itself out
of a client's pools (`OperationsEnd`), and the HTTP runner stops listening before
it deregisters (`AnnouncedServed`).

## Modules

| module | what it is |
|---|---|
| `ClientPool` | one connection pool: `Pool`, `clients`, `recycle`, `client`, and the call wrapper |
| `RpcPools` | one connection pool per server address |
| `GrpcPools` | extends `RpcPools` with the pick strategies and the search for a connected pool |
| `RpcExchange` | abstract: what one connection promises each request |
| `TimeoutCodec` | one connection: net/rpc's client, the codec, the socket, a server; implements `RpcExchange` |
| `EndpointCache` | the endpoints of a service under the instancer's events |
| `Balancer` | extends `EndpointCache` with requests: retry, balancer, call |
| `Clients` | the clients of one name in the three `transport` packages |
| `Settings` | operators: the configuration every kind of client and server reads |
| `Service` | servers, registration and Consul, over `Settings` |
| `MC...` | the constants of each for TLC |
| `ClientPoolProofs`, `RpcPoolsProofs`, `GrpcPoolsProofs`, `TimeoutCodecProofs`, `BalancerProofs`, `ClientsProofs`, `ServiceProofs` | TLAPS proofs |
| `ListFacts` | lemmas about lists and numbers the proof modules use |

Every definition names what it translates by its own name or in `PROJECT.json`
`map`.  A definition `MutX` is `X` with a bug; it stands before `X` and nothing
uses it: with `X` replaced by it the property that `mutants` names fails.

### ClientPool

| model | code |
|---|---|
| `st[c]` | `client.Client`, `conn` and `err`: `new` was never dialled (Client nil), `up` connected, `down` closed (Client kept), `failed` (last dial failed, Client nil) |
| `ref`, `bDestroy`, `slotOf`, `age`, `recent` | `ref`, `bDestroy`, `index`, how old `reqTM` is, `connTM` within the second |
| `cs`, `pc2c`, `csIndex`, `initting`, `csClose` | `clients.cs`, `pc2c`, `index`, `initting`, `isClose` |
| `left` | history: what `pc2c` held when `close()` replaced it |
| `li`, `tokens` | `liClients` with `mapClients`, number of items in `chClient` |
| `mtHeld` | `close()` holds `mtClients` while it waits for the recycler |
| `pc[p]`, `held[p]` | where a caller is between `Get` and the end of `Put`, the client it has |
| `Get`, `Connect`, `Fallback`, `PushNew`, `AddRef` | `Pool.Get` and `clients.get` |
| `Call`, `PutGood`, `PutBad`, `PutClosed`, `MoveRecycle`, `ShutUnknown` | `RpcPool.call` and `Pool.Put` |
| `InitStart`, `InitConnect`, `InitPush` | `init_clients`, from `NewPool` and from the reaper |
| `IdleTick`, `IdleCount`, `IdleRemove` | `loop_remove_idle_time_out_client` |
| `RecycleTick` ... `RecycleClose` | `loop_recycle_clients` |
| `CloseCall` ... `CloseExitRecycle` | `Pool.Close` |

Each critical section of a mutex is one step, and so is each access outside one.
That is sound because whatever another goroutine could see of the inside of a
section is guarded by the same mutex; where it is not, the model says so:
`min_get` and `round_get` read counters that change under them, so they choose
by any counts each slot may have had (`Scans`); `clients.index++` runs under a
read lock, so an increment may be lost.  `mtClose` is held for reading by every
caller inside `Get` or `Put` (`Readers`) and taken by `Close`; once `Close`
waits, `TryRLock` fails (`Closing`).  `clients.mtClients` is kept over a wait by
`close()` alone, hence `mtHeld` in the guards of whoever asks for it.

A client object is an identity out of `Clients`; `new_client` takes one nobody
refers to (`Fresh`).  A socket that is open keeps its identity known, so a leak
would show.  The sets in the configurations of `ClientPool` are large enough that
`Free` is never empty; with a smaller one, `Retire` would wait for an identity,
which no code does.  Time is two actions: `Second` lets `connTM` become older than a
second, `Elapse` makes `reqTM` older, up to `MaxAge`, beyond which nothing tells
ages apart.

### RpcPools

A pool is an `stpool` with its connection pool; whether that is connected, and
whether a call succeeds, is a choice, so every pick strategy is the choice of any
pool in the slice.  `mtNew` has an owner since making a pool takes time under it;
`mtPool` is held over a wait by `Close` alone (`mtHeld`).  `get_index` reads the
slice after it gave its lock back: beyond the end the read panics (`panicked`) or
still sees the old array.  `me[p]` is what a caller is at.  Identities of pools are
taken as those of clients are.  Where none is free, `Make` fails, which making a
pool may do anyway: in the run `pools` that happens while a caller still has a pool
that was removed, in the run `grpc` there is a third identity for it.

### GrpcPools

`GRPCPools` keeps the tables, locks, retries, idle loop and `Close` of `RpcPools`
line for line, so the module extends that one and replaces the free choice of a
pool by the code's: `Choose` is the strategy (`RollRead` and `RollWrite` are the
two halves of `index++`, which no lock that excludes callers guards), `ReadIndex`
the argument of `get_index_ex`, `NoPools` an empty slice.  The search, `GetIndexEx`,
is one step for each pool it asks (`AskFirst`, `Ask`, `AskedAll`), since `IsConnected`
takes that pool's own lock and no other: between two answers `Flip` makes a pool
gain its first connection or lose its last.  `mtPool` is held for reading all the
while, so whoever writes the tables waits (`Excluded`).  `steady` is a history: the
pools that have been connected since the scan began.  `index` is a `uint32` and
wraps at `IndexSpan`, in the middle of a search too.

### TimeoutCodec, RpcExchange

`Writer` is `Client.send` of net/rpc with `WriteRequest` inside, `Reader` is
`Client.input` with `ReadResponseHeader` and `ReadResponseBody`.  net/rpc, the
server and the socket are external: a server answers in any order or never, a
write may fail, the socket may break anywhere.  A gob answer is two messages on
the wire, header and body, so a body read for the wrong header is possible; a
JSON answer is one.  The sections of `mtReq` are a step each, but for a writer
that lifts the read deadline: the flag it looked at is set without `mtReq`, so
the look (`SetDeadline`) and the lift (`Lift`) are two.  Time is a request that
grows late, the oldest first, and a near deadline that passes.

`RpcExchange` says what a caller is promised: a request ends once, with its own
reply, with the server's refusal of it, late, unsent, or because the connection
is down.  `Implements == Exchange!Spec` is the refinement, with `asked` mapped to
the sequence numbers given out and `conn` to whether the socket is open.

### EndpointCache, Balancer

go-kit's instancer publishes a list of instances or an error (`Publish`), sends
it over a channel without a buffer (`Deliver`), and the receive goroutine applies
it under `mtx` (`Update`).  The factory makes the endpoints of any part of the
new instances and fails for the rest.  `Deregister` waits while an event is being
sent.  Endpoints are numbered as they are made and never used again, so that an
endpoint closed twice, or offered after it was closed, would show.

`Balancer` adds the requests.  `Endpoints` takes the list under the read lock,
`EndpointsLocked` looks again under the write lock.  The least balancer keeps an
`epCall` object for each endpoint: objects have identities (`Objs`), because a
caller counts down in the one it counted up in, wherever the map leads by then.
`get_least` inserts into that map under the *read* lock; two goroutines inside
it are a concurrent map write, so `Races` may end the program (`fatal`) or go
unnoticed, as in Go.  `old` is a history variable: what had left the list
when an attempt began.

### Clients

One name, used by several goroutines, in each of the three packages, whose functions
differ in the order of their steps: `kind` selects `RpcFirst`, `GrpcFirst` or
`HttpFirst` and the order of `Parts` a `Close` goes through.  `closing` is the stack
of clients whose `Close` has not returned: in grpc `client.Close()` calls
`Close(name)`, which calls a client's `Close()`.  What the code does not guard is
two steps (`Closing` and `Mark` of `isClose`), or may end the program (`Chain`, the
map `a2c`; `CloseDisco`, a channel closed twice), which `dead` records.  The `Close`
of a client's pools returns or locks itself out, as the run `pools_close` shows
(`ClosePools`): then the operation is `stuck` for good, and so is every later call
through those pools (`hung`).  `overlapped`, `unsettled` and `direct` are histories
the properties need to say what may be expected of programs that do, or do not,
close and replace clients at once.

### Settings, Service

`Settings` holds operators only.  A source is a function from fields to values;
`Overlay` lays it over what is there, `Readable` leaves out of the environment what
does not read as a number or a flag, each kind's `...Option` does what its option
functions do (replace, add, read a certificate file, reject), and `New...Config`
puts them in the code's order.  The header of an http client is a field for each
key: a file adds keys, an option replaces all of them (`WholeHeader`).  What a
source says of the grpc library becomes options of that library, in a list
(`LibraryOps`); an option may be made of several settings (`Parts`), is made when
the source gives one that asks for it (`Asks`), and then has this source's zeros for
the others (`Setting`).  `Service` evaluates them in `Load`, keeps the addresses
(`Run`), and then runs `RunServer`, for rpc with the runner of its settings
(`at.run`: who accepts tcp connections himself leaves the listener open when he
returns, net/http closes it, `Stop`), and `RegistryServer` step by step with
`MakeConsulClient`, the one health check server of the process (`HealthCheck`,
`MakeServer`, `ListenAndServe`, `Waited`) and the goroutine of `do_register`
(`Register`, `Wake`).  Consul is external: a registration may fail, and `Lose`
forgets one (of the deregistration of another service, `registry.go:99` says: the
health check goes, and with it the news of an outage).

## Runs

| run | bounds | shows |
|---|---|---|
| `slots` | 2 slots (InitCap 1), 2 callers, 2 Gets, 1 reaper tick, dials and closes may fail | `TypeOK`, `SlotsApart`, `SlotsRegistered`, `RefCoversHolders`, `ClosedForGood`, `StrandedByDrop` |
| `progress` | 1 slot, 2 callers, 2 Gets, 1 tick, `chClient` of 1, round-robin pick, dials succeed | `RecycleBounded`, `RefExact`, `CallersLeave`, `CloseReturns`, `RetiredLeave` |
| `pools` | 2 addresses, 1 static pool, 2 identities, 2 callers, 2 operations, 2 attempts | `PoolsAgree`, `OpenListed`, `CallsExact`, `ClosedForGood`, `CallsReturn`, `UnusedLeave` |
| `grpc` | 3 identities, 2 addresses, 1 static pool, 2 callers, 2 operations, index wraps at 3 | `OnePoolPerAddr`, `Safety` (every behaviour is one of `RpcPools`), `PicksConnected` |
| `codec` | 2 requests, gob and JSON | `PendingExact`, `SentInSync`, `Implements`, `StuckOnlyByLift` |
| `discovery` | 2 instances, 3 endpoints made, 2 events after the first, 2 callers, 2 requests of 2 tries; least and random | `OpenIffOffered`, `CallsCounted`, `NoCallToDeparted`, `LostToLaggards`, `RestoredKept`, `Resumes` |
| `clients` | 2 goroutines, 4 operations, 3 clients, a channel of 1; the three packages | `ClosedNotServed`, `OneClientMade`, `SequentialSafe`, `OperationsEnd` |
| `service` | each field alone, from every subset of its sources and up to two options, among them ones that name files; a setting of the grpc library, zero in some of its sources, with files and lists of the library's own as options; two settings of one option, and two keys of the header, in every part of their sources; pairs of 12 programs with addresses; 1 failed and 2 lost registrations | `LastSourceWins`, `AddressFixed`, `AnnouncedServed`, `CheckAnswered`, `StaysRegistered` |

and the runs whose property the code does not keep, each with its finding in
`PROJECT.json`:

| run | what it shows |
|---|---|
| `minimum` | a dial that fails ends every later pass of `init_clients` before it begins: the minimum `docs/rpc/client配置参数.md:193` speaks of is not restored |
| `pools_close` | `RpcPools.Close` sends to the idle loop under the lock the loop waits for |
| `codec_sync` | a write that fails takes its request out of the list after the reader answered it as late and before it looks there again: a body is read that is not on the wire |
| `registry` | a field that `registry.json` and `registry.toml` both give has the value of toml, where `docs/register/配置参数.md:3` says json |

Bounds.  `MaxGets`, `MaxTicks`, `MaxOps`, `MaxReq`, `MaxEvents`, `MaxRequests`,
`MaxFails` and `MaxLosses` bound how much is begun, everything begun runs to its
end.  Two callers make every race of two operations.  Two slots tell the InitCap
region from the rest and a slot from its neighbour.  `MinGetMax` stands for the
literal 100 that chooses between `min_get` and `round_get`: either side of it is
run.  An index span of 3 and a slice of 2 make the sum of a search wrap.  Two
requests on a connection are one that is late and one whose answer is read in
its place.  Three endpoints over two instances let an instance leave, come back
with a new endpoint, and a third come while both are listed; two tries let a
request see the list before and after an event.  Four operations let a client be
registered, replaced, closed and asked for again.  Pairs of services meet in the
map of Consul clients, the health check server and the addresses; a field's
value depends on no other field but the certificate's name, hence fields one at
a time.  The sampling of lists longer than `LEAST_ROUND_MAX` is in the modules
and in the proofs, not in the runs, whose lists are shorter.  The coverage TLC
prints was read to see that every action and every branch happens.

Symmetry is over callers alone, which no formula names, and only in runs of safety
properties.  `VIEW` leaves out the fields of identities that nobody refers to:
they are reset before they are read again, so states that differ in them behave
alike.  The runs with liveness properties use neither.

Deadlock is checked in the `ClientPool` runs: `Finished` is the one state in
which the pool may stop.  It is not in the others, where the bounded program
really stops: nothing is left to begin, or it stops in the middle by the
deadlock of `pools_close`, a panic, a fatal error of the runtime, or an answer
nobody takes from a full channel.

Fairness.  A goroutine that can go on does, and nobody has to begin anything.

* `ClientPool`: weak fairness of callers inside the pool, `init_clients`, the
  reaper, the recycler, `Close` once called.  A call returns, because it waits
  with a timeout; tickers tick and time passes.  `select` chooses among ready
  cases at random, so one that is ready again and again is taken some time:
  strong fairness of the exit of the reaper and the recycler.
* `RpcPools`: a `sync.RWMutex` does not starve a waiter: strong fairness of the
  callers and of `Close`.
* `TimeoutCodec`: weak fairness of the writer that has begun and of the reader; a
  deadline that is near and that nobody moves passes.  Nothing of the server.
* `Balancer`: weak fairness of the receive goroutine and of the instancer that
  has an event to send.  Nothing of the callers.
* `Clients`: strong fairness of each goroutine's work, since a mutex that is free
  over and over is got at last.  `Receive` has none: a program need not read.
* `Service`: weak fairness of the goroutine of `do_register`.  It wakes by a timer,
  and a registration that fails is tried again.  That failures end is `MaxFails`;
  a Consul that never answers keeps no promise of the code.

## Proofs

Every theorem is of all values of the constants that satisfy the assumptions of
its module: any number of clients, callers, slots, pools, addresses, requests,
instances, endpoints, goroutines and services.

`ClientPoolProofs`, about `ClientPool`:

* `TypeCorrect`: `Spec => []TypeOK`.  Inductive as it stands; one lemma for each
  goroutine, over lemmas for `Push`, `RecyclePush`, `Retire` and the dials.
* `SlotsStayApart`: `[]SlotsApart`.  A step can break it only by pushing a client
  to the recycle list or by changing a slot, both in `Retire`: the client it pushes
  knows its slot and is replaced there by one that is nowhere else.
* `RecycleListBounded`: `[]RecycleBounded`.  Every `push` adds an element and a
  token or neither; every token taken is accounted for by `Sweeping` until the
  recycler has compared the list's length with `MaxCap`.
* `RefsCoverHolders`: `[]RefCoversHolders`, from the same types: each step that
  makes a holder raises `ref`, and none lowers it without unmaking one.
* `StrandedOnlyByDrop`: `Spec => StrandedByDrop`, an action property.  A connection
  nobody holds and nothing lists has just been let go of or has just lost its place;
  `RetireStrands` shows that a retirement lists what it takes out of a slot, unless
  the client retired was in no slot, which is the case the property speaks of.
* `SlotsAreRegistered`: `[]SlotsRegistered`, from `InCustody` (an open connection is in
  `pc2c`, on the list, thrown away by `close()`, or in the hands of a caller between
  its dial and `push`, of `init_clients` there, or of the recycler between `remove`
  and `Close`), `SlotsApart` and `RecycledApart`: a slot's connection is not on the
  list, and it is not the recycler's, hence registered or about to be.
* `ClosedStayClosed`: `[]ClosedForGood`, whatever fails.  `CloseOrder` says what each
  step of `Close` has behind it: its lock keeps callers out, the reaper and the
  recycler have gone.  `Destroyed` says that the slots have `bDestroy` from then on,
  but for those behind a `Destroy` that failed, so that `init_clients`, which may
  still run, dials none for good: what it dials before, its `push` closes.
* `RefsAreExact`: `~DialMayFail => (Spec => []RefExact)`.  `Dialled`: nobody is
  destroyed before Close, so that whoever got a client got it connected and `Put`
  finds it.  The hypothesis is needed: after a failed dial `Put` returns before it
  lowers `ref`.

`RpcPoolsProofs`, about `RpcPools`:

* `TypeCorrect`: `Safety => []TypeOK`, over lemmas for the ways a caller moves on
  (`Leave`, `Fail`, `Got`) and for `RemoveIndex`.
* `TablesAgree`, `OpenPoolsListed`, `OnePoolForAddr`, `ClosedStaysClosed`:
  `[]PoolsAgree`, `[]OpenListed`, `[]OnePoolPerAddr`, `[]ClosedForGood`, all from
  one invariant, `Tables`.  `OnePoolPerAddr` is not inductive: a pool is opened in
  `Make`, steps after `New` saw that its address has none.  `Making` carries that
  over: whoever makes or pushes a pool owns mtNew, its address still has no entry,
  and the pools are not closed.  Nobody else can then add an entry, Close cannot
  begin, and `push` never takes its branch for an address that has a pool.
  `Pushing` says the pool on its way has the address asked for and is not static;
  `Distinct` and `Homed`, that slice and map name a pool once, under its own
  address, so a removal from both takes out the same one; `Shutting`, that
  isClosed stands from the moment Close has its locks and the slice stays empty.
* `IdleLoopSparesStatic`: `IdleSparesStatic`, an action property.  The idle loop
  removes whichever pool has the index it read; static pools stand before every
  dynamic one (`StaticFirst`), and every pool from that index on is dynamic
  (`Doomed`), since removals move pools to lower indices only.
* `CallsCounted`: `[]CallsExact`.  Each caller adds to the set of calls in flight,
  and to the count, once, and takes itself out once, in `Use` or in `End`.

`GrpcPoolsProofs`, about `GrpcPools`, for any span of the index:

* `GrpcImplementsRpc`: `GSafety => Safety`.  `GetIndexEx` picks a pool of the
  slice whatever `index` has become, for both sums are taken modulo the length
  of the slice; every other step is a step of `RpcPools` or leaves it alone.
* `GrpcInherits`: so `PoolsAgree`, `OpenListed`, `OnePoolPerAddr`, `CallsExact`
  and `ClosedForGood` hold of the gRPC pools.
* `ConnectedIsPicked`: `GSafety => PicksConnected`.  A scan that does not wrap adds
  0 to n - 1 to where it began and meets every index modulo n (`ScanMeetsAll`).  The
  invariant `PassedInv` says that no pool the scan has passed is among those that
  have been connected ever since, so that a scan that asked all ends at a pool without
  a connection only if there is no such pool.  The slice stays as it is meanwhile
  (`ScanHolds`, `RestKeepsPassed`).

`TimeoutCodecProofs`, about `TimeoutCodec`, with gob and with JSON:

* `KeepsPromise`: `Safety => Implements`, so no call ends twice or with what
  another request was answered, though the stream can get out of step
  (`ReadInSync` is refuted).  The invariant is `Kept`: nobody ends a call that waits
  (`Waiting`); what a header on the wire says is what the server answered, and its
  body follows it or is sent next (`Wired`); once the reader has the header, the
  body is next on the wire (`Fetched`); and the call it took waits for nobody else
  and is told what it may be told (`Taken`).  A late answer is safe by `Wired` and
  `Fetched`: a header that `getTimeoutRequest` made has no body, and a body read
  for nobody ends no call.
* `PendingIsExact`: `[]PendingExact`, from `Listing`: the list has no duplicates, a
  writer's request is in it but at four places (`Unlisted`), and what is listed
  waits but for the one the reader is just removing.
* `InSyncIfSent`: `[]SentInSync`, from `Sync`, which holds as long as no write has
  failed: where the reader is, what it has in `cur`, and what is next on the wire
  (`InStep`) fit.  A late request needs most of it: its own header is still to
  come, and is the one that finds nobody (`InTurn`, `OwnKnown`, `OwnTaken`).

`BalancerProofs`, about `EndpointCache` and `Balancer`:

* `OpenAsLongAsOffered`: `[]OpenIffOffered`, with `CacheInv`: endpoints are
  numbered in the order they are made, and two instances share none, so what an
  update closes is in nobody else's entry.
* `CallsAreCounted`: `[]CallsCounted`, from `Counted`: the count of every object
  that the map or a caller refers to (`Held`) is the size of `Running`.  An object
  taken for a new entry is one nobody refers to, and there is always one
  (`ObjectsCounted`: one for each endpoint and caller).  That counts are not
  negative follows, and is not assumed.
* `DepartedNotCalled`: `[]NoCallToDeparted`, from `Departed`: what had left before
  an attempt is neither in the list of endpoints, to which only new numbers are
  added (`ListGrowsByNew`), nor in the list the attempt took.
* `LostOnlyToLaggards`, `RestoredIsKept`: the action properties `LostToLaggards` and
  `RestoredKept`.  The first needs `Counted`: an object with a running call has a
  count above zero, which a reset keeps if the endpoint is in the caller's list; and
  `Departed`: an endpoint on offer that is not in that list was made after the attempt
  began, since what had left by then does not come back.

`ClientsProofs`, about `Clients`, in the three packages:

* `TypeCorrect`, with what the work of a goroutine looks like at each place.
* `NoClosedClientServed` (`[]ClosedNotServed`), from the invariant `Served`:
  clients are numbered as they are made (`Known`), nobody else knows a client that
  is not registered yet (`Alone`), and what is being closed has left the map and
  nothing will bring it back (`Leaving`).  `Alone` is why the last part is
  inductive: without it a goroutine could register a client somebody closes.
* `MissesMakeOne` (`[]OneClientMade`), from `Single`: as long as nothing was closed
  or registered over another, whoever is past the second look under the lock owns
  `mtNew` and the name is still free (`Own`), so what it makes is the first.
* `OneAfterTheOther` (`[]SequentialSafe`), from `InOrder`: as long as nothing has
  overlapped, one goroutine at most works (`Lone`), and until a client of rpc or
  http that the program closed by its own Close is closed again, which ends the
  program, its place says which client has which parts closed (`Way`), every other
  client made is served or wholly closed (`Covered`), and a mark of `isClose` means
  closed parts (`Marked`).  grpc's `Close` is entered twice, by name and by client,
  and `Way` says which of the two is on the stack.

`ServiceProofs`, about `Service`:

* `ChecksAreAnswered`: `NoAddrApart => (Spec => []CheckAnswered)`.  `OneInDo` is what
  `sync.Once` gives: one service at most is in its function, and the server was
  started before it returns; `AfterDo`, that a service without a port comes to
  `Register` only then; `Checked` keeps what Consul was told equal to the address,
  which is set once.  `NoAddrApart` says that the model value for no address is not
  a record; TLC cannot evaluate it as an assumption, since it ranges over all
  values.
* `AddressIsFixed` and `AnnouncedIsServed`: `[]AddressFixed` and
  `[]AnnouncedServed`, both from `AddrInv`.  It says what the settings are when they
  have been read (`Ready`), what later steps have of them (`Settled`), and that an
  rpc server listens from the step after `Listen` for as long as it serves, and with
  the tcp runner until it has deregistered (`Heard`, `Listens`).  `Load` is where
  the work is: it folds over sources and options, as many as the program has.  A
  fold of the library is a `CHOOSE`; `FoldExists` shows by induction that there is a
  function to choose, and `FoldSteps` gives what it does to each element in turn.
  Each step keeps the settings `Sound` (`ApplySound`: the registry's options are
  still a list, and an address nobody gives is still empty), hence the whole fold
  does (`StepsSound`), and at its end `ResetServerAddr` makes one address both
  (`FinalSound`); and a fold whose last element sets the address ends with that
  address, whatever the others were (`LastOptionFixes`).  From `ProgramsAssumption`:
  options are lists, and no file has a field `RegOps`, `GRPCDialOps` or
  `GRPCSvrOps`, which are tagged `json:"-" toml:"-"`; and `AddrsAssumption`: no
  address is the model value for none.  The theorem counts an address that a program
  gives by a file it names in an option as given: with two different ones it may
  listen at another than it announces.

* `LastSourceIsRight`: `[]LastSourceWins`, from `LoadedInv`: a service that is loaded
  has the settings that `NewConfig` and `GetConfig` read for its program.  What they
  read is looked at once more as the folds they are.  `Said` is what one source or
  option does to one field, and `ApplyTells` shows, for every source and every kind
  of option, that the code does just that: an option that is not accepted says
  nothing, one that names a file says what the file has.  A value that changes so,
  step by step, is in the end what was said last (`LastWins`, by induction over the
  steps); `SettingWins` puts environment, files and options behind one another
  (`Follow`), and `ConfigTells` states it of each kind of client and server.  For
  the registry (`RegistryTells`) there is one more turn: a grpc client hands its
  files to the registry as options, which come after the registry's own files
  (`FilesAreOptions`).  For the grpc library (`LibraryTells`) what is followed is
  not the list of options but what the library makes of it: `InLibraryConcat` says
  what a list with another behind it means, `InLibraryOps` that a source becomes the
  options it asks for, each with all its parts.  What the theorem calls strongest is
  the documents' order for clients and servers; for the registry's two files it is
  the code's, which `DocumentedOrder` shows to be another.  Every step of it needs that
  the lists are lists, which is `Sound` again, and the assumption is
  `ProgramsAssumption` again.

`ListFacts` holds what several of these need to know of `Append`, `RemoveAt` and
sublists of lists without duplicates, and induction over the numbers.  The
library's induction theorems have a predicate as a parameter, which the provers
cannot instantiate; `NatSetInduction` has a set in its place, and follows from
`WFMin`: a set of numbers that is not empty has a least one.

Model-checked only:

* Liveness, which is out of the prover's reach with `ENABLED`: `CallersLeave`,
  `CloseReturns`, `RetiredLeave`, `CallsReturn`, `UnusedLeave`, `StuckOnlyByLift`,
  `Resumes`, `OperationsEnd`, `StaysRegistered`.

## Seen on the way

Behaviour of the code that no run is about, mostly because no document promises
otherwise.  The models have it where it changes their state.

Connection pool (`pool.go`):

* `Get` assigns `get_one_valid_client`'s result to a shadowed variable (:389):
  after a failed dial the caller gets the client without a connection.
* A client dialled again while it is on the recycle list, without success, is
  never taken off: `remove` (:237) returns early when its `Client` is nil; the
  recycler spins, and `Close` waits for it.  `RetiredLeave` and `CloseReturns` are
  checked while dials succeed.
* A caller whose client another one retires may dial it again after the recycler has
  closed it (more than a second later) and put it back GOOD: it is open, in `pc2c`
  alone, and nobody closes it, neither the reaper nor `close()`, which walks `cs` and
  throws `pc2c` away (:606-612).  Put back BAD it is retired once more, and the client
  its slot has by then loses its place.  `StrandedByDrop` says that there is no other
  way, `ClosedForGood` what `Close` leaves of it.
* `close()` (:606-611) breaks at the first `Destroy` that fails: the connections of
  later slots stay open, as `ClosedForGood` says.
* A retired client's connection stays open on the recycle list while its slot
  dials a new one: open connections exceed `MaxCap`.
* The recycler closes a client whose requests are older than the two timeouts,
  in use or not (:295).

Pools by address (`pools.go`):

* `CloseServer` and the idle loop can each shift the slice under the other; a
  pool of another address, or one in use (`rpc/pools.go:656`), may be closed, and
  `get_index` may read beyond the end.
* The gRPC index wraps in the middle of a search, which then looks at a pool
  twice and at another not at all: `PicksConnected` excepts that.

Timeout codec:

* A writer that saw `isReadingBody` unset may put the read deadline 365 days off
  after the reader set it near, which the comment at `timeout_codec.go:212`
  forbids: `StuckOnlyByLift` has that as the one case in which a call waits.
* Every new request moves the deadline of those that wait already (:209): with a
  steady flow to a silent server no call ends.  The runs have `MaxReq` requests, so
  that the flow ends.
* A body whose encoding fails leaves its header in `EncBuf` (`codec.go:72`): the
  next request sends it along.
* `CallWithTimeOut` (`rpc/pool.go:57`) calls again with the same `reply`, which a
  late answer may still be written to.

Endpoints and balancers:

* `least.go:102` writes a map under the read lock: the runtime may end the
  program.  A count is raised when a call begins, not when its endpoint is
  picked, so that callers that pick together pick the same one.
* A reset from a list older than an endpoint forgets the count of its running calls
  (`LostToLaggards`).
* `Endpointer.Close` closes no cached endpoint; the repository's factories return
  nil closers, so that nothing leaks yet.
* `RetryError.Final` is not set when the last failure was the balancer's.

Clients by name:

* rpc and http: `client.Close()` and then `Close(name)`, one after the other, close
  the endpointer's channel twice: a panic.  So do two `Close(name)` at once.
  `isClose` is read and written without a lock.
* Where the `Close` of its pools locks itself out (`rpc/pools.go:291`), `Close(name)`
  and the `Registry...Client` that replaces a client never return, nor does a later
  call through those pools.
* `Close` in the middle of `RegistryClient`, and a `Get` that saves over a client
  registered meanwhile, leave a client nobody can close.
* grpc: `Close` of an old client closes the one that has its name by now.
  rpc and http: a client's own `Close` leaves it registered and served.  http:
  `RegistryClient` never closes the client it replaces.
* The same client registered twice is closed and then served.
* The first calls of actions write `a2c` unguarded (http's `ServeHTTP` calls
  `Chain` for each request).
* `GoCall` of a client that is missing returns a call whose `Done` is nil; rpc's
  goroutine waits for a reader of the channel for good, where grpc drops.

Settings, servers, registration:

* `WaitTime` is overwritten by Consul's default (`registry.go:173`, against `:168`
  and `docs/register/配置参数.md:3`).
* Names of certificate files in a configuration file do not load them; the
  environment's `S_CLIENT_KEY_FILE` is read into `ClientPemFile`.
* gRPC: a zero or false from a stronger source does not switch a setting off.  An
  option made of several settings (keepalive, compressor) has zeros for those the
  source that asks for it does not give, whatever weaker ones say
  (`grpc/client_option.go:185-205`, `server_option.go:164-188`).  A server adds
  `WriteBufferSize` twice and never `MaxSendMsgSize`.
* `HealthCheckBindAddr` is read and not used.
* The map of Consul clients has the address alone as its key.  `RegistryServer`
  logs a nil configuration after an error of `NewClient`, and panics.
* `do_register` never stops: a service deregistered comes back within the hour,
  and its first `Register` may come after its `Deregister`.
* The health check server's port is probed, closed, and listened at later.
* grpc and http register before they listen, and close their listener before they
  deregister, and so does rpc with the HTTP runner (`server_fatory.go:45`): Consul
  has a server for a moment that does not listen.  `AnnouncedServed` is about rpc.

## Abstractions

Time is never a number: what is old, late or expired is an action that may happen or
not.  A pool's pick in `RpcPools` is any pool, and so is the random balancer's.
`min_get`, `round_get` and the least balancer look at counts one after another while
they change; `ClientPool` lets them see any counts there were, `Balancer` those of
one moment.  `Clients` has one name, `Service` one Consul agent.  A compressor's
level is one that gzip has or one that it has not, two keys stand for all of a
header's, `MaxMsgSize` and `MaxRecvMsgSize` are two settings though the library has
one for both, and the files that `C_`, `S_` and `R_` `CONFIG_PATH` name are one.  An
event lists each instance once, as Consul does.

## Plan

Every safety property the passing runs check is a theorem, `RefExact` where dials
succeed.  What would come next is
an abstract pool (lease a connection, give it back, close) that `ClientPool`
implements, and `RpcPools` over it.

## Not modelled

Connection factories and TLS, the serving of one connection (`rpc.Server`), the
random number generator, logging, metrics, demo programs and generated code:
they are I/O, library glue or stateless, and `PROJECT.json` gives the reason for
each.  `gokit/prometheus` serves its metrics from a goroutine and registers them as a
service of its own; the registration is the `registrar` of `Service`, the rest is left
out.  Of the helpers, `ResolveAddr` and `ConnWithResolve` ask the name service
and no code of the library uses them.  Of the middlewares, the rate limiter only
delays.
