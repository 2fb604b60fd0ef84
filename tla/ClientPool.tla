----------------------------- MODULE ClientPool -----------------------------
(***************************************************************************)
(* The connection pool of gokit/transport/pool/pool.go: Pool, clients,     *)
(* recycle and client, driven by the call wrapper of pool/rpc/pool.go.     *)
(*                                                                         *)
(* A client is a slot's connection holder.  Callers pick a slot, dial it   *)
(* if it is not connected, register it in pc2c, count themselves in ref,   *)
(* use it and put it back; a client put back as BAD leaves its slot and    *)
(* waits on the recycle list for the goroutine that closes it.  Beside the *)
(* callers run init_clients, the idle reaper, the recycler and Close.      *)
(*                                                                         *)
(* Every critical section of clients.mtClients, recycle.mtClients and      *)
(* client.mt is one step.  The lock order is clients.mtClients, then       *)
(* recycle.mtClients, then client.mt, and only Close keeps one of them     *)
(* over a wait (mtHeld).                                                   *)
(***************************************************************************)
EXTENDS Integers, FiniteSets, Sequences, SequencesExt

CONSTANTS
  Clients,      \* identities of client objects (their tags)
  NoClient,     \* the nil client
  FirstClients, \* the clients new_clients puts in the slots
  Callers,      \* goroutines that use the pool
  InitCap,      \* Options.InitCap
  MaxCap,       \* Options.MaxCap
  MinGetMax,    \* above this MaxCap get() takes slots in turn (100 in the code)
  ChCap,        \* capacity of recycle.chClient, min(MaxCap*10, 2000)
  ReqAge,       \* age at which ReadTimeout + WriteTimeout is exceeded
  IdleAge,      \* age at which IdleTimeout is exceeded
  MaxAge,       \* ages saturate here; a zero reqTM is that old
  DialMayFail,  \* whether Options.Factory may return an error
  CloseMayFail, \* whether PoolClient.Close may return an error
  MaxGets,      \* bound: how many times Get is called
  MaxTicks      \* bound: how many times the reaper's ticker fires

ASSUME ClientsAssumption == NoClient \notin Clients
ASSUME CallersAssumption == IsFiniteSet(Callers)
ASSUME CapsAssumption    == /\ InitCap \in Nat /\ MaxCap \in Nat
                            /\ 1 <= InitCap /\ InitCap <= MaxCap
                            /\ MinGetMax \in Nat
                            /\ ChCap \in Nat \ {0}
ASSUME AgesAssumption    == /\ ReqAge \in Nat /\ IdleAge \in Nat /\ MaxAge \in Nat
                            /\ ReqAge <= MaxAge /\ IdleAge <= MaxAge
ASSUME FirstAssumption   == /\ FirstClients \in [0 .. MaxCap - 1 -> Clients]
                            /\ \A i, j \in 0 .. MaxCap - 1 :
                                 FirstClients[i] = FirstClients[j] => i = j
ASSUME BoundsAssumption  == MaxGets \in Nat /\ MaxTicks \in Nat
ASSUME FailAssumption    == DialMayFail \in BOOLEAN /\ CloseMayFail \in BOOLEAN

Slots == 0 .. MaxCap - 1

VARIABLES
  \* the client objects
  st,        \* "new": never dialled; "up": connected; "down": closed;
             \* "failed": the last dial failed (Client and conn nil, err set)
  bDestroy,  \* client.bDestroy
  ref,       \* client.ref
  age,       \* how long ago client.reqTM is
  recent,    \* client.connTM is less than a second ago
  slotOf,    \* client.index
  \* clients
  cs,        \* the slots
  pc2c,      \* the clients registered as connected
  csIndex,   \* clients.index, modulo the number of slots
  initting,  \* clients.initting = 1
  csClose,   \* clients.isClose
  mtHeld,    \* close() holds clients.mtClients
  left,      \* history: the open clients that close() threw away with pc2c
  \* recycle
  li,        \* liClients, in order; mapClients has the same members
  tokens,    \* length of chClient
  \* goroutines
  pc, held, gets,           \* callers: where each is, the client it holds, Gets so far
  phase,                    \* NewPool: "new", then "open" or "failed"
  initPc, initI, initC,     \* init_clients
  initDue,                  \* go init_clients() was executed and has not begun
  idlePc, idleI, ticks,     \* loop_remove_idle_time_out_client
  recPc, recC,              \* loop_recycle_clients
  closePc                   \* Pool.Close

objVars   == <<st, bDestroy, ref, age, recent, slotOf>>
tableVars == <<cs, pc2c, csIndex, csClose, mtHeld, left>>
recVars   == <<li, tokens>>
callVars  == <<pc, held, gets>>
initVars  == <<phase, initting, initPc, initI, initC, initDue>>
idleVars  == <<idlePc, idleI, ticks>>
loopVars  == <<recPc, recC>>
vars == <<objVars, tableVars, recVars, callVars, initVars, idleVars, loopVars, closePc>>

(***************************************************************************)
(* Helpers                                                                 *)
(***************************************************************************)
HasClient(c) == st[c] \in {"up", "down"}       \* c.Client is not nil
InSlots(c)   == \E i \in Slots : cs[i] = c

\* c.Close() on the states s of the clients.
MutCloseIn(s, c) == s                          \* mutant: conn is left open
CloseIn(s, c) == IF s[c] = "up" THEN [s EXCEPT ![c] = "down"] ELSE s

\* Clients some variable of the program refers to, or whose socket is open.
Known == {cs[i] : i \in Slots} \cup pc2c \cup {li[k] : k \in DOMAIN li}
         \cup {held[p] : p \in Callers} \cup {initC, recC}
         \cup {c \in Clients : st[c] = "up"}

\* new_client takes an identity nobody refers to any more.
Free  == Clients \ Known
Fresh == CHOOSE c \in Free : TRUE

Expired(c) == age[c] >= ReqAge
InUse(c)   == ref[c] > 0 /\ ~Expired(c)

\* TryRLock of mtClose fails once Close is waiting for it or has it.
Closing == closePc # "open"

\* The callers that hold mtClose for reading.
Readers == {p \in Callers : pc[p] \notin {"idle", "got", "using", "broken"}}

-----------------------------------------------------------------------------
(***************************************************************************)
(* client.Connect: its three outcomes                                      *)
(***************************************************************************)
\* (false, nil): connected, or dialled within the second without an error.
\* The latter hands out a client that was closed since.
Standing(c) == ~bDestroy[c] /\ (st[c] = "up" \/ (recent[c] /\ st[c] # "failed"))
\* (false, err) without dialling
Refused(c)  == bDestroy[c] \/ (recent[c] /\ st[c] = "failed")
\* a dial; at most one a second
Dials(c)    == ~bDestroy[c] /\ st[c] # "up" /\ ~recent[c]

DialOK(c) == /\ Dials(c)
             /\ st' = [st EXCEPT ![c] = "up"]
             /\ recent' = [recent EXCEPT ![c] = TRUE]
             /\ age' = [age EXCEPT ![c] = 0]
             /\ UNCHANGED <<bDestroy, ref, slotOf>>

DialFails(c) == /\ DialMayFail /\ Dials(c)
                /\ st' = [st EXCEPT ![c] = "failed"]
                /\ recent' = [recent EXCEPT ![c] = TRUE]
                /\ UNCHANGED <<bDestroy, ref, age, slotOf>>

(***************************************************************************)
(* clients.push and the retirement of a client to the recycle list         *)
(***************************************************************************)
MutPush(c) == /\ ~mtHeld                       \* mutant: pc2c is not updated
              /\ UNCHANGED <<objVars, tableVars>>

\* mutant: push asks for mtClose, which its caller already holds
MutPushLocks(c) == /\ ~mtHeld /\ Readers = {}
                   /\ pc2c' = pc2c \cup {c}
                   /\ UNCHANGED <<objVars, cs, csIndex, csClose, mtHeld, left>>

\* mutant: isClose is not looked at
MutPushOpen(c) == /\ ~mtHeld
                  /\ pc2c' = pc2c \cup {c}
                  /\ UNCHANGED <<objVars, cs, csIndex, csClose, mtHeld, left>>

Push(c) == /\ ~mtHeld
           /\ IF csClose THEN /\ st' = CloseIn(st, c)
                              /\ pc2c' = pc2c
                         ELSE /\ pc2c' = pc2c \cup {c}
                              /\ st' = st
           /\ UNCHANGED <<bDestroy, ref, age, recent, slotOf, cs, csIndex, csClose, mtHeld, left>>

\* chClient takes another token.
MutRoom == tokens <= ChCap                     \* mutant: off by one
Room == tokens < ChCap

\* recycle.push on the states s: a client without a Client is dropped, one
\* already listed stays where it is, and a full chClient evicts the eldest.
\* (recycle.isClose is set under clients.mtClients, which every push holds
\* too and which close() then keeps until clients.recycle is nil.)
RecyclePush(c, s) ==
  \/ /\ ~HasClient(c) \/ Contains(li, c)
     /\ st' = s
     /\ UNCHANGED recVars
  \/ /\ HasClient(c) /\ ~Contains(li, c)
     /\ Room
     /\ li' = Append(li, c)
     /\ tokens' = tokens + 1
     /\ st' = s
  \/ /\ HasClient(c) /\ ~Contains(li, c)
     /\ ~Room
     /\ li' = Tail(Append(li, c))
     /\ tokens' = tokens
     /\ st' = CloseIn(s, Head(Append(li, c)))

\* The slots once n has replaced c in its slot.
MutSlotsWith(c, n) == cs                       \* mutant: the slot keeps c
SlotsWith(c, n) == [cs EXCEPT ![slotOf[c]] = n]

\* c leaves pc2c for the recycle list and a new client takes slot c.index,
\* whichever client is in that slot.
Retire(c) ==
  /\ Free # {}
  /\ LET n == Fresh IN
       /\ cs' = SlotsWith(c, n)
       /\ slotOf' = [slotOf EXCEPT ![n] = slotOf[c]]
       /\ bDestroy' = [bDestroy EXCEPT ![n] = FALSE]
       /\ ref' = [ref EXCEPT ![n] = 0]
       /\ age' = [age EXCEPT ![n] = MaxAge]
       /\ recent' = [recent EXCEPT ![n] = FALSE]
       /\ RecyclePush(c, [st EXCEPT ![n] = "new"])
  /\ pc2c' = pc2c \ {c}
  /\ UNCHANGED <<csIndex, csClose, mtHeld, left>>

-----------------------------------------------------------------------------
(***************************************************************************)
(* Pool.Get, the call, Pool.Put                                            *)
(***************************************************************************)
\* min_get and round_get read the ref of one slot after the other while other
\* callers change them: for each slot a scan may see the next change coming.
Seen(c) == {ref[c]}
           \cup {ref[c] + 1 : p \in {q \in Callers : pc[q] = "addref" /\ held[q] = c}}
           \cup {ref[c] - 1 : p \in {q \in Callers : pc[q] \in {"using", "broken"} /\ held[q] = c}}
Scans == {f \in [Slots -> UNION {Seen(cs[i]) : i \in Slots}] : \A i \in Slots : f[i] \in Seen(cs[i])}

\* The first slot of the InitCap region that nobody uses.
FirstUnused(i, f) == i < InitCap /\ f[i] <= 0 /\ \A j \in 0 .. i - 1 : f[j] > 0
NoneUnused(f)     == \A i \in 0 .. InitCap - 1 : f[i] > 0

\* The first slot with the least ref.
LeastRef(i, f) == /\ \A j \in Slots : f[i] <= f[j]
                  /\ \A j \in 0 .. i - 1 : f[i] < f[j]

MinGet(i) == /\ MaxCap <= MinGetMax
             /\ \E f, g \in Scans : FirstUnused(i, f) \/ (NoneUnused(f) /\ LeastRef(i, g))
             /\ UNCHANGED csIndex

\* clients.index++ is done under a read lock: an increment may be lost.
RoundGet(i) == /\ MaxCap > MinGetMax
               /\ \E f \in Scans :
                    \/ FirstUnused(i, f) /\ UNCHANGED csIndex
                    \/ /\ NoneUnused(f) /\ i = csIndex
                       /\ csIndex' \in {csIndex, (csIndex + 1) % MaxCap}

\* TryRLock of mtClose, then min_get or round_get.
Get(p) == /\ pc[p] = "idle" /\ phase = "open" /\ ~Closing
          /\ gets < MaxGets /\ gets' = gets + 1
          /\ ~mtHeld
          /\ \E i \in Slots : /\ MinGet(i) \/ RoundGet(i)
                              /\ held' = [held EXCEPT ![p] = cs[i]]
          /\ pc' = [pc EXCEPT ![p] = "connect"]
          /\ UNCHANGED <<objVars, cs, pc2c, csClose, mtHeld, left, recVars>>

Connect(p) ==
  /\ pc[p] = "connect"
  /\ LET c == held[p] IN
       \/ /\ Standing(c)
          /\ pc' = [pc EXCEPT ![p] = "addref"]
          /\ UNCHANGED objVars
       \/ /\ DialOK(c)
          /\ pc' = [pc EXCEPT ![p] = "push"]
       \/ /\ Refused(c)
          /\ pc' = [pc EXCEPT ![p] = "fallback"]
          /\ UNCHANGED objVars
       \/ /\ DialFails(c)
          /\ pc' = [pc EXCEPT ![p] = "fallback"]
  /\ UNCHANGED <<tableVars, recVars, held>>

\* get_one_valid_client: if some client is registered, get() returns the one
\* it could not connect (the variable is shadowed), else the error.
Fallback(p) ==
  /\ pc[p] = "fallback" /\ ~mtHeld
  /\ IF pc2c = {}
     THEN /\ pc' = [pc EXCEPT ![p] = "idle"]
          /\ held' = [held EXCEPT ![p] = NoClient]
     ELSE /\ pc' = [pc EXCEPT ![p] = "addref"]
          /\ UNCHANGED held
  /\ UNCHANGED <<objVars, tableVars, recVars>>

PushNew(p) == /\ pc[p] = "push"
              /\ Push(held[p])
              /\ pc' = [pc EXCEPT ![p] = "addref"]
              /\ UNCHANGED <<recVars, held>>

\* c.AddRef(1)
MutTakeRef(p) == ref' = [ref EXCEPT ![held[p]] = IF HasClient(held[p]) THEN @ + 1 ELSE @]
                                               \* mutant: only with a Client
TakeRef(p) == ref' = [ref EXCEPT ![held[p]] = @ + 1]

\* c.AddRef(1); c.reqTM = time.Now(); Get returns c.
AddRef(p) == /\ pc[p] = "addref"
             /\ TakeRef(p)
             /\ age' = [age EXCEPT ![held[p]] = 0]
             /\ pc' = [pc EXCEPT ![p] = "got"]
             /\ UNCHANGED <<st, bDestroy, recent, slotOf, tableVars, recVars, held>>

\* The wrapper takes c.Client as it is now.  A nil one is no *rpc.Client: the
\* call returns and never puts c back.  On a closed one the call can only fail.
Call(p) == /\ pc[p] = "got"
           /\ \/ /\ st[held[p]] = "up"
                 /\ pc' = [pc EXCEPT ![p] = "using"]
                 /\ UNCHANGED held
              \/ /\ st[held[p]] = "down"
                 /\ pc' = [pc EXCEPT ![p] = "broken"]
                 /\ UNCHANGED held
              \/ /\ ~HasClient(held[p])
                 /\ pc' = [pc EXCEPT ![p] = "idle"]
                 /\ held' = [held EXCEPT ![p] = NoClient]
           /\ UNCHANGED <<objVars, tableVars, recVars>>

\* c.AddRef(-1)
MutUnref(p) == ref' = [ref EXCEPT ![held[p]] = IF st[held[p]] = "up" THEN @ - 1 ELSE @]
                                               \* mutant: not for a closed client
Unref(p) == ref' = [ref EXCEPT ![held[p]] = @ - 1]

\* The call ended with a result or with the server's error.
PutGood(p) == /\ pc[p] = "using" /\ ~Closing
              /\ Unref(p)
              /\ pc' = [pc EXCEPT ![p] = "idle"]
              /\ held' = [held EXCEPT ![p] = NoClient]
              /\ UNCHANGED <<st, bDestroy, age, recent, slotOf, tableVars, recVars>>

\* The call ended with a timeout or a transport error.
PutBad(p) == /\ pc[p] \in {"using", "broken"} /\ ~Closing
             /\ Unref(p)
             /\ pc' = [pc EXCEPT ![p] = "move"]
             /\ UNCHANGED <<st, bDestroy, age, recent, slotOf, tableVars, recVars, held>>

\* TryRLock failed: ErrClosed, and ref keeps its count.
PutClosed(p) == /\ pc[p] \in {"using", "broken"} /\ Closing
                /\ st' = CloseIn(st, held[p])
                /\ pc' = [pc EXCEPT ![p] = "idle"]
                /\ held' = [held EXCEPT ![p] = NoClient]
                /\ UNCHANGED <<bDestroy, ref, age, recent, slotOf, tableVars, recVars>>

\* move_recycle (clients.recycle is not nil while a caller holds mtClose).
MoveRecycle(p) ==
  /\ pc[p] = "move" /\ ~mtHeld
  /\ LET c == held[p] IN
       \/ /\ c \in pc2c
          /\ Retire(c)
          /\ pc' = [pc EXCEPT ![p] = "idle"]
          /\ held' = [held EXCEPT ![p] = NoClient]
       \/ /\ c \notin pc2c /\ Contains(li, c)
          /\ pc' = [pc EXCEPT ![p] = "idle"]
          /\ held' = [held EXCEPT ![p] = NoClient]
          /\ UNCHANGED <<objVars, tableVars, recVars>>
       \/ /\ c \notin pc2c /\ ~Contains(li, c)
          /\ pc' = [pc EXCEPT ![p] = "shut"]
          /\ UNCHANGED <<objVars, tableVars, recVars, held>>

\* put_bad found c nowhere and closes it itself.
ShutUnknown(p) == /\ pc[p] = "shut"
                  /\ st' = CloseIn(st, held[p])
                  /\ pc' = [pc EXCEPT ![p] = "idle"]
                  /\ held' = [held EXCEPT ![p] = NoClient]
                  /\ UNCHANGED <<bDestroy, ref, age, recent, slotOf, tableVars, recVars>>

Caller(p) ==
  /\ \/ Get(p)
     \/ /\ \/ Connect(p) \/ Fallback(p) \/ PushNew(p) \/ AddRef(p) \/ Call(p)
           \/ PutGood(p) \/ PutBad(p) \/ PutClosed(p) \/ MoveRecycle(p) \/ ShutUnknown(p)
        /\ UNCHANGED gets
  /\ UNCHANGED <<initVars, idleVars, loopVars, closePc>>

-----------------------------------------------------------------------------
(***************************************************************************)
(* init_clients, called by NewPool and once a minute by the idle reaper    *)
(***************************************************************************)
\* atomic.StoreInt32(&cs.initting, 0)
EndInit == initting' = FALSE

\* The next slot of the InitCap region, or the end: initting := 0, and
\* NewPool returns the pool.
NextInit == IF initI + 1 < InitCap
            THEN /\ initPc' = "slot"
                 /\ initI' = initI + 1
                 /\ UNCHANGED <<initting, phase>>
            ELSE /\ initPc' = "off"
                 /\ initI' = 0
                 /\ EndInit
                 /\ phase' = IF phase = "new" THEN "open" ELSE phase

\* A dial failed or the client is destroyed: initting stays 1.
AbandonInit == /\ initPc' = "off"
               /\ initI' = 0
               /\ phase' = IF phase = "new" THEN "failed" ELSE phase
               /\ UNCHANGED initting

\* The goroutine starts; CompareAndSwap(initting, 0, 1).
InitStart == /\ initDue
             /\ initDue' = FALSE
             /\ IF initting THEN UNCHANGED <<initting, initPc>>
                            ELSE initting' = TRUE /\ initPc' = "slot"
             /\ UNCHANGED <<objVars, tableVars, recVars, phase, initI, initC>>

\* One slot, under the read lock.
InitConnect ==
  /\ initPc = "slot" /\ ~mtHeld
  /\ LET c == cs[initI] IN
       \/ Standing(c) /\ NextInit /\ UNCHANGED <<objVars, initC>>
       \/ /\ DialOK(c)
          /\ initPc' = "push" /\ initC' = c
          /\ UNCHANGED <<initI, initting, phase>>
       \/ Refused(c) /\ AbandonInit /\ UNCHANGED <<objVars, initC>>
       \/ DialFails(c) /\ AbandonInit /\ UNCHANGED initC
  /\ UNCHANGED <<tableVars, recVars, initDue>>

InitPush == /\ initPc = "push"
            /\ Push(initC)
            /\ NextInit
            /\ initC' = NoClient
            /\ UNCHANGED <<recVars, initDue>>

(***************************************************************************)
(* loop_remove_idle_time_out_client                                        *)
(***************************************************************************)
\* The sweep is over; the loop goes back to its select.
EndSweep == idlePc' = "select" /\ idleI' = 0

NextIdle == IF idleI + 1 < MaxCap
            THEN idlePc' = "count" /\ idleI' = idleI + 1
            ELSE EndSweep

\* The minute's tick; a tick that comes early only starts init_clients.
IdleTick == /\ idlePc = "select"
            /\ ticks < MaxTicks /\ ticks' = ticks + 1
            /\ initDue' = TRUE
            /\ \/ UNCHANGED <<idlePc, idleI>>
               \/ InitCap < MaxCap /\ idlePc' = "count" /\ idleI' = InitCap
            /\ UNCHANGED <<objVars, tableVars, recVars, phase, initting, initPc, initI, initC>>

\* valid_count() <= InitCap ends the sweep.
IdleCount == /\ idlePc = "count" /\ ~mtHeld
             /\ IF Cardinality(pc2c) <= InitCap
                THEN EndSweep
                ELSE idlePc' = "remove" /\ UNCHANGED idleI
             /\ UNCHANGED <<objVars, tableVars, recVars, initVars, ticks>>

\* remove_client_if_idle_time_out
Idle(c) == st[c] = "up" /\ ~InUse(c) /\ age[c] >= IdleAge

IdleRemove == /\ idlePc = "remove" /\ ~mtHeld
              /\ \/ /\ Idle(cs[idleI])
                    /\ Retire(cs[idleI])
                 \/ /\ ~Idle(cs[idleI])
                    /\ UNCHANGED <<objVars, tableVars, recVars>>
              /\ NextIdle
              /\ UNCHANGED <<initVars, ticks>>

(***************************************************************************)
(* loop_recycle_clients                                                    *)
(***************************************************************************)
\* mutant: the ticker's case looks at the length of the list too
MutRecycleTick == /\ recPc = "select" /\ Len(li) > MaxCap
                  /\ recPc' = "pick"
                  /\ UNCHANGED <<objVars, recVars, recC>>

RecycleTick == /\ recPc = "select"
               /\ recPc' = "pick"
               /\ UNCHANGED <<objVars, recVars, recC>>

RecycleToken == /\ recPc = "select" /\ tokens > 0
                /\ tokens' = tokens - 1
                /\ recPc' = "check"
                /\ UNCHANGED <<objVars, li, recC>>

MutShort == Len(li) <= MaxCap + 1              \* mutant: off by one
Short == Len(li) <= MaxCap

RecycleCheck == /\ recPc = "check"
                /\ recPc' = IF Short THEN "select" ELSE "pick"
                /\ UNCHANGED <<objVars, recVars, recC>>

\* get_one_client: any listed client that nobody uses or whose request is out
\* of time; if there is none and the list is too long, its eldest.
Closable == {c \in {li[k] : k \in DOMAIN li} : ~InUse(c)}

RecyclePick ==
  /\ recPc = "pick"
  /\ \/ /\ \E c \in Closable : recC' = c
        /\ recPc' = "remove"
     \/ /\ Closable = {} /\ Len(li) > MaxCap
        /\ recC' = Head(li)
        /\ recPc' = "remove"
     \/ /\ Closable = {} /\ Len(li) <= MaxCap
        /\ recPc' = "select"
        /\ UNCHANGED recC
  /\ UNCHANGED <<objVars, recVars>>

\* Whether recycle.remove looks for c: not when c.Client is nil.
MutRemovable(c) == st[c] = "up"                \* mutant: nor when c was closed
Removable(c) == HasClient(c)

RecycleRemove ==
  /\ recPc = "remove"
  /\ \/ /\ Removable(recC)
        /\ \E k \in DOMAIN li : li[k] = recC /\ li' = RemoveAt(li, k)
     \/ /\ ~(Removable(recC) /\ Contains(li, recC))
        /\ li' = li
  /\ recPc' = "close"
  /\ UNCHANGED <<objVars, tokens, recC>>

RecycleClose == /\ recPc = "close"
                /\ st' = CloseIn(st, recC)
                /\ recPc' = "pick" /\ recC' = NoClient
                /\ UNCHANGED <<bDestroy, ref, age, recent, slotOf, recVars>>

(***************************************************************************)
(* Pool.Close and clients.close                                            *)
(***************************************************************************)
\* Compare-and-swap of isClose; mtClose.Lock waits, and is never released.
\* NewPool calls Close itself when init_clients failed.
CloseCall == /\ closePc = "open" /\ phase \in {"open", "failed"}
             /\ closePc' = "wait"
             /\ UNCHANGED <<objVars, tableVars, recVars, idleVars, loopVars>>

CloseLocked == /\ closePc = "wait" /\ Readers = {}
               /\ csClose' = TRUE
               /\ closePc' = "exitIdle"
               /\ UNCHANGED <<objVars, cs, pc2c, csIndex, mtHeld, left, recVars, idleVars, loopVars>>

\* chIdleExit <- 1 meets the reaper in its select.
CloseExitIdle == /\ closePc = "exitIdle" /\ idlePc = "select"
                 /\ idlePc' = "done"
                 /\ closePc' = "destroy"
                 /\ UNCHANGED <<objVars, tableVars, recVars, idleI, ticks, loopVars>>

\* mtClients.Lock, Destroy of slots 0 .. n-1 (an error of the last one's
\* Close stops the loop), pc2c emptied; the lock is kept.
DestroyUpTo(n) == /\ bDestroy' = [c \in Clients |-> bDestroy[c] \/ \E i \in 0 .. n - 1 : cs[i] = c]
                  /\ st' = [c \in Clients |-> IF st[c] = "up" /\ \E i \in 0 .. n - 1 : cs[i] = c
                                              THEN "down" ELSE st[c]]

CloseDestroy == /\ closePc = "destroy"
                /\ \/ DestroyUpTo(MaxCap)
                   \/ /\ CloseMayFail
                      /\ \E n \in 1 .. MaxCap : st[cs[n - 1]] = "up" /\ DestroyUpTo(n)
                /\ pc2c' = {}
                /\ left' = {c \in pc2c : st'[c] = "up"}
                /\ mtHeld' = TRUE
                /\ closePc' = "exitRecycle"
                /\ UNCHANGED <<ref, age, recent, slotOf, cs, csIndex, csClose, recVars, idleVars, loopVars>>

\* recycle.close: chExit <- 1 meets the recycler in its select; every listed
\* client is closed; clients.recycle = nil; mtClients.Unlock.
CloseExitRecycle ==
  /\ closePc = "exitRecycle" /\ recPc = "select"
  /\ recPc' = "done"
  /\ st' = [c \in Clients |-> IF st[c] = "up" /\ Contains(li, c) THEN "down" ELSE st[c]]
  /\ mtHeld' = FALSE
  /\ closePc' = "closed"
  /\ UNCHANGED <<bDestroy, ref, age, recent, slotOf, cs, pc2c, csIndex, csClose, left, recVars,
                 idleVars, recC>>

(***************************************************************************)
(* Time                                                                    *)
(***************************************************************************)
\* A second since the last dials.
Second == /\ \E c \in Known : c # NoClient /\ recent[c]
          /\ recent' = [c \in Clients |-> FALSE]
          /\ UNCHANGED age

\* Much longer: requests and idle clients come nearer to their timeouts.
Elapse == /\ \E c \in Known : c # NoClient /\ age[c] < MaxAge
          /\ age' = [c \in Clients |-> IF age[c] < MaxAge THEN age[c] + 1 ELSE MaxAge]
          /\ recent' = [c \in Clients |-> FALSE]

-----------------------------------------------------------------------------
\* new_clients: MaxCap new clients, the two goroutines, and NewPool about to
\* call init_clients.
Init ==
  /\ cs = FirstClients
  /\ slotOf = [c \in Clients |-> IF InSlots(c) THEN CHOOSE i \in Slots : cs[i] = c ELSE 0]
  /\ st = [c \in Clients |-> "new"]
  /\ bDestroy = [c \in Clients |-> FALSE]
  /\ ref = [c \in Clients |-> 0]
  /\ age = [c \in Clients |-> MaxAge]
  /\ recent = [c \in Clients |-> FALSE]
  /\ pc2c = {} /\ csIndex = 0 /\ csClose = FALSE /\ mtHeld = FALSE
  /\ left = {}
  /\ li = <<>> /\ tokens = 0
  /\ pc = [p \in Callers |-> "idle"] /\ held = [p \in Callers |-> NoClient] /\ gets = 0
  /\ phase = "new" /\ initting = TRUE /\ initPc = "slot" /\ initI = 0 /\ initC = NoClient
  /\ initDue = FALSE
  /\ idlePc = "select" /\ idleI = 0 /\ ticks = 0
  /\ recPc = "select" /\ recC = NoClient
  /\ closePc = "open"

Inits    == /\ InitStart \/ InitConnect \/ InitPush
            /\ UNCHANGED <<callVars, idleVars, loopVars, closePc>>
Reaper   == /\ IdleTick \/ IdleCount \/ IdleRemove
            /\ UNCHANGED <<callVars, loopVars, closePc>>
Recycler == /\ RecycleTick \/ RecycleToken \/ RecycleCheck
               \/ RecyclePick \/ RecycleRemove \/ RecycleClose
            /\ UNCHANGED <<tableVars, callVars, initVars, idleVars, closePc>>
Closer   == /\ CloseCall \/ CloseLocked \/ CloseExitIdle \/ CloseDestroy \/ CloseExitRecycle
            /\ UNCHANGED <<callVars, initVars>>
Clock    == /\ Second \/ Elapse
            /\ UNCHANGED <<st, bDestroy, ref, slotOf, tableVars, recVars, callVars, initVars,
                           idleVars, loopVars, closePc>>

\* The pool is closed and nobody is inside it.
Finished == /\ closePc = "closed"
            /\ \A p \in Callers : pc[p] = "idle"
            /\ UNCHANGED vars

Next == (\E p \in Callers : Caller(p)) \/ Inits \/ Reaper \/ Recycler \/ Closer \/ Clock \/ Finished

Safety == Init /\ [][Next]_vars

\* Callers never stop inside the pool, and a call ends: by its answer, its
\* context or the codec's deadline.  The goroutines run and their tickers
\* tick; select takes a ready exit some time, however often others are ready.
Fairness ==
  /\ \A p \in Callers : WF_vars(pc[p] # "idle" /\ Caller(p))
  /\ WF_vars(initPc # "off" /\ Inits) /\ WF_vars(initPc = "off" /\ Inits)
  /\ WF_vars(Reaper) /\ WF_vars(Recycler)
  /\ SF_vars(Closer /\ closePc \in {"exitIdle", "exitRecycle"})
  /\ WF_vars(Closer /\ (closePc # "open" \/ phase = "failed"))
  /\ WF_vars(Second /\ Clock) /\ WF_vars(Elapse /\ Clock)

Spec == Safety /\ Fairness

-----------------------------------------------------------------------------
(***************************************************************************)
(* Properties                                                              *)
(***************************************************************************)
CallerPcs == {"idle", "connect", "fallback", "push", "addref", "got", "using", "broken",
              "move", "shut"}

\* Every variable keeps its type; a caller past Get's first step holds a client,
\* and so do init_clients at its push and the recycler at its close.
TypeOK ==
  /\ st \in [Clients -> {"new", "up", "down", "failed"}]
  /\ bDestroy \in [Clients -> BOOLEAN]
  /\ ref \in [Clients -> Int]
  /\ age \in [Clients -> 0 .. MaxAge]
  /\ recent \in [Clients -> BOOLEAN]
  /\ slotOf \in [Clients -> Slots]
  /\ cs \in [Slots -> Clients] /\ pc2c \subseteq Clients /\ csIndex \in Slots
  /\ initting \in BOOLEAN /\ csClose \in BOOLEAN /\ mtHeld \in BOOLEAN
  /\ left \subseteq Clients
  /\ li \in Seq(Clients) /\ tokens \in 0 .. ChCap
  /\ pc \in [Callers -> CallerPcs]
  /\ held \in [Callers -> Clients \cup {NoClient}]
  /\ \A p \in Callers : pc[p] # "idle" => held[p] \in Clients
  /\ gets \in 0 .. MaxGets /\ ticks \in 0 .. MaxTicks
  /\ phase \in {"new", "open", "failed"}
  /\ initPc \in {"off", "slot", "push"} /\ initI \in 0 .. InitCap - 1
  /\ initC \in Clients \cup {NoClient} /\ (initPc = "push" => initC \in Clients)
  /\ initDue \in BOOLEAN
  /\ idlePc \in {"select", "count", "remove", "done"} /\ idleI \in Slots
  /\ recPc \in {"select", "check", "pick", "remove", "close", "done"}
  /\ recC \in Clients \cup {NoClient} /\ (recPc \in {"remove", "close"} => recC \in Clients)
  /\ closePc \in {"open", "wait", "exitIdle", "destroy", "exitRecycle", "closed"}

\* A client that can be picked for a request is never on the list of those
\* about to be closed, and a slot's client knows its slot: whatever retires a
\* client (a BAD put, the reaper) replaces it in the slot it came from.
SlotsApart == \A i \in Slots : slotOf[cs[i]] = i /\ ~Contains(li, cs[i])

\* The recycle list cannot outgrow MaxCap by more than the tokens waiting in
\* chClient and the one the recycler has taken, even when it is never idle:
\* push's eviction and the recycler's early continue keep pace together.
Sweeping == IF recPc \in {"check", "pick", "remove", "close"} THEN 1 ELSE 0
RecycleBounded == Len(li) <= MaxCap + tokens + Sweeping

\* ref never falls below the number of callers between Get and Put, so the
\* reaper, the recycler and min_get never take a used client for an unused one.
Holders(c) == {p \in Callers : pc[p] \in {"got", "using", "broken"} /\ held[p] = c}
RefCoversHolders == \A c \in Clients : ref[c] >= Cardinality(Holders(c))

\* Without failing dials, nothing leaks a reference until the pool is closing.
RefExact == ~Closing => \A c \in Clients : ref[c] = Cardinality(Holders(c))

\* An open connection that nobody will close: in no slot, so that neither the
\* reaper nor Close comes to it, not on the recycle list, and in nobody's hands.
\* put_bad finds it in pc2c only if somebody still has it.
InTransit(c) == c \in {held[p] : p \in Callers} \cup {initC, recC}
Stranded(c)  == st[c] = "up" /\ ~InSlots(c) /\ ~Contains(li, c) /\ ~InTransit(c)

\* Some goroutine lets go of its client, which no slot has any more.
DropsRetired == \/ \E p \in Callers : held[p] # NoClient /\ held'[p] # held[p] /\ ~InSlots(held[p])
                \/ initC # NoClient /\ initC' # initC /\ ~InSlots(initC)

\* A connection is lost in one way only: somebody had a client in hand while
\* another goroutine retired it, and puts it back (dialled once more, or BAD,
\* which evicts the client its slot has now).  No pick, eviction, sweep,
\* recycling or Close loses one.
StrandedByDrop == [][\A c \in Clients : Stranded(c)' /\ ~Stranded(c) => DropsRetired]_vars

\* A slot's connection is in pc2c as soon as whoever dialled it has got to
\* push: put_bad and get_one_valid_client look there and nowhere else.
SlotsRegistered ==
  ~csClose => \A i \in Slots : st[cs[i]] = "up" =>
                \/ cs[i] \in pc2c
                \/ initPc = "push" /\ initC = cs[i]
                \/ \E p \in Callers : pc[p] = "push" /\ held[p] = cs[i]

\* Once Close has returned, what is open is what close() threw away with pc2c,
\* or what init_clients is about to push, which will then close it; callers and
\* init_clients open nothing for good.  What was thrown away were clients in
\* pc2c alone and, if a Destroy failed, slots the loop had not come to.
ClosedForGood ==
  closePc = "closed" =>
    /\ \A c \in Clients : st[c] = "up" => c \in left \/ (initPc = "push" /\ initC = c)
    /\ \A c \in left : InSlots(c) => CloseMayFail

\* A caller that enters the pool gets out of it: out of Get, and out of Put.
CallersLeave == \A p \in Callers : pc[p] \notin {"idle", "got", "using", "broken"} ~> pc[p] \in {"idle", "got"}

\* Close returns, whatever the callers, the reaper and the recycler are doing.
CloseReturns == closePc = "wait" ~> closePc = "closed"

\* A client on the recycle list leaves it: the recycler closes it, or a full
\* chClient makes push do so, or Close does.
RetiredLeave == \A c \in Clients : Contains(li, c) ~> (~Contains(li, c) \/ closePc = "closed")

\* docs/rpc/client calls InitCap the least number of connections of a pool.  Once
\* a minute the reaper starts init_clients for that: while the pool is open, a
\* pass over the slots follows.
MinimumTended == initDue /\ initPc = "off" ~> initPc # "off" \/ Closing
=============================================================================
