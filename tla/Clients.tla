------------------------------ MODULE Clients ------------------------------
(***************************************************************************)
(* The clients of a service by its name: name2client and the functions     *)
(* around it in transport/rpc, transport/grpc and transport/http, which    *)
(* differ in the order of their steps and in what they lock.  One name is  *)
(* modelled, the names do not meet.  What a goroutine does under mtClient, *)
(* or between two points others can observe, is one step.                  *)
(***************************************************************************)
EXTENDS Integers, FiniteSets, Sequences, SequencesExt

CONSTANTS
  Users,      \* goroutines
  NoOne,
  Kinds,      \* of "rpc", "grpc", "http": which package the program uses
  MaxClients, \* bound: clients made
  MaxOps,     \* bound: operations begun
  ChanCap     \* capacity of AsyncCallChan

ASSUME UsersAssumption == NoOne \notin Users /\ IsFiniteSet(Users)
ASSUME KindsAssumption == Kinds \subseteq {"rpc", "grpc", "http"}
ASSUME BoundsAssumption == MaxClients \in Nat /\ MaxOps \in Nat /\ ChanCap \in Nat

Clients  == 1 .. MaxClients
NoClient == 0
NoWork   == [op |-> "none", c |-> NoClient, closing |-> <<>>]

VARIABLES
  kind,
  registered, \* name2client[name]
  mtNew,      \* who holds mtNewClient, in grpc mtRegClient
  made,       \* clients made so far
  isClose,    \* clients whose isClose is set (grpc)
  poolsDown,  \* clients whose pools are closed
  discoDown,  \* clients whose endpointer and instancer are closed
  hung,       \* clients whose pools' Close has locked itself out
  counted,    \* clients whose middlewares know the action: a2c
  stored,     \* clients whose actionEndPoint has the action
  answers,    \* answers in AsyncCallChan
  pc, me,     \* where each goroutine is, and its work
  ops,        \* operations begun
  dead,       \* a panic or a fatal error has ended the program
  overlapped, \* history: two operations ran at once
  unsettled,  \* history: a Close or a replacement has begun
  direct      \* history: clients closed by a call of their own Close

partVars == <<isClose, poolsDown, discoDown, hung>>
reqVars  == <<counted, stored, answers>>
histVars == <<ops, overlapped, unsettled, direct>>
vars == <<kind, registered, mtNew, made, partVars, reqVars, pc, me, dead, histVars>>

Goto(p, to) == pc' = [pc EXCEPT ![p] = to]
Return(p)   == Goto(p, "idle") /\ me' = [me EXCEPT ![p] = NoWork]
\* It waits for a lock of a client's pools that is never given back.
Hangs(p)    == Goto(p, "stuck") /\ me' = [me EXCEPT ![p] = NoWork]

MutRelease(p) == UNCHANGED mtNew               \* mutant: the lock is kept
Release(p) == mtNew' = IF mtNew = p THEN NoOne ELSE mtNew

-----------------------------------------------------------------------------
(***************************************************************************)
(* What a program may ask for                                              *)
(***************************************************************************)
\* Call, GoCall, RegistryNewClient, Close(name) and the client's own Close, and
\* what each does first.  http has Remove for Close(name), and no GoCall.
RpcFirst  == [call |-> "get", gocall |-> "get", register |-> "new", close |-> "look",
              shut |-> "disco"]
GrpcFirst == [call |-> "get", gocall |-> "get", register |-> "get", close |-> "look",
              shut |-> "closing"]
HttpFirst == [call |-> "get", register |-> "new", close |-> "look", shut |-> "disco"]
First == CASE kind = "rpc" -> RpcFirst [] kind = "grpc" -> GrpcFirst [] OTHER -> HttpFirst

Begin(p) ==
  /\ pc[p] = "idle" /\ ops < MaxOps /\ ops' = ops + 1
  /\ \E op \in DOMAIN First :
       /\ op = "shut" => registered # NoClient
       /\ me' = [me EXCEPT ![p].op = op,
                           ![p].closing = IF op = "shut" THEN <<registered>> ELSE <<>>]
       /\ Goto(p, First[op])
       /\ direct' = IF op = "shut" THEN direct \cup {registered} ELSE direct
       /\ unsettled' = (unsettled \/ op \in {"close", "shut"}
                                   \/ (op = "register" /\ kind # "grpc"))
  /\ overlapped' = (overlapped \/ \E q \in Users : pc[q] # "idle")
  /\ UNCHANGED <<kind, registered, mtNew, made, partVars, reqVars, dead>>

-----------------------------------------------------------------------------
(***************************************************************************)
(* Getting a client: GetRPCClient, http's GetClient, grpc's lookup, which  *)
(* RegistryNewClient of grpc begins with                                   *)
(***************************************************************************)
Found(p) == IF me[p].op = "register" THEN Return(p)
            ELSE Goto(p, "call") /\ me' = [me EXCEPT ![p].c = registered]

\* Call of grpc makes no client.
Missing(p) == IF kind = "grpc" /\ me[p].op # "register" THEN Return(p)
              ELSE Goto(p, "lock") /\ UNCHANGED me

Get(p) == /\ pc[p] = "get"
          /\ IF registered # NoClient THEN Found(p) ELSE Missing(p)
          /\ UNCHANGED <<kind, registered, mtNew, made, partVars, reqVars, dead, histVars>>

Lock(p) == /\ pc[p] = "lock" /\ mtNew = NoOne
           /\ mtNew' = p
           /\ Goto(p, "again")
           /\ UNCHANGED <<kind, registered, made, partVars, reqVars, me, dead, histVars>>

MutHere == FALSE                               \* mutant: no second look
Here == registered # NoClient
GetAgain(p) == /\ pc[p] = "again"
               /\ \/ Here /\ Found(p) /\ Release(p)
                  \/ ~Here /\ Goto(p, "new") /\ UNCHANGED <<me, mtNew>>
               /\ UNCHANGED <<kind, registered, made, partVars, reqVars, dead, histVars>>

Save(p) == /\ pc[p] = "save"
           /\ registered' = me[p].c
           /\ Release(p)
           /\ Goto(p, "call")
           /\ UNCHANGED <<kind, made, partVars, reqVars, me, dead, histVars>>

(***************************************************************************)
(* NewClient: it fails, or its endpointer, instancer and pools start       *)
(***************************************************************************)
\* RegistryClient of http replaces a client without closing it.
MutJustSets == kind # "grpc"                   \* mutant: so does that of rpc
JustSets == kind = "http"
NewClient(p) ==
  /\ pc[p] = "new"
  /\ \/ /\ made < MaxClients
        /\ made' = made + 1
        /\ me' = [me EXCEPT ![p].c = made + 1]
        /\ Goto(p, IF me[p].op # "register" THEN "save"
                   ELSE IF JustSets THEN "set" ELSE "look")
        /\ UNCHANGED mtNew
     \/ Return(p) /\ Release(p) /\ UNCHANGED made
  /\ UNCHANGED <<kind, registered, partVars, reqVars, dead, histVars>>

-----------------------------------------------------------------------------
(***************************************************************************)
(* Close(name), client.Close() and RegistryClient, which begins with       *)
(* Close(name).  In grpc client.Close() calls Close(name) again: closing   *)
(* holds the clients whose Close has not returned, the innermost last.     *)
(***************************************************************************)
Top(p)   == me[p].closing[Len(me[p].closing)]
Outer(p) == SubSeq(me[p].closing, 1, Len(me[p].closing) - 1)

\* Close(name), or the Close of the innermost client, returns to whoever called it.
Back(p, closing) ==
  IF closing = <<>> /\ me[p].op # "register" THEN Return(p)
  ELSE /\ me' = [me EXCEPT ![p].closing = closing]
       /\ Goto(p, IF closing = <<>> THEN "set" ELSE "pools")

Look(p) == /\ pc[p] = "look"
           /\ IF registered = NoClient THEN Back(p, me[p].closing)
              ELSE /\ me' = [me EXCEPT ![p].closing = Append(@, registered)]
                   /\ Goto(p, "delete")
           /\ UNCHANGED <<kind, registered, mtNew, made, partVars, reqVars, dead, histVars>>

MutDropped == registered                       \* mutant: it stays in the map
Dropped == NoClient
Delete(p) == /\ pc[p] = "delete"
             /\ registered' = Dropped
             /\ \/ kind = "http" /\ Return(p)
                \/ kind = "rpc"  /\ Goto(p, "disco")   /\ UNCHANGED me
                \/ kind = "grpc" /\ Goto(p, "closing") /\ UNCHANGED me
             /\ UNCHANGED <<kind, mtNew, made, partVars, reqVars, dead, histVars>>

\* client.Close() of grpc: isClose is read, and set, without a lock.
Closing(p) == /\ pc[p] = "closing"
              /\ IF Top(p) \in isClose THEN Back(p, Outer(p))
                 ELSE Goto(p, "mark") /\ UNCHANGED me
              /\ UNCHANGED <<kind, registered, mtNew, made, partVars, reqVars, dead, histVars>>

Mark(p) == /\ pc[p] = "mark"
           /\ isClose' = isClose \cup {Top(p)}
           /\ Goto(p, "look")
           /\ UNCHANGED <<kind, registered, mtNew, made, poolsDown, discoDown, hung, reqVars,
                          me, dead, histVars>>

\* What a client's Close closes, in this order.
RpcParts  == <<"disco", "pools">>
GrpcParts == <<"pools", "disco">>
HttpParts == <<"disco">>
Parts == CASE kind = "rpc" -> RpcParts [] kind = "grpc" -> GrpcParts [] OTHER -> HttpParts

Closed(p, part) == IF part = Last(Parts) THEN Back(p, Outer(p))
                                         ELSE Goto(p, Last(Parts)) /\ UNCHANGED me

\* The first Close of the pools returns, or it waits for the pools' idle loop and
\* the idle loop for the pools' lock: RpcPools has the steps.  A second one returns
\* at once, or waits for the first.
ClosePools(p) ==
  /\ pc[p] = "pools"
  /\ poolsDown' = poolsDown \cup {Top(p)}
  /\ \/ Top(p) \notin hung /\ Closed(p, "pools") /\ UNCHANGED hung
     \/ /\ Top(p) \in poolsDown => Top(p) \in hung
        /\ hung' = hung \cup {Top(p)}
        /\ Hangs(p)
  /\ UNCHANGED <<kind, registered, mtNew, made, isClose, discoDown, reqVars, dead, histVars>>

\* A second Close of an endpointer closes a closed channel.
CloseDisco(p) ==
  /\ pc[p] = "disco"
  /\ \/ Top(p) \in discoDown /\ dead' = TRUE /\ UNCHANGED <<discoDown, pc, me>>
     \/ /\ Top(p) \notin discoDown
        /\ discoDown' = discoDown \cup {Top(p)}
        /\ Closed(p, "disco")
        /\ UNCHANGED dead
  /\ UNCHANGED <<kind, registered, mtNew, made, isClose, poolsDown, hung, reqVars, histVars>>

Set(p) == /\ pc[p] = "set"
          /\ registered' = me[p].c
          /\ Release(p) /\ Return(p)
          /\ UNCHANGED <<kind, made, partVars, reqVars, dead, histVars>>

-----------------------------------------------------------------------------
(***************************************************************************)
(* client.Call, http's httpRequest, and GoCall                             *)
(***************************************************************************)
End(p) == IF me[p].op = "gocall" THEN Goto(p, "deliver") /\ UNCHANGED me ELSE Return(p)

Call(p) == /\ pc[p] = "call"
           /\ \/ me[p].c \in isClose /\ End(p)
              \/ /\ me[p].c \notin isClose
                 /\ Goto(p, IF me[p].c \in stored THEN "request" ELSE "chain")
                 /\ UNCHANGED me
           /\ UNCHANGED <<kind, registered, mtNew, made, partVars, reqVars, dead, histVars>>

\* Chain makes the action's middlewares.  Those that count add it to a2c, a Go
\* map nothing guards: a second goroutine in it may end the program.
InMap(p) == {q \in Users \ {p} : pc[q] = "chain" /\ me[q].c = me[p].c}

Chain(p) ==
  /\ pc[p] = "chain"
  /\ \/ /\ me[p].c \notin counted /\ InMap(p) # {}
        /\ dead' = TRUE
        /\ UNCHANGED <<counted, pc>>
     \/ /\ counted' = counted \cup {me[p].c}
        /\ Goto(p, "first request")
        /\ UNCHANGED dead
  /\ UNCHANGED <<kind, registered, mtNew, made, partVars, stored, answers, me, histVars>>

\* Who may answer an action's request: no pool that is closed does.
RpcServes(c)  == c \notin poolsDown
GrpcServes(c) == c \notin poolsDown
Serves(c) == CASE kind = "rpc" -> RpcServes(c) [] kind = "grpc" -> GrpcServes(c) [] OTHER -> TRUE

\* The request fails, or it is answered, or it asks pools that are locked for good.
\* The first that is answered keeps its endpoint for the action.
Request(p) ==
  /\ pc[p] \in {"request", "first request"}
  /\ \/ End(p)
     \/ me[p].c \in hung /\ Hangs(p)
     \/ Serves(me[p].c) /\ pc[p] = "first request" /\ Goto(p, "store") /\ UNCHANGED me
  /\ UNCHANGED <<kind, registered, mtNew, made, partVars, reqVars, dead, histVars>>

Store(p) == /\ pc[p] = "store"
            /\ stored' = stored \cup {me[p].c}
            /\ End(p)
            /\ UNCHANGED <<kind, registered, mtNew, made, partVars, counted, answers, dead,
                           histVars>>

\* The goroutine of GoCall sends the call: rpc waits while the channel is full,
\* grpc gives up then.
Full == answers >= ChanCap
Deliver(p) == /\ pc[p] = "deliver"
              /\ \/ ~Full /\ answers' = answers + 1
                 \/ Full /\ kind = "grpc" /\ UNCHANGED answers
              /\ Return(p)
              /\ UNCHANGED <<kind, registered, mtNew, made, partVars, counted, stored, dead,
                             histVars>>

\* The program takes an answer from the channel.
Receive == /\ answers > 0
           /\ answers' = answers - 1
           /\ UNCHANGED <<kind, registered, mtNew, made, partVars, counted, stored, pc, me,
                          dead, histVars>>

-----------------------------------------------------------------------------
Init == /\ kind \in Kinds /\ registered = NoClient /\ mtNew = NoOne /\ made = 0
        /\ isClose = {} /\ poolsDown = {} /\ discoDown = {} /\ hung = {}
        /\ counted = {} /\ stored = {} /\ answers = 0
        /\ pc = [p \in Users |-> "idle"] /\ me = [p \in Users |-> NoWork]
        /\ ops = 0 /\ dead = FALSE /\ overlapped = FALSE /\ unsettled = FALSE /\ direct = {}

Work(p) == \/ Get(p) \/ Lock(p) \/ GetAgain(p) \/ Save(p) \/ NewClient(p)
           \/ Look(p) \/ Delete(p) \/ Closing(p) \/ Mark(p) \/ ClosePools(p) \/ CloseDisco(p)
           \/ Set(p) \/ Call(p) \/ Chain(p) \/ Request(p) \/ Store(p) \/ Deliver(p)

Next == ~dead /\ (Receive \/ \E p \in Users : Begin(p) \/ Work(p))

\* Goroutines run, and a mutex that is free over and over is got at last.
Spec == Init /\ [][Next]_vars /\ \A p \in Users : SF_vars(~dead /\ Work(p))

-----------------------------------------------------------------------------
\* Every variable keeps its type.
TypeOK ==
  /\ kind \in Kinds /\ registered \in Clients \cup {NoClient}
  /\ mtNew \in Users \cup {NoOne} /\ made \in 0 .. MaxClients
  /\ isClose \subseteq Clients /\ poolsDown \subseteq Clients /\ discoDown \subseteq Clients
  /\ hung \subseteq poolsDown
  /\ counted \subseteq Clients /\ stored \subseteq counted /\ answers \in 0 .. ChanCap
  /\ \A p \in Users : /\ me[p].c \in Clients \cup {NoClient}
                      /\ me[p].closing \in Seq(Clients)
  /\ ops \in 0 .. MaxOps /\ direct \subseteq Clients
  /\ dead \in BOOLEAN /\ overlapped \in BOOLEAN /\ unsettled \in BOOLEAN

\* rpc/client.go:57, grpc/client.go:61 and :229: no goroutine gets a client by its
\* name once parts of it are closed.  (Only rpc and http let a program close one
\* behind the map's back, by the client's own Close.)  TypeOK is a part of it.
ClosedNotServed ==
  /\ TypeOK
  /\ registered \in poolsDown \cup discoDown => kind # "grpc" /\ registered \in direct

\* Goroutines that all miss the name make one client between them, as long as
\* nobody closes it or registers another.
OneClientMade == ~unsettled => made <= 1

\* One operation after the other, none closes what is closed already, in grpc at
\* all, in rpc and http unless the program closed that client by its own Close,
\* which leaves it in the map: then the next Close of it, or its replacement, closes
\* a closed channel and the program panics.  And between operations every client but
\* the registered one is closed: replacing a client leaves nothing of the old one
\* running.  (http never closes the client it replaces.)
Quiet == dead \/ \A p \in Users : pc[p] = "idle"
ClosedTwice == kind # "grpc" /\ direct \cap discoDown # {}
SequentialSafe ==
  Quiet /\ ~overlapped =>
    /\ dead => ClosedTwice
    /\ ~dead /\ kind # "http" =>
         \A c \in 1 .. made : c = registered \/ c \in discoDown \cap poolsDown

\* Whatever overlaps, an operation ends or locks itself out of a client's pools: no
\* other waits for a lock of this package that it keeps, and the Closes that call
\* each other come to an end.  The goroutine of GoCall may wait for a reader of the
\* channel.
Resting == {"idle", "deliver", "stuck"}
OperationsEnd == \A p \in Users : pc[p] \notin Resting ~> pc[p] \in Resting \/ dead
=============================================================================
