---------------------------- MODULE ClientsProofs ----------------------------
(***************************************************************************)
(* Proofs about Clients, for any number of goroutines, clients and         *)
(* operations: the types; that a closed client is not handed out by its    *)
(* name; that goroutines which miss the name make one client between them; *)
(* and that operations one after the other leave nothing behind.           *)
(***************************************************************************)
EXTENDS Clients, SequenceTheorems, TLAPS

-----------------------------------------------------------------------------
(***************************************************************************)
(* Where goroutines are                                                    *)
(***************************************************************************)
\* Inside Close: closing is not empty but at the first look of a Close(name).
Closes  == {"delete", "closing", "mark", "pools", "disco"}
Shuts   == {"look"} \cup Closes
\* Inside a call of its client.
Calling == {"call", "chain", "request", "first request", "store", "deliver"}
Places  == {"idle", "stuck", "get", "lock", "again", "new", "save", "set"} \cup Shuts \cup Calling

\* A goroutine at place x with work w has made a client and not registered it yet.
FreshAt(x, w) == x \in {"save", "set"} \/ (x \in Shuts /\ w.op = "register")
Fresh(p) == FreshAt(pc[p], me[p])

Ops   == {"none", "call", "gocall", "register", "close", "shut"}
Works == [op : Ops, c : Clients \cup {NoClient}, closing : Seq(Clients)]

\* What the work of a goroutine is like, where it is.
Sound(x, w) ==
  /\ x \in Closes => w.closing # <<>>
  /\ x \notin Shuts => w.closing = <<>>
  /\ x \in Calling => w.c # NoClient
  /\ x \in {"first request", "store"} => w.c \in counted
  /\ x \in {"closing", "mark"} => kind = "grpc"
  /\ FreshAt(x, w) => w.c # NoClient

\* TypeOK but for me, and what it does not say of where each goroutine is.
Globals ==
  /\ kind \in Kinds /\ registered \in Clients \cup {NoClient}
  /\ mtNew \in Users \cup {NoOne} /\ made \in 0 .. MaxClients
  /\ isClose \subseteq Clients /\ poolsDown \subseteq Clients /\ discoDown \subseteq Clients
  /\ hung \subseteq poolsDown
  /\ counted \subseteq Clients /\ stored \subseteq counted /\ answers \in 0 .. ChanCap
  /\ ops \in 0 .. MaxOps /\ direct \subseteq Clients
  /\ dead \in BOOLEAN /\ overlapped \in BOOLEAN /\ unsettled \in BOOLEAN
Types == /\ Globals
         /\ pc \in [Users -> Places] /\ me \in [Users -> Works]
         /\ \A p \in Users : Sound(pc[p], me[p])

-----------------------------------------------------------------------------
(***************************************************************************)
(* ClosedNotServed                                                         *)
(***************************************************************************)
\* Clients are numbered as they are made.
Known == /\ registered <= made
         /\ \A c \in poolsDown \cup discoDown : c <= made
         /\ \A p \in Users : me[p].c <= made
         /\ \A p \in Users : \A i \in DOMAIN me[p].closing : me[p].closing[i] <= made

\* Nobody else knows of a client that is not registered yet.
Alone == \A p \in Users : Fresh(p) =>
           /\ me[p].c # registered /\ me[p].c \notin poolsDown \cup discoDown
           /\ \A q \in Users : \A i \in DOMAIN me[q].closing : me[q].closing[i] # me[p].c
           /\ \A q \in Users \ {p} : Fresh(q) => me[q].c # me[p].c

\* A client that is being closed has left the map, and nothing brings it back;
\* unless it was closed by its own Close, of rpc or http.
Gone(c) == c = registered => kind # "grpc" /\ c \in direct
AllGone(p) == \A i \in DOMAIN me[p].closing : Gone(me[p].closing[i])
Leaving == /\ \A p \in Users : pc[p] \in {"pools", "disco"} => AllGone(p)
           /\ \A p \in Users : pc[p] = "closing" /\ Len(me[p].closing) > 1 => AllGone(p)
           /\ \A c \in poolsDown \cup discoDown : Gone(c)

Served == Types /\ Known /\ Alone /\ Leaving

-----------------------------------------------------------------------------
(***************************************************************************)
(* OneClientMade                                                           *)
(***************************************************************************)
\* Who looks for the second time, makes a client or registers it has mtNew, and
\* from the second look on the name is free.  Nobody closes anything.
Own(p) == /\ pc[p] \notin Closes
          /\ me[p].op = "register" => kind = "grpc"
          /\ pc[p] \in {"again", "new", "save", "look", "set"} => mtNew = p
          /\ pc[p] \in {"new", "save", "look", "set"} => registered = NoClient
          /\ pc[p] = "look" => me[p].op = "register" /\ me[p].closing = <<>>
Owning == \A p \in Users : Own(p)
\* There is no client, or one that somebody is about to register, or it is.
OneMade == /\ made <= 1
           /\ made = 0 \/ registered # NoClient
                       \/ \E p \in Users : pc[p] \in {"save", "look", "set"}
Single == ~unsettled => Owning /\ OneMade

-----------------------------------------------------------------------------
(***************************************************************************)
(* Types                                                                   *)
(***************************************************************************)
\* A Close that returns to the one it was called from leaves what that one closes.
LEMMA Popped ==
  ASSUME NEW s \in Seq(Clients), s # <<>>
  PROVE  LET t == SubSeq(s, 1, Len(s) - 1)
         IN  /\ s[Len(s)] \in Clients /\ Len(s) \in DOMAIN s
             /\ t \in Seq(Clients)
             /\ t # <<>> => Len(s) > 1
             /\ DOMAIN t \subseteq DOMAIN s
             /\ \A i \in DOMAIN t : t[i] = s[i]
<1> DEFINE t == SubSeq(s, 1, Len(s) - 1)
<1>1. Len(s) \in Nat /\ Len(s) # 0 /\ DOMAIN s = 1 .. Len(s) /\ \A i \in 1 .. Len(s) : s[i] \in Clients
  OBVIOUS
<1>2. /\ t \in Seq(Clients) /\ Len(t) = Len(s) - 1
      /\ \A i \in 1 .. Len(s) - 1 : t[i] = s[i]
  <2>1. 1 \in Int /\ Len(s) - 1 \in Int /\ \A i \in 1 .. Len(s) - 1 : s[i] \in Clients
    BY <1>1
  <2>2. /\ t \in Seq(Clients)
        /\ Len(t) = IF 1 <= Len(s) - 1 THEN (Len(s) - 1) - 1 + 1 ELSE 0
        /\ \A i \in 1 .. (Len(s) - 1) - 1 + 1 : t[i] = s[1 + i - 1]
    BY <2>1, SubSeqProperties
  <2> QED
    BY <1>1, <2>2
<1>3. DOMAIN t = 1 .. Len(t)
  BY <1>2
<1> QED
  BY <1>1, <1>2, <1>3

LEMMA NoWorkTyped ==
  /\ NoWork \in Works
  /\ NoWork.op = "none" /\ NoWork.c = NoClient /\ NoWork.closing = <<>>
<1>1. <<>> \in Seq(Clients)
  OBVIOUS
<1> QED
  BY <1>1 DEF NoWork, Works, Ops

\* Nobody but p moves, and p moves to a place there is.
Moves(p) == /\ pc' \in [Users -> Places] /\ me' \in [Users -> Works]
            /\ \A q \in Users \ {p} : pc'[q] = pc[q] /\ me'[q] = me[q]

LEMMA GotoMoves ==
  ASSUME Types, NEW p \in Users, NEW x \in Places, Goto(p, x), UNCHANGED me
  PROVE  Moves(p) /\ pc'[p] = x /\ me'[p] = me[p]
BY DEF Types, Goto, Moves

LEMMA ReturnMoves ==
  ASSUME Types, NEW p \in Users, Return(p)
  PROVE  /\ Moves(p) /\ pc'[p] = "idle" /\ me'[p] = NoWork
         /\ NoWork.op = "none" /\ NoWork.c = NoClient /\ NoWork.closing = <<>>
BY NoWorkTyped DEF Types, Return, Goto, Moves, Places

LEMMA HangsMoves ==
  ASSUME Types, NEW p \in Users, Hangs(p)
  PROVE  /\ Moves(p) /\ pc'[p] = "stuck" /\ me'[p] = NoWork
         /\ NoWork.op = "none" /\ NoWork.c = NoClient /\ NoWork.closing = <<>>
BY NoWorkTyped DEF Types, Hangs, Goto, Moves, Places

LEMMA StayMoves ==
  ASSUME Types, NEW p \in Users, UNCHANGED <<pc, me>>
  PROVE  Moves(p) /\ pc'[p] = pc[p] /\ me'[p] = me[p]
BY DEF Types, Moves

LEMMA ClientMoves ==
  ASSUME Types, NEW p \in Users, NEW x \in Places, Goto(p, x),
         NEW c \in Clients \cup {NoClient}, me' = [me EXCEPT ![p].c = c]
  PROVE  /\ Moves(p) /\ pc'[p] = x
         /\ me'[p].c = c /\ me'[p].op = me[p].op /\ me'[p].closing = me[p].closing
BY DEF Types, Goto, Moves, Works

LEMMA ClosingMoves ==
  ASSUME Types, NEW p \in Users, NEW x \in Places, Goto(p, x),
         NEW s \in Seq(Clients), me' = [me EXCEPT ![p].closing = s]
  PROVE  /\ Moves(p) /\ pc'[p] = x
         /\ me'[p].c = me[p].c /\ me'[p].op = me[p].op /\ me'[p].closing = s
BY DEF Types, Goto, Moves, Works

LEMMA BackMoves ==
  ASSUME Types, NEW p \in Users, NEW s \in Seq(Clients), Back(p, s)
  PROVE  /\ Moves(p)
         /\ \/ pc'[p] = "idle" /\ me'[p] = NoWork
            \/ /\ \/ pc'[p] = "set" /\ s = <<>> /\ me[p].op = "register"
                  \/ pc'[p] = "pools" /\ s # <<>>
               /\ me'[p].c = me[p].c /\ me'[p].op = me[p].op /\ me'[p].closing = s
<1>1. CASE s = <<>> /\ me[p].op # "register"
  BY <1>1, ReturnMoves DEF Back
<1>2. CASE s = <<>> /\ me[p].op = "register"
  <2>1. "set" \in Places
    BY DEF Places
  <2>2. Goto(p, "set") /\ me' = [me EXCEPT ![p].closing = s]
    BY <1>2 DEF Back
  <2> QED
    BY <1>2, <2>1, <2>2, ClosingMoves
<1>3. CASE s # <<>>
  <2>1. "pools" \in Places
    BY DEF Places, Shuts, Closes
  <2>2. Goto(p, "pools") /\ me' = [me EXCEPT ![p].closing = s]
    BY <1>3 DEF Back
  <2> QED
    BY <1>3, <2>1, <2>2, ClosingMoves
<1> QED
  BY <1>1, <1>2, <1>3

\* If what p does next is sound, so is everything.
LEMMA TypesStep ==
  ASSUME Types, NEW p \in Users, Moves(p), Globals',
         kind' = kind, counted \subseteq counted', Sound(pc[p], me[p])'
  PROVE  Types'
<1>1. \A q \in Users \ {p} : Sound(pc[q], me[q])'
  <2> TAKE q \in Users \ {p}
  <2>1. Sound(pc[q], me[q]) /\ pc'[q] = pc[q] /\ me'[q] = me[q]
    BY DEF Types, Moves
  <2> QED
    BY <2>1 DEF Sound, FreshAt
<1> QED
  BY <1>1 DEF Types, Moves

-----------------------------------------------------------------------------
(***************************************************************************)
(* Steps of a goroutine that touch neither the map nor a client            *)
(***************************************************************************)
Plain(p) == /\ Moves(p)
            /\ UNCHANGED <<kind, registered, made, partVars, histVars>>
            /\ pc'[p] \in {"idle", "stuck", "lock", "again", "new"} \cup Calling
            /\ me'[p].closing = <<>>
            /\ me'[p].c \in {NoClient, me[p].c, registered}

LEMMA EndPlain ==
  ASSUME Types, NEW p \in Users, End(p), pc[p] \in Calling
  PROVE  /\ Moves(p) /\ pc'[p] \in {"idle", "deliver"}
         /\ me'[p] = IF pc'[p] = "idle" THEN NoWork ELSE me[p]
<1>1. "deliver" \in Places
  BY DEF Places, Calling
<1> QED
  BY <1>1, GotoMoves, ReturnMoves DEF End

LEMMA FoundPlain ==
  ASSUME Types, NEW p \in Users, Found(p), registered # NoClient, pc[p] \in {"get", "again"}
  PROVE  /\ Moves(p)
         /\ \/ pc'[p] = "idle" /\ me'[p] = NoWork
            \/ pc'[p] = "call" /\ me'[p].c = registered /\ me'[p].closing = <<>>
<1>1. CASE me[p].op = "register"
  BY <1>1, ReturnMoves DEF Found
<1>2. CASE me[p].op # "register"
  <2>1. "call" \in Places /\ registered \in Clients \cup {NoClient} /\ me[p].closing = <<>>
    BY DEF Places, Calling, Types, Globals, Sound, Shuts, Closes
  <2>2. Goto(p, "call") /\ me' = [me EXCEPT ![p].c = registered]
    BY <1>2 DEF Found
  <2> QED
    BY <2>1, <2>2, ClientMoves
<1> QED
  BY <1>1, <1>2

LEMMA GetPlain ==
  ASSUME Types, NEW p \in Users, Get(p)
  PROVE  Plain(p) /\ Types'
<1>1. /\ Moves(p) /\ me[p].closing = <<>>
      /\ \/ pc'[p] = "idle" /\ me'[p] = NoWork
         \/ pc'[p] = "call" /\ me'[p].c = registered /\ me'[p].closing = <<>> /\ registered # NoClient
         \/ pc'[p] = "lock" /\ me'[p] = me[p]
  <2>1. me[p].closing = <<>>
    BY DEF Get, Types, Sound, Places, Shuts, Closes, Calling
  <2> QED
    BY <2>1, GotoMoves, ReturnMoves, FoundPlain DEF Get, Missing, Places, Shuts, Closes, Calling
<1>7. Globals' /\ kind' = kind /\ counted \subseteq counted'
        /\ UNCHANGED <<kind, registered, made, partVars, histVars>>
  BY KindsAssumption, UsersAssumption DEF Get, Types, Globals, partVars, reqVars, histVars
<1>8. Sound(pc[p], me[p])'
  BY <1>1, <1>7, NoWorkTyped, KindsAssumption DEF Types, Sound, FreshAt, Get, Globals, Places, Shuts, Closes, Calling
<1>9. Plain(p)
  BY <1>1, <1>7, NoWorkTyped DEF Plain, Calling
<1> QED
  BY <1>1, <1>7, NoWorkTyped, <1>8, <1>9, TypesStep

LEMMA LockPlain ==
  ASSUME Types, NEW p \in Users, Lock(p)
  PROVE  Plain(p) /\ Types'
<1>1. /\ Moves(p) /\ me[p].closing = <<>>
      /\ pc'[p] = "again" /\ me'[p] = me[p]
  <2>1. me[p].closing = <<>>
    BY DEF Lock, Types, Sound, Places, Shuts, Closes, Calling
  <2> QED
    BY <2>1, GotoMoves, ReturnMoves DEF Lock, Places, Shuts, Closes, Calling
<1>7. Globals' /\ kind' = kind /\ counted \subseteq counted'
        /\ UNCHANGED <<kind, registered, made, partVars, histVars>>
  BY KindsAssumption, UsersAssumption DEF Lock, Types, Globals, partVars, reqVars, histVars
<1>8. Sound(pc[p], me[p])'
  BY <1>1, <1>7, NoWorkTyped, KindsAssumption DEF Types, Sound, FreshAt, Lock, Globals, Places, Shuts, Closes, Calling
<1>9. Plain(p)
  BY <1>1, <1>7, NoWorkTyped DEF Plain, Calling
<1> QED
  BY <1>1, <1>7, NoWorkTyped, <1>8, <1>9, TypesStep

LEMMA GetAgainPlain ==
  ASSUME Types, NEW p \in Users, GetAgain(p)
  PROVE  Plain(p) /\ Types'
<1>1. /\ Moves(p) /\ me[p].closing = <<>>
      /\ \/ pc'[p] = "idle" /\ me'[p] = NoWork
         \/ pc'[p] = "call" /\ me'[p].c = registered /\ me'[p].closing = <<>> /\ registered # NoClient
         \/ pc'[p] = "new" /\ me'[p] = me[p]
  <2>1. me[p].closing = <<>>
    BY DEF GetAgain, Types, Sound, Places, Shuts, Closes, Calling
  <2> QED
    BY <2>1, GotoMoves, ReturnMoves, FoundPlain DEF GetAgain, Here, Places, Shuts, Closes, Calling
<1>7. Globals' /\ kind' = kind /\ counted \subseteq counted'
        /\ UNCHANGED <<kind, registered, made, partVars, histVars>>
  BY KindsAssumption, UsersAssumption DEF GetAgain, Release, Types, Globals, partVars, reqVars, histVars
<1>8. Sound(pc[p], me[p])'
  BY <1>1, <1>7, NoWorkTyped, KindsAssumption DEF Types, Sound, FreshAt, GetAgain, Globals, Places, Shuts, Closes, Calling
<1>9. Plain(p)
  BY <1>1, <1>7, NoWorkTyped DEF Plain, Calling
<1> QED
  BY <1>1, <1>7, NoWorkTyped, <1>8, <1>9, TypesStep

LEMMA CallPlain ==
  ASSUME Types, NEW p \in Users, Call(p)
  PROVE  Plain(p) /\ Types'
<1>1. /\ Moves(p) /\ me[p].closing = <<>>
      /\ \/ pc'[p] = "idle" /\ me'[p] = NoWork
         \/ pc'[p] \in {"deliver", "request", "chain"} /\ me'[p] = me[p]
  <2>1. me[p].closing = <<>>
    BY DEF Call, Types, Sound, Places, Shuts, Closes, Calling
  <2> QED
    BY <2>1, GotoMoves, ReturnMoves, EndPlain DEF Call, Places, Shuts, Closes, Calling
<1>7. Globals' /\ kind' = kind /\ counted \subseteq counted'
        /\ UNCHANGED <<kind, registered, made, partVars, histVars>>
  BY KindsAssumption, UsersAssumption DEF Call, Types, Globals, partVars, reqVars, histVars
<1>8. Sound(pc[p], me[p])'
  BY <1>1, <1>7, NoWorkTyped, KindsAssumption DEF Types, Sound, FreshAt, Call, Globals, Places, Shuts, Closes, Calling
<1>9. Plain(p)
  BY <1>1, <1>7, NoWorkTyped DEF Plain, Calling
<1> QED
  BY <1>1, <1>7, NoWorkTyped, <1>8, <1>9, TypesStep

LEMMA ChainPlain ==
  ASSUME Types, NEW p \in Users, Chain(p)
  PROVE  Plain(p) /\ Types'
<1>1. /\ Moves(p) /\ me[p].closing = <<>>
      /\ pc'[p] \in {"chain", "first request"} /\ me'[p] = me[p]
  <2>1. me[p].closing = <<>>
    BY DEF Chain, Types, Sound, Places, Shuts, Closes, Calling
  <2> QED
    BY <2>1, GotoMoves, StayMoves DEF Chain, Places, Shuts, Closes, Calling
<1>7. Globals' /\ kind' = kind /\ counted \subseteq counted'
        /\ UNCHANGED <<kind, registered, made, partVars, histVars>>
  <2>1. me[p].c \in Clients
    BY DEF Chain, Types, Sound, Calling, Works
  <2> QED
    BY <2>1 DEF Chain, Types, Globals, partVars, reqVars, histVars
<1>8. Sound(pc[p], me[p])'
  BY <1>1, <1>7, NoWorkTyped, KindsAssumption DEF Types, Sound, FreshAt, Chain, Globals, Places, Shuts, Closes, Calling
<1>9. Plain(p)
  BY <1>1, <1>7, NoWorkTyped DEF Plain, Calling
<1> QED
  BY <1>1, <1>7, NoWorkTyped, <1>8, <1>9, TypesStep

LEMMA RequestPlain ==
  ASSUME Types, NEW p \in Users, Request(p)
  PROVE  Plain(p) /\ Types'
<1>1. /\ Moves(p) /\ me[p].closing = <<>>
      /\ \/ pc'[p] \in {"idle", "stuck"} /\ me'[p] = NoWork
         \/ pc'[p] = "deliver" /\ me'[p] = me[p]
         \/ pc'[p] = "store" /\ me'[p] = me[p] /\ pc[p] = "first request"
  <2>1. me[p].closing = <<>>
    BY DEF Request, Types, Sound, Places, Shuts, Closes, Calling
  <2> QED
    BY <2>1, GotoMoves, HangsMoves, EndPlain DEF Request, Places, Shuts, Closes, Calling
<1>7. Globals' /\ kind' = kind /\ counted \subseteq counted'
        /\ UNCHANGED <<kind, registered, made, partVars, histVars>>
  BY KindsAssumption, UsersAssumption DEF Request, Types, Globals, partVars, reqVars, histVars
<1>8. Sound(pc[p], me[p])'
  BY <1>1, <1>7, NoWorkTyped, KindsAssumption DEF Types, Sound, FreshAt, Request, reqVars, Globals, Places, Shuts, Closes, Calling
<1>9. Plain(p)
  BY <1>1, <1>7, NoWorkTyped DEF Plain, Calling
<1> QED
  BY <1>1, <1>7, NoWorkTyped, <1>8, <1>9, TypesStep

LEMMA StorePlain ==
  ASSUME Types, NEW p \in Users, Store(p)
  PROVE  Plain(p) /\ Types'
<1>1. /\ Moves(p) /\ me[p].closing = <<>>
      /\ \/ pc'[p] = "idle" /\ me'[p] = NoWork
         \/ pc'[p] = "deliver" /\ me'[p] = me[p]
  <2>1. me[p].closing = <<>>
    BY DEF Store, Types, Sound, Places, Shuts, Closes, Calling
  <2> QED
    BY <2>1, GotoMoves, ReturnMoves, EndPlain DEF Store, Places, Shuts, Closes, Calling
<1>7. Globals' /\ kind' = kind /\ counted \subseteq counted'
        /\ UNCHANGED <<kind, registered, made, partVars, histVars>>
  BY KindsAssumption, UsersAssumption DEF Store, Sound, Types, Globals, partVars, reqVars, histVars
<1>8. Sound(pc[p], me[p])'
  BY <1>1, <1>7, NoWorkTyped, KindsAssumption DEF Types, Sound, FreshAt, Store, Globals, Places, Shuts, Closes, Calling
<1>9. Plain(p)
  BY <1>1, <1>7, NoWorkTyped DEF Plain, Calling
<1> QED
  BY <1>1, <1>7, NoWorkTyped, <1>8, <1>9, TypesStep

LEMMA DeliverPlain ==
  ASSUME Types, NEW p \in Users, Deliver(p)
  PROVE  Plain(p) /\ Types'
<1>1. /\ Moves(p) /\ me[p].closing = <<>>
      /\ pc'[p] = "idle" /\ me'[p] = NoWork
  <2>1. me[p].closing = <<>>
    BY DEF Deliver, Types, Sound, Places, Shuts, Closes, Calling
  <2> QED
    BY <2>1, GotoMoves, ReturnMoves DEF Deliver, Places, Shuts, Closes, Calling
<1>7. Globals' /\ kind' = kind /\ counted \subseteq counted'
        /\ UNCHANGED <<kind, registered, made, partVars, histVars>>
  BY BoundsAssumption, KindsAssumption, UsersAssumption DEF Deliver, Full, Types, Globals, partVars, reqVars, histVars
<1>8. Sound(pc[p], me[p])'
  BY <1>1, <1>7, NoWorkTyped, KindsAssumption DEF Types, Sound, FreshAt, Deliver, Globals, Places, Shuts, Closes, Calling
<1>9. Plain(p)
  BY <1>1, <1>7, NoWorkTyped DEF Plain, Calling
<1> QED
  BY <1>1, <1>7, NoWorkTyped, <1>8, <1>9, TypesStep

\* Of what the properties speak, such a step changes nothing.
LEMMA PlainServed ==
  ASSUME Served, NEW p \in Users, Plain(p), Types'
  PROVE  Served'
<1>1. /\ Types /\ Known /\ Alone /\ Leaving
      /\ UNCHANGED <<kind, registered, made, isClose, poolsDown, discoDown, direct>>
      /\ \A q \in Users \ {p} : pc'[q] = pc[q] /\ me'[q] = me[q]
  BY DEF Served, Plain, Moves, partVars, histVars
<1>2. /\ pc'[p] \notin Shuts \cup {"save", "set"}
      /\ me'[p].closing = <<>>
      /\ me'[p].c <= made
  <2>1. pc'[p] \notin Shuts \cup {"save", "set"} /\ me'[p].closing = <<>>
    BY DEF Plain, Shuts, Closes, Calling
  <2>2. made \in Nat /\ me[p].c <= made /\ registered <= made
    BY <1>1 DEF Types, Globals, Known
  <2>3. me'[p].c \in {NoClient, me[p].c, registered}
    BY DEF Plain
  <2> QED
    BY <2>1, <2>2, <2>3 DEF NoClient
<1>3. DOMAIN me'[p].closing = {}
  BY <1>2
<1>4. Known'
  BY <1>1, <1>2, <1>3 DEF Known
<1>5. Alone'
  BY <1>1, <1>2, <1>3 DEF Alone, Fresh, FreshAt
<1>6. Leaving'
  BY <1>1, <1>2, <1>3 DEF Leaving, AllGone, Gone, Shuts, Closes
<1> QED
  BY <1>4, <1>5, <1>6 DEF Served

-----------------------------------------------------------------------------
(***************************************************************************)
(* Steps of a Close: a client leaves the map, and its parts are closed     *)
(***************************************************************************)
\* What p closes is what it closed before or what the map has; what is closed by
\* then, or will be next, has left the map.
Shutting(p) ==
  /\ Moves(p) /\ UNCHANGED <<kind, made, direct>> /\ registered' \in {registered, NoClient}
  /\ pc'[p] \in {"idle", "stuck"} => me'[p].c = NoClient
  /\ pc'[p] \notin {"idle", "stuck"} => me'[p].c = me[p].c /\ me'[p].op = me[p].op
  /\ pc'[p] \in {"idle", "stuck", "set"} \cup Shuts
  /\ pc'[p] = "set" => me[p].op = "register"
  /\ \A i \in DOMAIN me'[p].closing :
       \/ me'[p].closing[i] = registered /\ registered # NoClient
       \/ \E j \in DOMAIN me[p].closing : me'[p].closing[i] = me[p].closing[j]
  /\ \A c \in poolsDown' \cup discoDown' :
       \/ c \in poolsDown \cup discoDown
       \/ \E j \in DOMAIN me[p].closing : c = me[p].closing[j] /\ Gone(c)
  /\ pc'[p] \in {"pools", "disco"} => AllGone(p)'
  /\ pc'[p] = "closing" /\ Len(me'[p].closing) > 1 => AllGone(p)'

LEMMA ShutServed ==
  ASSUME Served, NEW p \in Users, pc[p] \in Shuts, Shutting(p), Types'
  PROVE  Served'
<1>1. /\ Types /\ Known /\ Alone /\ Leaving
      /\ UNCHANGED <<kind, made, direct>> /\ registered' \in {registered, NoClient}
      /\ \A q \in Users \ {p} : pc'[q] = pc[q] /\ me'[q] = me[q]
  BY DEF Served, Shutting, Moves
<1>2. /\ made \in Nat /\ NoClient \notin Clients /\ Clients \subseteq Nat \ {0} /\ NoClient = 0
      /\ \A q \in Users : me[q].closing \in Seq(Clients)
      /\ \A q \in Users : \A i \in DOMAIN me[q].closing : me[q].closing[i] \in Clients
      /\ poolsDown \subseteq Clients /\ discoDown \subseteq Clients
  <2>1. \A q \in Users : me[q].closing \in Seq(Clients)
    BY <1>1 DEF Types, Works
  <2>2. \A q \in Users : \A i \in DOMAIN me[q].closing : me[q].closing[i] \in Clients
    BY <2>1
  <2> QED
    BY <1>1, <2>1, <2>2 DEF Types, Globals, NoClient, Clients
<1>3. \A c \in Clients : Gone(c) => Gone(c)'
  BY <1>1, <1>2 DEF Gone
<1>4. \A i \in DOMAIN me'[p].closing :
        \/ me'[p].closing[i] = registered /\ registered # NoClient
        \/ \E j \in DOMAIN me[p].closing : me'[p].closing[i] = me[p].closing[j]
  BY DEF Shutting
<1>5. \A c \in poolsDown' \cup discoDown' :
        \/ c \in poolsDown \cup discoDown
        \/ \E j \in DOMAIN me[p].closing : c = me[p].closing[j] /\ Gone(c)
  BY DEF Shutting
<1>6. Known'
  <2>1. registered' <= made'
    BY <1>1, <1>2 DEF Known
  <2>2. \A c \in poolsDown' \cup discoDown' : c <= made'
    BY <1>1, <1>2, <1>5 DEF Known
  <2>3. \A q \in Users : me'[q].c <= made'
    BY <1>1, <1>2 DEF Known, Shutting
  <2>4. \A q \in Users : \A i \in DOMAIN me'[q].closing : me'[q].closing[i] <= made'
    BY <1>1, <1>4 DEF Known
  <2> QED
    BY <2>1, <2>2, <2>3, <2>4 DEF Known
<1>7. \A q \in Users : Fresh(q)' => Fresh(q) /\ me'[q].c = me[q].c
  <2>1. Fresh(p)' => Fresh(p) /\ me'[p].c = me[p].c
    BY DEF Shutting, Fresh, FreshAt, Shuts, Closes
  <2> QED
    BY <1>1, <2>1 DEF Fresh
<1>8. Alone'
  <2> SUFFICES ASSUME NEW q \in Users, Fresh(q)'
               PROVE  /\ me'[q].c # registered' /\ me'[q].c \notin poolsDown' \cup discoDown'
                      /\ \A r \in Users : \A i \in DOMAIN me'[r].closing : me'[r].closing[i] # me'[q].c
                      /\ \A r \in Users \ {q} : Fresh(r)' => me'[r].c # me'[q].c
    BY DEF Alone
  <2>1. /\ Fresh(q) /\ me'[q].c = me[q].c
        /\ me[q].c # registered /\ me[q].c \notin poolsDown \cup discoDown
        /\ \A r \in Users : \A i \in DOMAIN me[r].closing : me[r].closing[i] # me[q].c
        /\ \A r \in Users \ {q} : Fresh(r) => me[r].c # me[q].c
    BY <1>1, <1>7 DEF Alone
  <2>2. me[q].c # NoClient
    BY <1>1, <2>1 DEF Types, Sound, Fresh
  <2>3. me'[q].c # registered' /\ me'[q].c \notin poolsDown' \cup discoDown'
    BY <1>1, <1>5, <2>1, <2>2
  <2>4. \A r \in Users : \A i \in DOMAIN me'[r].closing : me'[r].closing[i] # me'[q].c
    BY <1>1, <1>4, <2>1
  <2>5. \A r \in Users \ {q} : Fresh(r)' => me'[r].c # me'[q].c
    BY <1>7, <2>1
  <2> QED
    BY <2>3, <2>4, <2>5
<1>9. Leaving'
  <2>1. \A c \in poolsDown' \cup discoDown' : Gone(c)'
    BY <1>1, <1>2, <1>3, <1>5 DEF Leaving
  <2>2. \A q \in Users \ {p} : AllGone(q) => AllGone(q)'
    BY <1>1, <1>2, <1>3 DEF AllGone
  <2> QED
    BY <1>1, <2>1, <2>2 DEF Leaving, Shutting
<1> QED
  BY <1>6, <1>8, <1>9 DEF Served

LEMMA LookShuts ==
  ASSUME Served, NEW p \in Users, Look(p)
  PROVE  Shutting(p) /\ Types' /\ pc[p] \in Shuts
<1>1. /\ Types /\ pc[p] = "look" /\ me[p].closing \in Seq(Clients)
      /\ UNCHANGED <<kind, registered, mtNew, made, partVars, reqVars, dead, histVars>>
      /\ registered \in Clients \cup {NoClient}
      /\ \A i \in DOMAIN me[p].closing : me[p].closing[i] \in Clients
  <2>1. me[p].closing \in Seq(Clients)
    BY DEF Served, Types, Works
  <2> QED
    BY <2>1 DEF Look, Served, Types, Globals
<1>2. Globals' /\ pc[p] \in Shuts
  BY <1>1 DEF Types, Globals, partVars, reqVars, histVars, Shuts
<1>3. CASE registered = NoClient
  <2>1. /\ Moves(p)
        /\ \/ pc'[p] = "idle" /\ me'[p] = NoWork
           \/ /\ \/ pc'[p] = "set" /\ me[p].closing = <<>> /\ me[p].op = "register"
                 \/ pc'[p] = "pools" /\ me[p].closing # <<>>
              /\ me'[p].c = me[p].c /\ me'[p].op = me[p].op /\ me'[p].closing = me[p].closing
    BY <1>1, <1>3, BackMoves DEF Look
  <2>2. Sound(pc[p], me[p])'
    BY <1>1, <2>1, NoWorkTyped DEF Types, Sound, FreshAt, Shuts, Closes, Calling
  <2>3. Types'
    BY <1>1, <1>2, <2>1, <2>2, TypesStep DEF reqVars
  <2>4. AllGone(p)' \/ pc'[p] = "idle"
    BY <1>1, <1>3, <2>1 DEF AllGone, Gone, Clients, NoClient
  <2>5. Shutting(p)
    BY <1>1, <2>1, <2>4, NoWorkTyped DEF Shutting, partVars, histVars, Shuts, Closes
  <2> QED
    BY <1>2, <2>3, <2>5
<1>4. CASE registered # NoClient
  <2> DEFINE t == Append(me[p].closing, registered)
  <2>1. /\ t \in Seq(Clients) /\ t # <<>>
        /\ \A i \in DOMAIN t : t[i] = registered \/ \E j \in DOMAIN me[p].closing : t[i] = me[p].closing[j]
    BY <1>1, <1>4
  <2>2. "delete" \in Places /\ Goto(p, "delete") /\ me' = [me EXCEPT ![p].closing = t]
    BY <1>4 DEF Look, Places, Shuts, Closes
  <2>3. /\ Moves(p) /\ pc'[p] = "delete"
        /\ me'[p].c = me[p].c /\ me'[p].op = me[p].op /\ me'[p].closing = t
    BY <1>1, <2>1, <2>2, ClosingMoves
  <2> HIDE DEF t
  <2>4. Sound(pc[p], me[p])'
    BY <1>1, <2>1, <2>3 DEF Types, Sound, FreshAt, Shuts, Closes, Calling
  <2>5. Types'
    BY <1>1, <1>2, <2>3, <2>4, TypesStep DEF reqVars
  <2>6. Shutting(p)
    BY <1>1, <1>4, <2>1, <2>3 DEF Shutting, partVars, histVars, Shuts, Closes
  <2> QED
    BY <1>2, <2>5, <2>6
<1> QED
  BY <1>3, <1>4

LEMMA DeleteShuts ==
  ASSUME Served, NEW p \in Users, Delete(p)
  PROVE  Shutting(p) /\ Types' /\ pc[p] \in Shuts
<1>1. /\ Types /\ pc[p] = "delete" /\ pc[p] \in Shuts /\ registered' = NoClient
      /\ UNCHANGED <<kind, mtNew, made, partVars, reqVars, dead, histVars>>
      /\ \A i \in DOMAIN me[p].closing : me[p].closing[i] \in Clients
  <2>1. me[p].closing \in Seq(Clients)
    BY DEF Served, Types, Works
  <2> QED
    BY <2>1 DEF Delete, Dropped, Served, Shuts, Closes
<1>2. /\ Moves(p)
      /\ \/ pc'[p] = "idle" /\ me'[p] = NoWork
         \/ pc'[p] = "disco" /\ me'[p] = me[p]
         \/ pc'[p] = "closing" /\ me'[p] = me[p] /\ kind = "grpc"
  BY <1>1, GotoMoves, ReturnMoves DEF Delete, Places, Shuts, Closes
<1>3. Globals'
  BY <1>1 DEF Types, Globals, partVars, reqVars, histVars
<1>4. Sound(pc[p], me[p])'
  BY <1>1, <1>2, NoWorkTyped DEF Types, Sound, FreshAt, Shuts, Closes, Calling
<1>5. Types'
  BY <1>1, <1>2, <1>3, <1>4, TypesStep DEF reqVars
<1>6. AllGone(p)' \/ pc'[p] = "idle"
  BY <1>1, <1>2 DEF AllGone, Gone, Clients, NoClient
<1>7. \A i \in DOMAIN me'[p].closing : \E j \in DOMAIN me[p].closing : me'[p].closing[i] = me[p].closing[j]
  BY <1>2, NoWorkTyped
<1>8. Shutting(p)
  BY <1>1, <1>2, <1>6, <1>7, NoWorkTyped DEF Shutting, partVars, histVars, Shuts, Closes
<1> QED
  BY <1>1, <1>5, <1>8

\* In closing, mark, pools and disco there is an innermost client.
LEMMA TopFacts ==
  ASSUME Types, NEW p \in Users, pc[p] \in Closes
  PROVE  /\ Top(p) \in Clients
         /\ \E j \in DOMAIN me[p].closing : Top(p) = me[p].closing[j]
         /\ Outer(p) \in Seq(Clients)
         /\ Outer(p) # <<>> => Len(me[p].closing) > 1
         /\ \A i \in DOMAIN Outer(p) : i \in DOMAIN me[p].closing /\ Outer(p)[i] = me[p].closing[i]
<1>1. me[p].closing \in Seq(Clients) /\ me[p].closing # <<>>
  BY DEF Types, Works, Sound
<1> QED
  BY <1>1, Popped DEF Top, Outer

\* A Close that returns to an outer one of a client that is gone.
LEMMA BackShuts ==
  ASSUME Served, NEW p \in Users, pc[p] \in Closes, Back(p, Outer(p)),
         Globals', UNCHANGED <<kind, registered, made, counted, direct>>,
         Outer(p) # <<>> => AllGone(p),
         \A c \in poolsDown' \cup discoDown' : c \in poolsDown \cup discoDown \/ (c = Top(p) /\ Gone(c))
  PROVE  Shutting(p) /\ Types'
<1>1. /\ Types /\ Outer(p) \in Seq(Clients) /\ \E j \in DOMAIN me[p].closing : Top(p) = me[p].closing[j]
      /\ \A i \in DOMAIN Outer(p) : i \in DOMAIN me[p].closing /\ Outer(p)[i] = me[p].closing[i]
  BY TopFacts DEF Served
<1>2. /\ Moves(p)
      /\ \/ pc'[p] = "idle" /\ me'[p] = NoWork
         \/ /\ \/ pc'[p] = "set" /\ Outer(p) = <<>> /\ me[p].op = "register"
               \/ pc'[p] = "pools" /\ Outer(p) # <<>>
            /\ me'[p].c = me[p].c /\ me'[p].op = me[p].op /\ me'[p].closing = Outer(p)
  BY <1>1, BackMoves
<1>3. Sound(pc[p], me[p])'
  BY <1>1, <1>2, NoWorkTyped DEF Types, Sound, FreshAt, Shuts, Closes, Calling
<1>4. Types'
  BY <1>1, <1>2, <1>3, TypesStep
<1>5. pc'[p] = "pools" => AllGone(p)'
  BY <1>1, <1>2 DEF AllGone, Gone
<1>6. \A i \in DOMAIN me'[p].closing : \E j \in DOMAIN me[p].closing : me'[p].closing[i] = me[p].closing[j]
  BY <1>1, <1>2, NoWorkTyped
<1>7. Shutting(p)
  BY <1>1, <1>2, <1>5, <1>6, NoWorkTyped DEF Shutting, Shuts, Closes
<1> QED
  BY <1>4, <1>7

LEMMA ClosingShuts ==
  ASSUME Served, NEW p \in Users, Closing(p)
  PROVE  Shutting(p) /\ Types' /\ pc[p] \in Shuts
<1>1. /\ Types /\ pc[p] = "closing" /\ pc[p] \in Shuts /\ pc[p] \in Closes
      /\ UNCHANGED <<kind, registered, mtNew, made, partVars, reqVars, dead, histVars>>
  BY DEF Closing, Served, Shuts, Closes
<1>2. Globals' /\ UNCHANGED <<kind, registered, made, poolsDown, discoDown, counted, direct>>
  BY <1>1 DEF Types, Globals, partVars, reqVars, histVars
<1>3. CASE Top(p) \in isClose
  <2>1. Outer(p) # <<>> => AllGone(p)
    BY <1>1, TopFacts DEF Served, Leaving
  <2>2. Back(p, Outer(p))
    BY <1>3 DEF Closing
  <2> QED
    BY <1>1, <1>2, <2>1, <2>2, BackShuts
<1>4. CASE Top(p) \notin isClose
  <2>1. "mark" \in Places /\ Goto(p, "mark") /\ UNCHANGED me
    BY <1>4 DEF Closing, Places, Shuts, Closes
  <2>2. Moves(p) /\ pc'[p] = "mark" /\ me'[p] = me[p]
    BY <1>1, <2>1, GotoMoves
  <2>3. Sound(pc[p], me[p])'
    BY <1>1, <1>2, <2>2 DEF Types, Sound, FreshAt, Shuts, Closes, Calling
  <2>4. Types'
    BY <1>1, <1>2, <2>2, <2>3, TypesStep
  <2>5. Shutting(p)
    BY <1>1, <1>2, <2>2 DEF Shutting, Shuts, Closes
  <2> QED
    BY <1>1, <2>4, <2>5
<1> QED
  BY <1>3, <1>4

LEMMA MarkShuts ==
  ASSUME Served, NEW p \in Users, Mark(p)
  PROVE  Shutting(p) /\ Types' /\ pc[p] \in Shuts
<1>1. /\ Types /\ pc[p] = "mark" /\ pc[p] \in Shuts /\ pc[p] \in Closes
      /\ UNCHANGED <<kind, registered, mtNew, made, poolsDown, discoDown, hung, reqVars, dead, histVars>>
  BY DEF Mark, Served, Shuts, Closes
<1>2. Globals' /\ UNCHANGED <<kind, registered, made, poolsDown, discoDown, counted, direct>>
  BY <1>1, TopFacts DEF Mark, Types, Globals, reqVars, histVars
<1>3. Moves(p) /\ pc'[p] = "look" /\ me'[p] = me[p]
  BY <1>1, GotoMoves DEF Mark, Places, Shuts
<1>4. Sound(pc[p], me[p])'
  BY <1>1, <1>2, <1>3 DEF Types, Sound, FreshAt, Shuts, Closes, Calling
<1>5. Types'
  BY <1>1, <1>2, <1>3, <1>4, TypesStep
<1>6. Shutting(p)
  BY <1>1, <1>2, <1>3 DEF Shutting, Shuts, Closes
<1> QED
  BY <1>1, <1>5, <1>6

\* ClosePools and CloseDisco end in Closed.
LEMMA ClosedShuts ==
  ASSUME Served, NEW p \in Users, NEW part \in {"pools", "disco"}, pc[p] = part, Closed(p, part),
         Globals', UNCHANGED <<kind, registered, made, counted, direct>>,
         \A c \in poolsDown' \cup discoDown' : c \in poolsDown \cup discoDown \/ c = Top(p)
  PROVE  Shutting(p) /\ Types'
<1>1. Types /\ pc[p] \in Closes /\ AllGone(p)
  BY DEF Served, Leaving, Closes
<1>2. Gone(Top(p)) /\ \E j \in DOMAIN me[p].closing : Top(p) = me[p].closing[j]
  BY <1>1, TopFacts DEF AllGone
<1>3. CASE part = Last(Parts)
  BY <1>1, <1>2, <1>3, BackShuts DEF Closed
<1>4. CASE part # Last(Parts)
  <2>1. Last(Parts) \in {"pools", "disco"}
    BY DEF Last, Parts, RpcParts, GrpcParts, HttpParts
  <2>2. Last(Parts) \in Places /\ Goto(p, Last(Parts)) /\ UNCHANGED me
    BY <1>4, <2>1 DEF Closed, Places, Shuts, Closes
  <2>3. Moves(p) /\ pc'[p] \in {"pools", "disco"} /\ me'[p] = me[p]
    BY <1>1, <2>1, <2>2, GotoMoves
  <2>4. Sound(pc[p], me[p])'
    BY <1>1, <2>3 DEF Types, Sound, FreshAt, Shuts, Closes, Calling
  <2>5. Types'
    BY <1>1, <2>3, <2>4, TypesStep
  <2>6. AllGone(p)'
    BY <1>1, <2>3 DEF AllGone, Gone
  <2>7. Shutting(p)
    BY <1>1, <1>2, <2>3, <2>6 DEF Shutting, Shuts, Closes
  <2> QED
    BY <2>5, <2>7
<1> QED
  BY <1>3, <1>4

LEMMA ClosePoolsShuts ==
  ASSUME Served, NEW p \in Users, ClosePools(p)
  PROVE  Shutting(p) /\ Types' /\ pc[p] \in Shuts
<1>1. /\ Types /\ pc[p] = "pools" /\ pc[p] \in Closes /\ pc[p] \in Shuts
      /\ UNCHANGED <<kind, registered, mtNew, made, isClose, discoDown, reqVars, dead, histVars>>
      /\ poolsDown' = poolsDown \cup {Top(p)} /\ hung' \in {hung, hung \cup {Top(p)}}
      /\ Closed(p, "pools") \/ Hangs(p)
  BY DEF ClosePools, Served, Shuts, Closes
<1>2. Globals'
  BY <1>1, TopFacts DEF Types, Globals, reqVars, histVars
<1>3. CASE Closed(p, "pools")
  BY <1>1, <1>2, <1>3, ClosedShuts DEF reqVars, histVars
<1>4. CASE Hangs(p)
  <2>1. Moves(p) /\ pc'[p] = "stuck" /\ me'[p] = NoWork
    BY <1>1, <1>4, HangsMoves
  <2>2. Sound(pc[p], me[p])'
    BY <2>1, NoWorkTyped DEF Sound, FreshAt, Shuts, Closes, Calling
  <2>3. Types'
    BY <1>1, <1>2, <2>1, <2>2, TypesStep DEF reqVars
  <2>4. Gone(Top(p)) /\ \E j \in DOMAIN me[p].closing : Top(p) = me[p].closing[j]
    BY <1>1, TopFacts DEF Served, Leaving, AllGone
  <2>5. Shutting(p)
    BY <1>1, <2>1, <2>4, NoWorkTyped DEF Shutting, histVars
  <2> QED
    BY <1>1, <2>3, <2>5
<1> QED
  BY <1>1, <1>3, <1>4

LEMMA CloseDiscoShuts ==
  ASSUME Served, NEW p \in Users, CloseDisco(p)
  PROVE  Shutting(p) /\ Types' /\ pc[p] \in Shuts
<1>1. /\ Types /\ pc[p] = "disco" /\ pc[p] \in Closes /\ pc[p] \in Shuts
      /\ UNCHANGED <<kind, registered, mtNew, made, isClose, poolsDown, hung, reqVars, histVars>>
      /\ discoDown' \in {discoDown, discoDown \cup {Top(p)}} /\ dead' \in {dead, TRUE}
  BY DEF CloseDisco, Served, Shuts, Closes
<1>2. Globals'
  BY <1>1, TopFacts DEF Types, Globals, reqVars, histVars
<1>3. CASE Top(p) \in discoDown
  <2>1. UNCHANGED <<pc, me, discoDown>>
    BY <1>3 DEF CloseDisco
  <2>2. Moves(p) /\ pc'[p] = pc[p] /\ me'[p] = me[p]
    BY <1>1, <2>1, StayMoves
  <2>3. Sound(pc[p], me[p])'
    BY <1>1, <2>1 DEF Types, Sound, FreshAt, reqVars
  <2>4. Types'
    BY <1>1, <1>2, <2>2, <2>3, TypesStep DEF reqVars
  <2>5. AllGone(p)'
    BY <1>1, <2>2 DEF Served, Leaving, AllGone, Gone, histVars
  <2>6. Shutting(p)
    BY <1>1, <2>1, <2>2, <2>5 DEF Shutting, histVars, Shuts, Closes
  <2> QED
    BY <1>1, <2>4, <2>6
<1>4. CASE Top(p) \notin discoDown
  <2>1. Closed(p, "disco")
    BY <1>4 DEF CloseDisco
  <2> QED
    BY <1>1, <1>2, <2>1, ClosedShuts DEF reqVars, histVars
<1> QED
  BY <1>3, <1>4

-----------------------------------------------------------------------------
(***************************************************************************)
(* Making and registering a client, and what else may happen               *)
(***************************************************************************)
\* A client is registered that nobody else knows of.
LEMMA RegisterServed ==
  ASSUME Served, NEW p \in Users, Fresh(p), registered' = me[p].c, Moves(p), Types',
         UNCHANGED <<kind, made, partVars, histVars>>,
         pc'[p] \in {"idle", "call"}, me'[p].closing = <<>>, me'[p].c \in {NoClient, me[p].c}
  PROVE  Served'
<1>1. /\ Types /\ Known /\ Alone /\ Leaving
      /\ UNCHANGED <<kind, made, poolsDown, discoDown, direct>>
      /\ \A q \in Users \ {p} : pc'[q] = pc[q] /\ me'[q] = me[q]
      /\ made \in Nat
  BY DEF Served, Moves, partVars, histVars, Types, Globals
<1>2. /\ me[p].c # registered /\ me[p].c \notin poolsDown \cup discoDown
      /\ \A q \in Users : \A i \in DOMAIN me[q].closing : me[q].closing[i] # me[p].c
      /\ \A q \in Users \ {p} : Fresh(q) => me[q].c # me[p].c
  BY <1>1 DEF Alone
<1>3. ~Fresh(p)' /\ DOMAIN me'[p].closing = {}
  BY DEF Fresh, FreshAt, Shuts, Closes
<1>4. Known'
  BY <1>1, <1>3 DEF Known, NoClient
<1>5. Alone'
  BY <1>1, <1>2, <1>3 DEF Alone, Fresh
<1>6. Leaving'
  BY <1>1, <1>2, <1>3 DEF Leaving, AllGone, Gone
<1> QED
  BY <1>4, <1>5, <1>6 DEF Served

LEMMA SaveServed == ASSUME Served, NEW p \in Users, Save(p) PROVE Served'
<1>1. /\ Types /\ pc[p] = "save" /\ Fresh(p) /\ registered' = me[p].c /\ me[p].closing = <<>>
      /\ UNCHANGED <<kind, made, partVars, reqVars, dead, histVars>>
      /\ me[p].c \in Clients
  BY DEF Save, Served, Types, Sound, Fresh, FreshAt, Shuts, Closes, Works
<1>2. Moves(p) /\ pc'[p] = "call" /\ me'[p] = me[p]
  BY <1>1, GotoMoves DEF Save, Places, Calling
<1>3. Globals'
  BY <1>1, UsersAssumption DEF Save, Release, Types, Globals, partVars, reqVars, histVars
<1>4. Sound(pc[p], me[p])'
  BY <1>1, <1>2 DEF Sound, FreshAt, Shuts, Closes, Calling, Clients, NoClient
<1>5. Types'
  BY <1>1, <1>2, <1>3, <1>4, TypesStep DEF reqVars
<1> QED
  BY <1>1, <1>2, <1>5, RegisterServed

LEMMA SetServed == ASSUME Served, NEW p \in Users, Set(p) PROVE Served'
<1>1. /\ Types /\ pc[p] = "set" /\ Fresh(p) /\ registered' = me[p].c
      /\ UNCHANGED <<kind, made, partVars, reqVars, dead, histVars>>
      /\ me[p].c \in Clients
  BY DEF Set, Served, Types, Sound, Fresh, FreshAt, Works
<1>2. Moves(p) /\ pc'[p] = "idle" /\ me'[p] = NoWork
  BY <1>1, ReturnMoves DEF Set
<1>3. Globals'
  BY <1>1, UsersAssumption DEF Set, Release, Types, Globals, partVars, reqVars, histVars
<1>4. Sound(pc[p], me[p])'
  BY <1>2, NoWorkTyped DEF Sound, FreshAt, Shuts, Closes, Calling
<1>5. Types'
  BY <1>1, <1>2, <1>3, <1>4, TypesStep DEF reqVars
<1> QED
  BY <1>1, <1>2, <1>5, NoWorkTyped, RegisterServed

\* A new client has a number nobody knows yet.
LEMMA NewClientServed == ASSUME Served, NEW p \in Users, NewClient(p) PROVE Served'
<1>1. /\ Types /\ Known /\ Alone /\ Leaving
      /\ pc[p] = "new" /\ me[p].closing = <<>> /\ made \in Nat /\ ~Fresh(p)
      /\ UNCHANGED <<kind, registered, partVars, reqVars, dead, histVars>>
      /\ mtNew' \in {mtNew, NoOne}
  <2>1. /\ Types /\ Known /\ Alone /\ Leaving /\ pc[p] = "new"
        /\ UNCHANGED <<kind, registered, partVars, reqVars, dead, histVars>>
    BY DEF NewClient, Served
  <2>2. mtNew' \in {mtNew, NoOne}
    BY DEF NewClient, Release
  <2>3. me[p].closing = <<>> /\ ~Fresh(p)
    BY <2>1 DEF Types, Sound, Shuts, Closes, Fresh, FreshAt
  <2>4. made \in Nat
    BY <2>1 DEF Types, Globals
  <2> QED
    BY <2>1, <2>2, <2>3, <2>4
<1>2. CASE Return(p) /\ UNCHANGED made
  <2>1. Moves(p) /\ pc'[p] = "idle" /\ me'[p] = NoWork
    BY <1>1, <1>2, ReturnMoves
  <2>2. Globals'
    BY <1>1, <1>2, UsersAssumption DEF Types, Globals, partVars, reqVars, histVars
  <2>3. Sound(pc[p], me[p])'
    BY <2>1, NoWorkTyped DEF Sound, FreshAt, Shuts, Closes, Calling
  <2>4. Types'
    BY <1>1, <2>1, <2>2, <2>3, TypesStep DEF reqVars
  <2>5. Plain(p)
    BY <1>1, <1>2, <2>1, NoWorkTyped DEF Plain
  <2> QED
    BY <2>4, <2>5, PlainServed
<1>3. CASE /\ made < MaxClients /\ made' = made + 1
           /\ me' = [me EXCEPT ![p].c = made + 1]
           /\ Goto(p, IF me[p].op # "register" THEN "save" ELSE IF JustSets THEN "set" ELSE "look")
           /\ UNCHANGED mtNew
  <2>1. made + 1 \in Clients /\ made' \in 0 .. MaxClients
    BY <1>1, <1>3, BoundsAssumption DEF Clients
  <2>2. PICK x \in {"save", "set", "look"} :
          Goto(p, x) /\ (x = "look" => me[p].op = "register")
    BY <1>3
  <2>3. /\ Moves(p) /\ pc'[p] = x /\ me'[p].c = made + 1
        /\ me'[p].op = me[p].op /\ me'[p].closing = <<>>
    <3>1. x \in Places /\ made + 1 \in Clients \cup {NoClient}
      BY <2>1, <2>2 DEF Places, Shuts
    <3> QED
      BY <1>1, <1>3, <2>2, <3>1, ClientMoves
  <2>4. Globals'
    BY <1>1, <1>3, <2>1 DEF Types, Globals, partVars, reqVars, histVars
  <2>5. Sound(pc[p], me[p])'
    <3>1. made + 1 # NoClient
      BY <1>1 DEF NoClient
    <3> QED
      BY <2>2, <2>3, <3>1 DEF Sound, FreshAt, Shuts, Closes, Calling
  <2>6. Types'
    BY <1>1, <2>3, <2>4, <2>5, TypesStep DEF reqVars
  <2>7. /\ \A q \in Users \ {p} : pc'[q] = pc[q] /\ me'[q] = me[q]
        /\ UNCHANGED <<kind, registered, poolsDown, discoDown, direct>>
        /\ DOMAIN me'[p].closing = {}
        /\ pc'[p] \notin {"pools", "disco", "closing"}
    BY <1>1, <2>2, <2>3 DEF Moves, partVars, histVars
  <2>8. Known'
    <3>1. /\ registered \in Nat /\ \A c \in poolsDown \cup discoDown : c \in Nat
          /\ \A q \in Users : me[q].c \in Nat
          /\ \A q \in Users : \A i \in DOMAIN me[q].closing : me[q].closing[i] \in Nat
      <4>1. \A q \in Users : me[q].closing \in Seq(Clients) /\ me[q].c \in Clients \cup {NoClient}
        BY <1>1 DEF Types, Works
      <4>2. \A q \in Users : \A i \in DOMAIN me[q].closing : me[q].closing[i] \in Clients
        BY <4>1
      <4> QED
        BY <1>1, <4>1, <4>2 DEF Types, Globals, Clients, NoClient
    <3> QED
      BY <1>1, <1>3, <2>3, <2>7, <3>1 DEF Known
  <2>9. Alone'
    <3>1. \A q \in Users \ {p} : Fresh(q)' => Fresh(q)
      BY <2>7 DEF Fresh
    <3>2. /\ made + 1 # registered /\ made + 1 \notin poolsDown \cup discoDown
          /\ \A q \in Users : made + 1 # me[q].c
          /\ \A q \in Users : \A i \in DOMAIN me[q].closing : me[q].closing[i] # made + 1
      <4>1. ~(made + 1 <= made)
        BY <1>1
      <4> QED
        BY <1>1, <4>1 DEF Known
    <3> QED
      BY <1>1, <2>3, <2>7, <3>1, <3>2 DEF Alone
  <2>10. Leaving'
    BY <1>1, <2>7 DEF Leaving, AllGone, Gone
  <2> QED
    BY <2>6, <2>8, <2>9, <2>10 DEF Served
<1> QED
  BY <1>2, <1>3 DEF NewClient

\* Whatever a program asks for.  A client that is closed by its own Close is in
\* direct from then on.
LEMMA BeginServed == ASSUME Served, NEW p \in Users, Begin(p) PROVE Served'
<1>1. /\ Types /\ Known /\ Alone /\ Leaving
      /\ pc[p] = "idle" /\ me[p].closing = <<>>
      /\ UNCHANGED <<kind, registered, mtNew, made, partVars, reqVars, dead>>
  BY DEF Begin, Served, Types, Sound, Shuts, Closes
<1>2. PICK op \in DOMAIN First :
        /\ op = "shut" => registered # NoClient
        /\ me' = [me EXCEPT ![p].op = op,
                            ![p].closing = IF op = "shut" THEN <<registered>> ELSE <<>>]
        /\ Goto(p, First[op])
        /\ direct' = IF op = "shut" THEN direct \cup {registered} ELSE direct
  BY DEF Begin
<1>3. /\ op \in Ops
      /\ First[op] \in {"get", "new", "look", "disco", "closing"}
      /\ First[op] \in {"disco", "closing"} <=> op = "shut"
      /\ First[op] = "closing" <=> op = "shut" /\ kind = "grpc"
      /\ First[op] = "look" => op # "register"
  BY <1>1, <1>2 DEF First, RpcFirst, GrpcFirst, HttpFirst, Ops
<1> DEFINE s == IF op = "shut" THEN <<registered>> ELSE <<>>
<1>4. /\ s \in Seq(Clients) /\ (s = <<>> <=> op # "shut") /\ Len(s) <= 1
      /\ \A i \in DOMAIN s : op = "shut" /\ s[i] = registered
  <2>1. op = "shut" => registered \in Clients
    BY <1>1, <1>2 DEF Types, Globals
  <2> QED
    BY <2>1
<1>5. /\ Moves(p) /\ pc'[p] = First[op]
      /\ me'[p].op = op /\ me'[p].c = me[p].c /\ me'[p].closing = s
  <2>1. First[op] \in Places
    BY <1>3 DEF Places, Shuts, Closes
  <2>2. me' \in [Users -> Works]
    BY <1>1, <1>2, <1>3, <1>4 DEF Types, Works
  <2> QED
    BY <1>1, <1>2, <2>1, <2>2 DEF Moves, Goto, Types, Works
<1> HIDE DEF s
<1>6. Globals'
  <2>1. direct' \subseteq Clients
    BY <1>1, <1>2 DEF Types, Globals
  <2>2. ops' \in 0 .. MaxOps
    BY <1>1, BoundsAssumption DEF Begin, Types, Globals
  <2>3. overlapped' \in BOOLEAN /\ unsettled' \in BOOLEAN
    BY <1>1 DEF Begin, Types, Globals
  <2> QED
    BY <1>1, <2>1, <2>2, <2>3 DEF Types, Globals, partVars, reqVars
<1>7. Sound(pc[p], me[p])' /\ ~Fresh(p)'
  BY <1>1, <1>3, <1>4, <1>5 DEF Sound, Fresh, FreshAt, Shuts, Closes, Calling
<1>8. Types'
  BY <1>1, <1>5, <1>6, <1>7, TypesStep DEF reqVars
<1>9. /\ \A q \in Users \ {p} : pc'[q] = pc[q] /\ me'[q] = me[q]
      /\ UNCHANGED <<kind, registered, made, poolsDown, discoDown>>
      /\ direct \subseteq direct'
  BY <1>1, <1>2, <1>5 DEF Moves, partVars
<1>10. Known'
  BY <1>1, <1>4, <1>5, <1>9 DEF Known
<1>11. Alone'
  BY <1>1, <1>4, <1>5, <1>7, <1>9 DEF Alone, Fresh
<1>12. Leaving'
  <2>1. pc'[p] = "disco" => AllGone(p)'
    BY <1>2, <1>3, <1>4, <1>5, <1>9 DEF AllGone, Gone
  <2>2. pc'[p] # "pools" /\ ~(Len(me'[p].closing) > 1)
    BY <1>3, <1>4, <1>5
  <2>3. \A q \in Users \ {p} : AllGone(q) => AllGone(q)'
    BY <1>9 DEF AllGone, Gone
  <2>4. \A c \in poolsDown' \cup discoDown' : Gone(c)'
    BY <1>1, <1>9 DEF Leaving, Gone
  <2> QED
    BY <1>1, <1>9, <2>1, <2>2, <2>3, <2>4 DEF Leaving
<1> QED
  BY <1>8, <1>10, <1>11, <1>12 DEF Served

\* A goroutine is where it was.
LEMMA StayServed ==
  ASSUME Served, Globals',
         UNCHANGED <<kind, registered, made, partVars, counted, pc, me, histVars>>
  PROVE  Served'
BY DEF Served, Types, Sound, FreshAt, Known, Alone, Fresh, Leaving, AllGone, Gone, partVars, histVars

LEMMA InitServed == Init => Served
<1> SUFFICES ASSUME Init PROVE Served
  OBVIOUS
<1>1. /\ pc = [q \in Users |-> "idle"] /\ me = [q \in Users |-> NoWork]
      /\ poolsDown = {} /\ discoDown = {} /\ registered = 0 /\ made = 0
  BY DEF Init, NoClient
<1>2. Globals
  <2>1. 0 \in 0 .. MaxClients /\ 0 \in 0 .. ChanCap /\ 0 \in 0 .. MaxOps
    BY BoundsAssumption
  <2> QED
    BY <2>1 DEF Init, Globals
<1>3. \A q \in Users : Sound(pc[q], me[q]) /\ ~Fresh(q)
  BY <1>1, NoWorkTyped DEF Sound, Fresh, FreshAt, Shuts, Closes, Calling
<1>4. Types
  BY <1>1, <1>2, <1>3, NoWorkTyped DEF Types, Places
<1>5. Known
  BY <1>1, NoWorkTyped DEF Known, NoClient
<1>6. Alone
  BY <1>3 DEF Alone
<1>7. Leaving
  BY <1>1 DEF Leaving
<1> QED
  BY <1>4, <1>5, <1>6, <1>7 DEF Served

LEMMA WorkServed == ASSUME Served, NEW p \in Users, Work(p) PROVE Served'
<1>1. Types
  BY DEF Served
<1>2. CASE Get(p) \/ Lock(p) \/ GetAgain(p) \/ Call(p) \/ Chain(p) \/ Request(p) \/ Store(p) \/ Deliver(p)
  BY <1>1, <1>2, PlainServed, GetPlain, LockPlain, GetAgainPlain, CallPlain, ChainPlain,
     RequestPlain, StorePlain, DeliverPlain
<1>3. CASE \/ Look(p) \/ Delete(p) \/ Closing(p) \/ Mark(p) \/ ClosePools(p) \/ CloseDisco(p)
  BY <1>3, ShutServed, LookShuts, DeleteShuts, ClosingShuts, MarkShuts, ClosePoolsShuts,
     CloseDiscoShuts
<1>4. CASE Save(p) \/ NewClient(p) \/ Set(p)
  BY <1>4, SaveServed, NewClientServed, SetServed
<1> QED
  BY <1>2, <1>3, <1>4 DEF Work

LEMMA NextServed == ASSUME Served, [Next]_vars PROVE Served'
<1>1. CASE \E p \in Users : Begin(p) \/ Work(p)
  BY <1>1, BeginServed, WorkServed
<1>2. CASE Receive
  <2>1. Globals'
    <3>1. answers' \in 0 .. ChanCap
      BY <1>2, BoundsAssumption DEF Receive, Served, Types, Globals
    <3> QED
      BY <1>2, <3>1 DEF Receive, Served, Types, Globals, partVars, histVars
  <2> QED
    BY <1>2, <2>1, StayServed DEF Receive
<1>3. CASE UNCHANGED vars
  <2>1. Globals'
    BY <1>3 DEF vars, Served, Types, Globals, partVars, reqVars, histVars
  <2> QED
    BY <1>3, <2>1, StayServed DEF vars, reqVars
<1> QED
  BY <1>1, <1>2, <1>3 DEF Next

LEMMA AlwaysServed == Spec => []Served
BY InitServed, NextServed, PTL DEF Spec

\* client.go of the three packages: every variable keeps its type, whatever
\* goroutines do at once.
THEOREM TypeCorrect == Spec => []TypeOK
<1>1. Served => TypeOK
  <2> SUFFICES ASSUME Served PROVE TypeOK
    OBVIOUS
  <2>1. \A p \in Users : me[p].c \in Clients \cup {NoClient} /\ me[p].closing \in Seq(Clients)
    BY DEF Served, Types, Works
  <2> QED
    BY <2>1 DEF Served, Types, Globals, TypeOK
<1> QED
  BY <1>1, AlwaysServed, PTL

\* rpc/client.go:57, grpc/client.go:61 and :229: a client some part of which is
\* closed is not what goroutines get by the name, unless the program closed it by
\* its own Close in rpc or http; however Closes, replacements and calls overlap.
THEOREM NoClosedClientServed == Spec => []ClosedNotServed
<1>1. Served => (registered \in poolsDown \cup discoDown => kind # "grpc" /\ registered \in direct)
  BY DEF Served, Leaving, Gone
<1> QED
  BY <1>1, TypeCorrect, AlwaysServed, PTL DEF ClosedNotServed

-----------------------------------------------------------------------------
(***************************************************************************)
(* One client                                                              *)
(***************************************************************************)
\* Who does not have mtNew cannot be harmed by what its owner does, and harms
\* nobody.
LEMMA OwnOthers ==
  ASSUME Owning, NEW p \in Users, Moves(p), kind' = kind,
         mtNew' = mtNew \/ mtNew \in {p, NoOne},
         registered' = registered \/ mtNew = p
  PROVE  \A q \in Users \ {p} : Own(q)'
<1> TAKE q \in Users \ {p}
<1>1. Own(q) /\ pc'[q] = pc[q] /\ me'[q] = me[q] /\ q # NoOne
  BY UsersAssumption DEF Owning, Moves
<1> QED
  BY <1>1 DEF Own

\* Somebody at a client that is not registered yet has mtNew.
LEMMA OneOwner ==
  ASSUME Owning, OneMade, NEW p \in Users, pc[p] \in {"again", "new"}, registered = NoClient
  PROVE  made = 0
BY DEF Owning, Own, OneMade

\* A step that makes and registers nothing, of somebody without a new client.
LEMMA OnePlain ==
  ASSUME OneMade, NEW p \in Users, Moves(p), UNCHANGED <<made, registered>>,
         pc[p] \notin {"save", "look", "set"}
  PROVE  OneMade'
<1>1. \A q \in Users : pc[q] \in {"save", "look", "set"} => pc'[q] = pc[q]
  BY DEF Moves
<1> QED
  BY <1>1 DEF OneMade

LEMMA PlainSingle ==
  ASSUME Types, Owning, OneMade, NEW p \in Users, Plain(p),
         pc[p] \notin {"save", "look", "set"},
         me'[p].op \in {"none", me[p].op},
         mtNew' = mtNew \/ mtNew \in {p, NoOne},
         pc'[p] \in {"again", "new"} => mtNew' = p,
         pc'[p] = "new" => registered = NoClient
  PROVE  Owning' /\ OneMade'
<1>1. /\ Moves(p) /\ UNCHANGED <<kind, registered, made>>
      /\ pc'[p] \in {"idle", "stuck", "lock", "again", "new"} \cup Calling
  BY DEF Plain
<1>2. Own(p)'
  BY <1>1 DEF Owning, Own, Closes, Calling
<1>3. Owning'
  BY <1>1, <1>2, OwnOthers DEF Owning
<1> QED
  BY <1>1, <1>3, OnePlain

LEMMA GetSingle ==
  ASSUME Types, Owning, OneMade, NEW p \in Users,
         Get(p) \/ Lock(p) \/ GetAgain(p)
  PROVE  Owning' /\ OneMade'
<1>1. CASE Get(p)
  <2>1. Plain(p) /\ mtNew' = mtNew /\ pc[p] \notin {"save", "look", "set"}
    BY <1>1, GetPlain DEF Get
  <2>2. pc'[p] \notin {"again", "new"} /\ me'[p].op \in {"none", me[p].op}
    BY <1>1, NoWorkTyped DEF Get, Found, Missing, Goto, Return, Types, Works
  <2> QED
    BY <2>1, <2>2, PlainSingle
<1>2. CASE Lock(p)
  <2>1. Plain(p) /\ mtNew = NoOne /\ mtNew' = p /\ pc[p] \notin {"save", "look", "set"}
    BY <1>2, LockPlain DEF Lock
  <2>2. pc'[p] = "again" /\ me'[p].op = me[p].op
    BY <1>2 DEF Lock, Goto, Types
  <2> QED
    BY <2>1, <2>2, PlainSingle
<1>3. CASE GetAgain(p)
  <2>1. Plain(p) /\ mtNew = p /\ pc[p] \notin {"save", "look", "set"}
    BY <1>3, GetAgainPlain DEF GetAgain, Owning, Own
  <2>2. CASE Here /\ Found(p) /\ Release(p)
    <3>1. pc'[p] \notin {"again", "new"} /\ me'[p].op \in {"none", me[p].op}
      BY <2>2, NoWorkTyped DEF Found, Goto, Return, Types, Works
    <3> QED
      BY <2>1, <3>1, PlainSingle
  <2>3. CASE ~Here /\ Goto(p, "new") /\ UNCHANGED <<me, mtNew>>
    <3>1. pc'[p] = "new" /\ me'[p].op = me[p].op /\ registered = NoClient /\ mtNew' = p
      BY <2>1, <2>3 DEF Here, Goto, Types
    <3> QED
      BY <2>1, <3>1, PlainSingle
  <2> QED
    BY <1>3, <2>2, <2>3 DEF GetAgain
<1> QED
  BY <1>1, <1>2, <1>3

LEMMA CallSingle ==
  ASSUME Types, Owning, OneMade, NEW p \in Users,
         Call(p) \/ Chain(p) \/ Request(p) \/ Store(p) \/ Deliver(p)
  PROVE  Owning' /\ OneMade'
<1>1. Plain(p)
  BY CallPlain, ChainPlain, RequestPlain, StorePlain, DeliverPlain
<1>2. mtNew' = mtNew /\ pc[p] \notin {"save", "look", "set"}
  BY DEF Call, Chain, Request, Store, Deliver
<1>3. pc'[p] \notin {"again", "new"} /\ me'[p].op \in {"none", me[p].op}
  BY NoWorkTyped DEF Call, Chain, Request, Store, Deliver, End, Hangs, Goto, Return, Types
<1> QED
  BY <1>1, <1>2, <1>3, PlainSingle

\* The owner of mtNew makes the one client ...
LEMMA NewClientSingle ==
  ASSUME Types, Owning, OneMade, NEW p \in Users, NewClient(p)
  PROVE  Owning' /\ OneMade'
<1>1. /\ pc[p] = "new" /\ mtNew = p /\ registered = NoClient /\ made = 0
      /\ me[p].closing = <<>> /\ (me[p].op = "register" => kind = "grpc")
      /\ UNCHANGED <<kind, registered>>
  BY OneOwner DEF NewClient, Owning, Own, Types, Sound, Shuts, Closes
<1>2. CASE Return(p) /\ Release(p) /\ UNCHANGED made
  <2>1. Moves(p) /\ pc'[p] = "idle" /\ me'[p].op = "none"
    BY <1>2, ReturnMoves
  <2>2. Own(p)'
    BY <2>1 DEF Own, Closes
  <2> QED
    BY <1>1, <1>2, <2>1, <2>2, OwnOthers, OnePlain DEF Owning
<1>3. CASE /\ made' = made + 1 /\ me' = [me EXCEPT ![p].c = made + 1]
           /\ Goto(p, IF me[p].op # "register" THEN "save" ELSE IF JustSets THEN "set" ELSE "look")
           /\ UNCHANGED mtNew
  <2>1. Goto(p, IF me[p].op # "register" THEN "save" ELSE "look")
    BY <1>1, <1>3 DEF JustSets
  <2>2. /\ pc' \in [Users -> Places] /\ pc'[p] = IF me[p].op # "register" THEN "save" ELSE "look"
        /\ \A q \in Users \ {p} : pc'[q] = pc[q] /\ me'[q] = me[q]
        /\ me'[p].op = me[p].op /\ me'[p].closing = me[p].closing
    BY <1>3, <2>1 DEF Goto, Types, Works, Places, Shuts
  <2>3. Own(p)'
    BY <1>1, <1>3, <2>2 DEF Own, Closes
  <2>4. \A q \in Users \ {p} : Own(q)'
    BY <1>1, <1>3, <2>2 DEF Owning, Own
  <2>5. OneMade'
    BY <1>1, <1>3, <2>2 DEF OneMade
  <2> QED
    BY <2>3, <2>4, <2>5 DEF Owning
<1> QED
  BY <1>2, <1>3 DEF NewClient

\* ... and registers it, in grpc after a look for one to close, which there is not.
LEMMA RegisterSingle ==
  ASSUME Types, Owning, OneMade, NEW p \in Users, Save(p) \/ Set(p) \/ Look(p)
  PROVE  Owning' /\ OneMade'
<1>1. CASE Look(p)
  <2>1. /\ pc[p] = "look" /\ mtNew = p /\ registered = NoClient
        /\ me[p].op = "register" /\ me[p].closing = <<>> /\ kind = "grpc"
        /\ UNCHANGED <<kind, registered, mtNew, made>>
    BY <1>1 DEF Look, Owning, Own
  <2>2. Goto(p, "set") /\ me' = [me EXCEPT ![p].closing = <<>>]
    BY <1>1, <2>1 DEF Look, Back
  <2>3. "set" \in Places /\ <<>> \in Seq(Clients)
    BY DEF Places
  <2>4. Moves(p) /\ pc'[p] = "set" /\ me'[p].op = me[p].op
    BY <2>2, <2>3, ClosingMoves
  <2>5. Own(p)'
    BY <2>1, <2>4 DEF Own, Closes
  <2>6. OneMade'
    BY <2>1, <2>4 DEF OneMade
  <2> QED
    BY <2>1, <2>4, <2>5, <2>6, OwnOthers DEF Owning
<1>2. CASE Save(p) \/ Set(p)
  <2>1. /\ pc[p] \in {"save", "set"} /\ mtNew = p /\ registered' = me[p].c
        /\ UNCHANGED <<kind, made>>
    BY <1>2 DEF Save, Set, Owning, Own
  <2>2. me[p].c # NoClient
    BY <2>1 DEF Types, Sound, FreshAt
  <2>3. Moves(p) /\ pc'[p] \in {"idle", "call"} /\ me'[p].op \in {"none", me[p].op}
    <3>1. CASE Save(p)
      BY <3>1, GotoMoves DEF Save, Places, Calling
    <3>2. CASE Set(p)
      BY <3>2, ReturnMoves DEF Set
    <3> QED
      BY <1>2, <3>1, <3>2
  <2>4. Own(p)'
    BY <2>1, <2>3 DEF Owning, Own, Closes
  <2>5. OneMade'
    BY <2>1, <2>2 DEF OneMade
  <2> QED
    BY <2>1, <2>3, <2>4, <2>5, OwnOthers DEF Owning
<1> QED
  BY <1>1, <1>2

\* As long as nobody closes or replaces anything, who begins begins to call or,
\* in grpc, asks for a client to be made.
LEMMA BeginSingle ==
  ASSUME Types, Owning, OneMade, NEW p \in Users, Begin(p), ~unsettled'
  PROVE  Owning' /\ OneMade'
<1>1. PICK op \in DOMAIN First :
        /\ me' = [me EXCEPT ![p].op = op,
                            ![p].closing = IF op = "shut" THEN <<registered>> ELSE <<>>]
        /\ Goto(p, First[op])
        /\ unsettled' = (unsettled \/ op \in {"close", "shut"}
                                    \/ (op = "register" /\ kind # "grpc"))
  BY DEF Begin
<1>2. /\ pc[p] = "idle" /\ UNCHANGED <<kind, registered, mtNew, made>>
      /\ op \notin {"close", "shut"} /\ (op = "register" => kind = "grpc")
  BY <1>1 DEF Begin
<1>3. First[op] = "get" /\ op \in Ops
  BY <1>1, <1>2, KindsAssumption DEF First, RpcFirst, GrpcFirst, HttpFirst, Types, Globals, Ops
<1>4. Moves(p) /\ pc'[p] = "get" /\ me'[p].op = op
  <2>1. me' = [me EXCEPT ![p].op = op, ![p].closing = <<>>] /\ <<>> \in Seq(Clients)
    <3>1. op # "shut"
      BY <1>2
    <3> QED
      BY <1>1, <3>1
  <2>2. pc' = [pc EXCEPT ![p] = "get"] /\ "get" \in Places
    BY <1>1, <1>3 DEF Goto, Places
  <2> QED
    BY <1>3, <2>1, <2>2 DEF Moves, Types, Works
<1>5. Own(p)'
  BY <1>2, <1>4 DEF Own, Closes
<1> QED
  BY <1>2, <1>4, <1>5, OwnOthers, OnePlain DEF Owning

LEMMA NextSingle == ASSUME Served, Single, [Next]_vars PROVE Single'
<1>1. Types
  BY DEF Served
<1>2. CASE UNCHANGED <<kind, registered, mtNew, made, unsettled, pc, me>>
  BY <1>2 DEF Single, Owning, Own, OneMade
<1>3. ASSUME NEW p \in Users, Begin(p) PROVE Single'
  <2>1. unsettled => unsettled'
    BY <1>3 DEF Begin
  <2> QED
    BY <1>1, <1>3, <2>1, BeginSingle DEF Single
<1>4. ASSUME NEW p \in Users, Work(p) PROVE Single'
  <2>1. unsettled' = unsettled
    BY <1>4 DEF Work, Get, Lock, GetAgain, Save, NewClient, Look, Delete, Closing, Mark,
       ClosePools, CloseDisco, Set, Call, Chain, Request, Store, Deliver, histVars
  <2> SUFFICES ASSUME ~unsettled PROVE Owning' /\ OneMade'
    BY <2>1 DEF Single
  <2>2. Owning /\ OneMade
    BY DEF Single
  <2>3. ~(Delete(p) \/ Closing(p) \/ Mark(p) \/ ClosePools(p) \/ CloseDisco(p))
    BY <2>2 DEF Delete, Closing, Mark, ClosePools, CloseDisco, Owning, Own, Closes
  <2> QED
    BY <1>1, <1>4, <2>2, <2>3, GetSingle, CallSingle, NewClientSingle, RegisterSingle DEF Work
<1>5. CASE Receive
  BY <1>2, <1>5 DEF Receive, histVars
<1>6. CASE UNCHANGED vars
  BY <1>2, <1>6 DEF vars, histVars
<1> QED
  BY <1>3, <1>4, <1>5, <1>6 DEF Next

LEMMA InitSingle == Init => Single
<1> SUFFICES ASSUME Init PROVE Owning /\ OneMade
  BY DEF Single
<1>1. made = 0 /\ \A p \in Users : pc[p] = "idle" /\ me[p].op = "none"
  BY NoWorkTyped DEF Init
<1> QED
  BY <1>1 DEF Owning, Own, OneMade, Closes

\* rpc/client.go:99 and the same in grpc and http: goroutines that all find the
\* name missing make one client between them, however many they are.
THEOREM MissesMakeOne == Spec => []OneClientMade
<1>1. Single => OneClientMade
  BY DEF Single, OneMade, OneClientMade
<1> QED
  BY <1>1, InitSingle, NextSingle, AlwaysServed, PTL DEF Spec

-----------------------------------------------------------------------------
(***************************************************************************)
(* SequentialSafe: one operation at a time.  The invariant follows the one *)
(* goroutine that is busy and says, for each place, which client it has in *)
(* hand and which parts of that one are closed by then.                    *)
(***************************************************************************)
Lone == \A p, q \in Users : pc[p] # "idle" /\ pc[q] # "idle" => p = q

\* The client whose Close p is in.  In grpc its Close may be entered twice: by
\* the program, and again through the Close(name) it calls.  In rpc and http its
\* parts may be closed already, by its own Close.
InHand(p) == me[p].closing[1]
ByItself(c) == kind # "grpc" /\ c \in direct
Held(p)   == Len(me[p].closing) = 1 /\ (InHand(p) \in discoDown => ByItself(InHand(p)))
Twice(p)  == /\ Len(me[p].closing) = 2 /\ me[p].closing[2] = InHand(p)
             /\ InHand(p) \notin discoDown /\ InHand(p) \in isClose

\* The client in hand has left the map, or it is closed by its own Close.
Away(p) == \/ registered = NoClient
           \/ me[p].op = "shut" /\ registered = InHand(p) /\ ByItself(InHand(p))

RpcWay(p) ==
  /\ pc[p] = "look"   => me[p].closing = <<>>
  /\ pc[p] = "delete" => Held(p) /\ InHand(p) = registered
  /\ pc[p] = "disco"  => Held(p) /\ Away(p)
  /\ pc[p] = "pools"  => Len(me[p].closing) = 1 /\ InHand(p) \in discoDown /\ Away(p)
GrpcWay(p) ==
  /\ pc[p] = "look"    => \/ me[p].closing = <<>>
                          \/ /\ Held(p) /\ InHand(p) \in isClose
                             /\ registered \in {InHand(p), NoClient}
  /\ pc[p] = "delete"  => InHand(p) = registered /\ (Twice(p) \/ (Held(p) /\ InHand(p) \notin isClose))
  /\ pc[p] = "closing" => \/ /\ Held(p) /\ InHand(p) \notin isClose
                             /\ registered \in {InHand(p), NoClient}
                          \/ Twice(p) /\ registered = NoClient
  /\ pc[p] = "mark"    => Held(p) /\ registered \in {InHand(p), NoClient}
  /\ pc[p] = "pools"   => Held(p) /\ registered = NoClient
  /\ pc[p] = "disco"   => Held(p) /\ InHand(p) \in poolsDown /\ registered = NoClient
  /\ pc[p] = "look" /\ me[p].op = "register" => registered = NoClient /\ me[p].closing = <<>>
  /\ pc[p] \in Closes => me[p].op # "register"
HttpWay(p) == /\ pc[p] # "pools"
              /\ pc[p] = "disco" => Held(p)
              /\ pc[p] = "look" => me[p].closing = <<>>
              /\ pc[p] \in Shuts => me[p].op # "register"
Way(p) ==
  /\ kind = "rpc"  => RpcWay(p)
  /\ kind = "grpc" => GrpcWay(p)
  /\ kind = "http" => HttpWay(p)
  /\ pc[p] \in {"lock", "again", "save"} => registered = NoClient
  /\ pc[p] = "new" => registered = NoClient \/ (me[p].op = "register" /\ kind # "grpc")
  /\ pc[p] = "set" /\ kind # "http" => registered = NoClient
  /\ Fresh(p) => me[p].c \notin isClose

\* Every client but the registered one is closed, or it is new, or in hand; of a
\* goroutine that hangs, any may be.
Holds(p, c)  == \/ pc[p] = "stuck"
                \/ Fresh(p) /\ c = me[p].c
                \/ me[p].closing # <<>> /\ c = InHand(p)
Down(c)      == c \in discoDown \cap poolsDown
Covers(p)    == kind # "http" => \A c \in 1 .. made : c = registered \/ Down(c) \/ Holds(p, c)
Covered      == kind # "http" =>
                  \A c \in 1 .. made : c = registered \/ Down(c) \/ \E p \in Users : Holds(p, c)
\* isClose is set of the registered client only while its Close is on its way to
\* the map.
OnItsWay(p)  == /\ pc[p] \in {"look", "delete"} /\ me[p].closing # <<>>
                /\ InHand(p) = registered
Marks(p)     == /\ \A c \in isClose : c <= made
                /\ registered \in isClose => OnItsWay(p)
Marked       == /\ \A c \in isClose : c <= made
                /\ registered \in isClose => \E p \in Users : OnItsWay(p)

Calm      == ~dead /\ (\A p \in Users : Way(p)) /\ Covered /\ Marked
CalmAt(p) == ~dead /\ Way(p) /\ Covers(p) /\ Marks(p)
\* But a client that was closed by its own Close, of rpc or http, may be closed again.
Doubled   == dead /\ ClosedTwice
InOrder   == ~overlapped => Lone /\ (Calm \/ Doubled)

Others(p) == \A q \in Users \ {p} : pc[q] = "idle"

\* Who is idle holds nothing.
LEMMA IdleHolds ==
  ASSUME Types, NEW p \in Users, pc[p] = "idle"
  PROVE  Way(p) /\ ~OnItsWay(p) /\ \A c : ~Holds(p, c)
BY DEF Types, Sound, Way, RpcWay, GrpcWay, HttpWay, OnItsWay, Holds, Fresh, FreshAt, Shuts, Closes

\* So it is enough to look at the one that is busy, before the step ...
LEMMA CalmOne ==
  ASSUME Types, Calm, NEW p \in Users, Others(p)
  PROVE  CalmAt(p)
<1>1. \A q \in Users \ {p} : ~OnItsWay(q) /\ \A c : ~Holds(q, c)
  BY IdleHolds DEF Others
<1>2. Covers(p)
  BY <1>1 DEF Calm, Covered, Covers
<1>3. Marks(p)
  BY <1>1 DEF Calm, Marked, Marks
<1> QED
  BY <1>2, <1>3 DEF Calm, CalmAt

\* ... and after it.
LEMMA CalmAll ==
  ASSUME Types', NEW p \in Users, Others(p)', CalmAt(p)'
  PROVE  Calm'
<1>1. \A q \in Users \ {p} : Way(q)'
  BY DEF Types, Others, Sound, Way, RpcWay, GrpcWay, HttpWay, Fresh, FreshAt, Shuts, Closes
<1>2. (\A q \in Users : Way(q))'
  BY <1>1 DEF CalmAt
<1>3. Covered'
  BY DEF CalmAt, Covers, Covered
<1>4. Marked'
  BY DEF CalmAt, Marks, Marked
<1> QED
  BY <1>2, <1>3, <1>4 DEF Calm, CalmAt

\* Sequences of one or two clients.
LEMMA Short ==
  ASSUME NEW s \in Seq(Clients), NEW c \in Clients
  PROVE  /\ s = <<>> => /\ Append(s, c) \in Seq(Clients) /\ Append(s, c) # <<>>
                        /\ Len(Append(s, c)) = 1 /\ Append(s, c)[1] = c
         /\ Len(s) = 1 => /\ s # <<>> /\ s[Len(s)] = s[1] /\ SubSeq(s, 1, Len(s) - 1) = <<>>
                          /\ Append(s, c) \in Seq(Clients) /\ Append(s, c) # <<>>
                          /\ Len(Append(s, c)) = 2 /\ Append(s, c)[1] = s[1] /\ Append(s, c)[2] = c
         /\ Len(s) = 2 => /\ s # <<>> /\ s[Len(s)] = s[2]
                          /\ SubSeq(s, 1, Len(s) - 1) # <<>>
                          /\ Len(SubSeq(s, 1, Len(s) - 1)) = 1
                          /\ SubSeq(s, 1, Len(s) - 1)[1] = s[1]
<1>1. s = <<>> => /\ Append(s, c) \in Seq(Clients) /\ Append(s, c) # <<>>
                  /\ Len(Append(s, c)) = 1 /\ Append(s, c)[1] = c
  OBVIOUS
<1>2. Len(s) = 1 => /\ s # <<>> /\ s[Len(s)] = s[1]
                    /\ Append(s, c) \in Seq(Clients) /\ Append(s, c) # <<>>
                    /\ Len(Append(s, c)) = 2 /\ Append(s, c)[1] = s[1] /\ Append(s, c)[2] = c
  <2>1. /\ Append(s, c) \in Seq(Clients) /\ Len(Append(s, c)) = Len(s) + 1
        /\ Append(s, c)[Len(s) + 1] = c /\ \A i \in 1 .. Len(s) : Append(s, c)[i] = s[i]
    BY AppendProperties
  <2>2. Len(<<>>) = 0 /\ 1 + 1 = 2 /\ 1 \in 1 .. 1
    OBVIOUS
  <2> QED
    BY <2>1, <2>2
<1>3. Len(s) \in Nat /\ \A i \in 1 .. Len(s) - 1 : s[i] \in Clients
  OBVIOUS
<1>4. /\ SubSeq(s, 1, Len(s) - 1) \in Seq(Clients)
      /\ Len(SubSeq(s, 1, Len(s) - 1)) = IF 1 <= Len(s) - 1 THEN (Len(s) - 1) - 1 + 1 ELSE 0
      /\ \A i \in 1 .. (Len(s) - 1) - 1 + 1 : SubSeq(s, 1, Len(s) - 1)[i] = s[1 + i - 1]
  <2>1. 1 \in Int /\ Len(s) - 1 \in Int
    BY <1>3
  <2> QED
    BY <1>3, <2>1, SubSeqProperties
<1>5. Len(s) = 1 => SubSeq(s, 1, Len(s) - 1) = <<>>
  <2>1. Len(s) = 1 => Len(SubSeq(s, 1, Len(s) - 1)) = 0
    BY <1>4
  <2> QED
    BY <1>4, <2>1
<1>6. Len(s) = 2 => /\ Len(SubSeq(s, 1, Len(s) - 1)) = 1
                    /\ SubSeq(s, 1, Len(s) - 1)[1] = s[1]
  BY <1>4
<1>7. Len(<<>>) = 0 /\ 0 # 1 /\ 0 # 2
  OBVIOUS
<1>8. Len(s) = 2 => s # <<>> /\ s[Len(s)] = s[2] /\ SubSeq(s, 1, Len(s) - 1) # <<>>
  <2> SUFFICES ASSUME Len(s) = 2
               PROVE  s # <<>> /\ s[Len(s)] = s[2] /\ SubSeq(s, 1, Len(s) - 1) # <<>>
    OBVIOUS
  <2>1. s # <<>>
    BY <1>7
  <2>2. Len(SubSeq(s, 1, Len(s) - 1)) = 1
    BY <1>6
  <2>3. SubSeq(s, 1, Len(s) - 1) # <<>>
    BY <1>7, <2>2
  <2> QED
    BY <2>1, <2>3
<1> QED
  BY <1>1, <1>2, <1>5, <1>6, <1>8

\* What a step starts from.
Busy(p) == /\ Served /\ CalmAt(p) /\ Others(p)
           /\ pc[p] # "idle"

\* Nothing is closed that the map still has, but by its own Close.
LEMMA RegisteredUp ==
  ASSUME Served
  PROVE  registered \in discoDown \cup poolsDown => ByItself(registered)
BY DEF Served, Leaving, Gone, ByItself

\* The clients there are, and the three kinds of package.
LEMMA BusyFacts ==
  ASSUME Served, NEW p \in Users
  PROVE  /\ Types /\ kind \in {"rpc", "grpc", "http"}
         /\ made \in Nat /\ NoClient = 0 /\ NoClient \notin 1 .. made
         /\ registered \in Clients \cup {NoClient} /\ NoClient \notin Clients
         /\ isClose \subseteq Clients
         /\ me[p].closing \in Seq(Clients)
<1>1. made \in Nat
  BY DEF Served, Types, Globals
<1>2. me[p].closing \in Seq(Clients)
  BY DEF Served, Types, Works
<1> QED
  BY <1>1, <1>2, KindsAssumption DEF Served, Types, Globals, NoClient, Clients

\* A step that closes and registers nothing, of somebody who holds no client.
LEMMA PlainCalm ==
  ASSUME Types, NEW p \in Users, Plain(p), CalmAt(p), UNCHANGED dead,
         pc[p] \notin Shuts \cup {"save", "set", "stuck"},
         pc'[p] \in {"lock", "again", "new"} => registered = NoClient
  PROVE  CalmAt(p)'
<1>1. /\ UNCHANGED <<kind, registered, made, isClose, poolsDown, discoDown>>
      /\ pc'[p] \in {"idle", "stuck", "lock", "again", "new"} \cup Calling
      /\ me'[p].closing = <<>>
  BY DEF Plain, partVars
<1>2. ~Fresh(p) /\ me[p].closing = <<>>
  BY DEF Types, Sound, Fresh, FreshAt, Shuts, Closes
<1>3. ~Fresh(p)' /\ pc'[p] \notin Shuts
  BY <1>1 DEF Fresh, FreshAt, Shuts, Closes, Calling
<1>4. Way(p)'
  BY <1>1, <1>3 DEF Way, RpcWay, GrpcWay, HttpWay, Shuts, Closes, Calling
<1>5. Covers(p)'
  BY <1>1, <1>2 DEF CalmAt, Covers, Holds, Down
<1>6. Marks(p)'
  BY <1>1, <1>2 DEF CalmAt, Marks, OnItsWay
<1> QED
  BY <1>4, <1>5, <1>6 DEF CalmAt

LEMMA GetCalm ==
  ASSUME NEW p \in Users, Busy(p), Get(p) \/ Lock(p) \/ GetAgain(p)
  PROVE  CalmAt(p)'
<1>1. Types /\ Plain(p) /\ UNCHANGED dead /\ CalmAt(p)
  BY GetPlain, LockPlain, GetAgainPlain DEF Busy, Served, Get, Lock, GetAgain
<1>2. pc[p] \in {"get", "lock", "again"} /\ (pc[p] \in {"lock", "again"} => registered = NoClient)
  BY <1>1 DEF Get, Lock, GetAgain, CalmAt, Way
<1>3. pc'[p] = "lock" => registered = NoClient
  BY <1>1, <1>2 DEF Get, Lock, GetAgain, Found, Return, Goto, Types
<1>4. pc'[p] \in {"lock", "again", "new"} => registered = NoClient
  <2>1. CASE Get(p)
    <3>1. pc'[p] \in {"idle", "call", "lock"}
      BY <1>1, <2>1 DEF Get, Found, Missing, Return, Goto, Types
    <3> QED
      BY <1>3, <3>1
  <2> QED
    BY <1>2, <2>1 DEF Lock, GetAgain
<1> QED
  BY <1>1, <1>2, <1>4, PlainCalm DEF Shuts, Closes

LEMMA CallCalm ==
  ASSUME NEW p \in Users, Busy(p), Call(p) \/ Chain(p) \/ Request(p) \/ Store(p) \/ Deliver(p)
  PROVE  CalmAt(p)'
<1>1. Types /\ Plain(p) /\ CalmAt(p)
  BY CallPlain, ChainPlain, RequestPlain, StorePlain, DeliverPlain DEF Busy, Served
<1>2. InMap(p) = {}
  BY DEF Busy, Others, InMap
<1>3. UNCHANGED dead /\ pc[p] \in Calling
  BY <1>2 DEF Call, Chain, Request, Store, Deliver, Calling
<1>4. pc'[p] \notin {"lock", "again", "new"}
  BY <1>1 DEF Call, Chain, Request, Store, Deliver, End, Hangs, Return, Goto, Types
<1> QED
  BY <1>1, <1>3, <1>4, PlainCalm DEF Shuts, Closes, Calling

\* The new client takes the place of none.
LEMMA RegisterCalm ==
  ASSUME NEW p \in Users, Busy(p), Save(p) \/ Set(p)
  PROVE  CalmAt(p)'
<1> USE BusyFacts DEF Busy
<1>1. /\ Types /\ pc[p] \in {"save", "set"} /\ Fresh(p) /\ registered' = me[p].c
      /\ UNCHANGED <<kind, made, isClose, poolsDown, discoDown, dead>>
      /\ me[p].closing = <<>>
      /\ kind # "http" => registered = NoClient
      /\ me[p].c \notin isClose
  <2>1. /\ pc[p] \in {"save", "set"} /\ registered' = me[p].c
        /\ UNCHANGED <<kind, made, isClose, poolsDown, discoDown, dead>>
    BY DEF Save, Set, partVars
  <2>2. Fresh(p) /\ me[p].closing = <<>>
    BY <2>1 DEF Types, Sound, Fresh, FreshAt, Shuts, Closes
  <2> QED
    BY <2>1, <2>2 DEF CalmAt, Way
<1>2. pc'[p] \in {"call", "idle"} /\ me'[p].closing = <<>>
  <2>1. CASE Save(p)
    BY <1>1, <2>1, GotoMoves DEF Save, Places, Calling
  <2>2. CASE Set(p)
    BY <1>1, <2>2, ReturnMoves DEF Set
  <2> QED
    BY <2>1, <2>2
<1>3. Way(p)'
  BY <1>2 DEF Way, RpcWay, GrpcWay, HttpWay, Fresh, FreshAt, Shuts, Closes
<1>4. Covers(p)'
  BY <1>1 DEF CalmAt, Covers, Holds, Down
<1>5. Marks(p)'
  BY <1>1 DEF CalmAt, Marks
<1> QED
  BY <1>1, <1>3, <1>4, <1>5 DEF CalmAt

LEMMA NewClientCalm ==
  ASSUME NEW p \in Users, Busy(p), NewClient(p)
  PROVE  CalmAt(p)'
<1> USE BusyFacts DEF Busy
<1>1. /\ Types /\ pc[p] = "new" /\ me[p].closing = <<>> /\ ~Fresh(p) /\ CalmAt(p)
      /\ UNCHANGED <<kind, registered, isClose, poolsDown, discoDown, dead>>
  <2>1. pc[p] = "new" /\ UNCHANGED <<kind, registered, isClose, poolsDown, discoDown, dead>>
    BY DEF NewClient, partVars
  <2> QED
    BY <2>1 DEF Types, Sound, Shuts, Closes, Fresh, FreshAt
<1>2. CASE Return(p) /\ UNCHANGED made
  <2>1. pc'[p] = "idle" /\ me'[p].closing = <<>>
    BY <1>1, <1>2, ReturnMoves
  <2>2. Way(p)'
    BY <2>1 DEF Way, RpcWay, GrpcWay, HttpWay, Fresh, FreshAt, Shuts, Closes
  <2>3. Covers(p)'
    BY <1>1, <1>2 DEF CalmAt, Covers, Holds, Down
  <2>4. Marks(p)'
    BY <1>1, <1>2 DEF CalmAt, Marks, OnItsWay
  <2> QED
    BY <1>1, <2>2, <2>3, <2>4 DEF CalmAt
<1>3. CASE /\ made < MaxClients /\ made' = made + 1
           /\ me' = [me EXCEPT ![p].c = made + 1]
           /\ Goto(p, IF me[p].op # "register" THEN "save" ELSE IF JustSets THEN "set" ELSE "look")
  <2>1. /\ pc'[p] \in {"save", "set", "look"}
        /\ pc'[p] = "save" <=> me[p].op # "register"
        /\ pc'[p] = "set" => kind = "http"
        /\ pc'[p] = "look" => kind # "http"
        /\ me'[p].c = made + 1 /\ me'[p].op = me[p].op /\ me'[p].closing = <<>>
    BY <1>1, <1>3 DEF Goto, JustSets, Types, Works
  <2>2. Fresh(p)'
    BY <2>1 DEF Fresh, FreshAt, Shuts
  <2>3. made + 1 \notin isClose /\ \A c \in isClose : c <= made + 1
    <3>1. \A c \in isClose : c \in Nat /\ c <= made
      BY <1>1 DEF CalmAt, Marks, Clients
    <3> QED
      BY <3>1
  <2>4. Way(p)'
    BY <1>1, <2>1, <2>3 DEF CalmAt, Way, RpcWay, GrpcWay, HttpWay, Shuts, Closes
  <2>5. Covers(p)'
    <3>1. \A c \in 1 .. made + 1 : c = made + 1 \/ c \in 1 .. made
      OBVIOUS
    <3>2. \A c : ~Holds(p, c)
      BY <1>1 DEF Holds
    <3> QED
      BY <1>1, <1>3, <2>1, <2>2, <3>1, <3>2 DEF CalmAt, Covers, Holds, Down
  <2>6. Marks(p)'
    BY <1>1, <1>3, <2>3 DEF CalmAt, Marks, OnItsWay
  <2> QED
    BY <1>1, <2>4, <2>5, <2>6 DEF CalmAt
<1> QED
  BY <1>2, <1>3 DEF NewClient

\* A look that finds nothing is the end of a Close(name).
LEMMA LookNoneCalm ==
  ASSUME NEW p \in Users, Busy(p), Look(p), registered = NoClient
  PROVE  CalmAt(p)'
<1> USE BusyFacts DEF Busy
<1>1. /\ Types /\ pc[p] = "look" /\ CalmAt(p) /\ me[p].closing \in Seq(Clients)
      /\ UNCHANGED <<kind, registered, made, isClose, poolsDown, discoDown, dead, direct>>
      /\ Back(p, me[p].closing)
  BY DEF Look, partVars, histVars
<1>2. \/ pc'[p] = "idle" /\ me'[p].closing = <<>>
      \/ /\ \/ pc'[p] = "set" /\ me[p].op = "register"
            \/ pc'[p] = "pools" /\ me[p].closing # <<>>
         /\ me'[p].c = me[p].c /\ me'[p].op = me[p].op /\ me'[p].closing = me[p].closing
  BY <1>1, BackMoves, NoWorkTyped
<1>3. pc'[p] = "idle" => me[p].closing = <<>> /\ me[p].op # "register"
  BY <1>1 DEF Back, Goto, Types
<1>4. Fresh(p) <=> me[p].op = "register"
  BY <1>1 DEF Fresh, FreshAt, Shuts
<1>5. Fresh(p)' => Fresh(p) /\ me'[p].c = me[p].c
  BY <1>2, <1>4 DEF Fresh, FreshAt, Shuts, Closes
<1>6. Way(p)'
  BY <1>1, <1>2, <1>5 DEF CalmAt, Way, RpcWay, GrpcWay, HttpWay, Held, ByItself, InHand, Shuts, Closes
<1>7. \A c : Holds(p, c) => Holds(p, c)'
  BY <1>1, <1>2, <1>3, <1>4 DEF Holds, InHand, Fresh, FreshAt, Shuts, Closes
<1>8. Covers(p)'
  BY <1>1, <1>7 DEF CalmAt, Covers, Down
<1>9. Marks(p)'
  BY <1>1, NoWorkTyped DEF CalmAt, Marks, OnItsWay
<1> QED
  BY <1>1, <1>6, <1>8, <1>9 DEF CalmAt

\* A look that finds a client puts that one in hand.
LEMMA LookOneCalm ==
  ASSUME NEW p \in Users, Busy(p), Look(p), registered # NoClient
  PROVE  CalmAt(p)'
<1> USE BusyFacts DEF Busy
<1>1. /\ Types /\ pc[p] = "look" /\ CalmAt(p) /\ me[p].closing \in Seq(Clients)
      /\ registered \in Clients
      /\ UNCHANGED <<kind, registered, made, isClose, poolsDown, discoDown, dead, direct>>
  BY DEF Look, partVars, histVars
<1>2. /\ pc'[p] = "delete" /\ me'[p].op = me[p].op /\ me'[p].c = me[p].c
      /\ me'[p].closing = Append(me[p].closing, registered)
  BY <1>1 DEF Look, Goto, Types, Works
<1>3. registered \in discoDown => ByItself(registered)
  BY RegisteredUp
<1>4. \/ me[p].closing = <<>> /\ registered \notin isClose
      \/ /\ kind = "grpc" /\ Held(p) /\ InHand(p) \in isClose /\ registered = InHand(p)
         /\ Len(me[p].closing) = 1
  BY <1>1 DEF CalmAt, Way, RpcWay, GrpcWay, HttpWay, Marks, OnItsWay, Held
<1>5. /\ me'[p].closing # <<>> /\ me'[p].closing[1] = registered
      /\ \/ Len(me'[p].closing) = 1 /\ registered \notin isClose
         \/ /\ kind = "grpc" /\ Len(me'[p].closing) = 2 /\ me'[p].closing[2] = registered
            /\ registered \in isClose /\ registered = InHand(p)
  BY <1>1, <1>2, <1>4, Short DEF InHand
<1>6. me[p].closing # <<>> => registered = InHand(p)
  BY <1>4
<1>7. kind \in {"grpc", "http"} => me[p].op # "register"
  BY <1>1 DEF CalmAt, Way, GrpcWay, HttpWay, Shuts
<1>8. Fresh(p)' => Fresh(p)
  BY <1>1, <1>2 DEF Fresh, FreshAt, Shuts, Closes
<1>9. Way(p)'
  <2>1. InHand(p)' = registered
    BY <1>5 DEF InHand
  <2>2. kind = "rpc" => RpcWay(p)'
    BY <1>1, <1>2, <1>3, <1>5, <2>1 DEF RpcWay, Held, ByItself
  <2>3. kind = "grpc" => GrpcWay(p)'
    BY <1>1, <1>2, <1>3, <1>5, <1>7, <2>1 DEF GrpcWay, Held, Twice, ByItself
  <2>4. kind = "http" => HttpWay(p)'
    BY <1>1, <1>2, <1>7 DEF HttpWay
  <2> QED
    BY <1>1, <1>2, <1>8, <2>2, <2>3, <2>4 DEF CalmAt, Way
<1>10. \A c : Holds(p, c) => Holds(p, c)'
  <2>1. Fresh(p) => Fresh(p)'
    BY <1>1, <1>2 DEF Fresh, FreshAt, Shuts, Closes
  <2> QED
    BY <1>1, <1>2, <1>5, <1>6, <2>1 DEF Holds, InHand
<1>11. Covers(p)'
  BY <1>1, <1>10 DEF CalmAt, Covers, Down
<1>12. Marks(p)'
  BY <1>1, <1>2, <1>5 DEF CalmAt, Marks, OnItsWay, InHand
<1> QED
  BY <1>1, <1>9, <1>11, <1>12 DEF CalmAt

LEMMA DeleteCalm ==
  ASSUME NEW p \in Users, Busy(p), Delete(p)
  PROVE  CalmAt(p)'
<1> USE BusyFacts DEF Busy
<1>1. /\ Types /\ pc[p] = "delete" /\ CalmAt(p) /\ registered' = NoClient
      /\ UNCHANGED <<kind, made, isClose, poolsDown, discoDown, dead, direct>>
      /\ NoClient \notin isClose
  BY DEF Delete, Dropped, partVars, histVars
<1>2. \/ kind = "http" /\ pc'[p] = "idle" /\ me'[p].closing = <<>>
      \/ kind = "rpc" /\ pc'[p] = "disco" /\ me'[p] = me[p]
      \/ kind = "grpc" /\ pc'[p] = "closing" /\ me'[p] = me[p]
  <2>1. kind = "http" /\ Return(p) => pc'[p] = "idle" /\ me'[p].closing = <<>>
    BY ReturnMoves
  <2> QED
    BY <1>1, <2>1 DEF Delete, Goto, Types
<1>3. kind # "http" => me[p].closing # <<>> /\ InHand(p) = registered
  BY <1>1 DEF CalmAt, Way, RpcWay, GrpcWay, Types, Sound, Closes
<1>4. Fresh(p)' => Fresh(p) /\ me'[p] = me[p]
  BY <1>1, <1>2 DEF Fresh, FreshAt, Shuts, Closes
<1>5. Way(p)'
  BY <1>1, <1>2, <1>4 DEF CalmAt, Way, RpcWay, GrpcWay, HttpWay, Held, Twice, Away, ByItself, InHand, Shuts, Closes
<1>6. kind # "http" => \A c : Holds(p, c) \/ c = registered => Holds(p, c)'
  BY <1>1, <1>2, <1>3 DEF Holds, InHand, Fresh, FreshAt, Shuts, Closes
<1>7. Covers(p)'
  BY <1>1, <1>6 DEF CalmAt, Covers, Down
<1>8. Marks(p)'
  BY <1>1 DEF CalmAt, Marks
<1> QED
  BY <1>1, <1>5, <1>7, <1>8 DEF CalmAt

\* The inner Close of a client of grpc finds isClose, and leaves the rest to the
\* outer one.
LEMMA ClosingCalm ==
  ASSUME NEW p \in Users, Busy(p), Closing(p)
  PROVE  CalmAt(p)'
<1> USE BusyFacts DEF Busy
<1>1. /\ Types /\ pc[p] = "closing" /\ CalmAt(p) /\ kind = "grpc" /\ me[p].closing \in Seq(Clients)
      /\ UNCHANGED <<kind, registered, made, isClose, poolsDown, discoDown, dead, direct>>
      /\ me[p].op # "register"
  <2>1. Types /\ pc[p] = "closing" /\ CalmAt(p) /\ me[p].closing \in Seq(Clients)
        /\ UNCHANGED <<kind, registered, made, isClose, poolsDown, discoDown, dead, direct>>
    BY DEF Closing, partVars, histVars
  <2>2. kind = "grpc"
    BY <2>1 DEF Types, Sound
  <2> QED
    BY <2>1, <2>2 DEF CalmAt, Way, GrpcWay, Closes
<1>2. registered \notin isClose /\ ~Fresh(p)
  BY <1>1 DEF CalmAt, Marks, OnItsWay, Fresh, FreshAt
<1>3. CASE Held(p) /\ InHand(p) \notin isClose /\ registered \in {InHand(p), NoClient}
  <2>1. Len(me[p].closing) = 1 /\ me[p].closing[Len(me[p].closing)] = InHand(p)
    BY <1>3 DEF Held, InHand
  <2>2. pc'[p] = "mark" /\ me' = me
    BY <1>1, <1>3, <2>1 DEF Closing, Top, Goto, Types
  <2>3. Way(p)'
    BY <1>1, <1>3, <2>2 DEF Way, GrpcWay, Held, ByItself, InHand, Fresh, FreshAt, Shuts, Closes
  <2>4. \A c : Holds(p, c) => Holds(p, c)'
    BY <1>1, <1>2, <2>2 DEF Holds, InHand
  <2>5. Covers(p)' /\ Marks(p)'
    BY <1>1, <1>2, <2>4 DEF CalmAt, Covers, Down, Marks
  <2> QED
    BY <1>1, <2>3, <2>5 DEF CalmAt
<1>4. CASE Twice(p) /\ registered = NoClient
  <2>1. InHand(p) \in Clients
    BY <1>1, <1>4 DEF Twice, InHand
  <2>2. /\ me[p].closing[Len(me[p].closing)] = InHand(p)
        /\ Outer(p) # <<>> /\ Len(Outer(p)) = 1 /\ Outer(p)[1] = InHand(p)
    BY <1>1, <1>4, <2>1, Short DEF Twice, InHand, Outer
  <2>3. Back(p, Outer(p))
    BY <1>4, <2>2 DEF Closing, Top, Twice
  <2>4. pc'[p] = "pools" /\ me'[p].closing = Outer(p) /\ me'[p].op = me[p].op
    BY <1>1, <2>2, <2>3 DEF Back, Goto, Types, Works
  <2>5. Held(p)' /\ InHand(p)' = InHand(p) /\ ~Fresh(p)'
    BY <1>1, <1>4, <2>2, <2>4 DEF Held, Twice, ByItself, InHand, Fresh, FreshAt
  <2>6. Way(p)'
    BY <1>1, <1>4, <2>4, <2>5 DEF Way, GrpcWay, Shuts, Closes
  <2>7. \A c : Holds(p, c) => Holds(p, c)'
    BY <1>1, <1>2, <2>2, <2>4, <2>5 DEF Holds
  <2>8. Covers(p)' /\ Marks(p)'
    BY <1>1, <1>2, <2>7 DEF CalmAt, Covers, Down, Marks
  <2> QED
    BY <1>1, <2>6, <2>8 DEF CalmAt
<1> QED
  BY <1>1, <1>3, <1>4 DEF CalmAt, Way, GrpcWay

LEMMA MarkCalm ==
  ASSUME NEW p \in Users, Busy(p), Mark(p)
  PROVE  CalmAt(p)'
<1> USE BusyFacts DEF Busy
<1>1. /\ Types /\ pc[p] = "mark" /\ CalmAt(p) /\ kind = "grpc" /\ me[p].closing \in Seq(Clients)
      /\ UNCHANGED <<kind, registered, made, me, poolsDown, discoDown, dead, direct>>
      /\ isClose' = isClose \cup {Top(p)} /\ pc'[p] = "look"
  <2>1. Types /\ pc[p] = "mark" /\ CalmAt(p) /\ me[p].closing \in Seq(Clients)
        /\ UNCHANGED <<kind, registered, made, me, poolsDown, discoDown, dead, direct>>
        /\ isClose' = isClose \cup {Top(p)}
    BY DEF Mark, histVars
  <2>2. kind = "grpc" /\ pc'[p] = "look"
    BY <2>1 DEF Types, Sound, Mark, Goto
  <2> QED
    BY <2>1, <2>2
<1>2. /\ Held(p) /\ registered \in {InHand(p), NoClient} /\ Len(me[p].closing) = 1
      /\ me[p].op # "register" /\ me[p].closing # <<>> /\ registered \notin isClose
  BY <1>1 DEF CalmAt, Way, GrpcWay, Held, Closes, Marks, OnItsWay, Types, Sound
<1>3. Top(p) = InHand(p) /\ InHand(p) \in Clients /\ InHand(p) <= made
  <2>1. 1 \in DOMAIN me[p].closing
    BY <1>1, <1>2
  <2> QED
    BY <1>1, <1>2, <2>1 DEF Top, InHand, Served, Known
<1>4. ~Fresh(p) /\ ~Fresh(p)' /\ InHand(p)' = InHand(p)
  BY <1>1, <1>2 DEF Fresh, FreshAt, Shuts, Closes, InHand
<1>5. Way(p)'
  BY <1>1, <1>2, <1>3, <1>4 DEF Way, GrpcWay, Held, ByItself, Closes
<1>6. Covers(p)'
  BY <1>1, <1>4 DEF CalmAt, Covers, Down, Holds
<1>7. Marks(p)'
  BY <1>1, <1>2, <1>3, <1>4 DEF CalmAt, Marks, OnItsWay
<1> QED
  BY <1>1, <1>5, <1>6, <1>7 DEF CalmAt

\* Closing the parts of the client in hand, in the order of the package: nothing
\* of it was closed, and when all is the Close returns.
LEMMA PartsInOrder ==
  /\ kind = "rpc" => Last(Parts) = "pools"
  /\ kind = "grpc" => Last(Parts) = "disco"
  /\ kind = "http" => Last(Parts) = "disco"
BY DEF Last, Parts, RpcParts, GrpcParts, HttpParts

LEMMA PartsCalm ==
  ASSUME NEW p \in Users, Busy(p), ClosePools(p) \/ (CloseDisco(p) /\ Top(p) \notin discoDown)
  PROVE  CalmAt(p)'
<1> USE BusyFacts DEF Busy
<1>1. /\ Types /\ pc[p] \in {"pools", "disco"} /\ CalmAt(p) /\ me[p].closing \in Seq(Clients)
      /\ UNCHANGED <<kind, registered, made, isClose, direct, dead>>
      /\ kind \in {"rpc", "grpc", "http"}
  BY DEF ClosePools, CloseDisco, histVars
<1>2. /\ Len(me[p].closing) = 1 /\ registered \notin isClose
      /\ kind = "rpc" => Away(p)
      /\ kind = "grpc" => registered = NoClient /\ me[p].op # "register"
      /\ kind = "http" => pc[p] = "disco" /\ me[p].op # "register"
      /\ kind = "rpc" /\ pc[p] = "pools" => InHand(p) \in discoDown
      /\ kind = "grpc" /\ pc[p] = "pools" => InHand(p) \notin discoDown
      /\ kind = "grpc" /\ pc[p] = "disco" => InHand(p) \in poolsDown
  BY <1>1 DEF CalmAt, Way, RpcWay, GrpcWay, HttpWay, Held, ByItself, Shuts, Closes, Marks, OnItsWay
<1>3. Top(p) = InHand(p) /\ Outer(p) = <<>> /\ me[p].closing # <<>>
  <2>1. me[p].closing[1] \in Clients
    BY <1>1, <1>2
  <2> QED
    BY <1>1, <1>2, <2>1, Short DEF Top, Outer, InHand
<1>4. /\ Closed(p, pc[p]) \/ Hangs(p)
      /\ pc[p] = "pools" => poolsDown' = poolsDown \cup {InHand(p)} /\ UNCHANGED discoDown
      /\ pc[p] = "disco" => discoDown' = discoDown \cup {InHand(p)} /\ UNCHANGED poolsDown
  BY <1>3 DEF ClosePools, CloseDisco
<1>5. Marks(p)'
  BY <1>1, <1>2 DEF CalmAt, Marks
<1>6. CASE Hangs(p)
  <2>1. pc'[p] = "stuck" /\ me'[p].op = "none"
    BY <1>1, <1>6, HangsMoves
  <2>2. Way(p)' /\ Covers(p)'
    BY <2>1 DEF Way, RpcWay, GrpcWay, HttpWay, Covers, Holds, Fresh, FreshAt, Shuts, Closes
  <2> QED
    BY <1>1, <1>5, <2>2 DEF CalmAt
<1>7. CASE Closed(p, pc[p]) /\ pc[p] = Last(Parts)
  <2>1. /\ kind # "http" => InHand(p) \in discoDown' \cap poolsDown'
        /\ Back(p, <<>>)
    BY <1>1, <1>2, <1>3, <1>4, <1>7, PartsInOrder DEF Closed
  <2>2. \/ pc'[p] = "idle" /\ me'[p].closing = <<>> /\ me[p].op # "register"
        \/ /\ pc'[p] = "set" /\ me[p].op = "register"
           /\ me'[p].c = me[p].c /\ me'[p].op = me[p].op /\ me'[p].closing = <<>>
    <3>1. CASE me[p].op # "register"
      BY <1>1, <2>1, <3>1, ReturnMoves DEF Back
    <3>2. CASE me[p].op = "register"
      BY <1>1, <2>1, <3>2 DEF Back, Goto, Types, Works
    <3> QED
      BY <3>1, <3>2
  <2>3. Fresh(p) <=> me[p].op = "register"
    BY <1>1 DEF Fresh, FreshAt, Shuts, Closes
  <2>4. Fresh(p)' <=> Fresh(p)
    BY <2>2, <2>3 DEF Fresh, FreshAt, Shuts, Closes
  <2>5. Way(p)'
    BY <1>1, <1>2, <2>2, <2>3, <2>4 DEF CalmAt, Way, RpcWay, GrpcWay, HttpWay, Away, Shuts, Closes
  <2>6. \A c : Holds(p, c) => Holds(p, c)' \/ c = InHand(p)
    BY <1>1, <2>2, <2>3, <2>4 DEF Holds
  <2>7. Covers(p)'
    <3>1. discoDown \cap poolsDown \subseteq discoDown' \cap poolsDown'
      BY <1>1, <1>4
    <3> QED
      BY <1>1, <2>1, <2>6, <3>1 DEF CalmAt, Covers, Down
  <2> QED
    BY <1>1, <1>5, <2>5, <2>7 DEF CalmAt
<1>8. CASE Closed(p, pc[p]) /\ pc[p] # Last(Parts)
  <2>1. /\ pc'[p] = Last(Parts) /\ me' = me
        /\ kind # "http"
    BY <1>1, <1>2, <1>8, PartsInOrder DEF Closed, Goto, Types
  <2>2. InHand(p)' = InHand(p) /\ (Fresh(p)' <=> Fresh(p))
    <3>1. Last(Parts) \in {"pools", "disco"}
      BY <1>1, <2>1, PartsInOrder
    <3> QED
      BY <1>1, <2>1, <3>1 DEF InHand, Fresh, FreshAt, Shuts, Closes
  <2>3. Way(p)'
    <3>1. kind = "rpc" => RpcWay(p)'
      BY <1>1, <1>2, <1>4, <1>8, <2>1, <2>2, PartsInOrder DEF RpcWay, Held, Away, ByItself
    <3>2. kind = "grpc" => GrpcWay(p)'
      BY <1>1, <1>2, <1>4, <1>8, <2>1, <2>2, PartsInOrder DEF GrpcWay, Held
    <3> QED
      BY <1>1, <2>1, <2>2, <3>1, <3>2, PartsInOrder DEF CalmAt, Way
  <2>4. Covers(p)'
    <3>1. discoDown \cap poolsDown \subseteq discoDown' \cap poolsDown'
      BY <1>1, <1>4
    <3> QED
      BY <1>1, <2>1, <2>2, <3>1 DEF CalmAt, Covers, Down, Holds
  <2> QED
    BY <1>1, <1>5, <2>3, <2>4 DEF CalmAt
<1> QED
  BY <1>4, <1>6, <1>7, <1>8

\* A client that was closed by its own Close, and is again.
LEMMA SecondCalm ==
  ASSUME NEW p \in Users, Busy(p), CloseDisco(p), Top(p) \in discoDown
  PROVE  Doubled'
<1> USE BusyFacts DEF Busy
<1>1. /\ pc[p] = "disco" /\ dead' = TRUE /\ UNCHANGED <<kind, direct, discoDown>>
      /\ me[p].closing \in Seq(Clients) /\ kind \in {"rpc", "grpc", "http"} /\ Held(p)
  BY DEF CloseDisco, histVars, CalmAt, Way, RpcWay, GrpcWay, HttpWay
<1>2. Top(p) = InHand(p)
  BY <1>1 DEF Held, Top, InHand
<1> QED
  BY <1>1, <1>2 DEF Held, ByItself, Doubled, ClosedTwice

LEMMA WorkCalm ==
  ASSUME NEW p \in Users, Busy(p), Work(p)
  PROVE  CalmAt(p)' \/ Doubled'
BY GetCalm, CallCalm, RegisterCalm, NewClientCalm, LookNoneCalm, LookOneCalm, DeleteCalm,
   ClosingCalm, MarkCalm, PartsCalm, SecondCalm DEF Work

\* An operation begins with the client that is registered, or with none in hand.
LEMMA BeginCalm ==
  ASSUME Served, NEW p \in Users, CalmAt(p), Begin(p)
  PROVE  CalmAt(p)'
<1> USE BusyFacts
<1>1. /\ Types /\ pc[p] = "idle" /\ me[p].closing = <<>> /\ ~Fresh(p)
      /\ UNCHANGED <<kind, registered, made, isClose, poolsDown, discoDown, dead>>
  BY DEF Begin, partVars, Types, Sound, Fresh, FreshAt, Shuts, Closes
<1>2. PICK op \in DOMAIN First :
        /\ op = "shut" => registered # NoClient
        /\ me' = [me EXCEPT ![p].op = op,
                            ![p].closing = IF op = "shut" THEN <<registered>> ELSE <<>>]
        /\ Goto(p, First[op])
        /\ direct' = IF op = "shut" THEN direct \cup {registered} ELSE direct
  BY DEF Begin
<1>3. op = "shut" => registered \in direct'
  BY <1>2
<1>4. /\ pc'[p] = First[op] /\ me'[p].op = op
      /\ me'[p].closing = IF op = "shut" THEN <<registered>> ELSE <<>>
  BY <1>1, <1>2 DEF Goto, Types, Works
<1>5. /\ op = "register" /\ kind # "grpc" => First[op] = "new"
      /\ op = "register" /\ kind = "grpc" => First[op] = "get"
      /\ op = "close" => First[op] = "look"
      /\ op = "shut" => First[op] = IF kind = "grpc" THEN "closing" ELSE "disco"
      /\ op \in {"call", "gocall"} => First[op] = "get"
      /\ op \in {"call", "gocall", "register", "close", "shut"}
  <2>1. CASE kind = "rpc"
    BY <2>1 DEF First, RpcFirst
  <2>2. CASE kind = "grpc"
    BY <2>2 DEF First, GrpcFirst
  <2>3. CASE kind = "http"
    BY <2>3 DEF First, HttpFirst
  <2> QED
    BY <2>1, <2>2, <2>3
<1>6. ~Fresh(p)'
  BY <1>4, <1>5 DEF Fresh, FreshAt, Shuts, Closes
<1>7. /\ kind = "grpc" => registered \notin discoDown
      /\ registered \notin isClose
  BY <1>1, RegisteredUp DEF CalmAt, Marks, OnItsWay, ByItself
<1>8. Way(p)'
  <2>1. CASE op = "shut"
    <3>1. /\ pc'[p] = IF kind = "grpc" THEN "closing" ELSE "disco"
          /\ Len(me'[p].closing) = 1 /\ InHand(p)' = registered
      BY <1>4, <1>5, <2>1 DEF InHand
    <3>2. Held(p)' /\ (kind = "rpc" => Away(p)')
      BY <1>1, <1>3, <1>4, <1>7, <2>1, <3>1 DEF Held, Away, ByItself
    <3> QED
      BY <1>1, <1>4, <1>6, <1>7, <2>1, <3>1, <3>2
         DEF Way, RpcWay, GrpcWay, HttpWay, Shuts, Closes
  <2>2. CASE op # "shut"
    BY <1>1, <1>4, <1>5, <1>6, <2>2 DEF Way, RpcWay, GrpcWay, HttpWay, Shuts, Closes
  <2> QED
    BY <2>1, <2>2
<1>9. Covers(p)'
  BY <1>1 DEF CalmAt, Covers, Down, Holds
<1>10. Marks(p)'
  BY <1>1, <1>7 DEF CalmAt, Marks
<1> QED
  BY <1>1, <1>8, <1>9, <1>10 DEF CalmAt

\* Nobody but p is busy when p works.
LEMMA WorkAlone ==
  ASSUME Types, Lone, NEW p \in Users, Work(p)
  PROVE  Others(p) /\ pc[p] # "idle"
<1>1. pc[p] # "idle"
  BY DEF Work, Get, Lock, GetAgain, Save, NewClient, Look, Delete, Closing, Mark, ClosePools,
         CloseDisco, Set, Call, Chain, Request, Store, Deliver
<1> QED
  BY <1>1 DEF Lone, Others

\* A goroutine moves itself only.
LEMMA OthersStay ==
  ASSUME Types, NEW p \in Users, Others(p), Begin(p) \/ Work(p)
  PROVE  Others(p)'
<1>1. \A q \in Users \ {p} : pc'[q] = pc[q]
  <2>1. CASE Begin(p)
    BY <2>1 DEF Begin, Goto, Types
  <2>2. CASE Get(p) \/ Lock(p) \/ GetAgain(p) \/ Call(p) \/ Chain(p) \/ Request(p) \/ Store(p)
             \/ Deliver(p)
    BY <2>2, GetPlain, LockPlain, GetAgainPlain, CallPlain, ChainPlain, RequestPlain, StorePlain,
       DeliverPlain DEF Plain, Moves
  <2>3. CASE Look(p) \/ Delete(p) \/ Closing(p) \/ Mark(p) \/ ClosePools(p) \/ CloseDisco(p)
    BY <2>3 DEF Look, Delete, Closing, Mark, ClosePools, CloseDisco, Closed, Back, Hangs, Return, Goto, Types
  <2>4. CASE Save(p) \/ NewClient(p) \/ Set(p)
    BY <2>4 DEF Save, NewClient, Set, Return, Goto, Types
  <2> QED
    BY <2>1, <2>2, <2>3, <2>4 DEF Work
<1> QED
  BY <1>1 DEF Others

\* Once the program has panicked nothing happens any more.
LEMMA NextInOrder ==
  ASSUME Served, InOrder, [Next]_vars, Served'
  PROVE  InOrder'
<1>1. Types /\ Types'
  BY DEF Served
<1>2. CASE Receive \/ UNCHANGED vars
  <2>1. UNCHANGED <<kind, registered, made, isClose, poolsDown, discoDown, pc, me, dead,
                    overlapped, direct>>
    BY <1>2 DEF Receive, vars, partVars, reqVars, histVars
  <2>2. Calm => Calm'
    BY <2>1 DEF Calm, Way, RpcWay, GrpcWay, HttpWay, Held, Twice, Away, ByItself, InHand,
       Fresh, Covered, Down, Holds, Marked, OnItsWay
  <2> QED
    BY <2>1, <2>2 DEF InOrder, Lone, Doubled, ClosedTwice
<1>3. ASSUME NEW p \in Users, Begin(p), ~dead, ~overlapped'
      PROVE  Lone' /\ Calm'
  <2>1. ~overlapped /\ Others(p) /\ pc[p] = "idle"
    BY <1>3 DEF Begin, Others
  <2>2. Others(p)'
    BY <1>1, <1>3, <2>1, OthersStay
  <2>3. Lone'
    BY <2>2 DEF Lone, Others
  <2>4. CalmAt(p)
    BY <1>1, <1>3, <2>1, CalmOne DEF InOrder, Doubled
  <2>5. CalmAt(p)'
    BY <1>3, <2>4, BeginCalm
  <2> QED
    BY <1>1, <2>2, <2>3, <2>5, CalmAll
<1>4. ASSUME NEW p \in Users, Work(p), ~dead, ~overlapped'
      PROVE  Lone' /\ (Calm' \/ Doubled')
  <2>1. UNCHANGED overlapped
    BY <1>4 DEF Work, Get, Lock, GetAgain, Save, NewClient, Look, Delete, Closing, Mark,
       ClosePools, CloseDisco, Set, Call, Chain, Request, Store, Deliver, histVars
  <2>2. Lone /\ Others(p) /\ pc[p] # "idle"
    BY <1>1, <1>4, <2>1, WorkAlone DEF InOrder
  <2>3. Others(p)'
    BY <1>1, <1>4, <2>2, OthersStay
  <2>4. Lone'
    BY <2>3 DEF Lone, Others
  <2>5. CalmAt(p)
    BY <1>1, <1>4, <2>1, <2>2, CalmOne DEF InOrder, Doubled
  <2>6. CalmAt(p)' \/ Doubled'
    BY <1>4, <2>2, <2>5, WorkCalm DEF Busy
  <2> QED
    BY <1>1, <2>3, <2>4, <2>6, CalmAll
<1> QED
  BY <1>2, <1>3, <1>4 DEF Next, InOrder

LEMMA InitInOrder == Init => InOrder
<1> SUFFICES ASSUME Init PROVE Lone /\ Calm
  BY DEF InOrder
<1>1. Types
  BY InitServed DEF Served
<1>2. /\ \A q \in Users : pc[q] = "idle"
      /\ ~dead /\ made = 0 /\ isClose = {}
  BY DEF Init
<1>3. \A q \in Users : Way(q)
  BY <1>1, <1>2, IdleHolds
<1>4. Covered /\ Marked
  BY <1>2 DEF Covered, Marked
<1> QED
  BY <1>2, <1>3, <1>4 DEF Lone, Calm

\* client.go of the three packages, for any number of operations in any order, one
\* after the other: a program panics of it only in rpc and http, and only when it
\* closes a client again that it closed by the client's own Close; and a client that
\* was replaced or closed by its name has nothing left running.
THEOREM OneAfterTheOther == Spec => []SequentialSafe
<1>1. Served /\ InOrder => SequentialSafe
  <2> SUFFICES ASSUME Types, InOrder, Quiet, ~overlapped
               PROVE  /\ dead => ClosedTwice
                      /\ ~dead /\ kind # "http" =>
                           \A c \in 1 .. made : c = registered \/ c \in discoDown \cap poolsDown
    BY DEF Served, SequentialSafe
  <2>1. CASE dead
    BY <2>1 DEF InOrder, Calm, Doubled
  <2>2. CASE ~dead
    <3>1. Calm
      BY <2>2 DEF InOrder, Doubled
    <3>2. \A p \in Users : \A c : ~Holds(p, c)
      BY <2>2, IdleHolds DEF Quiet
    <3> QED
      BY <2>2, <3>1, <3>2 DEF Calm, Covered, Down
  <2> QED
    BY <2>1, <2>2
<1> QED
  BY <1>1, InitInOrder, NextInOrder, AlwaysServed, PTL DEF Spec

=============================================================================
