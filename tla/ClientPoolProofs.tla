-------------------------- MODULE ClientPoolProofs --------------------------
(***************************************************************************)
(* Proofs about ClientPool for every number of clients, callers and slots. *)
(***************************************************************************)
EXTENDS ClientPool, ListFacts, FiniteSetTheorems, SequenceTheorems, TLAPS

-----------------------------------------------------------------------------
(***************************************************************************)
(* Types                                                                   *)
(***************************************************************************)
ObjType  == /\ st \in [Clients -> {"new", "up", "down", "failed"}]
            /\ bDestroy \in [Clients -> BOOLEAN]
            /\ ref \in [Clients -> Int]
            /\ age \in [Clients -> 0 .. MaxAge]
            /\ recent \in [Clients -> BOOLEAN]
            /\ slotOf \in [Clients -> Slots]
TableType == /\ cs \in [Slots -> Clients] /\ pc2c \subseteq Clients /\ csIndex \in Slots
             /\ csClose \in BOOLEAN /\ mtHeld \in BOOLEAN /\ left \subseteq Clients
RecType  == li \in Seq(Clients) /\ tokens \in 0 .. ChCap
CallType == /\ pc \in [Callers -> CallerPcs]
            /\ held \in [Callers -> Clients \cup {NoClient}]
            /\ \A p \in Callers : pc[p] # "idle" => held[p] \in Clients
            /\ gets \in 0 .. MaxGets
InitType == /\ phase \in {"new", "open", "failed"} /\ initting \in BOOLEAN
            /\ initPc \in {"off", "slot", "push"} /\ initI \in 0 .. InitCap - 1
            /\ initC \in Clients \cup {NoClient} /\ (initPc = "push" => initC \in Clients)
            /\ initDue \in BOOLEAN
IdleType == /\ idlePc \in {"select", "count", "remove", "done"} /\ idleI \in Slots
            /\ ticks \in 0 .. MaxTicks
LoopType == /\ recPc \in {"select", "check", "pick", "remove", "close", "done"}
            /\ recC \in Clients \cup {NoClient}
            /\ (recPc \in {"remove", "close"} => recC \in Clients)
CloseType == closePc \in {"open", "wait", "exitIdle", "destroy", "exitRecycle", "closed"}

\* TypeOK by groups of variables that change together.
LEMMA TypeParts ==
  TypeOK <=> /\ ObjType /\ TableType /\ RecType /\ CallType
             /\ InitType /\ IdleType /\ LoopType /\ CloseType
BY DEF TypeOK, ObjType, TableType, RecType, CallType, InitType, IdleType, LoopType, CloseType

\* new_client's identity is one that nothing refers to.
LEMMA FreshFree ==
  ASSUME TypeOK, Free # {}
  PROVE  /\ Fresh \in Clients
         /\ \A i \in Slots : cs[i] # Fresh
         /\ \A p \in Callers : held[p] # Fresh
         /\ ~Contains(li, Fresh)
<1>1. Fresh \in Free
  BY DEF Fresh
<1>2. \A k \in 1 .. Len(li) : li[k] # Fresh
  <2>1. DOMAIN li = 1 .. Len(li)
    BY LenProperties DEF TypeOK
  <2> QED
    BY <1>1, <2>1 DEF Free, Known
<1> QED
  BY <1>1, <1>2 DEF Free, Known, Contains

\* client.Close only closes.
LEMMA CloseInType ==
  ASSUME NEW s \in [Clients -> {"new", "up", "down", "failed"}], NEW c \in Clients
  PROVE  CloseIn(s, c) \in [Clients -> {"new", "up", "down", "failed"}]
BY DEF CloseIn

\* A dial, good or bad, touches the client objects alone and keeps their types.
LEMMA DialTypes ==
  ASSUME ObjType, NEW c \in Clients, DialOK(c) \/ DialFails(c)
  PROVE  ObjType'
<1>1. CASE DialOK(c)
  <2>1. /\ st' \in [Clients -> {"new", "up", "down", "failed"}]
        /\ recent' \in [Clients -> BOOLEAN]
        /\ age' \in [Clients -> 0 .. MaxAge]
    BY <1>1, AgesAssumption DEF ObjType, DialOK
  <2> QED
    BY <1>1, <2>1 DEF ObjType, DialOK
<1>2. CASE DialFails(c)
  <2>1. /\ st' \in [Clients -> {"new", "up", "down", "failed"}]
        /\ recent' \in [Clients -> BOOLEAN]
    BY <1>2 DEF ObjType, DialFails
  <2> QED
    BY <1>2, <2>1 DEF ObjType, DialFails
<1> QED
  BY <1>1, <1>2

\* clients.push keeps the types of the objects and of pc2c.
LEMMA PushTypes ==
  ASSUME ObjType, TableType, NEW c \in Clients, Push(c)
  PROVE  ObjType' /\ TableType'
BY CloseInType DEF ObjType, TableType, Push

\* recycle.push keeps the list a list of clients and the tokens within ChCap.
LEMMA RecyclePushTypes ==
  ASSUME RecType, NEW c \in Clients,
         NEW s \in [Clients -> {"new", "up", "down", "failed"}],
         RecyclePush(c, s)
  PROVE  RecType' /\ st' \in [Clients -> {"new", "up", "down", "failed"}]
<1>0. li \in Seq(Clients) /\ tokens \in 0 .. ChCap
  BY DEF RecType
<1>1. CASE st' = s /\ UNCHANGED recVars
  BY <1>0, <1>1 DEF RecType, recVars
<1>2. CASE Room /\ li' = Append(li, c) /\ tokens' = tokens + 1 /\ st' = s
  BY <1>0, <1>2, AppendFacts, CapsAssumption DEF RecType, Room
<1>3. CASE /\ li' = Tail(Append(li, c)) /\ tokens' = tokens
           /\ st' = CloseIn(s, Head(Append(li, c)))
  <2>1. Tail(Append(li, c)) \in Seq(Clients) /\ Head(Append(li, c)) \in Clients
    BY <1>0, TailAppendFacts
  <2> QED
    BY <1>0, <1>3, <2>1, CloseInType DEF RecType
<1> QED
  BY <1>1, <1>2, <1>3 DEF RecyclePush

\* Replacing a retired client keeps the types of everything it writes.
LEMMA RetireTypes ==
  ASSUME TypeOK, NEW c \in Clients, Retire(c)
  PROVE  ObjType' /\ TableType' /\ RecType'
<1> USE DEF ObjType, TableType
<1>1. ObjType /\ TableType /\ RecType
  BY TypeParts
<1>2. Fresh \in Clients
  BY FreshFree DEF Retire
<1> DEFINE s == [st EXCEPT ![Fresh] = "new"]
<1>3. s \in [Clients -> {"new", "up", "down", "failed"}]
  BY <1>1, <1>2
<1>4. RecyclePush(c, s)
  BY DEF Retire
<1>5. RecType' /\ st' \in [Clients -> {"new", "up", "down", "failed"}]
  BY <1>1, <1>3, <1>4, RecyclePushTypes
<1> HIDE DEF s
<1> QED
  BY <1>1, <1>2, <1>5, AgesAssumption DEF Retire, SlotsWith

\* A caller's step keeps every type.
LEMMA CallerTypes ==
  ASSUME TypeOK, NEW p \in Callers, Caller(p)
  PROVE  TypeOK'
<1>1. /\ ObjType /\ TableType /\ RecType /\ CallType
      /\ InitType /\ IdleType /\ LoopType /\ CloseType
  BY TypeParts
<1>2. InitType' /\ IdleType' /\ LoopType' /\ CloseType'
  BY <1>1 DEF Caller, initVars, idleVars, loopVars, InitType, IdleType, LoopType, CloseType
<1>3. pc[p] # "idle" => held[p] \in Clients
  BY <1>1 DEF CallType
<1>4. ObjType' /\ TableType' /\ RecType' /\ CallType'
  <2>1. CASE Get(p)
    <3>1. ObjType' /\ RecType'
      BY <1>1, <2>1 DEF Get, objVars, recVars, ObjType, RecType
    <3>2. TableType'
      BY <1>1, <2>1, CapsAssumption DEF Get, MinGet, RoundGet, TableType, Slots
    <3>3. CallType'
      BY <1>1, <2>1, BoundsAssumption DEF Get, CallType, TableType, CallerPcs
    <3> QED
      BY <3>1, <3>2, <3>3
  <2>2. CASE Connect(p) /\ UNCHANGED gets
    <3>1. ObjType'
      BY <1>1, <1>3, <2>2, DialTypes DEF Connect, objVars, ObjType
    <3>2. TableType' /\ RecType' /\ CallType'
      BY <1>1, <2>2 DEF Connect, tableVars, recVars, TableType, RecType, CallType, CallerPcs
    <3> QED
      BY <3>1, <3>2
  <2>3. CASE Fallback(p) /\ UNCHANGED gets
    BY <1>1, <2>3 DEF Fallback, objVars, tableVars, recVars, ObjType, TableType, RecType, CallType,
       CallerPcs
  <2>4. CASE PushNew(p) /\ UNCHANGED gets
    <3>1. ObjType' /\ TableType'
      BY <1>1, <1>3, <2>4, PushTypes DEF PushNew
    <3>2. RecType' /\ CallType'
      BY <1>1, <2>4 DEF PushNew, recVars, RecType, CallType, CallerPcs
    <3> QED
      BY <3>1, <3>2
  <2>5. CASE AddRef(p) /\ UNCHANGED gets
    <3>1. ObjType'
      BY <1>1, <1>3, <2>5, AgesAssumption DEF AddRef, TakeRef, ObjType
    <3>2. TableType' /\ RecType' /\ CallType'
      BY <1>1, <2>5 DEF AddRef, TakeRef, tableVars, recVars, TableType, RecType, CallType, CallerPcs
    <3> QED
      BY <3>1, <3>2
  <2>6. CASE Call(p) /\ UNCHANGED gets
    BY <1>1, <2>6 DEF Call, objVars, tableVars, recVars, ObjType, TableType, RecType, CallType,
       CallerPcs
  <2>7. CASE PutGood(p) /\ UNCHANGED gets
    <3>1. ObjType'
      BY <1>1, <1>3, <2>7 DEF PutGood, Unref, ObjType
    <3>2. TableType' /\ RecType' /\ CallType'
      BY <1>1, <2>7 DEF PutGood, tableVars, recVars, TableType, RecType, CallType, CallerPcs
    <3> QED
      BY <3>1, <3>2
  <2>8. CASE PutBad(p) /\ UNCHANGED gets
    <3>1. ObjType'
      BY <1>1, <1>3, <2>8 DEF PutBad, Unref, ObjType
    <3>2. TableType' /\ RecType' /\ CallType'
      BY <1>1, <2>8 DEF PutBad, tableVars, recVars, TableType, RecType, CallType, CallerPcs
    <3> QED
      BY <3>1, <3>2
  <2>9. CASE (PutClosed(p) \/ ShutUnknown(p)) /\ UNCHANGED gets
    <3>1. held[p] \in Clients
      BY <1>3, <2>9 DEF PutClosed, ShutUnknown
    <3>2. ObjType'
      BY <1>1, <2>9, <3>1, CloseInType DEF PutClosed, ShutUnknown, ObjType
    <3>3. TableType' /\ RecType' /\ CallType'
      BY <1>1, <2>9 DEF PutClosed, ShutUnknown, tableVars, recVars, TableType, RecType, CallType,
         CallerPcs
    <3> QED
      BY <3>2, <3>3
  <2>10. CASE MoveRecycle(p) /\ UNCHANGED gets
    <3>1. ObjType' /\ TableType' /\ RecType'
      BY <1>1, <1>3, <2>10, RetireTypes
         DEF MoveRecycle, objVars, tableVars, recVars, ObjType, TableType, RecType
    <3>2. CallType'
      BY <1>1, <2>10 DEF MoveRecycle, CallType, CallerPcs
    <3> QED
      BY <3>1, <3>2
  <2> QED
    BY <2>1, <2>2, <2>3, <2>4, <2>5, <2>6, <2>7, <2>8, <2>9, <2>10 DEF Caller
<1> QED
  BY <1>2, <1>4, TypeParts DEF TypeOK, ObjType, TableType, RecType, CallType, InitType, IdleType, LoopType, CloseType

\* A step of init_clients keeps every type.
LEMMA InitsTypes ==
  ASSUME TypeOK, Inits
  PROVE  TypeOK'
<1>1. /\ ObjType /\ TableType /\ RecType /\ CallType
      /\ InitType /\ IdleType /\ LoopType /\ CloseType
  BY TypeParts
<1>2. CallType' /\ IdleType' /\ LoopType' /\ CloseType'
  BY <1>1 DEF Inits, callVars, idleVars, loopVars, CallType, IdleType, LoopType, CloseType
<1>3. ASSUME NextInit PROVE /\ phase' \in {"new", "open", "failed"} /\ initting' \in BOOLEAN
                             /\ initPc' \in {"off", "slot"} /\ initI' \in 0 .. InitCap - 1
  <2>1. CASE initI + 1 < InitCap
    BY <1>1, <1>3, <2>1, CapsAssumption DEF NextInit, InitType
  <2>2. CASE ~(initI + 1 < InitCap)
    <3>1. /\ initPc' = "off" /\ initI' = 0 /\ initting' = FALSE
          /\ phase' = IF phase = "new" THEN "open" ELSE phase
      BY <1>3, <2>2 DEF NextInit, EndInit
    <3>2. phase' \in {"new", "open", "failed"} /\ initPc' \in {"off", "slot"}
      BY <1>1, <3>1 DEF InitType
    <3>3. initting' \in BOOLEAN
      BY <3>1
    <3>4. initI' \in 0 .. InitCap - 1
      BY <3>1, CapsAssumption
    <3> QED
      BY <3>2, <3>3, <3>4
  <2> QED
    BY <2>1, <2>2
<1>4. ObjType' /\ TableType' /\ RecType' /\ InitType'
  <2>1. CASE InitStart
    BY <1>1, <2>1, CapsAssumption
       DEF InitStart, objVars, tableVars, recVars, ObjType, TableType, RecType, InitType
  <2>2. CASE InitConnect
    <3> DEFINE c == cs[initI]
    <3>1. c \in Clients
      BY <1>1, CapsAssumption DEF TableType, InitType, Slots
    <3>2. TableType' /\ RecType' /\ initDue' \in BOOLEAN
      BY <1>1, <2>2 DEF InitConnect, tableVars, recVars, TableType, RecType, InitType
    <3>3. CASE Standing(c) /\ NextInit /\ UNCHANGED <<objVars, initC>>
      BY <1>1, <1>3, <3>2, <3>3 DEF objVars, ObjType, InitType
    <3>4. CASE DialOK(c) /\ initPc' = "push" /\ initC' = c /\ UNCHANGED <<initI, initting, phase>>
      BY <1>1, <3>1, <3>2, <3>4, DialTypes DEF InitType
    <3>5. CASE Refused(c) /\ AbandonInit /\ UNCHANGED <<objVars, initC>>
      BY <1>1, <3>2, <3>5, CapsAssumption DEF AbandonInit, objVars, ObjType, InitType
    <3>6. CASE DialFails(c) /\ AbandonInit /\ UNCHANGED initC
      BY <1>1, <3>1, <3>2, <3>6, DialTypes, CapsAssumption DEF AbandonInit, InitType
    <3> QED
      BY <2>2, <3>3, <3>4, <3>5, <3>6 DEF InitConnect
  <2>3. CASE InitPush
    <3>1. ObjType' /\ TableType'
      BY <1>1, <2>3, PushTypes DEF InitPush, InitType
    <3>2. RecType' /\ InitType'
      BY <1>1, <1>3, <2>3 DEF InitPush, recVars, RecType, InitType
    <3> QED
      BY <3>1, <3>2
  <2> QED
    BY <2>1, <2>2, <2>3 DEF Inits
<1> QED
  BY <1>2, <1>4 DEF TypeOK, ObjType, TableType, RecType, CallType, InitType, IdleType, LoopType, CloseType

\* A step of the idle reaper keeps every type.
LEMMA ReaperTypes ==
  ASSUME TypeOK, Reaper
  PROVE  TypeOK'
<1>1. /\ ObjType /\ TableType /\ RecType /\ CallType
      /\ InitType /\ IdleType /\ LoopType /\ CloseType
  BY TypeParts
<1>2. CallType' /\ LoopType' /\ CloseType'
  BY <1>1 DEF Reaper, callVars, loopVars, CallType, LoopType, CloseType
<1>3. ObjType' /\ TableType' /\ RecType' /\ InitType' /\ IdleType'
  <2>1. CASE IdleTick
    <3>1. ObjType' /\ TableType' /\ RecType'
      BY <1>1, <2>1 DEF IdleTick, objVars, tableVars, recVars, ObjType, TableType, RecType
    <3>2. InitType' /\ IdleType'
      BY <1>1, <2>1, CapsAssumption, BoundsAssumption DEF IdleTick, InitType, IdleType, Slots
    <3> QED
      BY <3>1, <3>2
  <2>2. CASE IdleCount
    <3>1. ObjType' /\ TableType' /\ RecType' /\ InitType'
      BY <1>1, <2>2 DEF IdleCount, objVars, tableVars, recVars, initVars,
                        ObjType, TableType, RecType, InitType
    <3>2. IdleType'
      BY <1>1, <2>2, CapsAssumption DEF IdleCount, EndSweep, IdleType, Slots
    <3> QED
      BY <3>1, <3>2
  <2>3. CASE IdleRemove
    <3>1. cs[idleI] \in Clients
      BY <1>1 DEF TableType, IdleType
    <3>2. ObjType' /\ TableType' /\ RecType'
      BY <1>1, <2>3, <3>1, RetireTypes
         DEF IdleRemove, objVars, tableVars, recVars, ObjType, TableType, RecType
    <3>3. InitType' /\ IdleType'
      BY <1>1, <2>3, CapsAssumption
         DEF IdleRemove, NextIdle, EndSweep, initVars, InitType, IdleType, Slots
    <3> QED
      BY <3>2, <3>3
  <2> QED
    BY <2>1, <2>2, <2>3 DEF Reaper
<1> QED
  BY <1>2, <1>3 DEF TypeOK, ObjType, TableType, RecType, CallType, InitType, IdleType, LoopType, CloseType

\* The members of the list are clients.
LEMMA Listed ==
  ASSUME RecType
  PROVE  /\ DOMAIN li = 1 .. Len(li) /\ Len(li) \in Nat
         /\ \A k \in DOMAIN li : li[k] \in Clients
BY LenProperties, ElementOfSeq DEF RecType

\* A step of the recycler keeps every type.
LEMMA RecyclerTypes ==
  ASSUME TypeOK, Recycler
  PROVE  TypeOK'
<1>1. /\ ObjType /\ TableType /\ RecType /\ CallType
      /\ InitType /\ IdleType /\ LoopType /\ CloseType
  BY TypeParts
<1>2. TableType' /\ CallType' /\ InitType' /\ IdleType' /\ CloseType'
  BY <1>1 DEF Recycler, tableVars, callVars, initVars, idleVars,
     TableType, CallType, InitType, IdleType, CloseType
<1>3. ObjType' /\ RecType' /\ LoopType'
  <2>1. CASE RecycleTick \/ RecycleCheck
    BY <1>1, <2>1 DEF RecycleTick, RecycleCheck, Short, objVars, recVars, ObjType, RecType, LoopType
  <2>2. CASE RecycleToken
    BY <1>1, <2>2, CapsAssumption DEF RecycleToken, objVars, ObjType, RecType, LoopType
  <2>3. CASE RecyclePick
    <3>1. ObjType' /\ RecType'
      BY <1>1, <2>3 DEF RecyclePick, objVars, recVars, ObjType, RecType
    <3>2. LoopType'
      <4>1. Closable \subseteq Clients
        BY <1>1, Listed DEF Closable
      <4>2. Len(li) > MaxCap => Head(li) \in Clients
        BY <1>1, Listed, CapsAssumption DEF RecType
      <4> QED
        BY <1>1, <2>3, <4>1, <4>2 DEF RecyclePick, LoopType
    <3> QED
      BY <3>1, <3>2
  <2>4. CASE RecycleRemove
    <3>1. li' \in Seq(Clients)
      BY <1>1, <2>4, Listed, RemoveAtFacts DEF RecycleRemove, Removable, RecType
    <3> QED
      BY <1>1, <2>4, <3>1 DEF RecycleRemove, Removable, objVars, ObjType, RecType, LoopType
  <2>5. CASE RecycleClose
    <3>1. recC \in Clients
      BY <1>1, <2>5 DEF RecycleClose, LoopType
    <3> QED
      BY <1>1, <2>5, <3>1, CloseInType DEF RecycleClose, recVars, ObjType, RecType, LoopType
  <2> QED
    BY <2>1, <2>2, <2>3, <2>4, <2>5 DEF Recycler
<1> QED
  BY <1>2, <1>3 DEF TypeOK, ObjType, TableType, RecType, CallType, InitType, IdleType, LoopType, CloseType

\* A step of Pool.Close keeps every type.
LEMMA CloserTypes ==
  ASSUME TypeOK, Closer
  PROVE  TypeOK'
<1>1. /\ ObjType /\ TableType /\ RecType /\ CallType
      /\ InitType /\ IdleType /\ LoopType /\ CloseType
  BY TypeParts
<1>2. CallType' /\ InitType'
  BY <1>1 DEF Closer, callVars, initVars, CallType, InitType
<1>3. ObjType' /\ TableType' /\ RecType' /\ IdleType' /\ LoopType' /\ CloseType'
  <2> USE DEF objVars, tableVars, recVars, idleVars, loopVars
  <2>1. CASE CloseCall
    BY <1>1, <2>1 DEF CloseCall, ObjType, TableType, RecType, IdleType, LoopType, CloseType
  <2>2. CASE CloseLocked
    BY <1>1, <2>2 DEF CloseLocked, ObjType, TableType, RecType, IdleType, LoopType, CloseType
  <2>3. CASE CloseExitIdle
    BY <1>1, <2>3 DEF CloseExitIdle, ObjType, TableType, RecType, IdleType, LoopType, CloseType
  <2>4. CASE CloseDestroy
    <3>1. /\ bDestroy' \in [Clients -> BOOLEAN]
          /\ st' \in [Clients -> {"new", "up", "down", "failed"}]
      <4>1. PICK n \in Int : DestroyUpTo(n)
        BY <2>4, CapsAssumption DEF CloseDestroy
      <4> QED
        BY <1>1, <4>1 DEF DestroyUpTo, ObjType
    <3> QED
      BY <1>1, <2>4, <3>1 DEF CloseDestroy, ObjType, TableType, RecType, IdleType, LoopType, CloseType
  <2>5. CASE CloseExitRecycle
    BY <1>1, <2>5
       DEF CloseExitRecycle, ObjType, TableType, RecType, IdleType, LoopType, CloseType
  <2> QED
    BY <2>1, <2>2, <2>3, <2>4, <2>5 DEF Closer
<1> QED
  BY <1>2, <1>3 DEF TypeOK, ObjType, TableType, RecType, CallType, InitType, IdleType, LoopType, CloseType

\* Time passing keeps every type.
LEMMA ClockTypes ==
  ASSUME TypeOK, Clock
  PROVE  TypeOK'
<1>1. /\ ObjType /\ TableType /\ RecType /\ CallType
      /\ InitType /\ IdleType /\ LoopType /\ CloseType
  BY TypeParts
<1>2. /\ TableType' /\ RecType' /\ CallType'
      /\ InitType' /\ IdleType' /\ LoopType' /\ CloseType'
  BY <1>1 DEF Clock, tableVars, recVars, callVars, initVars, idleVars, loopVars, TableType, RecType,
     CallType, InitType, IdleType, LoopType, CloseType
<1>3. recent' \in [Clients -> BOOLEAN]
  BY DEF Clock, Second, Elapse
<1>4. age' \in [Clients -> 0 .. MaxAge]
  <2>1. CASE Second
    BY <1>1, <2>1 DEF Second, ObjType
  <2>2. CASE Elapse
    BY <1>1, <2>2, AgesAssumption DEF Elapse, ObjType
  <2> QED
    BY <2>1, <2>2 DEF Clock
<1>5. ObjType'
  BY <1>1, <1>3, <1>4 DEF Clock, ObjType
<1> QED
  BY <1>2, <1>5 DEF TypeOK, ObjType, TableType, RecType, CallType, InitType, IdleType, LoopType, CloseType

\* Every variable keeps its type: in particular chClient never holds more
\* tokens than its capacity, and a caller inside the pool has a client.
THEOREM TypeCorrect == Spec => []TypeOK
<1>1. Init => TypeOK
  <2> SUFFICES ASSUME Init PROVE TypeOK
    OBVIOUS
  <2>1. slotOf \in [Clients -> Slots]
    BY CapsAssumption DEF Init, InSlots, Slots
  <2>2. ObjType
    BY <2>1, AgesAssumption DEF Init, ObjType
  <2>3. TableType /\ RecType
    <3>1. csClose = FALSE /\ mtHeld = FALSE
      BY DEF Init
    <3>2. csClose \in BOOLEAN /\ mtHeld \in BOOLEAN
      BY <3>1
    <3>3. /\ cs \in [Slots -> Clients] /\ pc2c \subseteq Clients /\ csIndex \in Slots
          /\ left \subseteq Clients /\ RecType
      BY CapsAssumption, FirstAssumption DEF Init, RecType, Slots
    <3> QED
      BY <3>2, <3>3 DEF TableType
  <2>4. CallType /\ InitType /\ IdleType
    <3>1. initting = TRUE /\ initDue = FALSE
      BY DEF Init
    <3>2. initting \in BOOLEAN /\ initDue \in BOOLEAN
      BY <3>1
    <3>3. CallType /\ IdleType
      BY CapsAssumption, BoundsAssumption DEF Init, CallType, IdleType, CallerPcs, Slots
    <3>4. /\ phase \in {"new", "open", "failed"}
          /\ initPc \in {"off", "slot", "push"} /\ initI \in 0 .. InitCap - 1
          /\ initC \in Clients \cup {NoClient} /\ (initPc = "push" => initC \in Clients)
      BY CapsAssumption DEF Init
    <3> QED
      BY <3>2, <3>3, <3>4 DEF InitType
  <2>5. LoopType /\ CloseType
    BY DEF Init, LoopType, CloseType
  <2> QED
    BY <2>2, <2>3, <2>4, <2>5, TypeParts
<1>2. TypeOK /\ [Next]_vars => TypeOK'
  <2> SUFFICES ASSUME TypeOK, [Next]_vars PROVE TypeOK'
    OBVIOUS
  <2>1. CASE UNCHANGED vars
    <3>1. /\ ObjType /\ TableType /\ RecType /\ CallType
          /\ InitType /\ IdleType /\ LoopType /\ CloseType
      BY TypeParts
    <3>2. ObjType' /\ TableType' /\ RecType' /\ CallType'
      BY <2>1, <3>1 DEF vars, objVars, tableVars, recVars, callVars,
                        ObjType, TableType, RecType, CallType
    <3>3. InitType' /\ IdleType' /\ LoopType' /\ CloseType'
      BY <2>1, <3>1 DEF vars, initVars, idleVars, loopVars, InitType, IdleType, LoopType, CloseType
    <3> QED
      BY <3>2, <3>3 DEF TypeOK, ObjType, TableType, RecType, CallType, InitType, IdleType, LoopType,
                        CloseType
  <2> QED
    BY <2>1, CallerTypes, InitsTypes, ReaperTypes, RecyclerTypes, CloserTypes, ClockTypes
       DEF Next, Finished
<1> QED
  BY <1>1, <1>2, PTL DEF Spec, Safety

-----------------------------------------------------------------------------
(***************************************************************************)
(* Slots and recycle list                                                  *)
(***************************************************************************)
\* Only clients that are added join the list.
LEMMA RecyclePushListed ==
  ASSUME RecType, NEW c \in Clients, NEW s, RecyclePush(c, s)
  PROVE  \A e : Contains(li', e) => Contains(li, e) \/ e = c
<1>0. li \in Seq(Clients)
  BY DEF RecType
<1>1. CASE li' = li
  BY <1>1
<1>2. CASE li' = Append(li, c)
  BY <1>0, <1>2, AppendFacts
<1>3. CASE li' = Tail(Append(li, c))
  BY <1>0, <1>3, TailAppendFacts
<1> QED
  BY <1>1, <1>2, <1>3 DEF RecyclePush, recVars

\* Whoever retires a client takes it out of its slot.
LEMMA RetireApart ==
  ASSUME TypeOK, SlotsApart, NEW c \in Clients, Retire(c),
         (\E i \in Slots : cs[i] = c) \/ (\E p \in Callers : held[p] = c)
  PROVE  SlotsApart'
<1> DEFINE n == Fresh
<1>1. /\ n \in Clients /\ n # c /\ ~Contains(li, n)
      /\ \A i \in Slots : cs[i] # n
  BY FreshFree DEF Retire
<1>2. /\ cs' = [cs EXCEPT ![slotOf[c]] = n]
      /\ slotOf' = [slotOf EXCEPT ![n] = slotOf[c]]
  BY DEF Retire, SlotsWith
<1>3. \A e : Contains(li', e) => Contains(li, e) \/ e = c
  BY RecyclePushListed, TypeParts DEF Retire
<1>4. slotOf[c] \in Slots /\ cs \in [Slots -> Clients] /\ slotOf \in [Clients -> Slots]
  BY DEF TypeOK
<1> HIDE DEF n
<1> SUFFICES ASSUME NEW i \in Slots
             PROVE  slotOf'[cs'[i]] = i /\ ~Contains(li', cs'[i])
  BY DEF SlotsApart
<1>5. CASE i = slotOf[c]
  <2>1. cs'[i] = n /\ slotOf'[n] = i
    BY <1>1, <1>2, <1>4, <1>5
  <2> QED
    BY <1>1, <1>3, <2>1
<1>6. CASE i # slotOf[c]
  <2>1. cs'[i] = cs[i] /\ cs[i] \in Clients /\ cs[i] # n
    BY <1>1, <1>2, <1>4, <1>6
  <2>2. slotOf[cs[i]] = i /\ ~Contains(li, cs[i])
    BY DEF SlotsApart
  <2>3. cs[i] # c
    BY <1>6, <2>2
  <2>4. slotOf'[cs[i]] = i
    BY <1>2, <1>4, <2>1, <2>2
  <2> QED
    BY <1>3, <2>1, <2>2, <2>3, <2>4
<1> QED
  BY <1>5, <1>6

\* A step that leaves the slots and the list alone keeps them apart.
LEMMA SlotsApartUnchanged ==
  ASSUME SlotsApart, UNCHANGED <<cs, slotOf, li>>
  PROVE  SlotsApart'
BY DEF SlotsApart

\* A client that Get can pick is never on the list of those about to be
\* closed: put_bad and the reaper always replace what they retire.
THEOREM SlotsStayApart == Spec => []SlotsApart
<1>1. Init => SlotsApart
  <2> SUFFICES ASSUME Init, NEW i \in Slots
               PROVE  slotOf[cs[i]] = i /\ ~Contains(li, cs[i])
    BY DEF SlotsApart
  <2>1. cs[i] \in Clients /\ \A j \in Slots : cs[j] = cs[i] => j = i
    BY FirstAssumption DEF Init, Slots
  <2>2. slotOf[cs[i]] = CHOOSE j \in Slots : cs[j] = cs[i]
    BY <2>1 DEF Init, InSlots
  <2>3. slotOf[cs[i]] = i
    BY <2>1, <2>2
  <2>4. li = << >>
    BY DEF Init
  <2> QED
    BY <2>3, <2>4 DEF Contains
<1>2. TypeOK /\ SlotsApart /\ [Next]_vars => SlotsApart'
  <2> SUFFICES ASSUME TypeOK, SlotsApart, [Next]_vars PROVE SlotsApart'
    OBVIOUS
  <2> USE DEF objVars, tableVars, recVars
  <2>1. ASSUME NEW p \in Callers, Caller(p) PROVE SlotsApart'
    <3>1. CASE MoveRecycle(p)
      <4>1. held[p] \in Clients
        BY <3>1 DEF MoveRecycle, TypeOK
      <4>2. CASE Retire(held[p])
        BY <4>1, <4>2, RetireApart
      <4>3. CASE UNCHANGED <<objVars, tableVars, recVars>>
        BY <4>3, SlotsApartUnchanged
      <4> QED
        BY <3>1, <4>2, <4>3 DEF MoveRecycle
    <3>2. CASE ~MoveRecycle(p)
      <4>1. UNCHANGED <<cs, slotOf, li>>
        BY <2>1, <3>2 DEF Caller, Get, Connect, Fallback, PushNew, AddRef, TakeRef, Call, PutGood, PutBad,
           PutClosed, ShutUnknown, DialOK, DialFails, Push
      <4> QED
        BY <4>1, SlotsApartUnchanged
    <3> QED
      BY <3>1, <3>2
  <2>2. CASE Inits
    <3>1. UNCHANGED <<cs, slotOf, li>>
      BY <2>2 DEF Inits, InitStart, InitConnect, InitPush, DialOK, DialFails, Push
    <3> QED
      BY <3>1, SlotsApartUnchanged
  <2>3. CASE Reaper
    <3>1. CASE IdleRemove /\ Retire(cs[idleI])
      <4>1. idleI \in Slots /\ cs[idleI] \in Clients
        BY DEF TypeOK
      <4> QED
        BY <3>1, <4>1, RetireApart
    <3>2. CASE ~(IdleRemove /\ Retire(cs[idleI]))
      <4>1. UNCHANGED <<cs, slotOf, li>>
        BY <2>3, <3>2 DEF Reaper, IdleTick, IdleCount, IdleRemove
      <4> QED
        BY <4>1, SlotsApartUnchanged
    <3> QED
      BY <3>1, <3>2
  <2>4. CASE Recycler
    <3>1. UNCHANGED <<cs, slotOf>>
      BY <2>4 DEF Recycler, RecycleTick, RecycleToken, RecycleCheck, RecyclePick, RecycleRemove, Removable,
         RecycleClose
    <3>2. \A e : Contains(li', e) => Contains(li, e)
      <4>1. CASE RecycleRemove
        BY <4>1, RemoveAtFacts, Listed, TypeParts DEF RecycleRemove, Removable, RecType
      <4>2. CASE ~RecycleRemove
        BY <2>4, <4>2 DEF Recycler, RecycleTick, RecycleToken, RecycleCheck, RecyclePick, RecycleClose
      <4> QED
        BY <4>1, <4>2
    <3> QED
      BY <3>1, <3>2 DEF SlotsApart
  <2>5. CASE Closer
    BY <2>5, SlotsApartUnchanged
       DEF Closer, CloseCall, CloseLocked, CloseExitIdle, CloseDestroy, CloseExitRecycle
  <2>6. CASE Clock \/ UNCHANGED vars
    BY <2>6, SlotsApartUnchanged DEF Clock, vars
  <2> QED
    BY <2>1, <2>2, <2>3, <2>4, <2>5, <2>6 DEF Next, Finished
<1> QED
  BY <1>1, <1>2, TypeCorrect, PTL DEF Spec, Safety

-----------------------------------------------------------------------------
(***************************************************************************)
(* The length of the recycle list                                          *)
(***************************************************************************)
\* A push adds an entry only together with a token, or evicts another.
LEMMA RecyclePushBounded ==
  ASSUME RecType, RecycleBounded, NEW c \in Clients, NEW s, RecyclePush(c, s), recPc' = recPc
  PROVE  RecycleBounded'
<1>0. /\ li \in Seq(Clients) /\ Len(li) \in Nat /\ tokens \in Nat
      /\ Sweeping \in {0, 1} /\ Sweeping' = Sweeping
      /\ Len(li) <= MaxCap + tokens + Sweeping
  BY CapsAssumption DEF RecType, Sweeping, RecycleBounded
<1>1. CASE UNCHANGED recVars
  BY <1>0, <1>1 DEF recVars, RecycleBounded
<1>2. CASE li' = Append(li, c) /\ tokens' = tokens + 1
  <2>1. Len(li') = Len(li) + 1
    BY <1>0, <1>2, AppendFacts
  <2> QED
    BY <1>0, <1>2, <2>1, CapsAssumption DEF RecycleBounded
<1>3. CASE li' = Tail(Append(li, c)) /\ tokens' = tokens
  <2>1. Len(li') = Len(li)
    BY <1>0, <1>3, TailAppendFacts
  <2> QED
    BY <1>0, <1>3, <2>1 DEF RecycleBounded
<1> QED
  BY <1>1, <1>2, <1>3 DEF RecyclePush

\* A step that leaves the list, the tokens and the recycler alone.
LEMMA RecycleBoundedUnchanged ==
  ASSUME RecycleBounded, UNCHANGED <<li, tokens, recPc>>
  PROVE  RecycleBounded'
BY DEF RecycleBounded, Sweeping

\* The retired clients never outnumber MaxCap by more than the tokens still in
\* chClient and the one being served, however fast callers retire clients and
\* however slowly the recycler closes them.
THEOREM RecycleListBounded == Spec => []RecycleBounded
<1>1. Init => RecycleBounded
  BY CapsAssumption DEF Init, RecycleBounded, Sweeping
<1>2. TypeOK /\ RecycleBounded /\ [Next]_vars => RecycleBounded'
  <2> SUFFICES ASSUME TypeOK, RecycleBounded, [Next]_vars PROVE RecycleBounded'
    OBVIOUS
  <2> USE DEF objVars, tableVars, recVars, loopVars
  <2>0. RecType /\ li \in Seq(Clients) /\ Len(li) \in Nat /\ tokens \in Nat
    BY TypeParts, CapsAssumption DEF RecType
  <2>1. ASSUME NEW p \in Callers, Caller(p) PROVE RecycleBounded'
    <3>1. CASE MoveRecycle(p) /\ Retire(held[p])
      BY <2>0, <2>1, <3>1, RecyclePushBounded DEF MoveRecycle, Retire, TypeOK, Caller
    <3>2. CASE ~(MoveRecycle(p) /\ Retire(held[p]))
      <4>1. UNCHANGED <<li, tokens, recPc>>
        BY <2>1, <3>2 DEF Caller, Get, Connect, Fallback, PushNew, AddRef, TakeRef, Call, PutGood, PutBad,
           PutClosed, MoveRecycle, ShutUnknown
      <4> QED
        BY <4>1, RecycleBoundedUnchanged
    <3> QED
      BY <3>1, <3>2
  <2>2. CASE Inits
    BY <2>2, RecycleBoundedUnchanged DEF Inits, InitStart, InitConnect, InitPush
  <2>3. CASE Reaper
    <3>1. CASE IdleRemove /\ Retire(cs[idleI])
      BY <2>0, <2>3, <3>1, RecyclePushBounded DEF Retire, TypeOK, Reaper
    <3>2. CASE ~(IdleRemove /\ Retire(cs[idleI]))
      <4>1. UNCHANGED <<li, tokens, recPc>>
        BY <2>3, <3>2 DEF Reaper, IdleTick, IdleCount, IdleRemove
      <4> QED
        BY <4>1, RecycleBoundedUnchanged
    <3> QED
      BY <3>1, <3>2
  <2>4. CASE Recycler
    <3> USE CapsAssumption DEF RecycleBounded, Sweeping
    <3>1. CASE RecycleTick
      BY <2>0, <3>1 DEF RecycleTick
    <3>2. CASE RecycleToken
      BY <2>0, <3>2 DEF RecycleToken
    <3>3. CASE RecycleCheck
      BY <2>0, <3>3 DEF RecycleCheck, Short
    <3>4. CASE RecyclePick
      BY <2>0, <3>4 DEF RecyclePick
    <3>5. CASE RecycleRemove
      <4>1. Len(li') <= Len(li) /\ Len(li') \in Nat
        BY <2>0, <3>5, Listed, RemoveAtFacts DEF RecycleRemove, Removable
      <4> QED
        BY <2>0, <3>5, <4>1 DEF RecycleRemove, Removable
    <3>6. CASE RecycleClose
      BY <2>0, <3>6 DEF RecycleClose
    <3> QED
      BY <2>4, <3>1, <3>2, <3>3, <3>4, <3>5, <3>6 DEF Recycler
  <2>5. CASE Closer
    <3>1. CASE CloseExitRecycle
      BY <2>0, <3>1, CapsAssumption DEF CloseExitRecycle, RecycleBounded, Sweeping
    <3>2. CASE ~CloseExitRecycle
      BY <2>5, <3>2, RecycleBoundedUnchanged
         DEF Closer, CloseCall, CloseLocked, CloseExitIdle, CloseDestroy
    <3> QED
      BY <3>1, <3>2
  <2>6. CASE Clock \/ UNCHANGED vars
    BY <2>6, RecycleBoundedUnchanged DEF Clock, vars
  <2> QED
    BY <2>1, <2>2, <2>3, <2>4, <2>5, <2>6 DEF Next, Finished
<1> QED
  BY <1>1, <1>2, TypeCorrect, PTL DEF Spec, Safety

-----------------------------------------------------------------------------
(***************************************************************************)
(* References and their holders                                            *)
(***************************************************************************)
\* There are finitely many callers, so the holders can be counted.
LEMMA HoldersFinite ==
  \A c : /\ IsFiniteSet(Holders(c)) /\ Cardinality(Holders(c)) \in Nat
         /\ Holders(c) \subseteq Callers
<1> SUFFICES ASSUME NEW c
             PROVE  /\ IsFiniteSet(Holders(c)) /\ Cardinality(Holders(c)) \in Nat
                    /\ Holders(c) \subseteq Callers
  OBVIOUS
<1>1. Holders(c) \in SUBSET Callers
  BY DEF Holders
<1>2. IsFiniteSet(Holders(c))
  BY <1>1, CallersAssumption, FS_Subset
<1> QED
  BY <1>1, <1>2, FS_CardinalityType

\* A step that takes no reference away and makes no new holder.
LEMMA RefCoversFewer ==
  ASSUME TypeOK, RefCoversHolders, ref' \in [Clients -> Int],
         NEW c \in Clients, ref'[c] >= ref[c], Holders(c)' \subseteq Holders(c)
  PROVE  ref'[c] >= Cardinality(Holders(c)')
<1>1. Cardinality(Holders(c)') <= Cardinality(Holders(c)) /\ IsFiniteSet(Holders(c)')
  BY HoldersFinite, FS_Subset
<1>2. Cardinality(Holders(c)') \in Nat
  BY <1>1, FS_CardinalityType
<1>3. ref[c] >= Cardinality(Holders(c)) /\ ref[c] \in Int
  BY DEF RefCoversHolders, TypeOK
<1> QED
  BY <1>1, <1>2, <1>3, HoldersFinite

\* A step that leaves every ref alone and makes no new holder.
LEMMA RefCoversUnchanged ==
  ASSUME TypeOK, RefCoversHolders, UNCHANGED ref,
         \A c \in Clients : Holders(c)' \subseteq Holders(c)
  PROVE  RefCoversHolders'
<1> SUFFICES ASSUME NEW c \in Clients PROVE ref'[c] >= Cardinality(Holders(c)')
  BY DEF RefCoversHolders
<1>1. ref' \in [Clients -> Int] /\ ref'[c] >= ref[c]
  <2>1. ref \in [Clients -> Int]
    BY DEF TypeOK
  <2>2. ref[c] \in Int /\ ref' = ref
    BY <2>1
  <2> QED
    BY <2>1, <2>2
<1> QED
  BY <1>1, RefCoversFewer

\* The new client of a slot has no reference, and nobody holds it.
LEMMA RefCoversRetire ==
  ASSUME TypeOK, RefCoversHolders, NEW d \in Clients, Retire(d),
         \A c \in Clients : Holders(c)' \subseteq Holders(c)
  PROVE  RefCoversHolders'
<1> SUFFICES ASSUME NEW c \in Clients PROVE ref'[c] >= Cardinality(Holders(c)')
  BY DEF RefCoversHolders
<1>1. /\ Fresh \in Clients /\ \A p \in Callers : held[p] # Fresh
      /\ ref' = [ref EXCEPT ![Fresh] = 0]
      /\ ref \in [Clients -> Int]
  BY FreshFree DEF Retire, TypeOK
<1>2. CASE c = Fresh
  <2>1. Holders(c) = {}
    BY <1>1, <1>2 DEF Holders
  <2>2. Holders(c)' = {}
    BY <2>1
  <2>3. Cardinality(Holders(c)') = 0
    BY <2>2, FS_EmptySet
  <2> QED
    BY <1>1, <1>2, <2>3
<1>3. CASE c # Fresh
  <2>1. ref' \in [Clients -> Int] /\ ref'[c] = ref[c] /\ ref[c] \in Int
    BY <1>1, <1>3
  <2>2. ref'[c] >= ref[c]
    BY <2>1
  <2> QED
    BY <2>1, <2>2, RefCoversFewer
<1> QED
  BY <1>2, <1>3

\* A client that some caller is using is never counted as unused: neither the
\* reaper nor the recycler, which both look at ref, can mistake it for one
\* whose users have all put it back, even if references were leaked before.
THEOREM RefsCoverHolders == Spec => []RefCoversHolders
<1>1. Init => RefCoversHolders
  <2> SUFFICES ASSUME Init, NEW c \in Clients PROVE ref[c] >= Cardinality(Holders(c))
    BY DEF RefCoversHolders
  <2>1. Holders(c) = {}
    BY DEF Init, Holders
  <2>2. Cardinality(Holders(c)) = 0
    BY <2>1, FS_EmptySet
  <2> QED
    BY <2>2 DEF Init
<1>2. TypeOK /\ RefCoversHolders /\ [Next]_vars => RefCoversHolders'
  <2> SUFFICES ASSUME TypeOK, RefCoversHolders, [Next]_vars PROVE RefCoversHolders'
    OBVIOUS
  <2> USE DEF objVars, callVars
  <2>0. /\ pc \in [Callers -> CallerPcs] /\ held \in [Callers -> Clients \cup {NoClient}]
        /\ ref \in [Clients -> Int]
    BY DEF TypeOK
  <2>1. ASSUME NEW p \in Callers, Caller(p) PROVE RefCoversHolders'
    <3>1. CASE AddRef(p)
      <4> DEFINE h == held[p]
      <4>1. /\ h \in Clients /\ p \notin Holders(h)
            /\ ref' = [ref EXCEPT ![h] = @ + 1]
            /\ pc' = [pc EXCEPT ![p] = "got"] /\ held' = held
        BY <3>1 DEF AddRef, TakeRef, TypeOK, Holders
      <4>2. SUFFICES ASSUME NEW c \in Clients PROVE ref'[c] >= Cardinality(Holders(c)')
        BY DEF RefCoversHolders
      <4>3. CASE c = h
        <5>1. Holders(c)' = Holders(c) \cup {p}
          BY <2>0, <4>1, <4>3 DEF Holders
        <5>2. Cardinality(Holders(c)') = Cardinality(Holders(c)) + 1
          BY <4>1, <4>3, <5>1, HoldersFinite, FS_AddElement
        <5>3. ref'[c] = ref[c] + 1 /\ ref[c] \in Int /\ ref[c] >= Cardinality(Holders(c))
          BY <2>0, <4>1, <4>3 DEF RefCoversHolders
        <5> QED
          BY <5>2, <5>3, HoldersFinite
      <4>4. CASE c # h
        <5>1. Holders(c)' \subseteq Holders(c)
          BY <2>0, <4>1, <4>4 DEF Holders
        <5>2. ref' \in [Clients -> Int] /\ ref'[c] >= ref[c]
          BY <2>0, <4>1, <4>4
        <5> QED
          BY <5>1, <5>2, RefCoversFewer
      <4> QED
        BY <4>3, <4>4
    <3>2. CASE PutGood(p) \/ PutBad(p)
      <4> DEFINE h == held[p]
      <4>1. /\ h \in Clients /\ p \in Holders(h)
            /\ ref' = [ref EXCEPT ![h] = @ - 1]
            /\ \/ pc' = [pc EXCEPT ![p] = "idle"] /\ held' = [held EXCEPT ![p] = NoClient]
               \/ pc' = [pc EXCEPT ![p] = "move"] /\ held' = held
        BY <3>2 DEF PutGood, PutBad, Unref, TypeOK, Holders
      <4>2. SUFFICES ASSUME NEW c \in Clients PROVE ref'[c] >= Cardinality(Holders(c)')
        BY DEF RefCoversHolders
      <4>3. CASE c = h
        <5>1. Holders(c)' = Holders(c) \ {p}
          BY <2>0, <4>1, <4>3, ClientsAssumption DEF Holders
        <5>2. Cardinality(Holders(c)') = Cardinality(Holders(c)) - 1
          BY <4>1, <4>3, <5>1, HoldersFinite, FS_RemoveElement
        <5>3. ref'[c] = ref[c] - 1 /\ ref[c] \in Int /\ ref[c] >= Cardinality(Holders(c))
          BY <2>0, <4>1, <4>3 DEF RefCoversHolders
        <5> QED
          BY <5>2, <5>3, HoldersFinite
      <4>4. CASE c # h
        <5>1. Holders(c)' \subseteq Holders(c)
          BY <2>0, <4>1, <4>4, ClientsAssumption DEF Holders
        <5>2. ref' \in [Clients -> Int] /\ ref'[c] >= ref[c]
          BY <2>0, <4>1, <4>4
        <5> QED
          BY <5>1, <5>2, RefCoversFewer
      <4> QED
        BY <4>3, <4>4
    <3>3. CASE MoveRecycle(p) \/ Get(p) \/ Connect(p) \/ Fallback(p) \/ PushNew(p)
               \/ Call(p) \/ PutClosed(p) \/ ShutUnknown(p)
      <4>1. \A c \in Clients : Holders(c)' \subseteq Holders(c)
        BY <2>0, <3>3, ClientsAssumption DEF Holders, MoveRecycle, Get, Connect, Fallback, PushNew,
           Call, PutClosed, ShutUnknown
      <4>2. CASE MoveRecycle(p) /\ Retire(held[p])
        <5>1. held[p] \in Clients
          BY <4>2 DEF MoveRecycle, TypeOK
        <5> QED
          BY <4>1, <4>2, <5>1, RefCoversRetire
      <4>3. CASE ~(MoveRecycle(p) /\ Retire(held[p]))
        <5>1. UNCHANGED ref
          BY <3>3, <4>3 DEF MoveRecycle, Get, Connect, Fallback, PushNew, Call, PutClosed,
             ShutUnknown, DialOK, DialFails, Push
        <5> QED
          BY <4>1, <5>1, RefCoversUnchanged
      <4> QED
        BY <4>2, <4>3
    <3> QED
      BY <2>1, <3>1, <3>2, <3>3 DEF Caller
  <2>2. CASE ~\E p \in Callers : Caller(p)
    <3>1. UNCHANGED <<pc, held>>
      BY <2>2 DEF Next, Inits, Reaper, Recycler, Closer, Clock, Finished, vars
    <3>2. \A c \in Clients : Holders(c)' \subseteq Holders(c)
      BY <3>1 DEF Holders
    <3>3. CASE IdleRemove /\ Retire(cs[idleI])
      <4>1. cs[idleI] \in Clients
        BY DEF TypeOK
      <4> QED
        BY <3>2, <3>3, <4>1, RefCoversRetire
    <3>4. CASE ~(IdleRemove /\ Retire(cs[idleI]))
      <4>1. CASE Inits
        BY <3>2, <4>1, RefCoversUnchanged
           DEF Inits, InitStart, InitConnect, InitPush, DialOK, DialFails, Push
      <4>2. CASE Reaper
        BY <3>2, <3>4, <4>2, RefCoversUnchanged DEF Reaper, IdleTick, IdleCount, IdleRemove
      <4>3. CASE Recycler
        BY <3>2, <4>3, RefCoversUnchanged
           DEF Recycler, RecycleTick, RecycleToken, RecycleCheck, RecyclePick, RecycleRemove, Removable,
               RecycleClose
      <4>4. CASE Closer
        BY <3>2, <4>4, RefCoversUnchanged
           DEF Closer, CloseCall, CloseLocked, CloseExitIdle, CloseDestroy, CloseExitRecycle
      <4>5. CASE Clock \/ UNCHANGED vars
        BY <3>2, <4>5, RefCoversUnchanged DEF Clock, vars
      <4> QED
        BY <2>2, <4>1, <4>2, <4>3, <4>4, <4>5 DEF Next, Finished
    <3> QED
      BY <3>3, <3>4
  <2> QED
    BY <2>1, <2>2
<1> QED
  BY <1>1, <1>2, TypeCorrect, PTL DEF Spec, Safety
-----------------------------------------------------------------------------
(***************************************************************************)
(* Close and what it waits for                                             *)
(***************************************************************************)
\* What each step of Close has behind it: the lock it took keeps callers out,
\* the reaper and the recycler have left their loops.  And a pass of
\* init_clients is never begun while another one is on its way.
CloseOrder ==
  /\ csClose <=> closePc \in {"exitIdle", "destroy", "exitRecycle", "closed"}
  /\ initPc # "off" => initting
  /\ csClose => \A p \in Callers : pc[p] \in {"idle", "got", "using", "broken"}
  /\ closePc \in {"destroy", "exitRecycle", "closed"} => idlePc = "done"
  /\ closePc = "closed" => recPc = "done"
  /\ left # {} => closePc \in {"exitRecycle", "closed"}

\* Close's order is kept whatever callers and goroutines do meanwhile.
LEMMA CloseInOrder == Spec => []CloseOrder
<1>1. Init => CloseOrder
  <2> SUFFICES ASSUME Init PROVE CloseOrder
    OBVIOUS
  <2>1. initting = TRUE /\ csClose = FALSE /\ left = {} /\ closePc = "open"
    BY DEF Init
  <2> QED
    BY <2>1 DEF CloseOrder
<1>2. TypeOK /\ CloseOrder /\ [Next]_vars => CloseOrder'
  <2> SUFFICES ASSUME TypeOK, CloseOrder, [Next]_vars PROVE CloseOrder'
    OBVIOUS
  <2> USE DEF objVars, tableVars, recVars, callVars, initVars, idleVars, loopVars
  <2>0. /\ pc \in [Callers -> CallerPcs] /\ InitType /\ csClose \in BOOLEAN
        /\ csClose => Closing
    BY TypeParts DEF CallType, TableType, CloseOrder, Closing
  <2>1. ASSUME NEW p \in Callers, Caller(p) PROVE CloseOrder'
    <3>1. UNCHANGED <<csClose, left, closePc, initPc, initting, idlePc, recPc>>
      BY <2>1 DEF Caller, Get, Connect, Fallback, PushNew, AddRef, Call, PutGood, PutBad, PutClosed,
         MoveRecycle, ShutUnknown, Push, Retire
    <3>2. ASSUME csClose PROVE \A q \in Callers : pc'[q] \in {"idle", "got", "using", "broken"}
      <4>1. pc[p] \in {"idle", "got", "using", "broken"} /\ Closing
        BY <2>0, <3>2 DEF CloseOrder
      <4>2. Call(p) \/ PutClosed(p)
        BY <2>1, <4>1 DEF Caller, Get, Connect, Fallback, PushNew, AddRef, PutGood, PutBad,
           MoveRecycle, ShutUnknown
      <4>3. \E l \in {"idle", "using", "broken"} : pc' = [pc EXCEPT ![p] = l]
        BY <4>2 DEF Call, PutClosed
      <4> QED
        BY <2>0, <3>2, <4>3 DEF CloseOrder
    <3> QED
      BY <3>1, <3>2 DEF CloseOrder
  <2>2. CASE Inits
    <3>1. UNCHANGED <<csClose, left, closePc, pc, idlePc, recPc>>
      BY <2>2 DEF Inits, InitStart, InitConnect, InitPush, Push
    <3>2. initPc' # "off" => initting'
      BY <2>0, <2>2 DEF Inits, InitStart, InitConnect, InitPush, NextInit, AbandonInit, CloseOrder
    <3> QED
      BY <3>1, <3>2 DEF CloseOrder
  <2>3. CASE Reaper
    <3>1. UNCHANGED <<csClose, left, closePc, pc, initPc, initting, recPc>>
      BY <2>3 DEF Reaper, IdleTick, IdleCount, IdleRemove, Retire
    <3>2. idlePc # "done"
      BY <2>3 DEF Reaper, IdleTick, IdleCount, IdleRemove
    <3> QED
      BY <3>1, <3>2 DEF CloseOrder
  <2>4. CASE Recycler
    <3>1. UNCHANGED <<csClose, left, closePc, pc, initPc, initting, idlePc>>
      BY <2>4 DEF Recycler
    <3>2. recPc # "done"
      BY <2>4 DEF Recycler, RecycleTick, RecycleToken, RecycleCheck, RecyclePick, RecycleRemove,
         RecycleClose
    <3> QED
      BY <3>1, <3>2 DEF CloseOrder
  <2>5. CASE Closer
    <3>1. UNCHANGED <<pc, initPc, initting>>
      BY <2>5 DEF Closer
    <3>2. CASE CloseCall
      BY <3>1, <3>2 DEF CloseCall, CloseOrder
    <3>3. CASE CloseLocked
      <4>1. /\ csClose' = TRUE /\ closePc' = "exitIdle" /\ closePc = "wait"
            /\ UNCHANGED <<idlePc, recPc, left>>
        BY <3>3 DEF CloseLocked
      <4>2. \A p \in Callers : pc[p] \in {"idle", "got", "using", "broken"}
        BY <3>3 DEF CloseLocked, Readers
      <4> QED
        BY <3>1, <4>1, <4>2 DEF CloseOrder
    <3>4. CASE CloseExitIdle
      BY <3>1, <3>4 DEF CloseExitIdle, CloseOrder
    <3>5. CASE CloseDestroy
      BY <3>1, <3>5 DEF CloseDestroy, CloseOrder
    <3>6. CASE CloseExitRecycle
      BY <3>1, <3>6 DEF CloseExitRecycle, CloseOrder
    <3> QED
      BY <2>5, <3>2, <3>3, <3>4, <3>5, <3>6 DEF Closer
  <2>6. CASE Clock \/ UNCHANGED vars
    BY <2>6 DEF Clock, vars, CloseOrder
  <2> QED
    BY <2>1, <2>2, <2>3, <2>4, <2>5, <2>6 DEF Next, Finished
<1> QED
  BY <1>1, <1>2, TypeCorrect, PTL DEF Spec, Safety

-----------------------------------------------------------------------------
(***************************************************************************)
(* Open connections and who will close them                                *)
(***************************************************************************)
\* Where an open connection can be: it is registered, thrown away with pc2c, or
\* retired, or the goroutine that dialled it or is about to close it has it.
Custody(c) ==
  \/ c \in pc2c \/ c \in left \/ Contains(li, c)
  \/ initPc = "push" /\ initC = c
  \/ \E p \in Callers : pc[p] = "push" /\ held[p] = c
  \/ recPc \in {"remove", "close"} /\ recC = c
InCustody == \A c \in Clients : st[c] = "up" => Custody(c)

\* The client that the recycler is about to close is in no slot.
RecycledApart == recPc \in {"remove", "close"} => \A i \in Slots : cs[i] # recC

\* The states of the clients after recycle.push: nobody is connected by it, and
\* who stays connected is listed if it was, or is the one that was pushed.
LEMMA RecyclePushKeeps ==
  ASSUME RecType, NEW c \in Clients, NEW s \in [Clients -> {"new", "up", "down", "failed"}],
         s[c] = st[c], RecyclePush(c, s), NEW e \in Clients, st'[e] = "up"
  PROVE  s[e] = "up" /\ (Contains(li, e) \/ e = c => Contains(li', e))
<1>0. li \in Seq(Clients)
  BY DEF RecType
<1>1. CASE (~HasClient(c) \/ Contains(li, c)) /\ st' = s /\ UNCHANGED recVars
  BY <1>1 DEF HasClient, recVars
<1>2. CASE li' = Append(li, c) /\ st' = s
  BY <1>0, <1>2, AppendFacts
<1>3. CASE li' = Tail(Append(li, c)) /\ st' = CloseIn(s, Head(Append(li, c)))
  <2>1. Head(Append(li, c)) \in Clients
    BY <1>0, TailAppendFacts
  <2>2. e # Head(Append(li, c)) /\ s[e] = "up"
    BY <1>3, <2>1 DEF CloseIn
  <2> QED
    BY <1>0, <1>3, <2>2, TailAppendKeeps
<1> QED
  BY <1>1, <1>2, <1>3 DEF RecyclePush

\* Retiring a client hands its connection over to the recycle list.
LEMMA RetireKeeps ==
  ASSUME TypeOK, NEW c \in Clients, Retire(c),
         (\E i \in Slots : cs[i] = c) \/ (\E p \in Callers : held[p] = c),
         NEW e \in Clients, st'[e] = "up"
  PROVE  /\ st[e] = "up"
         /\ e \in pc2c \/ Contains(li, e) \/ e = c => e \in pc2c' \/ Contains(li', e)
<1> DEFINE s == [st EXCEPT ![Fresh] = "new"]
<1>1. /\ Fresh \in Clients /\ RecType /\ c # Fresh
      /\ st \in [Clients -> {"new", "up", "down", "failed"}]
  BY FreshFree, TypeParts DEF Retire, ObjType
<1>2. RecyclePush(c, s) /\ pc2c' = pc2c \ {c}
  BY DEF Retire
<1>3. s \in [Clients -> {"new", "up", "down", "failed"}] /\ s[c] = st[c]
  BY <1>1
<1>4. s[e] = "up" => st[e] = "up"
  BY <1>1
<1> HIDE DEF s
<1>5. s[e] = "up" /\ (Contains(li, e) \/ e = c => Contains(li', e))
  BY <1>1, <1>2, <1>3, RecyclePushKeeps
<1> QED
  BY <1>2, <1>4, <1>5

\* The step of a caller.
LEMMA CustodyCaller ==
  ASSUME TypeOK, InCustody, NEW p \in Callers, Caller(p)
  PROVE  InCustody'
<1> USE DEF objVars, tableVars, recVars, initVars, loopVars
<1>0. /\ pc \in [Callers -> CallerPcs] /\ held \in [Callers -> Clients \cup {NoClient}]
      /\ st \in [Clients -> {"new", "up", "down", "failed"}]
      /\ pc[p] # "idle" => held[p] \in Clients
      /\ UNCHANGED <<initPc, initC, recPc, recC>>
  BY DEF TypeOK, Caller
<1> SUFFICES ASSUME NEW e \in Clients, st'[e] = "up" PROVE Custody(e)'
  BY DEF InCustody
<1>1. CASE Connect(p)
  <2>1. CASE DialOK(held[p]) /\ pc' = [pc EXCEPT ![p] = "push"]
    <3>1. UNCHANGED <<held, left, pc2c, li>> /\ pc[p] # "push"
      BY <1>1 DEF Connect
    <3>2. CASE e = held[p]
      BY <1>0, <2>1, <3>1, <3>2 DEF Custody
    <3>3. CASE e # held[p]
      <4>1. st[e] = "up"
        BY <1>0, <2>1, <3>3 DEF DialOK
      <4>2. Custody(e)
        BY <3>1, <4>1 DEF InCustody
      <4> QED
        BY <1>0, <2>1, <3>1, <4>2 DEF Custody
    <3> QED
      BY <3>2, <3>3
  <2>2. CASE \E l \in {"addref", "fallback"} : pc' = [pc EXCEPT ![p] = l]
    <3>1. UNCHANGED <<held, left, pc2c, li>> /\ pc[p] = "connect" /\ pc[p] # "push"
      BY <1>1 DEF Connect
    <3>2. st[e] = "up"
      BY <1>0, <1>1, <2>2 DEF Connect, DialOK, DialFails
    <3>3. Custody(e)
      BY <3>1, <3>2 DEF InCustody
    <3> QED
      BY <1>0, <2>2, <3>1, <3>3 DEF Custody
  <2> QED
    BY <1>1, <2>1, <2>2 DEF Connect
<1>2. CASE PushNew(p)
  <2>1. /\ pc[p] = "push" /\ held' = held /\ pc' = [pc EXCEPT ![p] = "addref"]
        /\ UNCHANGED <<left, li>>
    BY <1>2 DEF PushNew, Push
  <2>2. /\ st[e] = "up" /\ pc2c \subseteq pc2c'
        /\ e = held[p] => e \in pc2c'
    BY <1>0, <1>2, <2>1 DEF PushNew, Push, CloseIn
  <2>3. Custody(e)
    BY <2>2 DEF InCustody
  <2> QED
    BY <1>0, <2>1, <2>2, <2>3 DEF Custody
<1>3. CASE MoveRecycle(p) /\ Retire(held[p])
  <2>1. /\ pc[p] = "move" /\ UNCHANGED left
        /\ pc' = [pc EXCEPT ![p] = "idle"] \/ pc' = [pc EXCEPT ![p] = "shut"]
        /\ \A q \in Callers \ {p} : held'[q] = held[q]
    BY <1>0, <1>3 DEF MoveRecycle, Retire
  <2>2. /\ st[e] = "up"
        /\ e \in pc2c \/ Contains(li, e) \/ e = held[p] => e \in pc2c' \/ Contains(li', e)
    BY <1>0, <1>3, <2>1, RetireKeeps
  <2>3. Custody(e)
    BY <2>1, <2>2 DEF InCustody
  <2>4. ASSUME NEW q \in Callers, pc[q] = "push", held[q] = e
        PROVE  pc'[q] = "push" /\ held'[q] = e
    BY <1>0, <2>1, <2>4
  <2> QED
    BY <1>0, <2>1, <2>2, <2>3, <2>4 DEF Custody
<1>4. CASE ~Connect(p) /\ ~PushNew(p) /\ ~(MoveRecycle(p) /\ Retire(held[p]))
  <2>1. /\ UNCHANGED <<pc2c, left, li>> /\ pc[p] # "push"
        /\ \E l \in CallerPcs : pc' = [pc EXCEPT ![p] = l]
        /\ \A q \in Callers \ {p} : held'[q] = held[q]
    BY <1>0, <1>4 DEF Caller, Get, MinGet, RoundGet, Fallback, AddRef, Call, PutGood, PutBad, PutClosed,
       MoveRecycle, ShutUnknown, CallerPcs
  <2>2. st[e] = "up"
    BY <1>0, <1>4 DEF Caller, Get, Fallback, AddRef, Call, PutGood, PutBad, PutClosed,
       MoveRecycle, ShutUnknown, CloseIn
  <2>3. Custody(e)
    BY <2>1, <2>2 DEF InCustody
  <2>4. ASSUME NEW q \in Callers, pc[q] = "push", held[q] = e
        PROVE  pc'[q] = "push" /\ held'[q] = e
    BY <1>0, <2>1, <2>4
  <2> QED
    BY <1>0, <2>1, <2>3, <2>4 DEF Custody
<1> QED
  BY <1>1, <1>2, <1>3, <1>4

\* A step of init_clients: what it dials it has in hand until it registers it.
LEMMA CustodyInits ==
  ASSUME TypeOK, CloseOrder, InCustody, Inits
  PROVE  InCustody'
<1> USE DEF objVars, tableVars, recVars, callVars, loopVars
<1>0. /\ st \in [Clients -> {"new", "up", "down", "failed"}]
      /\ initPc = "push" => initC \in Clients
      /\ UNCHANGED <<pc, held, recPc, recC>>
  BY DEF TypeOK, Inits
<1> SUFFICES ASSUME NEW e \in Clients, st'[e] = "up" PROVE Custody(e)'
  BY DEF InCustody
<1>1. CASE InitStart
  <2>1. UNCHANGED <<pc2c, left, li, st, initC>> /\ (initPc # "off" => initPc' = initPc)
    BY <1>1 DEF InitStart, CloseOrder
  <2>2. Custody(e)
    BY <2>1 DEF InCustody
  <2> QED
    BY <1>0, <2>1, <2>2 DEF Custody
<1>2. CASE InitConnect
  <2>1. UNCHANGED <<pc2c, left, li>> /\ initPc = "slot"
    BY <1>2 DEF InitConnect
  <2>2. CASE DialOK(cs[initI]) /\ initPc' = "push" /\ initC' = cs[initI]
    <3>1. e = cs[initI] \/ st[e] = "up"
      BY <1>0, <2>2 DEF DialOK
    <3>2. st[e] = "up" => Custody(e)
      BY <2>1 DEF InCustody
    <3> QED
      BY <1>0, <2>1, <2>2, <3>1, <3>2 DEF Custody
  <2>3. CASE st' = st \/ DialFails(cs[initI])
    <3>1. st[e] = "up"
      BY <1>0, <2>3 DEF DialFails
    <3>2. Custody(e)
      BY <2>1, <3>1 DEF InCustody
    <3> QED
      BY <1>0, <2>1, <3>2 DEF Custody
  <2> QED
    BY <1>2, <2>2, <2>3 DEF InitConnect
<1>3. CASE InitPush
  <2>1. initPc = "push" /\ UNCHANGED <<left, li>>
    BY <1>3 DEF InitPush, Push
  <2>2. /\ st[e] = "up" /\ pc2c \subseteq pc2c'
        /\ e = initC => e \in pc2c'
    BY <1>0, <1>3, <2>1 DEF InitPush, Push, CloseIn
  <2>3. Custody(e)
    BY <2>2 DEF InCustody
  <2> QED
    BY <1>0, <2>1, <2>2, <2>3 DEF Custody
<1> QED
  BY <1>1, <1>2, <1>3 DEF Inits

\* A step of the recycler: what leaves the list it has in hand until it is closed.
LEMMA CustodyRecycler ==
  ASSUME TypeOK, InCustody, Recycler
  PROVE  InCustody'
<1> USE DEF objVars, tableVars, recVars, callVars, initVars
<1>0. /\ st \in [Clients -> {"new", "up", "down", "failed"}]
      /\ li \in Seq(Clients) /\ DOMAIN li = 1 .. Len(li)
      /\ recPc \in {"remove", "close"} => recC \in Clients
      /\ UNCHANGED <<pc, held, initPc, initC, pc2c, left>>
  BY LenProperties DEF TypeOK, Recycler
<1> SUFFICES ASSUME NEW e \in Clients, st'[e] = "up" PROVE Custody(e)'
  BY DEF InCustody
<1>1. st[e] = "up" /\ Custody(e)
  <2>1. st[e] = "up"
    BY <1>0 DEF Recycler, RecycleTick, RecycleToken, RecycleCheck, RecyclePick, RecycleRemove,
       RecycleClose, CloseIn
  <2> QED
    BY <1>0, <2>1 DEF InCustody
<1>2. CASE RecycleRemove
  <2>1. recPc = "remove" /\ recPc' = "close" /\ recC' = recC
    BY <1>2 DEF RecycleRemove
  <2>2. Contains(li, e) /\ e # recC => Contains(li', e)
    BY <1>0, <1>2, RemoveAtKeeps DEF RecycleRemove
  <2> QED
    BY <1>0, <1>1, <2>1, <2>2 DEF Custody
<1>3. CASE RecycleClose
  <2>1. recPc = "close" /\ e # recC /\ li' = li
    BY <1>0, <1>3 DEF RecycleClose, CloseIn
  <2> QED
    BY <1>0, <1>1, <2>1 DEF Custody
<1>4. CASE ~RecycleRemove /\ ~RecycleClose
  <2>1. recPc \notin {"remove", "close"} /\ li' = li
    BY <1>4 DEF Recycler, RecycleTick, RecycleToken, RecycleCheck, RecyclePick
  <2> QED
    BY <1>0, <1>1, <2>1 DEF Custody
<1> QED
  BY <1>2, <1>3, <1>4

\* A step of Close: what it throws away open is in left, and what it closes is not open.
LEMMA CustodyCloser ==
  ASSUME TypeOK, CloseOrder, InCustody, Closer
  PROVE  InCustody'
<1> USE DEF objVars, tableVars, recVars, callVars, initVars, loopVars
<1>0. /\ st \in [Clients -> {"new", "up", "down", "failed"}]
      /\ UNCHANGED <<pc, held, initPc, initC, recC>>
  BY DEF TypeOK, Closer, CloseCall, CloseLocked, CloseExitIdle, CloseDestroy, CloseExitRecycle
<1> SUFFICES ASSUME NEW e \in Clients, st'[e] = "up" PROVE Custody(e)'
  BY DEF InCustody
<1>1. CASE CloseCall \/ CloseLocked \/ CloseExitIdle
  <2>1. UNCHANGED <<pc2c, left, li, st, recPc>>
    BY <1>1 DEF CloseCall, CloseLocked, CloseExitIdle
  <2>2. Custody(e)
    BY <2>1 DEF InCustody
  <2> QED
    BY <1>0, <2>1, <2>2 DEF Custody
<1>2. CASE CloseDestroy
  <2>1. /\ left' = {c \in pc2c : st'[c] = "up"} /\ UNCHANGED <<li, recPc>> /\ closePc = "destroy"
    BY <1>2 DEF CloseDestroy
  <2>2. st[e] = "up"
    BY <1>0, <1>2 DEF CloseDestroy, DestroyUpTo
  <2>3. Custody(e)
    BY <2>2 DEF InCustody
  <2>4. e \in left => e \in pc2c \/ e \in left'
    <3>1. left = {}
      BY <2>1 DEF CloseOrder
    <3> QED
      BY <3>1
  <2> QED
    BY <1>0, <2>1, <2>3, <2>4 DEF Custody
<1>3. CASE CloseExitRecycle
  <2>1. UNCHANGED <<pc2c, left, li>> /\ recPc = "select"
    BY <1>3 DEF CloseExitRecycle
  <2>2. st[e] = "up"
    BY <1>0, <1>3 DEF CloseExitRecycle
  <2>3. Custody(e)
    BY <2>2 DEF InCustody
  <2> QED
    BY <1>0, <2>1, <2>3 DEF Custody
<1> QED
  BY <1>1, <1>2, <1>3 DEF Closer

\* Every open connection is registered, retired, thrown away by Close, or in the
\* hands of the goroutine that must register or close it.
LEMMA ConnectionsInCustody == Spec => []InCustody
<1>1. Init => InCustody
  BY DEF Init, InCustody
<1>2. TypeOK /\ CloseOrder /\ InCustody /\ [Next]_vars => InCustody'
  <2> SUFFICES ASSUME TypeOK, CloseOrder, InCustody, [Next]_vars PROVE InCustody'
    OBVIOUS
  <2> USE DEF objVars, tableVars, recVars, callVars, initVars, idleVars, loopVars
  <2>1. CASE Reaper
    <3>0. UNCHANGED <<pc, held, initPc, initC, recPc, recC, left>>
      BY <2>1 DEF Reaper, IdleTick, IdleCount, IdleRemove, Retire, Inits
    <3>1. CASE IdleRemove /\ Retire(cs[idleI])
      <4>1. cs[idleI] \in Clients /\ idleI \in Slots
        BY DEF TypeOK
      <4> SUFFICES ASSUME NEW e \in Clients, st'[e] = "up" PROVE Custody(e)'
        BY DEF InCustody
      <4>2. /\ st[e] = "up"
            /\ e \in pc2c \/ Contains(li, e) => e \in pc2c' \/ Contains(li', e)
        BY <3>1, <4>1, RetireKeeps
      <4>3. Custody(e)
        BY <3>0, <4>2 DEF InCustody
      <4> QED
        BY <3>0, <4>2, <4>3 DEF Custody
    <3>2. CASE ~(IdleRemove /\ Retire(cs[idleI]))
      <4>1. UNCHANGED <<st, pc2c, li>>
        BY <2>1, <3>2 DEF Reaper, IdleTick, IdleCount, IdleRemove
      <4> QED
        BY <3>0, <4>1 DEF InCustody, Custody
    <3> QED
      BY <3>1, <3>2
  <2>2. CASE Clock \/ UNCHANGED vars
    BY <2>2 DEF Clock, vars, InCustody, Custody
  <2> QED
    BY <2>1, <2>2, CustodyCaller, CustodyInits, CustodyRecycler, CustodyCloser DEF Next, Finished
<1> QED
  BY <1>1, <1>2, TypeCorrect, CloseInOrder, PTL DEF Spec, Safety

\* Whoever replaces a slot's client takes an identity the recycler has not in hand.
LEMMA RecycledApartRetire ==
  ASSUME TypeOK, RecycledApart, NEW c \in Clients, Retire(c), UNCHANGED <<recPc, recC>>
  PROVE  RecycledApart'
<1>1. Fresh # recC
  <2>1. Fresh \in Free
    BY DEF Retire, Fresh
  <2> QED
    BY <2>1 DEF Free, Known
<1>2. cs' = [cs EXCEPT ![slotOf[c]] = Fresh] /\ cs \in [Slots -> Clients]
  BY DEF Retire, SlotsWith, TypeOK
<1> QED
  BY <1>1, <1>2 DEF RecycledApart

\* The recycler closes no client that Get could hand out.
LEMMA RecycledStayApart == Spec => []RecycledApart
<1>1. Init => RecycledApart
  BY DEF Init, RecycledApart
<1>2. TypeOK /\ SlotsApart /\ RecycledApart /\ [Next]_vars => RecycledApart'
  <2> SUFFICES ASSUME TypeOK, SlotsApart, RecycledApart, [Next]_vars PROVE RecycledApart'
    OBVIOUS
  <2> USE DEF objVars, tableVars, recVars, callVars, initVars, idleVars, loopVars
  <2>1. ASSUME NEW p \in Callers, Caller(p) PROVE RecycledApart'
    <3>1. CASE MoveRecycle(p) /\ Retire(held[p])
      BY <2>1, <3>1, RecycledApartRetire DEF MoveRecycle, Caller, TypeOK
    <3>2. CASE ~(MoveRecycle(p) /\ Retire(held[p]))
      <4>1. UNCHANGED <<cs, recPc, recC>>
        BY <2>1, <3>2 DEF Caller, Get, Connect, Fallback, PushNew, AddRef, Call, PutGood, PutBad, PutClosed,
           MoveRecycle, ShutUnknown, Push
      <4> QED
        BY <4>1 DEF RecycledApart
    <3> QED
      BY <3>1, <3>2
  <2>2. CASE Reaper
    <3>1. CASE IdleRemove /\ Retire(cs[idleI])
      BY <2>2, <3>1, RecycledApartRetire DEF Reaper, TypeOK
    <3>2. CASE ~(IdleRemove /\ Retire(cs[idleI]))
      <4>1. UNCHANGED <<cs, recPc, recC>>
        BY <2>2, <3>2 DEF Reaper, IdleTick, IdleCount, IdleRemove
      <4> QED
        BY <4>1 DEF RecycledApart
    <3> QED
      BY <3>1, <3>2
  <2>3. CASE Recycler
    <3>0. UNCHANGED cs
      BY <2>3 DEF Recycler
    <3>1. CASE RecyclePick
      <4>1. /\ DOMAIN li = 1 .. Len(li) /\ Len(li) \in Nat /\ MaxCap \in Nat
        BY Listed, TypeParts, CapsAssumption
      <4>2. recPc' = "remove" => Contains(li, recC')
        <5>1. CASE \E c \in Closable : recC' = c
          BY <4>1, <5>1 DEF Closable, Contains
        <5>2. CASE Len(li) > MaxCap /\ recC' = Head(li)
          <6>1. recC' = li[1] /\ 1 \in 1 .. Len(li)
            BY <4>1, <5>2, TypeParts DEF RecType
          <6> QED
            BY <6>1 DEF Contains
        <5> QED
          BY <3>1, <5>1, <5>2 DEF RecyclePick
      <4>3. recPc' \in {"remove", "select"}
        BY <3>1 DEF RecyclePick
      <4> QED
        BY <3>0, <4>2, <4>3 DEF RecycledApart, SlotsApart
    <3>2. CASE RecycleRemove \/ RecycleClose
      BY <3>0, <3>2 DEF RecycleRemove, RecycleClose, RecycledApart
    <3>3. CASE RecycleTick \/ RecycleToken \/ RecycleCheck
      BY <3>0, <3>3 DEF RecycleTick, RecycleToken, RecycleCheck, RecycledApart
    <3> QED
      BY <2>3, <3>1, <3>2, <3>3 DEF Recycler
  <2>4. CASE Inits \/ Closer
    BY <2>4 DEF Inits, InitStart, InitConnect, InitPush, Push, Closer, CloseCall, CloseLocked, CloseExitIdle,
       CloseDestroy, CloseExitRecycle, RecycledApart
  <2>5. CASE Clock \/ UNCHANGED vars
    BY <2>5 DEF Clock, vars, RecycledApart
  <2> QED
    BY <2>1, <2>2, <2>3, <2>4, <2>5 DEF Next, Finished
<1> QED
  BY <1>1, <1>2, TypeCorrect, SlotsStayApart, PTL DEF Spec, Safety

\* A slot's open connection is registered, or whoever dialled it is about to
\* register it: put_bad, which looks only there, never finds it unknown.
THEOREM SlotsAreRegistered == Spec => []SlotsRegistered
<1>1. TypeOK /\ SlotsApart /\ RecycledApart /\ CloseOrder /\ InCustody => SlotsRegistered
  <2> SUFFICES ASSUME TypeOK, SlotsApart, RecycledApart, CloseOrder, InCustody, ~csClose,
                      NEW i \in Slots, st[cs[i]] = "up"
               PROVE  \/ cs[i] \in pc2c
                      \/ initPc = "push" /\ initC = cs[i]
                      \/ \E p \in Callers : pc[p] = "push" /\ held[p] = cs[i]
    BY DEF SlotsRegistered
  <2>1. cs[i] \in Clients
    BY DEF TypeOK
  <2>2. Custody(cs[i]) /\ left = {}
    BY <2>1 DEF InCustody, CloseOrder
  <2> QED
    BY <2>2 DEF Custody, SlotsApart, RecycledApart
<1> QED
  BY <1>1, TypeCorrect, SlotsStayApart, RecycledStayApart, CloseInOrder, ConnectionsInCustody, PTL

\* Evicting or keeping, recycle.push does not lose c: open, it is listed.
LEMMA RetireStrands ==
  ASSUME TypeOK, SlotsApart, NEW d \in Clients, Retire(d),
         (\E i \in Slots : cs[i] = d) \/ (\E p \in Callers : held[p] = d),
         NEW c \in Clients, st'[c] = "up", ~Contains(li', c), ~(\E i \in Slots : cs'[i] = c)
  PROVE  /\ st[c] = "up" /\ ~Contains(li, c) /\ c # d
         /\ (\E i \in Slots : cs[i] = c) => ~InSlots(d)
<1> DEFINE s == [st EXCEPT ![Fresh] = "new"]
<1>1. /\ Fresh \in Clients /\ RecType /\ d # Fresh
      /\ st \in [Clients -> {"new", "up", "down", "failed"}]
  BY FreshFree, TypeParts DEF Retire, ObjType
<1>2. RecyclePush(d, s) /\ cs' = [cs EXCEPT ![slotOf[d]] = Fresh]
  BY DEF Retire, SlotsWith
<1>3. s \in [Clients -> {"new", "up", "down", "failed"}] /\ s[d] = st[d]
  BY <1>1
<1>4. s[c] = "up" => st[c] = "up"
  BY <1>1
<1> HIDE DEF s
<1>5. s[c] = "up" /\ ~Contains(li, c) /\ c # d
  BY <1>1, <1>2, <1>3, RecyclePushKeeps
<1>6. ASSUME NEW i \in Slots, cs[i] = c PROVE ~InSlots(d)
  <2>0. cs \in [Slots -> Clients]
    BY DEF TypeOK
  <2>1. slotOf[d] = i
    BY <1>2, <1>6, <2>0
  <2> QED
    BY <1>5, <1>6, <2>1 DEF InSlots, SlotsApart
<1> QED
  BY <1>4, <1>5, <1>6

\* Between two clients the recycler has none in hand.
RecyclerEmpty == recPc \notin {"remove", "close"} => recC = NoClient

\* The recycler lets go of each client it took.
LEMMA RecyclerLetsGo == Spec => []RecyclerEmpty
<1>1. Init => RecyclerEmpty
  BY DEF Init, RecyclerEmpty
<1>2. RecyclerEmpty /\ [Next]_vars => RecyclerEmpty'
  <2> SUFFICES ASSUME RecyclerEmpty, [Next]_vars PROVE RecyclerEmpty'
    OBVIOUS
  <2>1. CASE Recycler
    BY <2>1 DEF Recycler, RecycleTick, RecycleToken, RecycleCheck, RecyclePick, RecycleRemove,
       RecycleClose, RecyclerEmpty
  <2>2. CASE Closer
    BY <2>2 DEF Closer, CloseCall, CloseLocked, CloseExitIdle, CloseDestroy, CloseExitRecycle, loopVars,
       RecyclerEmpty
  <2>3. CASE UNCHANGED loopVars
    BY <2>3 DEF loopVars, RecyclerEmpty
  <2> QED
    BY <2>1, <2>2, <2>3 DEF Next, Caller, Inits, Reaper, Clock, Finished, vars
<1> QED
  BY <1>1, <1>2, PTL DEF Spec, Safety

\* A caller strands a connection only by letting go of a retired client.
LEMMA CallerStrands ==
  ASSUME TypeOK, SlotsApart, NEW p \in Callers, Caller(p),
         NEW c \in Clients, Stranded(c)', ~Stranded(c)
  PROVE  held[p] # NoClient /\ held'[p] # held[p] /\ ~InSlots(held[p])
<1> USE DEF objVars, tableVars, recVars, initVars, loopVars
<1>0. /\ pc[p] # "idle" => held[p] \in Clients
      /\ held \in [Callers -> Clients \cup {NoClient}]
      /\ st \in [Clients -> {"new", "up", "down", "failed"}]
      /\ UNCHANGED <<initC, recC>> /\ NoClient \notin Clients
  BY ClientsAssumption DEF TypeOK, Caller
<1>1. /\ st'[c] = "up" /\ ~(\E i \in Slots : cs'[i] = c) /\ ~Contains(li', c)
      /\ \A q \in Callers : held'[q] # c
      /\ c # initC /\ c # recC
  BY <1>0 DEF Stranded, InSlots, InTransit
<1>2. \A q \in Callers \ {p} : held'[q] = held[q]
  BY <1>0 DEF Caller, Get, Connect, Fallback, PushNew, AddRef, Call, PutGood, PutBad, PutClosed,
     MoveRecycle, ShutUnknown
<1>3. ASSUME st[c] = "up", ~InSlots(c), ~Contains(li, c) PROVE held[p] = c
  <2>1. InTransit(c)
    BY <1>3 DEF Stranded
  <2> QED
    BY <1>1, <1>2, <2>1 DEF InTransit
<1>4. CASE MoveRecycle(p) /\ Retire(held[p]) /\ held' = [held EXCEPT ![p] = NoClient]
  <2>1. held[p] \in Clients /\ held'[p] # held[p]
    BY <1>0, <1>4 DEF MoveRecycle
  <2>2. /\ st[c] = "up" /\ ~Contains(li, c) /\ c # held[p]
        /\ (\E i \in Slots : cs[i] = c) => ~InSlots(held[p])
    BY <1>1, <1>4, <2>1, RetireStrands
  <2>3. \E i \in Slots : cs[i] = c
    BY <1>3, <2>2 DEF InSlots
  <2> QED
    BY <1>0, <2>1, <2>2, <2>3
<1>5. CASE ~(MoveRecycle(p) /\ Retire(held[p]) /\ held' = [held EXCEPT ![p] = NoClient])
  <2>1. UNCHANGED <<cs, li>>
    BY <1>5 DEF Caller, Get, Connect, Fallback, PushNew, AddRef, Call, PutGood, PutBad, PutClosed,
       MoveRecycle, ShutUnknown, Push
  <2>2. st[c] = "up"
    <3>1. CASE Connect(p)
      <4>1. held' = held /\ held[p] \in Clients /\ c # held[p]
        BY <1>0, <1>1, <3>1 DEF Connect
      <4> QED
        BY <1>0, <1>1, <3>1, <4>1 DEF Connect, DialOK, DialFails
    <3>2. CASE ~Connect(p)
      BY <1>0, <1>1, <1>5, <3>2 DEF Caller, Get, Fallback, PushNew, AddRef, Call, PutGood, PutBad,
         PutClosed, MoveRecycle, ShutUnknown, Push, CloseIn
    <3> QED
      BY <3>1, <3>2
  <2>3. held[p] = c
    BY <1>1, <1>3, <2>1, <2>2 DEF InSlots
  <2> QED
    BY <1>0, <1>1, <2>1, <2>3 DEF InSlots
<1> QED
  BY <1>4, <1>5

\* However callers, init_clients, reaper, recycler and Close interleave, an open
\* connection gets out of everybody's reach only when a goroutine lets go of a
\* client that was retired while it had it.
THEOREM StrandedOnlyByDrop == Spec => StrandedByDrop
<1>1. TypeOK /\ SlotsApart /\ RecyclerEmpty /\ [Next]_vars
      => [\A c \in Clients : Stranded(c)' /\ ~Stranded(c) => DropsRetired]_vars
  <2> SUFFICES ASSUME TypeOK, SlotsApart, RecyclerEmpty, Next,
                      NEW c \in Clients, Stranded(c)', ~Stranded(c)
               PROVE  DropsRetired
    BY DEF vars, Stranded, InSlots, InTransit, objVars, tableVars, recVars, callVars, initVars, loopVars
  <2> USE DEF objVars, tableVars, recVars, callVars, initVars, idleVars, loopVars
  <2>0. /\ st \in [Clients -> {"new", "up", "down", "failed"}]
        /\ cs \in [Slots -> Clients] /\ initI \in 0 .. InitCap - 1 /\ idleI \in Slots
        /\ recPc \in {"remove", "close"} => recC \in Clients
        /\ initPc = "push" => initC \in Clients
        /\ li \in Seq(Clients) /\ DOMAIN li = 1 .. Len(li)
        /\ NoClient \notin Clients
    BY ClientsAssumption, LenProperties DEF TypeOK
  <2>1. /\ st'[c] = "up" /\ ~(\E i \in Slots : cs'[i] = c) /\ ~Contains(li', c)
        /\ \A q \in Callers : held'[q] # c
        /\ initC' # c /\ recC' # c
    BY DEF Stranded, InSlots, InTransit
  <2>2. ASSUME st[c] = "up", \A i \in Slots : cs[i] # c, ~Contains(li, c)
        PROVE  (\E q \in Callers : held[q] = c) \/ initC = c \/ recC = c
    BY <2>2 DEF Stranded, InSlots, InTransit
  <2>3. ASSUME NEW p \in Callers, Caller(p) PROVE DropsRetired
    BY <2>3, CallerStrands DEF DropsRetired
  <2>4. CASE Inits
    <3>1. UNCHANGED <<cs, li, held, recC>>
      BY <2>4 DEF Inits, InitStart, InitConnect, InitPush, Push
    <3>2. st[c] = "up"
      <4>1. CASE InitConnect
        <5>1. c # cs[initI]
          BY <2>0, <2>1, <3>1, CapsAssumption DEF Slots
        <5> QED
          BY <2>0, <2>1, <4>1, <5>1 DEF InitConnect, DialOK, DialFails
      <4>2. CASE InitStart \/ InitPush
        BY <2>0, <2>1, <4>2 DEF InitStart, InitPush, Push, CloseIn
      <4> QED
        BY <2>4, <4>1, <4>2 DEF Inits
    <3>3. initC = c /\ initC' # c
      BY <2>1, <2>2, <3>1, <3>2
    <3> QED
      BY <2>0, <2>1, <3>1, <3>3 DEF DropsRetired, InSlots
  <2>5. CASE Reaper
    <3>0. UNCHANGED <<held, initC, recC>>
      BY <2>5 DEF Reaper, IdleTick, IdleCount, IdleRemove, Inits
    <3>1. CASE IdleRemove /\ Retire(cs[idleI])
      <4>1. cs[idleI] \in Clients /\ InSlots(cs[idleI])
        BY <2>0 DEF InSlots
      <4>2. /\ st[c] = "up" /\ ~Contains(li, c)
            /\ (\E i \in Slots : cs[i] = c) => ~InSlots(cs[idleI])
        BY <2>0, <2>1, <3>1, <4>1, RetireStrands
      <4> QED
        BY <2>1, <2>2, <3>0, <4>1, <4>2
    <3>2. CASE ~(IdleRemove /\ Retire(cs[idleI]))
      <4>1. UNCHANGED <<st, cs, li>>
        BY <2>5, <3>2 DEF Reaper, IdleTick, IdleCount, IdleRemove
      <4> QED
        BY <2>1, <2>2, <3>0, <4>1
    <3> QED
      BY <3>1, <3>2
  <2>6. CASE Recycler
    <3>0. UNCHANGED <<cs, held, initC>>
      BY <2>6 DEF Recycler
    <3>1. st[c] = "up" /\ (recPc = "close" => recC # c)
      BY <2>0, <2>1, <2>6 DEF Recycler, RecycleTick, RecycleToken, RecycleCheck, RecyclePick,
         RecycleRemove, RecycleClose, CloseIn
    <3>2. recC # c
      <4>1. recPc = "remove" => recC' = recC
        BY <2>6 DEF Recycler, RecycleTick, RecycleToken, RecycleCheck, RecyclePick, RecycleRemove,
           RecycleClose
      <4> QED
        BY <2>0, <2>1, <3>1, <4>1 DEF RecyclerEmpty
    <3>3. ~Contains(li, c)
      <4>1. CASE RecycleRemove
        BY <2>0, <2>1, <3>2, <4>1, RemoveAtKeeps DEF RecycleRemove
      <4>2. CASE ~RecycleRemove
        BY <2>1, <2>6, <4>2 DEF Recycler, RecycleTick, RecycleToken, RecycleCheck, RecyclePick, RecycleClose
      <4> QED
        BY <4>1, <4>2
    <3> QED
      BY <2>1, <2>2, <3>0, <3>1, <3>2, <3>3
  <2>7. CASE Closer
    <3>1. UNCHANGED <<cs, li, held, initC, recC>>
      BY <2>7 DEF Closer, CloseCall, CloseLocked, CloseExitIdle, CloseDestroy, CloseExitRecycle
    <3>2. st[c] = "up"
      BY <2>0, <2>1, <2>7 DEF Closer, CloseCall, CloseLocked, CloseExitIdle, CloseDestroy,
         CloseExitRecycle, DestroyUpTo
    <3> QED
      BY <2>1, <2>2, <3>1, <3>2
  <2>8. CASE Clock \/ Finished
    BY <2>1, <2>2, <2>8 DEF Clock, Finished, vars
  <2> QED
    BY <2>3, <2>4, <2>5, <2>6, <2>7, <2>8 DEF Next
<1> QED
  BY <1>1, TypeCorrect, SlotsStayApart, RecyclerLetsGo, PTL DEF Spec, Safety, StrandedByDrop

-----------------------------------------------------------------------------
(***************************************************************************)
(* After Close                                                             *)
(***************************************************************************)
\* What Close leaves behind: from the moment it has destroyed the slots, they
\* are closed and cannot be dialled; from its end on so is the recycle list.
Destroyed ==
  closePc \in {"exitRecycle", "closed"} =>
    /\ pc2c = {}
    /\ ~CloseMayFail => \A i \in Slots : bDestroy[cs[i]] /\ st[cs[i]] # "up" /\ cs[i] \notin left
    /\ closePc = "closed" => \A c \in Clients : Contains(li, c) => st[c] # "up"

\* Once Close has the lock, nobody retires a client, and only init_clients,
\* which Close does not wait for, still dials.
LEMMA AfterLock ==
  ASSUME TypeOK, CloseOrder, closePc \in {"exitRecycle", "closed"}, [Next]_vars, ~CloseExitRecycle
  PROVE  /\ UNCHANGED <<cs, pc2c, left, closePc>>
         /\ bDestroy' = bDestroy
         /\ \A c \in Clients : st'[c] = "up" =>
              st[c] = "up" \/ \E i \in Slots : c = cs[i] /\ DialOK(c)
         /\ closePc = "closed" => li' = li
<1> USE DEF objVars, tableVars, recVars, callVars, initVars, idleVars, loopVars
<1>0. /\ csClose /\ Closing /\ idlePc = "done"
      /\ \A p \in Callers : pc[p] \in {"idle", "got", "using", "broken"}
      /\ closePc = "closed" => recPc = "done"
      /\ st \in [Clients -> {"new", "up", "down", "failed"}]
      /\ cs \in [Slots -> Clients] /\ initI \in Slots
      /\ initPc = "push" => initC \in Clients
      /\ recPc \in {"remove", "close"} => recC \in Clients
      /\ \A p \in Callers : pc[p] # "idle" => held[p] \in Clients
  <2>1. /\ csClose /\ Closing /\ idlePc = "done"
        /\ \A p \in Callers : pc[p] \in {"idle", "got", "using", "broken"}
        /\ closePc = "closed" => recPc = "done"
    BY DEF CloseOrder, Closing
  <2>2. /\ st \in [Clients -> {"new", "up", "down", "failed"}]
        /\ cs \in [Slots -> Clients] /\ initI \in 0 .. InitCap - 1
        /\ initPc = "push" => initC \in Clients
        /\ recPc \in {"remove", "close"} => recC \in Clients
        /\ \A p \in Callers : pc[p] # "idle" => held[p] \in Clients
    BY DEF TypeOK
  <2>3. initI \in Slots
    BY <2>2, CapsAssumption DEF Slots
  <2> QED
    BY <2>1, <2>2, <2>3
<1>1. ASSUME NEW p \in Callers, Caller(p)
      PROVE  /\ UNCHANGED <<cs, pc2c, left, closePc, bDestroy, li>>
             /\ \A c \in Clients : st'[c] = "up" => st[c] = "up"
  <2>1. Call(p) \/ PutClosed(p)
    BY <1>0, <1>1 DEF Caller, Get, Connect, Fallback, PushNew, AddRef, PutGood, PutBad, MoveRecycle, ShutUnknown
  <2>2. UNCHANGED <<cs, pc2c, left, closePc, bDestroy, li>>
    BY <1>1, <2>1 DEF Caller, Call, PutClosed
  <2>3. \A c \in Clients : st'[c] = "up" => st[c] = "up"
    BY <1>0, <2>1 DEF Call, PutClosed, CloseIn
  <2> QED
    BY <2>2, <2>3
<1>2. CASE Inits
  <2>1. UNCHANGED <<cs, pc2c, left, closePc, bDestroy, li>>
    BY <1>0, <1>2 DEF Inits, InitStart, InitConnect, InitPush, DialOK, DialFails, Push
  <2>2. ASSUME NEW c \in Clients, st'[c] = "up"
        PROVE  st[c] = "up" \/ \E i \in Slots : c = cs[i] /\ DialOK(c)
    <3>1. CASE InitConnect
      <4>1. CASE DialOK(cs[initI])
        BY <1>0, <2>2, <4>1 DEF DialOK
      <4>2. CASE st' = st \/ DialFails(cs[initI])
        BY <1>0, <2>2, <4>2 DEF DialFails
      <4> QED
        BY <3>1, <4>1, <4>2 DEF InitConnect
    <3>2. CASE InitStart \/ InitPush
      BY <1>0, <2>2, <3>2 DEF InitStart, InitPush, Push, CloseIn
    <3> QED
      BY <1>2, <3>1, <3>2 DEF Inits
  <2> QED
    BY <2>1, <2>2
<1>3. CASE Reaper
  BY <1>0, <1>3 DEF Reaper, IdleTick, IdleCount, IdleRemove
<1>4. CASE Recycler
  <2>1. UNCHANGED <<cs, pc2c, left, closePc, bDestroy>>
    BY <1>4 DEF Recycler, RecycleTick, RecycleToken, RecycleCheck, RecyclePick, RecycleRemove, RecycleClose
  <2>2. \A c \in Clients : st'[c] = "up" => st[c] = "up"
    BY <1>0, <1>4 DEF Recycler, RecycleTick, RecycleToken, RecycleCheck, RecyclePick, RecycleRemove,
       RecycleClose, CloseIn
  <2>3. recPc # "done"
    BY <1>4 DEF Recycler, RecycleTick, RecycleToken, RecycleCheck, RecyclePick, RecycleRemove,
       RecycleClose
  <2> QED
    BY <1>0, <2>1, <2>2, <2>3
<1>5. CASE Closer
  BY <1>5 DEF Closer, CloseCall, CloseLocked, CloseExitIdle, CloseDestroy
<1>6. CASE Clock \/ UNCHANGED vars
  BY <1>6 DEF Clock, vars
<1> QED
  BY <1>1, <1>2, <1>3, <1>4, <1>5, <1>6 DEF Next, Finished

\* What Close destroyed stays so.
LEMMA StaysDestroyed == Spec => []Destroyed
<1>1. Init => Destroyed
  BY DEF Init, Destroyed
<1>2. TypeOK /\ SlotsApart /\ CloseOrder /\ Destroyed /\ [Next]_vars => Destroyed'
  <2> SUFFICES ASSUME TypeOK, SlotsApart, CloseOrder, Destroyed, [Next]_vars,
                      closePc' \in {"exitRecycle", "closed"}
               PROVE  /\ pc2c' = {}
                      /\ ~CloseMayFail => \A i \in Slots : /\ bDestroy'[cs'[i]] /\ st'[cs'[i]] # "up"
                                                          /\ cs'[i] \notin left'
                      /\ closePc' = "closed" => \A c \in Clients : Contains(li', c) => st'[c] # "up"
    BY DEF Destroyed
  <2>0. /\ st \in [Clients -> {"new", "up", "down", "failed"}] /\ cs \in [Slots -> Clients]
        /\ bDestroy \in [Clients -> BOOLEAN]
    BY DEF TypeOK
  <2>1. CASE CloseExitRecycle
    <3>1. /\ closePc = "exitRecycle" /\ UNCHANGED <<bDestroy, cs, pc2c, left, li>>
          /\ st' = [c \in Clients |-> IF st[c] = "up" /\ Contains(li, c) THEN "down" ELSE st[c]]
      BY <2>1 DEF CloseExitRecycle, recVars
    <3>2. \A c \in Clients : st'[c] = "up" => st[c] = "up" /\ ~Contains(li, c)
      BY <3>1
    <3> QED
      BY <2>0, <3>1, <3>2 DEF Destroyed
  <2>2. CASE closePc \in {"exitRecycle", "closed"} /\ ~CloseExitRecycle
    <3>1. /\ UNCHANGED <<cs, pc2c, left, closePc>> /\ bDestroy' = bDestroy
          /\ \A c \in Clients : st'[c] = "up" =>
               st[c] = "up" \/ \E i \in Slots : c = cs[i] /\ DialOK(c)
          /\ closePc = "closed" => li' = li
      BY <2>2, AfterLock
    <3>2. ASSUME ~CloseMayFail, NEW i \in Slots
          PROVE  bDestroy'[cs'[i]] /\ st'[cs'[i]] # "up" /\ cs'[i] \notin left'
      <4>1. cs[i] \in Clients /\ bDestroy[cs[i]] /\ st[cs[i]] # "up" /\ cs[i] \notin left
        BY <2>0, <2>2, <3>2 DEF Destroyed
      <4>2. ~DialOK(cs[i])
        BY <4>1 DEF DialOK, Dials
      <4> QED
        BY <3>1, <4>1, <4>2
    <3>3. ASSUME closePc' = "closed", NEW c \in Clients, Contains(li', c) PROVE st'[c] # "up"
      <4>1. st[c] # "up" /\ \A i \in Slots : c # cs[i]
        BY <2>2, <3>1, <3>3 DEF Destroyed, SlotsApart
      <4> QED
        BY <3>1, <4>1
    <3> QED
      BY <2>2, <3>1, <3>2, <3>3 DEF Destroyed
  <2>3. CASE closePc \notin {"exitRecycle", "closed"}
    <3>1. CloseDestroy
      BY <2>3 DEF Next, Caller, Inits, Reaper, Recycler, Closer, CloseCall, CloseLocked, CloseExitIdle,
         CloseExitRecycle, Clock, Finished, vars
    <3>2. /\ pc2c' = {} /\ closePc' = "exitRecycle" /\ cs' = cs
          /\ left' = {c \in pc2c : st'[c] = "up"}
      BY <3>1 DEF CloseDestroy
    <3>3. ASSUME ~CloseMayFail, NEW i \in Slots PROVE bDestroy'[cs[i]] /\ st'[cs[i]] # "up"
      <4>1. DestroyUpTo(MaxCap)
        BY <3>1, <3>3 DEF CloseDestroy
      <4>2. cs[i] \in Clients /\ i \in 0 .. MaxCap - 1
        BY <2>0 DEF Slots
      <4>3. bDestroy'[cs[i]]
        BY <4>1, <4>2 DEF DestroyUpTo
      <4>4. st'[cs[i]] # "up"
        BY <4>1, <4>2 DEF DestroyUpTo
      <4> QED
        BY <4>3, <4>4
    <3> QED
      BY <3>2, <3>3
  <2> QED
    BY <2>1, <2>2, <2>3
<1> QED
  BY <1>1, <1>2, TypeCorrect, SlotsStayApart, CloseInOrder, PTL DEF Spec, Safety

\* After Close a connection is open only if close() threw it away with pc2c, or
\* init_clients is about to push it (which closes it); and it threw away no
\* slot's connection but after a Destroy that failed.
THEOREM ClosedStayClosed == Spec => []ClosedForGood
<1>1. CloseOrder /\ InCustody /\ Destroyed => ClosedForGood
  <2> SUFFICES ASSUME CloseOrder, InCustody, Destroyed, closePc = "closed" PROVE ClosedForGood
    BY DEF ClosedForGood
  <2>1. /\ csClose /\ recPc = "done" /\ pc2c = {}
        /\ \A p \in Callers : pc[p] # "push"
    BY DEF CloseOrder, Destroyed
  <2>2. ASSUME NEW c \in Clients, st[c] = "up" PROVE c \in left \/ (initPc = "push" /\ initC = c)
    <3>1. Custody(c) /\ ~Contains(li, c)
      BY <2>2 DEF InCustody, Destroyed
    <3> QED
      BY <2>1, <3>1 DEF Custody
  <2>3. \A c \in left : InSlots(c) => CloseMayFail
    BY DEF Destroyed, InSlots
  <2> QED
    BY <2>2, <2>3 DEF ClosedForGood
<1> QED
  BY <1>1, CloseInOrder, ConnectionsInCustody, StaysDestroyed, PTL

-----------------------------------------------------------------------------
(***************************************************************************)
(* Exact reference counts                                                  *)
(***************************************************************************)
\* Where no dial fails: a client connected within the second has a Client, and
\* until the pool is closing so has every client that a caller got connected,
\* because nothing is destroyed and no Connect is refused.
Dialled ==
  /\ \A c \in Clients : st[c] # "failed" /\ (recent[c] => HasClient(c))
  /\ ~Closing => /\ \A c \in Clients : ~bDestroy[c]
                 /\ \A p \in Callers :
                      /\ pc[p] # "fallback"
                      /\ pc[p] \in {"push", "addref", "got", "using", "broken"} => HasClient(held[p])

\* A step that destroys nobody, takes no Client away, and fails no dial.
LEMMA DialledUnchanged ==
  ASSUME TypeOK, Dialled, UNCHANGED <<pc, held, bDestroy, closePc>>,
         \A c \in Clients : /\ HasClient(c) => HasClient(c)'
                            /\ st'[c] # "failed"
                            /\ recent'[c] => recent[c] \/ HasClient(c)'
  PROVE  Dialled'
<1>1. \A c \in Clients : st'[c] # "failed" /\ (recent'[c] => HasClient(c)')
  BY DEF Dialled
<1>2. \A p \in Callers : pc[p] # "idle" => held[p] \in Clients
  BY DEF TypeOK
<1> QED
  BY <1>1, <1>2 DEF Dialled, Closing

\* CloseIn leaves a Client where there was one.
LEMMA CloseInKeeps ==
  ASSUME NEW s \in [Clients -> {"new", "up", "down", "failed"}], NEW c \in Clients, NEW e \in Clients
  PROVE  /\ CloseIn(s, c)[e] \in {"up", "down"} <=> s[e] \in {"up", "down"}
         /\ CloseIn(s, c)[e] = "failed" <=> s[e] = "failed"
BY DEF CloseIn

\* A dial gives its client a Client and touches no other.
LEMMA DialOKKeeps ==
  ASSUME TypeOK, NEW c \in Clients, DialOK(c), Dialled
  PROVE  /\ HasClient(c)'
         /\ \A e \in Clients : /\ HasClient(e) => HasClient(e)'
                               /\ st'[e] # "failed"
                               /\ recent'[e] => recent[e] \/ HasClient(e)'
BY DEF TypeOK, DialOK, HasClient, Dialled

\* Retiring a client takes a Client from nobody but the identity given out anew.
LEMMA RetireDialled ==
  ASSUME TypeOK, Dialled, NEW c \in Clients, Retire(c)
  PROVE  \A e \in Clients : /\ e # Fresh /\ HasClient(e) => HasClient(e)'
                            /\ st'[e] # "failed"
                            /\ recent'[e] => e # Fresh /\ recent[e]
                            /\ bDestroy'[e] => bDestroy[e]
<1> SUFFICES ASSUME NEW e \in Clients
             PROVE  /\ e # Fresh /\ HasClient(e) => HasClient(e)'
                    /\ st'[e] # "failed"
                    /\ recent'[e] => e # Fresh /\ recent[e]
                    /\ bDestroy'[e] => bDestroy[e]
  OBVIOUS
<1> DEFINE s == [st EXCEPT ![Fresh] = "new"]
<1>1. /\ Fresh \in Clients /\ li \in Seq(Clients)
      /\ st \in [Clients -> {"new", "up", "down", "failed"}]
      /\ recent \in [Clients -> BOOLEAN] /\ bDestroy \in [Clients -> BOOLEAN]
  BY FreshFree DEF Retire, TypeOK
<1>2. /\ RecyclePush(c, s)
      /\ recent' = [recent EXCEPT ![Fresh] = FALSE] /\ bDestroy' = [bDestroy EXCEPT ![Fresh] = FALSE]
  BY DEF Retire
<1>3. /\ s \in [Clients -> {"new", "up", "down", "failed"}]
      /\ e # Fresh /\ HasClient(e) => s[e] \in {"up", "down"}
      /\ s[e] # "failed"
  BY <1>1 DEF HasClient, Dialled
<1> HIDE DEF s
<1>4. /\ s[e] \in {"up", "down"} => HasClient(e)'
      /\ st'[e] # "failed"
  <2>1. CASE st' = s
    BY <1>3, <2>1 DEF HasClient
  <2>2. CASE st' = CloseIn(s, Head(Append(li, c)))
    <3>1. Head(Append(li, c)) \in Clients
      BY <1>1, TailAppendFacts
    <3> QED
      BY <1>3, <2>2, <3>1, CloseInKeeps DEF HasClient
  <2> QED
    BY <1>2, <2>1, <2>2 DEF RecyclePush
<1>5. /\ recent'[e] => e # Fresh /\ recent[e]
      /\ bDestroy'[e] => bDestroy[e]
  BY <1>1, <1>2
<1> QED
  BY <1>3, <1>4, <1>5

\* The step of a caller.
LEMMA DialledCaller ==
  ASSUME ~DialMayFail, TypeOK, Dialled, NEW p \in Callers, Caller(p)
  PROVE  Dialled'
<1> USE DEF objVars
<1>0. /\ pc \in [Callers -> CallerPcs] /\ held \in [Callers -> Clients \cup {NoClient}]
      /\ st \in [Clients -> {"new", "up", "down", "failed"}]
      /\ \A q \in Callers : pc[q] # "idle" => held[q] \in Clients
      /\ Closing' = Closing
  BY DEF TypeOK, Caller, Closing
<1>1. CASE Connect(p)
  <2>1. pc[p] = "connect" /\ held' = held /\ held[p] \in Clients
    BY <1>0, <1>1 DEF Connect
  <2>2. CASE Standing(held[p]) /\ pc' = [pc EXCEPT ![p] = "addref"] /\ UNCHANGED objVars
    <3>1. HasClient(held[p])
      BY <2>1, <2>2 DEF Standing, Dialled, HasClient
    <3> QED
      BY <1>0, <2>1, <2>2, <3>1 DEF Dialled, HasClient
  <2>3. CASE DialOK(held[p]) /\ pc' = [pc EXCEPT ![p] = "push"]
    <3>1. /\ HasClient(held[p])' /\ bDestroy' = bDestroy
          /\ \A e \in Clients : /\ HasClient(e) => HasClient(e)'
                                /\ st'[e] # "failed"
                                /\ recent'[e] => recent[e] \/ HasClient(e)'
      BY <2>1, <2>3, DialOKKeeps DEF DialOK
    <3>2. \A c \in Clients : st'[c] # "failed" /\ (recent'[c] => HasClient(c)')
      BY <3>1 DEF Dialled
    <3>3. pc'[p] = "push" /\ \A q \in Callers : q # p => pc'[q] = pc[q]
      BY <1>0, <2>3
    <3>4. \A q \in Callers : held[q] \in Clients /\ HasClient(held[q]) => HasClient(held[q])'
      BY <2>1, <3>1
    <3>5. ASSUME ~Closing, NEW q \in Callers
          PROVE  /\ pc'[q] # "fallback"
                 /\ pc'[q] \in {"push", "addref", "got", "using", "broken"} => HasClient(held[q])'
      BY <1>0, <2>1, <3>1, <3>3, <3>4, <3>5 DEF Dialled
    <3> QED
      BY <1>0, <2>1, <3>1, <3>2, <3>5 DEF Dialled
  <2>4. CASE Refused(held[p]) /\ pc' = [pc EXCEPT ![p] = "fallback"] /\ UNCHANGED objVars
    <3>1. Closing
      BY <2>1, <2>4 DEF Refused, Dialled
    <3> QED
      BY <1>0, <2>4, <3>1 DEF Dialled, HasClient
  <2> QED
    BY <1>1, <2>2, <2>3, <2>4 DEF Connect, DialFails
<1>2. CASE MoveRecycle(p) /\ Retire(held[p])
  <2>1. /\ pc[p] = "move" /\ held[p] \in Clients
        /\ pc' = [pc EXCEPT ![p] = "idle"] \/ pc' = [pc EXCEPT ![p] = "shut"]
        /\ \A q \in Callers \ {p} : held'[q] = held[q]
    BY <1>0, <1>2 DEF MoveRecycle
  <2>2. \A e \in Clients : /\ e # Fresh /\ HasClient(e) => HasClient(e)'
                           /\ st'[e] # "failed"
                           /\ recent'[e] => e # Fresh /\ recent[e]
                           /\ bDestroy'[e] => bDestroy[e]
    BY <1>2, <2>1, RetireDialled
  <2>3. \A q \in Callers : held[q] # Fresh
    BY <1>2, FreshFree DEF Retire
  <2>4. \A c \in Clients : st'[c] # "failed" /\ (recent'[c] => HasClient(c)')
    BY <2>2 DEF Dialled
  <2>5. ASSUME ~Closing, NEW q \in Callers
        PROVE  /\ pc'[q] # "fallback"
               /\ pc'[q] \in {"push", "addref", "got", "using", "broken"} => HasClient(held[q])' /\ held'[q] = held[q]
    <3>1. CASE q = p
      BY <1>0, <2>1, <3>1
    <3>2. CASE q # p
      <4>1. pc'[q] = pc[q] /\ held'[q] = held[q]
        BY <1>0, <2>1, <3>2
      <4> QED
        BY <1>0, <2>2, <2>3, <2>5, <4>1 DEF Dialled
    <3> QED
      BY <3>1, <3>2
  <2>6. ASSUME ~Closing, NEW q \in Callers, pc'[q] \in {"push", "addref", "got", "using", "broken"}
        PROVE  HasClient(held[q])'
    BY <2>5, <2>6
  <2> QED
    BY <1>0, <2>2, <2>4, <2>5, <2>6 DEF Dialled
<1>3. CASE ~Connect(p) /\ ~(MoveRecycle(p) /\ Retire(held[p]))
  <2>1. UNCHANGED <<recent, bDestroy>>
    BY <1>3 DEF Caller, Get, Fallback, PushNew, Push, AddRef, Call, PutGood, PutBad, PutClosed, MoveRecycle,
       ShutUnknown
  <2>2. \A e \in Clients : /\ HasClient(e) => HasClient(e)'
                           /\ st'[e] # "failed"
    <3>1. CASE st' = st
      BY <3>1 DEF HasClient, Dialled
    <3>2. CASE held[p] \in Clients /\ st' = CloseIn(st, held[p])
      BY <1>0, <3>2, CloseInKeeps DEF HasClient, Dialled
    <3> QED
      BY <1>0, <1>3, <3>1, <3>2 DEF Caller, Get, Fallback, PushNew, Push, AddRef, Call, PutGood, PutBad,
         PutClosed, MoveRecycle, ShutUnknown
  <2>3. \A c \in Clients : st'[c] # "failed" /\ (recent'[c] => HasClient(c)')
    BY <2>1, <2>2 DEF Dialled
  <2>4. ASSUME NEW q \in Callers, ~Closing
        PROVE  /\ pc'[q] # "fallback"
               /\ pc'[q] \in {"push", "addref", "got", "using", "broken"} =>
                    HasClient(held[q]) /\ held'[q] = held[q] /\ held[q] \in Clients
    <3>1. CASE q # p
      <4>1. pc'[q] = pc[q] /\ held'[q] = held[q]
        BY <1>0, <1>3, <3>1 DEF Caller, Get, Fallback, PushNew, AddRef, Call, PutGood, PutBad, PutClosed,
           MoveRecycle, ShutUnknown
      <4> QED
        BY <1>0, <2>4, <4>1 DEF Dialled
    <3>2. CASE q = p
      <4>1. pc[p] # "fallback" /\ (pc[p] \in {"push", "addref", "got", "using", "broken"} => HasClient(held[p]))
        BY <2>4 DEF Dialled
      <4> QED
        BY <1>0, <1>3, <3>2, <4>1 DEF Caller, Get, Fallback, PushNew, AddRef, Call, PutGood, PutBad,
           PutClosed, MoveRecycle, ShutUnknown
    <3> QED
      BY <3>1, <3>2
  <2>5. ASSUME ~Closing, NEW q \in Callers, pc'[q] \in {"push", "addref", "got", "using", "broken"}
        PROVE  HasClient(held[q])'
    BY <2>2, <2>4, <2>5 DEF HasClient
  <2> QED
    BY <1>0, <2>1, <2>3, <2>4, <2>5 DEF Dialled
<1> QED
  BY <1>1, <1>2, <1>3

\* Where no dial fails, every client that a caller uses has a Client.
LEMMA StaysDialled == ~DialMayFail => (Spec => []Dialled)
<1> SUFFICES ASSUME ~DialMayFail PROVE Spec => []Dialled
  OBVIOUS
<1>1. Init => Dialled
  BY DEF Init, Dialled
<1>2. TypeOK /\ Dialled /\ [Next]_vars => Dialled'
  <2> SUFFICES ASSUME TypeOK, Dialled, [Next]_vars PROVE Dialled'
    OBVIOUS
  <2> USE DEF objVars, callVars
  <2>0. /\ st \in [Clients -> {"new", "up", "down", "failed"}] /\ cs \in [Slots -> Clients]
        /\ initI \in Slots /\ idleI \in Slots
        /\ \A c \in Clients : st[c] # "failed"
        /\ initPc = "push" => initC \in Clients
        /\ recPc \in {"remove", "close"} => recC \in Clients
    <3>1. /\ st \in [Clients -> {"new", "up", "down", "failed"}] /\ cs \in [Slots -> Clients]
          /\ initI \in 0 .. InitCap - 1 /\ idleI \in Slots
          /\ initPc = "push" => initC \in Clients
          /\ recPc \in {"remove", "close"} => recC \in Clients
      BY DEF TypeOK
    <3>2. initI \in Slots
      BY <3>1, CapsAssumption DEF Slots
    <3> QED
      BY <3>1, <3>2 DEF Dialled
  <2>1. CASE Inits
    <3>1. UNCHANGED <<pc, held, bDestroy, closePc>>
      BY <2>1 DEF Inits, InitStart, InitConnect, InitPush, DialOK, DialFails, Push
    <3>2. CASE InitConnect
      <4>1. CASE DialOK(cs[initI])
        BY <2>0, <3>1, <4>1, DialOKKeeps, DialledUnchanged
      <4>2. CASE UNCHANGED objVars
        BY <2>0, <3>1, <4>2, DialledUnchanged DEF HasClient
      <4> QED
        BY <3>2, <4>1, <4>2 DEF InitConnect, DialFails
    <3>3. CASE InitStart \/ InitPush
      <4>1. recent' = recent /\ (st' = st \/ (st' = CloseIn(st, initC) /\ initC \in Clients))
        <5>1. CASE InitStart
          BY <5>1 DEF InitStart
        <5>2. CASE InitPush
          BY <2>0, <5>2 DEF InitPush, Push
        <5> QED
          BY <3>3, <5>1, <5>2
      <4>2. \A c \in Clients : (HasClient(c) => HasClient(c)') /\ st'[c] # "failed"
        BY <2>0, <4>1, CloseInKeeps DEF HasClient
      <4> QED
        BY <3>1, <4>1, <4>2, DialledUnchanged
    <3> QED
      BY <2>1, <3>2, <3>3 DEF Inits
  <2>2. CASE Reaper
    <3>0. UNCHANGED <<pc, held, closePc>>
      BY <2>2 DEF Reaper
    <3>1. CASE IdleRemove /\ Retire(cs[idleI])
      <4>1. \A e \in Clients : /\ e # Fresh /\ HasClient(e) => HasClient(e)'
                               /\ st'[e] # "failed"
                               /\ recent'[e] => e # Fresh /\ recent[e]
                               /\ bDestroy'[e] => bDestroy[e]
        BY <2>0, <3>1, RetireDialled
      <4>2. \A q \in Callers : held[q] # Fresh /\ (pc[q] # "idle" => held[q] \in Clients)
        BY <3>1, FreshFree DEF Retire, TypeOK
      <4>3. \A q \in Callers : ~Closing /\ pc[q] \in {"push", "addref", "got", "using", "broken"}
              => HasClient(held[q])'
        BY <3>0, <4>1, <4>2 DEF Dialled
      <4> QED
        BY <3>0, <4>1, <4>3 DEF Dialled, Closing
    <3>2. CASE ~(IdleRemove /\ Retire(cs[idleI]))
      <4>1. UNCHANGED objVars
        BY <2>2, <3>2 DEF Reaper, IdleTick, IdleCount, IdleRemove
      <4> QED
        BY <2>0, <3>0, <4>1, DialledUnchanged DEF HasClient
    <3> QED
      BY <3>1, <3>2
  <2>3. CASE Recycler
    <3>1. /\ UNCHANGED <<pc, held, bDestroy, closePc, recent>>
          /\ st' = st \/ (st' = CloseIn(st, recC) /\ recC \in Clients)
      <4>1. CASE RecycleClose
        BY <2>0, <2>3, <4>1 DEF Recycler, RecycleClose, tableVars, initVars
      <4>2. CASE ~RecycleClose
        BY <2>3, <4>2 DEF Recycler, RecycleTick, RecycleToken, RecycleCheck, RecyclePick, RecycleRemove
      <4> QED
        BY <4>1, <4>2
    <3>2. \A c \in Clients : (HasClient(c) => HasClient(c)') /\ st'[c] # "failed"
      BY <2>0, <3>1, CloseInKeeps DEF HasClient
    <3> QED
      BY <3>1, <3>2, DialledUnchanged
  <2>4. CASE Closer
    <3>1. /\ Closing' /\ UNCHANGED <<pc, held, recent>>
      BY <2>4 DEF Closer, CloseCall, CloseLocked, CloseExitIdle, CloseDestroy, CloseExitRecycle, Closing
    <3>2. \A c \in Clients : (HasClient(c) => HasClient(c)') /\ st'[c] # "failed"
      <4>1. CASE CloseDestroy
        <5>1. PICK n \in Int : DestroyUpTo(n)
          BY <4>1, CapsAssumption DEF CloseDestroy
        <5> QED
          BY <2>0, <5>1 DEF DestroyUpTo, HasClient
      <4>2. CASE CloseExitRecycle
        BY <2>0, <4>2 DEF CloseExitRecycle, HasClient
      <4>3. CASE CloseCall \/ CloseLocked \/ CloseExitIdle
        BY <2>0, <4>3 DEF CloseCall, CloseLocked, CloseExitIdle, HasClient
      <4> QED
        BY <2>4, <4>1, <4>2, <4>3 DEF Closer
    <3> QED
      BY <3>1, <3>2 DEF Dialled
  <2>5. CASE Clock \/ UNCHANGED vars
    <3>1. UNCHANGED <<pc, held, bDestroy, closePc, st>>
      BY <2>5 DEF Clock, vars
    <3>2. \A c \in Clients : recent'[c] => recent[c]
      BY <2>5 DEF Clock, Second, Elapse, vars
    <3> QED
      BY <2>0, <3>1, <3>2, DialledUnchanged DEF HasClient
  <2> QED
    BY <2>1, <2>2, <2>3, <2>4, <2>5, DialledCaller DEF Next, Finished
<1> QED
  BY <1>1, <1>2, TypeCorrect, PTL DEF Spec, Safety

\* RefExact without its condition: ref is the number of callers using the client.
RefIsExact == \A c \in Clients : ref[c] = Cardinality(Holders(c))

\* The new client of a slot has neither references nor holders.
LEMMA RefExactRetire ==
  ASSUME TypeOK, RefIsExact, NEW d \in Clients, Retire(d),
         \A c \in Clients : Holders(c)' = Holders(c)
  PROVE  RefIsExact'
<1> SUFFICES ASSUME NEW c \in Clients PROVE ref'[c] = Cardinality(Holders(c))
  BY DEF RefIsExact
<1>1. /\ Fresh \in Clients /\ \A p \in Callers : held[p] # Fresh
      /\ ref' = [ref EXCEPT ![Fresh] = 0]
      /\ ref \in [Clients -> Int]
  BY FreshFree DEF Retire, TypeOK
<1>2. CASE c = Fresh
  <2>1. Holders(c) = {}
    BY <1>1, <1>2 DEF Holders
  <2> QED
    BY <1>1, <1>2, <2>1, FS_EmptySet
<1>3. CASE c # Fresh
  BY <1>1, <1>3 DEF RefIsExact
<1> QED
  BY <1>2, <1>3

\* The step of a caller: only AddRef makes a holder, only a Put ends one.
LEMMA RefExactCaller ==
  ASSUME TypeOK, ~Closing, Dialled, RefIsExact, NEW p \in Callers, Caller(p)
  PROVE  RefIsExact'
<1> USE DEF objVars
<1>0. /\ pc \in [Callers -> CallerPcs] /\ held \in [Callers -> Clients \cup {NoClient}]
      /\ ref \in [Clients -> Int]
      /\ pc[p] # "idle" => held[p] \in Clients
  BY DEF TypeOK
<1>1. CASE AddRef(p)
  <2> DEFINE h == held[p]
  <2>1. /\ h \in Clients /\ p \notin Holders(h)
        /\ ref' = [ref EXCEPT ![h] = @ + 1]
        /\ pc' = [pc EXCEPT ![p] = "got"] /\ held' = held
    BY <1>0, <1>1 DEF AddRef, TakeRef, Holders
  <2> SUFFICES ASSUME NEW c \in Clients PROVE ref'[c] = Cardinality(Holders(c)')
    BY DEF RefIsExact
  <2>2. CASE c = h
    <3>1. Holders(c)' = Holders(c) \cup {p}
      BY <1>0, <2>1, <2>2 DEF Holders
    <3>2. Cardinality(Holders(c)') = Cardinality(Holders(c)) + 1
      BY <2>1, <2>2, <3>1, HoldersFinite, FS_AddElement
    <3> QED
      BY <1>0, <2>1, <2>2, <3>2 DEF RefIsExact
  <2>3. CASE c # h
    <3>1. Holders(c)' = Holders(c)
      BY <1>0, <2>1, <2>3 DEF Holders
    <3> QED
      BY <1>0, <2>1, <2>3, <3>1 DEF RefIsExact
  <2> QED
    BY <2>2, <2>3
<1>2. CASE PutGood(p) \/ PutBad(p)
  <2> DEFINE h == held[p]
  <2>1. /\ h \in Clients /\ p \in Holders(h)
        /\ ref' = [ref EXCEPT ![h] = @ - 1]
        /\ \/ pc' = [pc EXCEPT ![p] = "idle"] /\ held' = [held EXCEPT ![p] = NoClient]
           \/ pc' = [pc EXCEPT ![p] = "move"] /\ held' = held
    BY <1>0, <1>2 DEF PutGood, PutBad, Unref, Holders
  <2> SUFFICES ASSUME NEW c \in Clients PROVE ref'[c] = Cardinality(Holders(c)')
    BY DEF RefIsExact
  <2>2. CASE c = h
    <3>1. Holders(c)' = Holders(c) \ {p}
      BY <1>0, <2>1, <2>2, ClientsAssumption DEF Holders
    <3>2. Cardinality(Holders(c)') = Cardinality(Holders(c)) - 1
      BY <2>1, <2>2, <3>1, HoldersFinite, FS_RemoveElement
    <3> QED
      BY <1>0, <2>1, <2>2, <3>2 DEF RefIsExact
  <2>3. CASE c # h
    <3>1. Holders(c)' = Holders(c)
      BY <1>0, <2>1, <2>3, ClientsAssumption DEF Holders
    <3> QED
      BY <1>0, <2>1, <2>3, <3>1 DEF RefIsExact
  <2> QED
    BY <2>2, <2>3
<1>3. CASE Call(p)
  <2>1. /\ HasClient(held[p]) /\ pc[p] = "got" /\ held' = held
        /\ (pc' = [pc EXCEPT ![p] = "using"] \/ pc' = [pc EXCEPT ![p] = "broken"])
    BY <1>3 DEF Call, Dialled, HasClient
  <2>2. \A c \in Clients : Holders(c)' = Holders(c)
    BY <1>0, <2>1 DEF Holders
  <2> QED
    BY <1>3, <2>2 DEF Call, RefIsExact
<1>4. CASE MoveRecycle(p) \/ Get(p) \/ Connect(p) \/ Fallback(p) \/ PushNew(p) \/ ShutUnknown(p)
  <2>1. \A c \in Clients : Holders(c)' = Holders(c)
    <3>1. /\ \E l \in CallerPcs \ {"got", "using", "broken"} : pc' = [pc EXCEPT ![p] = l]
          /\ pc[p] \notin {"got", "using", "broken"}
          /\ \A q \in Callers \ {p} : held'[q] = held[q]
      BY <1>0, <1>4 DEF MoveRecycle, Get, Connect, Fallback, PushNew, ShutUnknown, CallerPcs
    <3> QED
      BY <1>0, <3>1 DEF Holders
  <2>2. CASE MoveRecycle(p) /\ Retire(held[p])
    BY <1>0, <2>1, <2>2, RefExactRetire DEF MoveRecycle
  <2>3. CASE ~(MoveRecycle(p) /\ Retire(held[p]))
    <3>1. UNCHANGED ref
      BY <1>4, <2>3 DEF MoveRecycle, Get, Connect, Fallback, PushNew, ShutUnknown, DialOK, DialFails, Push
    <3> QED
      BY <2>1, <3>1 DEF RefIsExact
  <2> QED
    BY <2>2, <2>3
<1> QED
  BY <1>1, <1>2, <1>3, <1>4 DEF Caller, PutClosed

\* Where no dial fails nothing leaks a reference until the pool is closing: a
\* ref of zero means unused, and a client nobody uses has a ref of zero.
THEOREM RefsAreExact == ~DialMayFail => (Spec => []RefExact)
<1> SUFFICES ASSUME ~DialMayFail PROVE Spec => []RefExact
  OBVIOUS
<1>0. RefExact <=> (Closing \/ RefIsExact)
  BY DEF RefExact, RefIsExact
<1>1. Init => RefExact
  <2> SUFFICES ASSUME Init, NEW c \in Clients PROVE ref[c] = Cardinality(Holders(c))
    BY DEF RefExact
  <2>1. Holders(c) = {}
    BY DEF Init, Holders
  <2> QED
    BY <2>1, FS_EmptySet DEF Init
<1>2. TypeOK /\ Dialled /\ RefExact /\ [Next]_vars => RefExact'
  <2> SUFFICES ASSUME TypeOK, Dialled, RefExact, [Next]_vars, ~Closing' PROVE RefIsExact'
    BY DEF RefExact, RefIsExact
  <2> USE DEF objVars, callVars
  <2>0. ~Closing /\ RefIsExact
    <3>1. closePc # "open" => closePc' # "open"
      BY DEF Next, Caller, Inits, Reaper, Recycler, Closer, CloseCall, CloseLocked, CloseExitIdle, CloseDestroy,
         CloseExitRecycle, Clock, Finished, vars
    <3> QED
      BY <1>0, <3>1 DEF Closing
  <2>1. CASE ~\E p \in Callers : Caller(p)
    <3>1. UNCHANGED <<pc, held>>
      BY <2>1 DEF Next, Inits, Reaper, Recycler, Closer, Clock, Finished, vars
    <3>2. \A c \in Clients : Holders(c)' = Holders(c)
      BY <3>1 DEF Holders
    <3>3. CASE IdleRemove /\ Retire(cs[idleI])
      <4>1. cs[idleI] \in Clients
        BY DEF TypeOK
      <4> QED
        BY <2>0, <3>2, <3>3, <4>1, RefExactRetire
    <3>4. CASE ~(IdleRemove /\ Retire(cs[idleI]))
      <4>1. UNCHANGED ref
        <5>1. CASE Inits
          BY <5>1 DEF Inits, InitStart, InitConnect, InitPush, DialOK, DialFails, Push
        <5>2. CASE Reaper
          BY <3>4, <5>2 DEF Reaper, IdleTick, IdleCount, IdleRemove
        <5>3. CASE Recycler
          BY <5>3 DEF Recycler, RecycleTick, RecycleToken, RecycleCheck, RecyclePick, RecycleRemove,
             RecycleClose
        <5>4. CASE Closer
          BY <5>4 DEF Closer, CloseCall, CloseLocked, CloseExitIdle, CloseDestroy, CloseExitRecycle
        <5>5. CASE Clock \/ UNCHANGED vars
          BY <5>5 DEF Clock, vars
        <5> QED
          BY <2>1, <5>1, <5>2, <5>3, <5>4, <5>5 DEF Next, Finished
      <4> QED
        BY <2>0, <3>2, <4>1 DEF RefIsExact
    <3> QED
      BY <3>3, <3>4
  <2> QED
    BY <2>0, <2>1, RefExactCaller
<1> QED
  BY <1>1, <1>2, TypeCorrect, StaysDialled, PTL DEF Spec, Safety

=============================================================================
