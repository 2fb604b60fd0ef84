---------------------------- MODULE ServiceProofs ----------------------------
(***************************************************************************)
(* Theorems about Service: sync.Once and the one health check server; the  *)
(* address consul and its clients get of a server; which source a setting  *)
(* comes from.                                                             *)
(***************************************************************************)
EXTENDS Service, ListFacts, TLAPS

-----------------------------------------------------------------------------
\* The functions of services have the services as their domain.
Domains == /\ DOMAIN pc = Services /\ DOMAIN loop = Services /\ DOMAIN catalog = Services
           /\ DOMAIN at = Services

\* Who is in the function that Do runs.
InDo(s) == pc[s] \in {"make server", "wait"}

\* At most one service is in it, while once says so, and the health check server
\* has been started when it waits, and from then on.
Started == health # "off" /\ healthAddr # NoAddr
OneInDo == /\ \A s \in Services : InDo(s) => once = "running"
           /\ \A s, t \in Services : InDo(s) /\ InDo(t) => s = t
           /\ \A s \in Services : pc[s] = "wait" => Started
           /\ once = "done" => Started

\* A service without a port registers only after Do; the address of a service
\* does not change once its loop may run.
Portless(s) == ~HasPort(at[s].addr)
AfterDo == \A s \in Services :
             /\ pc[s] = "registration" /\ Portless(s) => once = "done"
             /\ loop[s] # "off" /\ Portless(s) => once = "done"
             /\ pc[s] \in {"start", "loaded"} => loop[s] = "off"

\* What consul checks.
Checked == \A s \in Services :
             catalog[s] # NoReg /\ ~HasPort(catalog[s].addr) =>
               once = "done" /\ catalog[s].check = healthAddr

HealthInv == Domains /\ OneInDo /\ AfterDo /\ Checked

\* NoAddr is not an address of the health check server.
NoAddrApart == \A a, f : NoAddr # [addr |-> a, free |-> f]

\* A step that moves one service, where nobody enters or leaves Do.
LEMMA Moves ==
  ASSUME HealthInv, NEW s \in Services, NEW to,
         pc' = [pc EXCEPT ![s] = to], ~InDo(s),
         to \notin {"start", "make server", "wait", "registration"},
         to = "loaded" => pc[s] = "start",
         UNCHANGED <<at, healthVars, loop>>,
         \A t \in Services : catalog'[t] = catalog[t] \/ catalog'[t] = NoReg,
         DOMAIN catalog' = Services
  PROVE  HealthInv'
<1> USE DEF HealthInv, Domains, InDo, healthVars
<1>1. Domains'
  OBVIOUS
<1>2. OneInDo'
  BY DEF OneInDo, Started
<1>3. AfterDo'
  BY DEF AfterDo, Portless
<1>4. Checked'
  BY DEF Checked
<1> QED
  BY <1>1, <1>2, <1>3, <1>4

\* A step that changes nothing but what the invariant does not read.
LEMMA Stays ==
  ASSUME HealthInv, UNCHANGED <<pc, at, healthVars, loop, catalog>>
  PROVE  HealthInv'
BY DEF HealthInv, Domains, InDo, OneInDo, Started, AfterDo, Portless, Checked, healthVars

\* A step that moves one service out of the way to its registration.
LEMMA RegistersHealth ==
  ASSUME HealthInv, NEW s \in Services, Registers(s), pc[s] \in {"consul", "consul client"},
         UNCHANGED <<at, healthVars, loop, catalog>>
  PROVE  HealthInv'
<1>1. PICK to \in {"done", "close", "registration", "health"} : pc' = [pc EXCEPT ![s] = to]
  BY DEF Registers, Goto
<1>2. CASE to # "registration"
  BY <1>1, <1>2, Moves DEF HealthInv, Domains, InDo
<1>3. CASE to = "registration"
  <2>1. HasPort(at[s].addr)
    <3>1. DOMAIN pc = Services
      BY DEF HealthInv, Domains
    <3>2. pc'[s] = "registration"
      BY <1>1, <1>3, <3>1
    <3>3. pc'[s] = "registration" => HasPort(at[s].addr)
      BY <3>1 DEF Registers, Goto
    <3> QED
      BY <3>2, <3>3
  <2>2. Domains'
    BY <1>1 DEF HealthInv, Domains
  <2>3. OneInDo'
    BY <1>1, <1>3 DEF HealthInv, Domains, OneInDo, Started, InDo, healthVars
  <2>4. AfterDo'
    BY <1>1, <1>3, <2>1 DEF HealthInv, Domains, AfterDo, Portless, healthVars
  <2>5. Checked'
    BY DEF HealthInv, Checked, healthVars
  <2> QED
    BY <2>2, <2>3, <2>4, <2>5 DEF HealthInv
<1> QED
  BY <1>2, <1>3

\* Do, for the first service and for those that come after it.
LEMMA HealthCheckHealth ==
  ASSUME HealthInv, NEW s \in Services, HealthCheck(s)
  PROVE  HealthInv'
<1> USE DEF HealthInv, Domains, InDo, healthVars, regVars, setVars
<1>1. PICK to \in {"registration", "make server"} :
        /\ pc' = [pc EXCEPT ![s] = to]
        /\ to = "registration" => once = "done" /\ once' = once
        /\ to = "make server" => once = "no" /\ once' = "running"
  BY DEF HealthCheck, Once, Goto
<1>2. UNCHANGED <<at, loop, catalog, health, healthAddr>> /\ pc[s] = "health"
  BY DEF HealthCheck, Once
<1>3. Domains'
  BY <1>1, <1>2
<1>4. OneInDo'
  BY <1>1, <1>2 DEF OneInDo, Started
<1>5. AfterDo'
  BY <1>1, <1>2 DEF AfterDo, Portless
<1>6. Checked'
  BY <1>1, <1>2 DEF Checked
<1> QED
  BY <1>3, <1>4, <1>5, <1>6

\* the health check server is made,
LEMMA MakeServerHealth ==
  ASSUME HealthInv, NoAddrApart, NEW s \in Services, MakeServer(s)
  PROVE  HealthInv'
<1> USE DEF HealthInv, Domains, InDo, regVars, setVars
<1>1. UNCHANGED <<at, loop, catalog, once>> /\ pc[s] = "make server"
  BY DEF MakeServer
<1>2. CASE UNCHANGED <<healthAddr, health, pc>>
  BY <1>1, <1>2, Stays DEF healthVars
<1>3. CASE pc' = [pc EXCEPT ![s] = "wait"] /\ health' = "starting"
           /\ healthAddr' = RandomHostAddr(at[s].health)
  <2>1. once = "running"
    BY <1>1 DEF OneInDo
  <2>2. Started'
    BY <1>3 DEF Started, NoAddrApart, RandomHostAddr
  <2>3. Domains'
    BY <1>1, <1>3
  <2>4. OneInDo'
    BY <1>1, <1>3, <2>1, <2>2 DEF OneInDo
  <2>5. AfterDo'
    BY <1>1, <1>3 DEF AfterDo, Portless
  <2>6. Checked'
    BY <1>1, <1>3, <2>1 DEF Checked
  <2> QED
    BY <2>3, <2>4, <2>5, <2>6
<1> QED
  BY <1>2, <1>3 DEF MakeServer, Goto

\* and has been waited for;
LEMMA WaitedHealth ==
  ASSUME HealthInv, NEW s \in Services, Waited(s)
  PROVE  HealthInv'
<1> USE DEF HealthInv, Domains, InDo, regVars, setVars
<1>1. /\ UNCHANGED <<at, loop, catalog, healthAddr, health>> /\ once' = "done"
      /\ pc[s] = "wait" /\ pc' = [pc EXCEPT ![s] = "registration"]
  BY DEF Waited, Goto
<1>2. Domains'
  BY <1>1
<1>3. OneInDo'
  BY <1>1 DEF OneInDo, Started
<1>4. AfterDo'
  BY <1>1 DEF AfterDo, Portless
<1>5. Checked'
  BY <1>1 DEF Checked
<1> QED
  BY <1>2, <1>3, <1>4, <1>5

\* Settings are final before the loop starts.
LEMMA RunHealth ==
  ASSUME HealthInv, NEW s \in Services, Run(s)
  PROVE  HealthInv'
<1> USE DEF HealthInv, Domains, InDo, regVars, healthVars
<1>1. PICK to \in {"listen", "consul", "done"} : pc' = [pc EXCEPT ![s] = to]
  BY DEF Run, Goto
<1>2. /\ UNCHANGED <<loop, catalog, once, healthAddr, health>> /\ pc[s] = "loaded"
      /\ DOMAIN at' = Services /\ \A t \in Services : t # s => at'[t] = at[t]
  BY DEF Run
<1>3. Domains'
  BY <1>1, <1>2
<1>4. OneInDo'
  BY <1>1, <1>2 DEF OneInDo, Started
<1>5. AfterDo'
  BY <1>1, <1>2 DEF AfterDo, Portless
<1>6. Checked'
  BY <1>1, <1>2 DEF Checked
<1> QED
  BY <1>3, <1>4, <1>5, <1>6

\* the loop of a service starts,
LEMMA StartLoopHealth ==
  ASSUME HealthInv, NEW s \in Services, StartLoop(s)
  PROVE  HealthInv'
<1> USE DEF HealthInv, Domains, InDo, setVars, healthVars
<1>1. PICK to \in {"listen", "serve"} : pc' = [pc EXCEPT ![s] = to]
  BY DEF StartLoop, Goto
<1>2. /\ UNCHANGED <<at, catalog, once, healthAddr, health>> /\ pc[s] = "registration"
      /\ loop' = [loop EXCEPT ![s] = "register"]
  BY DEF StartLoop
<1>3. Domains'
  BY <1>1, <1>2
<1>4. OneInDo'
  BY <1>1, <1>2 DEF OneInDo, Started
<1>5. AfterDo'
  BY <1>1, <1>2 DEF AfterDo, Portless
<1>6. Checked'
  BY <1>2 DEF Checked
<1> QED
  BY <1>3, <1>4, <1>5, <1>6

\* The loop, and consul losing a registration.
LEMMA LoopHealth ==
  ASSUME HealthInv, NEW s \in Services, Loop(s) \/ Lose(s)
  PROVE  HealthInv'
<1> USE DEF HealthInv, Domains, InDo, setVars, healthVars
<1>1. UNCHANGED <<pc, at, once, healthAddr, health>>
  BY DEF Loop, Register, Wake, Lose
<1>2. \/ UNCHANGED loop
      \/ loop[s] # "off" /\ \E to \in {"hour", "register"} : loop' = [loop EXCEPT ![s] = to]
  BY DEF Loop, Register, Again, Wake, Lose
<1>3. \/ UNCHANGED catalog
      \/ catalog' = [catalog EXCEPT ![s] = NoReg]
      \/ loop[s] = "register" /\ catalog' = [catalog EXCEPT ![s] = Registration(s)]
  BY DEF Loop, Register, Wake, Lose
<1>4. Domains'
  BY <1>1, <1>2, <1>3
<1>5. OneInDo'
  BY <1>1 DEF OneInDo, Started
<1>6. AfterDo'
  BY <1>1, <1>2 DEF AfterDo, Portless
<1>7. Checked'
  <2>1. loop[s] = "register" /\ ~HasPort(Registration(s).addr) =>
          once = "done" /\ Registration(s).check = healthAddr
    BY DEF AfterDo, Portless, Registration
  <2>2. \A t \in Services : \/ catalog'[t] = catalog[t]
                            \/ catalog'[t] = NoReg
                            \/ loop[s] = "register" /\ catalog'[t] = Registration(s)
    BY <1>3
  <2> QED
    BY <1>1, <2>1, <2>2 DEF Checked
<1> QED
  BY <1>4, <1>5, <1>6, <1>7

\* The steps of RunServer around the registration.
LEMMA ServerHealth ==
  ASSUME HealthInv, NEW s \in Services,
         Load(s) \/ Listen(s) \/ Stop(s) \/ Deregister(s) \/ Close(s)
  PROVE  HealthInv'
<1>1. PICK to \in {"loaded", "consul", "serve", "done", "deregister", "close"} :
        /\ pc' = [pc EXCEPT ![s] = to]
        /\ to = "loaded" => pc[s] = "start"
  BY DEF Load, Listen, Stop, Deregister, Close, Goto
<1>2. /\ UNCHANGED <<at, healthVars, loop>>
      /\ pc[s] \notin {"make server", "wait"}
  BY DEF Load, Listen, Stop, Deregister, Close, setVars, regVars
<1>3. UNCHANGED catalog \/ catalog' = [catalog EXCEPT ![s] = NoReg]
  BY DEF Load, Listen, Stop, Deregister, Close, regVars
<1>4. DOMAIN catalog' = Services /\ \A t \in Services : catalog'[t] = catalog[t] \/ catalog'[t] = NoReg
  BY <1>3 DEF HealthInv, Domains
<1> QED
  BY <1>1, <1>2, <1>4, Moves DEF InDo

\* the service gets its consul client,
LEMMA ConsulHealth ==
  ASSUME HealthInv, NEW s \in Services, ConsulClient(s) \/ MakeConsulClient(s)
  PROVE  HealthInv'
<1>1. UNCHANGED <<at, healthVars, loop, catalog>> /\ pc[s] \in {"consul", "consul client"}
  BY DEF ConsulClient, MakeConsulClient, setVars, regVars
<1>2. CASE Registers(s)
  BY <1>1, <1>2, RegistersHealth
<1>3. CASE UNCHANGED pc
  BY <1>1, <1>3, Stays
<1>4. ASSUME NEW to \in {"consul client", "done"}, pc' = [pc EXCEPT ![s] = to]
      PROVE  HealthInv'
  BY <1>1, <1>4, Moves DEF HealthInv, Domains, InDo
<1> QED
  BY <1>2, <1>3, <1>4 DEF ConsulClient, MakeConsulClient, Goto

\* and the health check server listens.
LEMMA ListenAndServeHealth ==
  ASSUME HealthInv, ListenAndServe
  PROVE  HealthInv'
<1>1. UNCHANGED <<pc, at, loop, catalog, once, healthAddr>> /\ health # "off" /\ health' # "off"
  BY DEF ListenAndServe, setVars, regVars
<1> QED
  BY <1>1 DEF HealthInv, Domains, InDo, OneInDo, Started, AfterDo, Portless, Checked

\* registry.go:195 (runHealthCheckServer): however many services start at once,
\* consul checks every one without a port at the address of the one health check
\* server of the process, and that server has been started by then.
THEOREM ChecksAreAnswered == NoAddrApart => (Spec => []CheckAnswered)
<1> SUFFICES ASSUME NoAddrApart
             PROVE  Spec => []CheckAnswered
  OBVIOUS
<1>1. Init => HealthInv
  BY DEF Init, HealthInv, Domains, InDo, OneInDo, AfterDo, Checked
<1>2. HealthInv /\ [Next]_vars => HealthInv'
  <2> SUFFICES ASSUME HealthInv, [Next]_vars
               PROVE  HealthInv'
    OBVIOUS
  <2>1. CASE UNCHANGED vars
    BY <2>1, Stays DEF vars, setVars, regVars, healthVars
  <2>2. CASE ListenAndServe
    BY <2>2, ListenAndServeHealth
  <2>3. ASSUME NEW s \in Services,
               \/ Load(s) \/ Run(s) \/ Listen(s) \/ Stop(s) \/ Deregister(s) \/ Close(s)
               \/ ConsulClient(s) \/ MakeConsulClient(s) \/ HealthCheck(s) \/ MakeServer(s)
               \/ Waited(s) \/ StartLoop(s) \/ Loop(s) \/ Lose(s)
        PROVE  HealthInv'
    BY <2>3, ServerHealth, RunHealth, ConsulHealth, HealthCheckHealth, MakeServerHealth,
       WaitedHealth, StartLoopHealth, LoopHealth
  <2> QED
    BY <2>1, <2>2, <2>3 DEF Next
<1>3. HealthInv => CheckAnswered
  BY DEF HealthInv, OneInDo, Started, Checked, CheckAnswered
<1> QED
  BY <1>1, <1>2, <1>3, PTL DEF Spec

-----------------------------------------------------------------------------
(***************************************************************************)
(* Folds over lists.  The library chooses the function that computes one:  *)
(* FoldExists shows there is one, FoldSteps what it does to each element.  *)
(***************************************************************************)
\* The bodies of the folds of Settings, by name.
GivenIn(src, k, c, x)   == Overlay(c, src[x][k])
PemIn(c, x)             == ReadsPem(c, [of |-> x, to |-> c[x]])
GrpcGivenIn(src, c, x)  == GrpcServerFile(c, src[x])
GrpcClientGivenIn(src, c, x) == GrpcClientFile(c, src[x])
LibraryAdds(source, ops, f) ==
  IF Asks(source, f) THEN Append(ops, [of |-> f, to |-> Setting(source, f)]) ELSE ops
GrpcFiles(src, base, order) == FoldLeft(LAMBDA c, name : GrpcServerFile(c, src[name]), base, order)
GrpcClientFiles(src, base, order) ==
  FoldLeft(LAMBDA c, name : GrpcClientFile(c, src[name]), base, order)

\* What one source or option makes of a configuration.
Apply(k, src, c, x) ==
  CASE k \in {"cfg", "reg"} -> GivenIn(src, k, c, x)
    [] k = "pem"        -> PemIn(c, x)
    [] k = "grpcFiles"  -> GrpcGivenIn(src, c, x)
    [] k = "grpcClientFiles" -> GrpcClientGivenIn(src, c, x)
    [] k = "library"    -> LibraryAdds(src, c, x)
    [] k = "rpcClient"  -> RpcClientOption(c, x)
    [] k = "grpcClient" -> GrpcClientOption(c, x)
    [] k = "httpClient" -> HttpClientOption(c, x)
    [] k = "rpc"        -> RpcServerOption(c, x)
    [] k = "grpc"       -> GrpcServerOption(c, x)
    [] k = "http"       -> HttpServerOption(c, x)
    [] k = "registry"   -> RegOption(c, x)

FoldsTo(k, src, base, seq, n, g) ==
  g = [s \in SUBSET (1 .. n) |->
         IF s = {} THEN base ELSE Apply(k, src, g[s \ {Max(s)}], seq[Max(s)])]

\* There is a function that computes a fold over the first n elements: what the
\* library defines with CHOOSE is one.
LEMMA FoldExists ==
  ASSUME NEW k, NEW src, NEW base, NEW seq, NEW n \in Nat
  PROVE  \E g : FoldsTo(k, src, base, seq, n, g)
<1> DEFINE T == {m \in Nat : \E g : FoldsTo(k, src, base, seq, m, g)}
<1>1. 0 \in T
  <2>1. SUBSET (1 .. 0) = {{}}
    OBVIOUS
  <2> DEFINE g == [s \in SUBSET (1 .. 0) |-> base]
  <2>2. FoldsTo(k, src, base, seq, 0, g)
    BY <2>1 DEF FoldsTo
  <2> QED
    BY <2>2
<1>2. ASSUME NEW m \in Nat, m \in T PROVE m + 1 \in T
  <2>1. PICK f : FoldsTo(k, src, base, seq, m, f)
    BY <1>2
  <2> DEFINE g == [s \in SUBSET (1 .. m + 1) |->
                     IF m + 1 \in s THEN Apply(k, src, f[s \ {m + 1}], seq[m + 1]) ELSE f[s]]
  <2>2. \A s \in SUBSET (1 .. m) : s \in SUBSET (1 .. m + 1) /\ m + 1 \notin s /\ g[s] = f[s]
    OBVIOUS
  <2>3. ASSUME NEW s \in SUBSET (1 .. m + 1)
        PROVE  g[s] = IF s = {} THEN base ELSE Apply(k, src, g[s \ {Max(s)}], seq[Max(s)])
    <3>1. CASE m + 1 \in s
      <4>1. Max(s) \in s /\ \A y \in s : y <= Max(s)
        BY <3>1, MaxOfIndices, m + 1 \in Nat
      <4>2. Max(s) = m + 1
        <5>1. Max(s) \in 1 .. m + 1
          BY <4>1
        <5>2. m + 1 <= Max(s)
          BY <3>1, <4>1
        <5> QED
          BY <5>1, <5>2
      <4>3. s \ {m + 1} \in SUBSET (1 .. m)
        OBVIOUS
      <4>4. g[s \ {m + 1}] = f[s \ {m + 1}]
        BY <2>2, <4>3
      <4>5. g[s] = Apply(k, src, f[s \ {m + 1}], seq[m + 1])
        BY <3>1
      <4> HIDE DEF g
      <4> QED
        BY <3>1, <4>2, <4>4, <4>5
    <3>2. CASE m + 1 \notin s
      <4>1. s \in SUBSET (1 .. m)
        BY <3>2
      <4>2. s \ {Max(s)} \in SUBSET (1 .. m)
        BY <4>1
      <4>3. g[s] = f[s] /\ g[s \ {Max(s)}] = f[s \ {Max(s)}]
        BY <2>2, <4>1, <4>2
      <4> HIDE DEF g
      <4> QED
        BY <2>1, <4>1, <4>3 DEF FoldsTo
    <3> QED
      BY <3>1, <3>2
  <2>4. DOMAIN g = SUBSET (1 .. m + 1) /\ g = [s \in SUBSET (1 .. m + 1) |-> g[s]]
    OBVIOUS
  <2> HIDE DEF g
  <2>5. FoldsTo(k, src, base, seq, m + 1, g)
    BY <2>3, <2>4 DEF FoldsTo
  <2> QED
    BY <2>5
<1> HIDE DEF T
<1>3. n \in T
  BY <1>1, <1>2, NatSetInduction
<1> QED
  BY <1>3 DEF T

\* What a fold computes from the left: the first element is applied to base.
Steps(k, src, base, seq, n, h) ==
  h[0] = base /\ \A i \in 1 .. n : h[i] = Apply(k, src, h[i - 1], seq[i])

\* Every such function takes its steps.
LEMMA FoldSteps ==
  ASSUME NEW k, NEW src, NEW base, NEW seq, NEW n \in Nat, NEW g, FoldsTo(k, src, base, seq, n, g)
  PROVE  \E h : Steps(k, src, base, seq, n, h) /\ h[n] = g[1 .. n]
<1> DEFINE h == [i \in 0 .. n |-> g[1 .. i]]
<1>1. h[0] = base
  <2>1. {} \in SUBSET (1 .. n) /\ 1 .. 0 = {}
    OBVIOUS
  <2> QED
    BY <2>1 DEF FoldsTo
<1>2. ASSUME NEW i \in 1 .. n PROVE h[i] = Apply(k, src, h[i - 1], seq[i])
  <2>1. 1 .. i \in SUBSET (1 .. n) /\ 1 .. i # {} /\ i \in 1 .. i /\ i \in Nat
    OBVIOUS
  <2>2. Max(1 .. i) \in 1 .. i /\ \A y \in 1 .. i : y <= Max(1 .. i)
    BY <2>1, MaxOfIndices
  <2>3. Max(1 .. i) = i
    <3>1. i <= Max(1 .. i)
      BY <2>1, <2>2
    <3> QED
      BY <2>2, <3>1
  <2>4. (1 .. i) \ {i} = 1 .. (i - 1) /\ i - 1 \in 0 .. n /\ i \in 0 .. n
    OBVIOUS
  <2>5. h[i] = g[1 .. i] /\ h[i - 1] = g[1 .. (i - 1)]
    BY <2>4
  <2>6. g[1 .. i] = Apply(k, src, g[(1 .. i) \ {Max(1 .. i)}], seq[Max(1 .. i)])
    BY <2>1 DEF FoldsTo
  <2> HIDE DEF h
  <2> QED
    BY <2>3, <2>4, <2>5, <2>6
<1>3. h[n] = g[1 .. n]
  OBVIOUS
<1> HIDE DEF h
<1> QED
  BY <1>1, <1>2, <1>3 DEF Steps

\* Each of the folds the settings are read with is such a function: options of a
\* registry, of servers and of clients, files, certificates, options of a library.
LEMMA RegistryFold ==
  ASSUME NEW src, NEW base, NEW seq, NEW n \in Nat, DOMAIN seq = 1 .. n
  PROVE  \E h : /\ Steps("registry", src, base, seq, n, h)
               /\ h[n] = FoldLeft(RegOption, base, seq)
<1> DEFINE It == CHOOSE g : g = [s \in SUBSET DOMAIN seq |->
             IF s = {} THEN base ELSE RegOption(g[s \ {Max(s)}], seq[Max(s)])]
<1>1. FoldLeft(RegOption, base, seq) = It[DOMAIN seq]
  BY DEF FoldLeft, MapThenFoldSet
<1>2. \A c, x : Apply("registry", src, c, x) = RegOption(c, x)
  BY DEF Apply
<1>3. PICK g : FoldsTo("registry", src, base, seq, n, g)
  BY FoldExists
<1>4. g = [s \in SUBSET DOMAIN seq |->
             IF s = {} THEN base ELSE RegOption(g[s \ {Max(s)}], seq[Max(s)])]
  BY <1>2, <1>3 DEF FoldsTo
<1>5. It = [s \in SUBSET DOMAIN seq |->
             IF s = {} THEN base ELSE RegOption(It[s \ {Max(s)}], seq[Max(s)])]
  BY <1>4
<1> HIDE DEF It
<1>6. FoldsTo("registry", src, base, seq, n, It)
  BY <1>2, <1>5 DEF FoldsTo
<1> QED
  BY <1>1, <1>6, FoldSteps

\* the options of an rpc,
LEMMA RpcFold ==
  ASSUME NEW src, NEW base, NEW seq, NEW n \in Nat, DOMAIN seq = 1 .. n
  PROVE  \E h : /\ Steps("rpc", src, base, seq, n, h)
               /\ h[n] = FoldLeft(RpcServerOption, base, seq)
<1> DEFINE It == CHOOSE g : g = [s \in SUBSET DOMAIN seq |->
             IF s = {} THEN base ELSE RpcServerOption(g[s \ {Max(s)}], seq[Max(s)])]
<1>1. FoldLeft(RpcServerOption, base, seq) = It[DOMAIN seq]
  BY DEF FoldLeft, MapThenFoldSet
<1>2. \A c, x : Apply("rpc", src, c, x) = RpcServerOption(c, x)
  BY DEF Apply
<1>3. PICK g : FoldsTo("rpc", src, base, seq, n, g)
  BY FoldExists
<1>4. g = [s \in SUBSET DOMAIN seq |->
             IF s = {} THEN base ELSE RpcServerOption(g[s \ {Max(s)}], seq[Max(s)])]
  BY <1>2, <1>3 DEF FoldsTo
<1>5. It = [s \in SUBSET DOMAIN seq |->
             IF s = {} THEN base ELSE RpcServerOption(It[s \ {Max(s)}], seq[Max(s)])]
  BY <1>4
<1> HIDE DEF It
<1>6. FoldsTo("rpc", src, base, seq, n, It)
  BY <1>2, <1>5 DEF FoldsTo
<1> QED
  BY <1>1, <1>6, FoldSteps

\* of a grpc,
LEMMA GrpcFold ==
  ASSUME NEW src, NEW base, NEW seq, NEW n \in Nat, DOMAIN seq = 1 .. n
  PROVE  \E h : /\ Steps("grpc", src, base, seq, n, h)
               /\ h[n] = FoldLeft(GrpcServerOption, base, seq)
<1> DEFINE It == CHOOSE g : g = [s \in SUBSET DOMAIN seq |->
             IF s = {} THEN base ELSE GrpcServerOption(g[s \ {Max(s)}], seq[Max(s)])]
<1>1. FoldLeft(GrpcServerOption, base, seq) = It[DOMAIN seq]
  BY DEF FoldLeft, MapThenFoldSet
<1>2. \A c, x : Apply("grpc", src, c, x) = GrpcServerOption(c, x)
  BY DEF Apply
<1>3. PICK g : FoldsTo("grpc", src, base, seq, n, g)
  BY FoldExists
<1>4. g = [s \in SUBSET DOMAIN seq |->
             IF s = {} THEN base ELSE GrpcServerOption(g[s \ {Max(s)}], seq[Max(s)])]
  BY <1>2, <1>3 DEF FoldsTo
<1>5. It = [s \in SUBSET DOMAIN seq |->
             IF s = {} THEN base ELSE GrpcServerOption(It[s \ {Max(s)}], seq[Max(s)])]
  BY <1>4
<1> HIDE DEF It
<1>6. FoldsTo("grpc", src, base, seq, n, It)
  BY <1>2, <1>5 DEF FoldsTo
<1> QED
  BY <1>1, <1>6, FoldSteps

\* and of an http server;
LEMMA HttpFold ==
  ASSUME NEW src, NEW base, NEW seq, NEW n \in Nat, DOMAIN seq = 1 .. n
  PROVE  \E h : /\ Steps("http", src, base, seq, n, h)
               /\ h[n] = FoldLeft(HttpServerOption, base, seq)
<1> DEFINE It == CHOOSE g : g = [s \in SUBSET DOMAIN seq |->
             IF s = {} THEN base ELSE HttpServerOption(g[s \ {Max(s)}], seq[Max(s)])]
<1>1. FoldLeft(HttpServerOption, base, seq) = It[DOMAIN seq]
  BY DEF FoldLeft, MapThenFoldSet
<1>2. \A c, x : Apply("http", src, c, x) = HttpServerOption(c, x)
  BY DEF Apply
<1>3. PICK g : FoldsTo("http", src, base, seq, n, g)
  BY FoldExists
<1>4. g = [s \in SUBSET DOMAIN seq |->
             IF s = {} THEN base ELSE HttpServerOption(g[s \ {Max(s)}], seq[Max(s)])]
  BY <1>2, <1>3 DEF FoldsTo
<1>5. It = [s \in SUBSET DOMAIN seq |->
             IF s = {} THEN base ELSE HttpServerOption(It[s \ {Max(s)}], seq[Max(s)])]
  BY <1>4
<1> HIDE DEF It
<1>6. FoldsTo("http", src, base, seq, n, It)
  BY <1>2, <1>5 DEF FoldsTo
<1> QED
  BY <1>1, <1>6, FoldSteps

\* the files;
LEMMA FilesFold ==
  ASSUME NEW k \in {"cfg", "reg"}, NEW src, NEW base, NEW seq, NEW n \in Nat, DOMAIN seq = 1 .. n
  PROVE  \E h : /\ Steps(k, src, base, seq, n, h)
               /\ h[n] = ReadFiles(base, seq, k, src)
<1> DEFINE It == CHOOSE g : g = [s \in SUBSET DOMAIN seq |->
             IF s = {} THEN base ELSE GivenIn(src, k, g[s \ {Max(s)}], seq[Max(s)])]
<1>1. ReadFiles(base, seq, k, src) = It[DOMAIN seq]
  BY DEF FoldLeft, MapThenFoldSet, ReadFiles, GivenIn
<1>2. \A c, x : Apply(k, src, c, x) = GivenIn(src, k, c, x)
  BY DEF Apply
<1>3. PICK g : FoldsTo(k, src, base, seq, n, g)
  BY FoldExists
<1>4. g = [s \in SUBSET DOMAIN seq |->
             IF s = {} THEN base ELSE GivenIn(src, k, g[s \ {Max(s)}], seq[Max(s)])]
  BY <1>2, <1>3 DEF FoldsTo
<1>5. It = [s \in SUBSET DOMAIN seq |->
             IF s = {} THEN base ELSE GivenIn(src, k, It[s \ {Max(s)}], seq[Max(s)])]
  BY <1>4
<1> HIDE DEF It
<1>6. FoldsTo(k, src, base, seq, n, It)
  BY <1>2, <1>5 DEF FoldsTo
<1> QED
  BY <1>1, <1>6, FoldSteps

\* the certificates;
LEMMA PemFold ==
  ASSUME NEW src, NEW base, NEW seq, NEW n \in Nat, DOMAIN seq = 1 .. n
  PROVE  \E h : /\ Steps("pem", src, base, seq, n, h)
               /\ h[n] = ReadPems(base, seq)
<1> DEFINE It == CHOOSE g : g = [s \in SUBSET DOMAIN seq |->
             IF s = {} THEN base ELSE PemIn(g[s \ {Max(s)}], seq[Max(s)])]
<1>1. ReadPems(base, seq) = It[DOMAIN seq]
  BY DEF FoldLeft, MapThenFoldSet, ReadPems, PemIn
<1>2. \A c, x : Apply("pem", src, c, x) = PemIn(c, x)
  BY DEF Apply
<1>3. PICK g : FoldsTo("pem", src, base, seq, n, g)
  BY FoldExists
<1>4. g = [s \in SUBSET DOMAIN seq |->
             IF s = {} THEN base ELSE PemIn(g[s \ {Max(s)}], seq[Max(s)])]
  BY <1>2, <1>3 DEF FoldsTo
<1>5. It = [s \in SUBSET DOMAIN seq |->
             IF s = {} THEN base ELSE PemIn(It[s \ {Max(s)}], seq[Max(s)])]
  BY <1>4
<1> HIDE DEF It
<1>6. FoldsTo("pem", src, base, seq, n, It)
  BY <1>2, <1>5 DEF FoldsTo
<1> QED
  BY <1>1, <1>6, FoldSteps

\* the files of a grpc server;
LEMMA GrpcFilesFold ==
  ASSUME NEW src, NEW base, NEW seq, NEW n \in Nat, DOMAIN seq = 1 .. n
  PROVE  \E h : /\ Steps("grpcFiles", src, base, seq, n, h)
               /\ h[n] = GrpcFiles(src, base, seq)
<1> DEFINE It == CHOOSE g : g = [s \in SUBSET DOMAIN seq |->
             IF s = {} THEN base ELSE GrpcGivenIn(src, g[s \ {Max(s)}], seq[Max(s)])]
<1>1. GrpcFiles(src, base, seq) = It[DOMAIN seq]
  BY DEF FoldLeft, MapThenFoldSet, GrpcFiles, GrpcGivenIn
<1>2. \A c, x : Apply("grpcFiles", src, c, x) = GrpcGivenIn(src, c, x)
  BY DEF Apply
<1>3. PICK g : FoldsTo("grpcFiles", src, base, seq, n, g)
  BY FoldExists
<1>4. g = [s \in SUBSET DOMAIN seq |->
             IF s = {} THEN base ELSE GrpcGivenIn(src, g[s \ {Max(s)}], seq[Max(s)])]
  BY <1>2, <1>3 DEF FoldsTo
<1>5. It = [s \in SUBSET DOMAIN seq |->
             IF s = {} THEN base ELSE GrpcGivenIn(src, It[s \ {Max(s)}], seq[Max(s)])]
  BY <1>4
<1> HIDE DEF It
<1>6. FoldsTo("grpcFiles", src, base, seq, n, It)
  BY <1>2, <1>5 DEF FoldsTo
<1> QED
  BY <1>1, <1>6, FoldSteps

\* the options of an rpc,
LEMMA RpcClientFold ==
  ASSUME NEW src, NEW base, NEW seq, NEW n \in Nat, DOMAIN seq = 1 .. n
  PROVE  \E h : /\ Steps("rpcClient", src, base, seq, n, h)
               /\ h[n] = FoldLeft(RpcClientOption, base, seq)
<1> DEFINE It == CHOOSE g : g = [s \in SUBSET DOMAIN seq |->
             IF s = {} THEN base ELSE RpcClientOption(g[s \ {Max(s)}], seq[Max(s)])]
<1>1. FoldLeft(RpcClientOption, base, seq) = It[DOMAIN seq]
  BY DEF FoldLeft, MapThenFoldSet
<1>2. \A c, x : Apply("rpcClient", src, c, x) = RpcClientOption(c, x)
  BY DEF Apply
<1>3. PICK g : FoldsTo("rpcClient", src, base, seq, n, g)
  BY FoldExists
<1>4. g = [s \in SUBSET DOMAIN seq |->
             IF s = {} THEN base ELSE RpcClientOption(g[s \ {Max(s)}], seq[Max(s)])]
  BY <1>2, <1>3 DEF FoldsTo
<1>5. It = [s \in SUBSET DOMAIN seq |->
             IF s = {} THEN base ELSE RpcClientOption(It[s \ {Max(s)}], seq[Max(s)])]
  BY <1>4
<1> HIDE DEF It
<1>6. FoldsTo("rpcClient", src, base, seq, n, It)
  BY <1>2, <1>5 DEF FoldsTo
<1> QED
  BY <1>1, <1>6, FoldSteps

\* of a grpc,
LEMMA GrpcClientFold ==
  ASSUME NEW src, NEW base, NEW seq, NEW n \in Nat, DOMAIN seq = 1 .. n
  PROVE  \E h : /\ Steps("grpcClient", src, base, seq, n, h)
               /\ h[n] = FoldLeft(GrpcClientOption, base, seq)
<1> DEFINE It == CHOOSE g : g = [s \in SUBSET DOMAIN seq |->
             IF s = {} THEN base ELSE GrpcClientOption(g[s \ {Max(s)}], seq[Max(s)])]
<1>1. FoldLeft(GrpcClientOption, base, seq) = It[DOMAIN seq]
  BY DEF FoldLeft, MapThenFoldSet
<1>2. \A c, x : Apply("grpcClient", src, c, x) = GrpcClientOption(c, x)
  BY DEF Apply
<1>3. PICK g : FoldsTo("grpcClient", src, base, seq, n, g)
  BY FoldExists
<1>4. g = [s \in SUBSET DOMAIN seq |->
             IF s = {} THEN base ELSE GrpcClientOption(g[s \ {Max(s)}], seq[Max(s)])]
  BY <1>2, <1>3 DEF FoldsTo
<1>5. It = [s \in SUBSET DOMAIN seq |->
             IF s = {} THEN base ELSE GrpcClientOption(It[s \ {Max(s)}], seq[Max(s)])]
  BY <1>4
<1> HIDE DEF It
<1>6. FoldsTo("grpcClient", src, base, seq, n, It)
  BY <1>2, <1>5 DEF FoldsTo
<1> QED
  BY <1>1, <1>6, FoldSteps

\* and of an http client;
LEMMA HttpClientFold ==
  ASSUME NEW src, NEW base, NEW seq, NEW n \in Nat, DOMAIN seq = 1 .. n
  PROVE  \E h : /\ Steps("httpClient", src, base, seq, n, h)
               /\ h[n] = FoldLeft(HttpClientOption, base, seq)
<1> DEFINE It == CHOOSE g : g = [s \in SUBSET DOMAIN seq |->
             IF s = {} THEN base ELSE HttpClientOption(g[s \ {Max(s)}], seq[Max(s)])]
<1>1. FoldLeft(HttpClientOption, base, seq) = It[DOMAIN seq]
  BY DEF FoldLeft, MapThenFoldSet
<1>2. \A c, x : Apply("httpClient", src, c, x) = HttpClientOption(c, x)
  BY DEF Apply
<1>3. PICK g : FoldsTo("httpClient", src, base, seq, n, g)
  BY FoldExists
<1>4. g = [s \in SUBSET DOMAIN seq |->
             IF s = {} THEN base ELSE HttpClientOption(g[s \ {Max(s)}], seq[Max(s)])]
  BY <1>2, <1>3 DEF FoldsTo
<1>5. It = [s \in SUBSET DOMAIN seq |->
             IF s = {} THEN base ELSE HttpClientOption(It[s \ {Max(s)}], seq[Max(s)])]
  BY <1>4
<1> HIDE DEF It
<1>6. FoldsTo("httpClient", src, base, seq, n, It)
  BY <1>2, <1>5 DEF FoldsTo
<1> QED
  BY <1>1, <1>6, FoldSteps

\* the files of a grpc client;
LEMMA GrpcClientFilesFold ==
  ASSUME NEW src, NEW base, NEW seq, NEW n \in Nat, DOMAIN seq = 1 .. n
  PROVE  \E h : /\ Steps("grpcClientFiles", src, base, seq, n, h)
               /\ h[n] = GrpcClientFiles(src, base, seq)
<1> DEFINE It == CHOOSE g : g = [s \in SUBSET DOMAIN seq |->
             IF s = {} THEN base ELSE GrpcClientGivenIn(src, g[s \ {Max(s)}], seq[Max(s)])]
<1>1. GrpcClientFiles(src, base, seq) = It[DOMAIN seq]
  BY DEF FoldLeft, MapThenFoldSet, GrpcClientFiles, GrpcClientGivenIn
<1>2. \A c, x : Apply("grpcClientFiles", src, c, x) = GrpcClientGivenIn(src, c, x)
  BY DEF Apply
<1>3. PICK g : FoldsTo("grpcClientFiles", src, base, seq, n, g)
  BY FoldExists
<1>4. g = [s \in SUBSET DOMAIN seq |->
             IF s = {} THEN base ELSE GrpcClientGivenIn(src, g[s \ {Max(s)}], seq[Max(s)])]
  BY <1>2, <1>3 DEF FoldsTo
<1>5. It = [s \in SUBSET DOMAIN seq |->
             IF s = {} THEN base ELSE GrpcClientGivenIn(src, It[s \ {Max(s)}], seq[Max(s)])]
  BY <1>4
<1> HIDE DEF It
<1>6. FoldsTo("grpcClientFiles", src, base, seq, n, It)
  BY <1>2, <1>5 DEF FoldsTo
<1> QED
  BY <1>1, <1>6, FoldSteps

\* and the options that a source becomes for the grpc library.
LEMMA LibraryFold ==
  ASSUME NEW src, NEW seq, NEW n \in Nat, DOMAIN seq = 1 .. n
  PROVE  \E h : /\ Steps("library", src, <<>>, seq, n, h)
               /\ h[n] = LibraryOps(seq, src)
<1> DEFINE It == CHOOSE g : g = [s \in SUBSET DOMAIN seq |->
             IF s = {} THEN <<>> ELSE LibraryAdds(src, g[s \ {Max(s)}], seq[Max(s)])]
<1>1. LibraryOps(seq, src) = It[DOMAIN seq]
  BY DEF FoldLeft, MapThenFoldSet, LibraryOps, LibraryAdds
<1>2. \A c, x : Apply("library", src, c, x) = LibraryAdds(src, c, x)
  BY DEF Apply
<1>3. PICK g : FoldsTo("library", src, <<>>, seq, n, g)
  BY FoldExists
<1>4. g = [s \in SUBSET DOMAIN seq |->
             IF s = {} THEN <<>> ELSE LibraryAdds(src, g[s \ {Max(s)}], seq[Max(s)])]
  BY <1>2, <1>3 DEF FoldsTo
<1>5. It = [s \in SUBSET DOMAIN seq |->
             IF s = {} THEN <<>> ELSE LibraryAdds(src, It[s \ {Max(s)}], seq[Max(s)])]
  BY <1>4
<1> HIDE DEF It
<1>6. FoldsTo("library", src, <<>>, seq, n, It)
  BY <1>2, <1>5 DEF FoldsTo
<1> QED
  BY <1>1, <1>6, FoldSteps

-----------------------------------------------------------------------------
(***************************************************************************)
(* The settings of a client and of a server                                *)
(***************************************************************************)
\* What stays true of the settings of p while its sources are read: they have the
\* fields of their kind, those that options add to are lists, and an address that
\* nobody gives is empty.
AddrFields == {"ServerAddr", "BindAddr"}
Kinds == ClientKinds \cup ServerKinds
Sound(p, c) ==
  /\ DOMAIN c = DOMAIN Defaults(p.kind)
  /\ \A f \in ListFields \cap DOMAIN c : IsList(c[f])
  /\ \A f \in AddrFields \cap DOMAIN c : ~Gives(p, f) => c[f] = Nothing

Pems  == {"ServerPemFile", "ServerKeyFile", "ClientPemFile", "ClientKeyFile"}
Files == {"path", "toml", "json"}

\* What a fold of kind k is over.
Admits(p, k, x) ==
  \/ k \in {"cfg", "grpcFiles", "grpcClientFiles"} /\ x \in Files
  \/ k = "pem" /\ x \in Pems
  \/ k \in Kinds /\ \E i \in DOMAIN p.ops : x = p.ops[i]

\* A list with a list or an element behind it is one.
LEMMA ListConcat ==
  ASSUME NEW a, NEW b, IsList(a), IsList(b)
  PROVE  IsList(a \o b)
<1> DEFINE S == Range(a) \cup Range(b)
<1>1. a \in Seq(S) /\ b \in Seq(S)
  <2>1. a \in Seq(Range(a)) /\ b \in Seq(Range(b))
    BY DEF IsList
  <2> HIDE DEF S
  <2>2. Range(a) \subseteq S /\ Range(b) \subseteq S
    BY DEF S
  <2> QED
    BY <2>1, <2>2
<1> HIDE DEF S
<1>2. a \o b \in Seq(S)
  BY <1>1
<1> DEFINE c == a \o b
<1>3. c \in Seq(S)
  BY <1>2
<1> HIDE DEF c
<1>4. c \in Seq(Range(c))
  BY <1>3 DEF Range
<1> QED
  BY <1>4 DEF c, IsList

\* and one with an element behind it.
LEMMA ListAppend ==
  ASSUME NEW a, NEW x, IsList(a)
  PROVE  IsList(Append(a, x))
<1> DEFINE S == Range(a) \cup {x}
           c == Append(a, x)
<1>1. a \in Seq(S) /\ x \in S
  <2>1. a \in Seq(Range(a)) /\ Range(a) \subseteq S
    BY DEF IsList
  <2> QED
    BY <2>1
<1> HIDE DEF S
<1>2. c \in Seq(S)
  BY <1>1
<1> HIDE DEF c
<1>3. c \in Seq(Range(c))
  BY <1>2 DEF Range
<1> QED
  BY <1>3 DEF c, IsList

\* A list is indexed from 1.
LEMMA ListDomain ==
  ASSUME NEW a, IsList(a)
  PROVE  Len(a) \in Nat /\ DOMAIN a = 1 .. Len(a)
<1>1. a \in Seq(Range(a))
  BY DEF IsList
<1> QED
  BY <1>1

\* Settings laid over others, where they give no list.
LEMMA OverlaySound ==
  ASSUME NEW p, NEW c, Sound(p, c), NEW d,
         ListFields \cap DOMAIN d = {}, \A f \in AddrFields : f \in DOMAIN d => Gives(p, f)
  PROVE  Sound(p, Overlay(c, d))
<1> DEFINE e == Overlay(c, d)
<1>1. DOMAIN e = DOMAIN c /\ \A f \in DOMAIN c : f \notin DOMAIN d => e[f] = c[f]
  BY DEF Overlay
<1> HIDE DEF e
<1>2. DOMAIN e = DOMAIN Defaults(p.kind)
  BY <1>1 DEF Sound
<1>3. ASSUME NEW f \in ListFields \cap DOMAIN e PROVE IsList(e[f])
  <2>1. f \in ListFields \cap DOMAIN c /\ e[f] = c[f]
    BY <1>1
  <2> QED
    BY <2>1 DEF Sound
<1>4. ASSUME NEW f \in AddrFields \cap DOMAIN e, ~Gives(p, f) PROVE e[f] = Nothing
  <2>1. f \in AddrFields \cap DOMAIN c /\ e[f] = c[f]
    BY <1>1, <1>4
  <2> QED
    BY <1>4, <2>1 DEF Sound
<1>5. Sound(p, e)
  BY <1>2, <1>3, <1>4 DEF Sound
<1> QED
  BY <1>5 DEF e

\* A field set that is a list if it must be, and an address only if it is given.
LEMMA FieldSound ==
  ASSUME NEW p, NEW c, Sound(p, c), NEW d, NEW f,
         f \in ListFields \cap DOMAIN c => IsList(d[f]), f \in AddrFields => Gives(p, f),
         DOMAIN d = DOMAIN c, \A g \in DOMAIN c : g # f => d[g] = c[g]
  PROVE  Sound(p, d)
<1>1. DOMAIN d = DOMAIN Defaults(p.kind)
  BY DEF Sound
<1>2. ASSUME NEW g \in ListFields \cap DOMAIN d PROVE IsList(d[g])
  <2>1. IsList(c[g])
    BY DEF Sound
  <2> QED
    BY <2>1
<1>3. ASSUME NEW g \in AddrFields \cap DOMAIN d, ~Gives(p, g) PROVE d[g] = Nothing
  <2>1. c[g] = Nothing
    BY <1>3 DEF Sound
  <2> QED
    BY <1>3, <2>1
<1> QED
  BY <1>1, <1>2, <1>3 DEF Sound

\* Options and sources, one by one: an option that sets a field,
LEMMA SetsSound ==
  ASSUME NEW p, NEW c, Sound(p, c), NEW op,
         op.of \in ListFields => IsList(op.to), op.of \in AddrFields => Gives(p, op.of)
  PROVE  Sound(p, Sets(c, op))
<1> DEFINE d == Sets(c, op)
           f == op.of
<1>1. /\ DOMAIN d = DOMAIN c /\ \A g \in DOMAIN c : g # f => d[g] = c[g]
      /\ f \in DOMAIN c => d[f] = op.to
  BY DEF Sets
<1>2. /\ f \in ListFields \cap DOMAIN c => IsList(d[f])
      /\ f \in AddrFields => Gives(p, f)
  BY <1>1
<1> HIDE DEF d, f
<1>3. Sound(p, d)
  BY <1>1, <1>2, FieldSound
<1> QED
  BY <1>3 DEF d

\* one that reads a certificate,
LEMMA PemSound ==
  ASSUME NEW p, NEW c, Sound(p, c), NEW op, op.of \in Pems
  PROVE  Sound(p, ReadsPem(c, op))
<1> DEFINE a == [c EXCEPT ![op.of] = op.to]
           e == ReadsPem(c, op)
<1>1. op.of \notin AddrFields /\ op.of \notin ListFields
  BY DEF Pems, AddrFields, ListFields
<1>2. PemOf[op.of] \notin AddrFields /\ PemOf[op.of] \notin ListFields
  BY DEF Pems, AddrFields, ListFields, PemOf
<1>3. /\ DOMAIN e = DOMAIN c
      /\ \A g \in DOMAIN c : g \notin {op.of, PemOf[op.of]} => e[g] = c[g]
  BY DEF ReadsPem
<1> HIDE DEF e
<1>4. Sound(p, e)
  BY <1>1, <1>2, <1>3 DEF Sound
<1> QED
  BY <1>4 DEF e

\* one that adds to a list,
LEMMA AddsSound ==
  ASSUME NEW p, NEW c, Sound(p, c), NEW op,
         op.of \in ListFields => IsList(op.to), op.of \notin AddrFields
  PROVE  Sound(p, Adds(c, op))
<1> DEFINE d == Adds(c, op)
           f == op.of
<1>1. /\ DOMAIN d = DOMAIN c /\ \A g \in DOMAIN c : g # f => d[g] = c[g]
      /\ f \in DOMAIN c => d[f] = c[f] \o op.to
  BY DEF Adds
<1>2. ASSUME f \in ListFields \cap DOMAIN c PROVE IsList(d[f])
  <2>1. IsList(c[f]) /\ IsList(op.to) /\ d[f] = c[f] \o op.to
    BY <1>1, <1>2 DEF Sound
  <2> HIDE DEF d, f
  <2> QED
    BY <2>1, ListConcat
<1>3. /\ f \in ListFields \cap DOMAIN c => IsList(d[f])
      /\ f \in AddrFields => Gives(p, f)
  BY <1>2
<1> HIDE DEF d, f
<1>4. Sound(p, d)
  BY <1>1, <1>3, FieldSound
<1> QED
  BY <1>4 DEF d

\* the options of the grpc library that a source's settings become,
LEMMA LibraryListed ==
  ASSUME NEW fields, IsList(fields), NEW source
  PROVE  IsList(LibraryOps(fields, source))
<1> DEFINE n == Len(fields)
<1>1. n \in Nat /\ DOMAIN fields = 1 .. n
  BY ListDomain
<1> HIDE DEF n
<1>2. PICK h : Steps("library", source, <<>>, fields, n, h) /\ h[n] = LibraryOps(fields, source)
  BY <1>1, LibraryFold
<1> DEFINE T == {m \in Nat : m <= n => IsList(h[m])}
<1>3. 0 \in T
  <2>1. IsList(<<>>)
    BY DEF IsList
  <2>2. h[0] = <<>>
    BY <1>2 DEF Steps
  <2> QED
    BY <2>1, <2>2
<1>4. ASSUME NEW m \in Nat, m \in T PROVE m + 1 \in T
  <2> SUFFICES ASSUME m + 1 <= n PROVE IsList(h[m + 1])
    OBVIOUS
  <2>1. m + 1 \in 1 .. n /\ (m + 1) - 1 = m /\ IsList(h[m])
    BY <1>1, <1>4
  <2> HIDE DEF T
  <2>2. h[m + 1] = LibraryAdds(source, h[m], fields[m + 1])
    BY <1>2, <2>1 DEF Steps, Apply
  <2> QED
    BY <2>1, <2>2, ListAppend DEF LibraryAdds
<1> HIDE DEF T
<1>5. n \in T
  BY <1>1, <1>3, <1>4, NatSetInduction
<1> QED
  BY <1>1, <1>2, <1>5 DEF T

\* of which there are two lists,
LEMMA FieldsListed == IsList(DialFields) /\ IsList(ServerFields)
BY DEF IsList, DialFields, ServerFields, Range

\* and their list in the settings,
LEMMA LibrarySound ==
  ASSUME NEW p, NEW c, Sound(p, c), NEW d
  PROVE  Sound(p, AppendGRPCServerConfig(c, d)) /\ Sound(p, AppendGRPCConfig(c, d))
<1> DEFINE a == LibraryOps(ServerFields, d)
           b == LibraryOps(DialFields, d)
<1>1. IsList(a) /\ IsList(b)
  BY LibraryListed, FieldsListed
<1> DEFINE e == AppendGRPCServerConfig(c, d)
           g == AppendGRPCConfig(c, d)
<1> HIDE DEF a, b
<1>2. e = Adds(c, [of |-> "GRPCSvrOps", to |-> a]) /\ g = Adds(c, [of |-> "GRPCDialOps", to |-> b])
  BY DEF AppendGRPCServerConfig, AppendGRPCConfig, Adds, a, b
<1> HIDE DEF e, g
<1>3. "GRPCSvrOps" \notin AddrFields /\ "GRPCDialOps" \notin AddrFields
  BY DEF AddrFields
<1> DEFINE x == [of |-> "GRPCSvrOps", to |-> a]
           y == [of |-> "GRPCDialOps", to |-> b]
<1>4. /\ x.of \in ListFields => IsList(x.to)
      /\ y.of \in ListFields => IsList(y.to)
      /\ x.of \notin AddrFields /\ y.of \notin AddrFields
  BY <1>1, <1>3
<1> HIDE DEF x, y
<1>5. Sound(p, Adds(c, x)) /\ Sound(p, Adds(c, y))
  BY <1>4, AddsSound
<1> QED
  BY <1>2, <1>5 DEF e, g, x, y

\* a file of a grpc server and of a client,
LEMMA GrpcFileSound ==
  ASSUME NEW p, NEW c, Sound(p, c), NEW d,
         ListFields \cap DOMAIN d.cfg = {}, \A f \in AddrFields : f \in DOMAIN d.cfg => Gives(p, f)
  PROVE  Sound(p, GrpcServerFile(c, d)) /\ Sound(p, GrpcClientFile(c, d))
<1>1. Sound(p, GrpcServerFile(c, d))
  BY OverlaySound, LibrarySound DEF GrpcServerFile
<1> DEFINE e == AppendGRPCConfig(Overlay(c, d.cfg), d.cfg)
           g == GrpcClientFile(c, d)
           x == [of |-> "file", to |-> d]
<1>2. Sound(p, e)
  BY OverlaySound, LibrarySound
<1>3. g = [e EXCEPT !.RegOps = Append(@, x)]
  BY DEF GrpcClientFile
<1> HIDE DEF e, g, x
<1>4. /\ DOMAIN g = DOMAIN e /\ \A f \in DOMAIN e : f # "RegOps" => g[f] = e[f]
      /\ "RegOps" \in DOMAIN e => g["RegOps"] = Append(e["RegOps"], x)
  BY <1>3
<1>5. "RegOps" \in DOMAIN e => IsList(e["RegOps"])
  BY <1>2 DEF Sound, ListFields
<1>6. "RegOps" \in DOMAIN e => IsList(g["RegOps"])
  BY <1>4, <1>5, ListAppend
<1>7. "RegOps" \notin AddrFields
  BY DEF AddrFields
<1>8. Sound(p, g)
  BY <1>2, <1>4, <1>6, <1>7, FieldSound
<1> QED
  BY <1>1, <1>8 DEF g

\* one that gives a header,
LEMMA HeaderSound ==
  ASSUME NEW p, NEW c, Sound(p, c), NEW header
  PROVE  Sound(p, Overlay(c, WholeHeader(header)))
<1> DEFINE d == WholeHeader(header)
<1>1. DOMAIN d = {"HeaderAccept", "HeaderAgent"}
  BY DEF WholeHeader, HeaderKeys
<1> HIDE DEF d
<1>2. ListFields \cap DOMAIN d = {} /\ \A f \in AddrFields : f \notin DOMAIN d
  BY <1>1 DEF ListFields, AddrFields
<1> QED
  BY <1>2, OverlaySound DEF d

\* any option,
LEMMA OptionSound ==
  ASSUME NEW p, WellTyped(p), NEW c, Sound(p, c), NEW i \in DOMAIN p.ops
  PROVE  /\ Sound(p, RpcServerOption(c, p.ops[i]))
         /\ Sound(p, GrpcServerOption(c, p.ops[i]))
         /\ Sound(p, HttpServerOption(c, p.ops[i]))
         /\ Sound(p, RpcClientOption(c, p.ops[i]))
         /\ Sound(p, GrpcClientOption(c, p.ops[i]))
         /\ Sound(p, HttpClientOption(c, p.ops[i]))
<1> DEFINE op == p.ops[i]
           Lists == {"RegOps", "GRPCDialOps", "GRPCSvrOps", "ConsulTags", "HttpClientOps",
                     "tmpActionMiddlewares"}
<1>1. /\ op.of \in ListFields => IsList(op.to)
      /\ op.of = "file" => ListFields \cap DOMAIN op.to.cfg = {}
      /\ op.of = "file" => \A f \in AddrFields : f \in DOMAIN op.to.cfg => Gives(p, f)
      /\ op.of \in AddrFields => Gives(p, op.of)
  BY DEF WellTyped, Gives
<1> HIDE DEF op
<1> USE DEF RpcServerOption, GrpcServerOption, HttpServerOption, RpcClientOption,
            GrpcClientOption, HttpClientOption
<1>2. CASE op.of = "file"
  <2>1. Sound(p, Overlay(c, op.to.cfg))
    BY <1>1, <1>2, OverlaySound
  <2>2. Sound(p, GrpcServerFile(c, op.to)) /\ Sound(p, GrpcClientFile(c, op.to))
    BY <1>1, <1>2, GrpcFileSound
  <2> QED
    BY <1>2, <2>1, <2>2 DEF op
<1>3. Sound(p, Sets(c, op))
  BY <1>1, SetsSound
<1>4. CASE op.of \in Lists
  <2>1. op.of \notin AddrFields
    BY <1>4 DEF AddrFields
  <2>2. Sound(p, Adds(c, op))
    BY <1>1, <2>1, AddsSound
  <2> QED
    BY <1>3, <1>4, <2>2 DEF op
<1>5. CASE op.of \in Pems
  <2>1. Sound(p, ReadsPem(c, op))
    BY <1>5, PemSound
  <2> QED
    BY <1>3, <1>5, <2>1 DEF op, Pems
<1>6. CASE op.of \notin {"file"} \cup Lists \cup Pems
  <2>1. Sound(p, Overlay(c, WholeHeader(op.to)))
    BY HeaderSound
  <2> QED
    BY <1>3, <1>6, <2>1 DEF op, Pems
<1> QED
  BY <1>2, <1>4, <1>5, <1>6

\* and whatever a fold applies.
LEMMA ApplySound ==
  ASSUME NEW p, WellTyped(p), NEW c, Sound(p, c), NEW k, NEW x, Admits(p, k, x)
  PROVE  Sound(p, Apply(k, p.src, c, x))
<1>1. ASSUME x \in Files
      PROVE  /\ ListFields \cap DOMAIN p.src[x].cfg = {}
             /\ \A f \in AddrFields : f \in DOMAIN p.src[x].cfg => Gives(p, f)
  BY <1>1 DEF WellTyped, Gives, Files
<1>2. CASE k = "cfg" /\ x \in Files
  BY <1>1, <1>2, OverlaySound DEF Apply, GivenIn
<1>3. CASE k \in {"grpcFiles", "grpcClientFiles"} /\ x \in Files
  BY <1>1, <1>3, GrpcFileSound DEF Apply, GrpcGivenIn, GrpcClientGivenIn
<1>4. CASE k = "pem" /\ x \in Pems
  <2>1. Sound(p, PemIn(c, x))
    BY <1>4, PemSound DEF PemIn
  <2> QED
    BY <1>4, <2>1 DEF Apply
<1>5. CASE k \in Kinds /\ \E i \in DOMAIN p.ops : x = p.ops[i]
  BY <1>5, OptionSound DEF Apply, Kinds, ServerKinds, ClientKinds
<1> QED
  BY <1>2, <1>3, <1>4, <1>5 DEF Admits

\* So a whole fold keeps the settings sound.
LEMMA StepsSound ==
  ASSUME NEW p, WellTyped(p), NEW base, Sound(p, base), NEW k, NEW seq, NEW n \in Nat,
         \A i \in 1 .. n : Admits(p, k, seq[i]), NEW h, Steps(k, p.src, base, seq, n, h)
  PROVE  Sound(p, h[n])
<1> DEFINE T == {m \in Nat : m <= n => Sound(p, h[m])}
<1>1. 0 \in T
  BY DEF Steps
<1>2. ASSUME NEW m \in Nat, m \in T PROVE m + 1 \in T
  <2> SUFFICES ASSUME m + 1 <= n PROVE Sound(p, h[m + 1])
    OBVIOUS
  <2>1. m + 1 \in 1 .. n /\ (m + 1) - 1 = m /\ m <= n
    OBVIOUS
  <2>2. Sound(p, h[m])
    BY <1>2, <2>1
  <2> HIDE DEF T
  <2>3. h[m + 1] = Apply(k, p.src, h[m], seq[m + 1])
    BY <2>1 DEF Steps
  <2> QED
    BY <2>1, <2>2, <2>3, ApplySound
<1> HIDE DEF T
<1>3. n \in T
  BY <1>1, <1>2, NatSetInduction
<1> QED
  BY <1>3 DEF T

\* What is read one after the other: the environment, the files, the options.
FromEnvironment(p) ==
  LET env  == p.src["env"].cfg
      base == FromEnv(Defaults(p.kind), env)
  IN  CASE p.kind = "rpcClient"  -> ReadPems(base, <<"ClientPemFile", "ClientKeyFile">>)
        [] p.kind = "rpc"        -> ReadPems(base, <<"ServerPemFile", "ServerKeyFile", "ClientPemFile">>)
        [] p.kind = "grpcClient" -> AppendGRPCConfig(base, EnvLibrary(env))
        [] p.kind = "grpc"       -> AppendGRPCServerConfig(base, EnvLibrary(env))
        [] OTHER                 -> base
FilesOf(kind) == CASE kind = "grpcClient" -> "grpcClientFiles"
                   [] kind = "grpc"       -> "grpcFiles"
                   [] OTHER               -> "cfg"
Finished(p, c) == IF p.kind \in ServerKinds THEN ResetServerAddr(WithMiddlewares(c)) ELSE WithMiddlewares(c)

\* The options of a program are a list.
LEMMA OptionsAreListed ==
  ASSUME NEW p, WellTyped(p)
  PROVE  Len(p.ops) \in Nat /\ DOMAIN p.ops = 1 .. Len(p.ops)
<1> DEFINE s == p.ops
<1>1. IsList(s)
  BY DEF WellTyped
<1> HIDE DEF s
<1>2. Len(s) \in Nat /\ DOMAIN s = 1 .. Len(s)
  BY <1>1, ListDomain
<1> QED
  BY <1>2 DEF s

\* New...Config of every client and server reads them so.
LEMMA ConfigRead ==
  ASSUME NEW p, WellTyped(p), p.kind \in Kinds
  PROVE  \E g, h : /\ Steps(FilesOf(p.kind), p.src, FromEnvironment(p), FileOrder, 3, g)
                   /\ Steps(p.kind, p.src, g[3], p.ops, Len(p.ops), h)
                   /\ NewConfig(p) = Finished(p, h[Len(p.ops)])
<1> DEFINE n == Len(p.ops)
           a == FromEnvironment(p)
           b == CASE p.kind = "grpcClient" -> GrpcClientFiles(p.src, a, FileOrder)
                  [] p.kind = "grpc"       -> GrpcFiles(p.src, a, FileOrder)
                  [] OTHER                 -> ReadFiles(a, FileOrder, "cfg", p.src)
           d == CASE p.kind = "rpcClient"  -> FoldLeft(RpcClientOption, b, p.ops)
                  [] p.kind = "grpcClient" -> FoldLeft(GrpcClientOption, b, p.ops)
                  [] p.kind = "httpClient" -> FoldLeft(HttpClientOption, b, p.ops)
                  [] p.kind = "rpc"        -> FoldLeft(RpcServerOption, b, p.ops)
                  [] p.kind = "grpc"       -> FoldLeft(GrpcServerOption, b, p.ops)
                  [] p.kind = "http"       -> FoldLeft(HttpServerOption, b, p.ops)
<1>1. n \in Nat /\ DOMAIN p.ops = 1 .. n
  BY OptionsAreListed
<1>2. DOMAIN FileOrder = 1 .. 3
  BY DEF FileOrder
<1>3. p.kind \in {"rpcClient", "grpcClient", "httpClient", "rpc", "grpc", "http"}
  BY DEF Kinds, ClientKinds, ServerKinds
<1>4. NewConfig(p) = Finished(p, d)
  <2>1. CASE p.kind = "rpcClient"
    BY <2>1 DEF NewConfig, Finished, NewRpcClientConfig, FromEnvironment, Defaults, ServerKinds
  <2>2. CASE p.kind = "grpcClient"
    BY <2>2 DEF NewConfig, Finished, NewGrpcClientConfig, FromEnvironment, Defaults, ServerKinds,
                  GrpcClientFiles
  <2>3. CASE p.kind = "httpClient"
    BY <2>3 DEF NewConfig, Finished, NewHttpClientConfig, FromEnvironment, Defaults, ServerKinds
  <2>4. CASE p.kind = "rpc"
    BY <2>4 DEF NewConfig, Finished, NewRpcServerConfig, FromEnvironment, Defaults, ServerKinds
  <2>5. CASE p.kind = "grpc"
    BY <2>5 DEF NewConfig, Finished, NewGrpcServerConfig, FromEnvironment, Defaults, ServerKinds, GrpcFiles
  <2>6. CASE p.kind = "http"
    BY <2>6 DEF NewConfig, Finished, NewHttpServerConfig, FromEnvironment, Defaults, ServerKinds
  <2> QED
    BY <1>3, <2>1, <2>2, <2>3, <2>4, <2>5, <2>6
<1> HIDE DEF n, a
<1>5. PICK g : Steps(FilesOf(p.kind), p.src, a, FileOrder, 3, g) /\ g[3] = b
  <2>0. 3 \in Nat
    OBVIOUS
  <2>1. CASE p.kind = "grpcClient"
    <3>1. b = GrpcClientFiles(p.src, a, FileOrder) /\ FilesOf(p.kind) = "grpcClientFiles"
      BY <2>1 DEF FilesOf
    <3> HIDE DEF b
    <3> QED
      BY <1>2, <2>0, <3>1, GrpcClientFilesFold
  <2>2. CASE p.kind = "grpc"
    <3>1. b = GrpcFiles(p.src, a, FileOrder) /\ FilesOf(p.kind) = "grpcFiles"
      BY <2>2 DEF FilesOf
    <3> HIDE DEF b
    <3> QED
      BY <1>2, <2>0, <3>1, GrpcFilesFold
  <2>3. CASE p.kind \notin {"grpcClient", "grpc"}
    <3>1. b = ReadFiles(a, FileOrder, "cfg", p.src) /\ FilesOf(p.kind) = "cfg"
      BY <2>3 DEF FilesOf
    <3> HIDE DEF b
    <3> QED
      BY <1>2, <2>0, <3>1, FilesFold
  <2> QED
    BY <2>1, <2>2, <2>3
<1> HIDE DEF b
<1>6. PICK h : Steps(p.kind, p.src, b, p.ops, n, h) /\ h[n] = d
  <2>1. CASE p.kind = "rpcClient"
    <3>1. d = FoldLeft(RpcClientOption, b, p.ops)
      BY <2>1
    <3> HIDE DEF d
    <3> QED
      BY <1>1, <2>1, <3>1, RpcClientFold
  <2>2. CASE p.kind = "grpcClient"
    <3>1. d = FoldLeft(GrpcClientOption, b, p.ops)
      BY <2>2
    <3> HIDE DEF d
    <3> QED
      BY <1>1, <2>2, <3>1, GrpcClientFold
  <2>3. CASE p.kind = "httpClient"
    <3>1. d = FoldLeft(HttpClientOption, b, p.ops)
      BY <2>3
    <3> HIDE DEF d
    <3> QED
      BY <1>1, <2>3, <3>1, HttpClientFold
  <2>4. CASE p.kind = "rpc"
    <3>1. d = FoldLeft(RpcServerOption, b, p.ops)
      BY <2>4
    <3> HIDE DEF d
    <3> QED
      BY <1>1, <2>4, <3>1, RpcFold
  <2>5. CASE p.kind = "grpc"
    <3>1. d = FoldLeft(GrpcServerOption, b, p.ops)
      BY <2>5
    <3> HIDE DEF d
    <3> QED
      BY <1>1, <2>5, <3>1, GrpcFold
  <2>6. CASE p.kind = "http"
    <3>1. d = FoldLeft(HttpServerOption, b, p.ops)
      BY <2>6
    <3> HIDE DEF d
    <3> QED
      BY <1>1, <2>6, <3>1, HttpFold
  <2> QED
    BY <1>3, <2>1, <2>2, <2>3, <2>4, <2>5, <2>6
<1> HIDE DEF d
<1> QED
  BY <1>4, <1>5, <1>6 DEF a, n

\* Defaults are sound: no addresses, and lists.
LEMMA DefaultsSound ==
  ASSUME NEW p, p.kind \in Kinds
  PROVE  Sound(p, Defaults(p.kind))
<1> DEFINE d == Defaults(p.kind)
<1>1. d \in {RpcClientDefaults, GrpcClientDefaults, HttpClientDefaults, RpcServerDefaults,
             GrpcServerDefaults, HttpServerDefaults}
  BY DEF Defaults, Kinds, ClientKinds, ServerKinds
<1>2. IsList(<<>>) /\ IsList(GrpcClientDefaults["GRPCDialOps"])
  BY DEF IsList, Range, GrpcClientDefaults
<1>3. \A f \in ListFields \cap DOMAIN d : d[f] \in {<<>>, GrpcClientDefaults["GRPCDialOps"]}
  BY <1>1 DEF ListFields, RpcClientDefaults, GrpcClientDefaults, HttpClientDefaults, RpcServerDefaults,
              GrpcServerDefaults, HttpServerDefaults
<1>4. \A f \in AddrFields \cap DOMAIN d : d[f] = Nothing
  BY <1>1 DEF AddrFields, RpcClientDefaults, GrpcClientDefaults, HttpClientDefaults, RpcServerDefaults,
              GrpcServerDefaults, HttpServerDefaults
<1> HIDE DEF d
<1>5. \A f \in ListFields \cap DOMAIN d : IsList(d[f])
  BY <1>2, <1>3
<1>6. DOMAIN d = DOMAIN Defaults(p.kind)
  BY DEF d
<1>7. Sound(p, d)
  BY <1>4, <1>5, <1>6 DEF Sound
<1> QED
  BY <1>7 DEF d

\* The environment.
LEMMA EnvSound ==
  ASSUME NEW p, WellTyped(p), p.kind \in Kinds
  PROVE  Sound(p, FromEnvironment(p))
<1> DEFINE env  == p.src["env"].cfg
           read == Readable(env)
           base == FromEnv(Defaults(p.kind), env)
<1>1. Sound(p, base)
  <2>1. ListFields \cap DOMAIN env = {} /\ \A f \in AddrFields : f \in DOMAIN env => Gives(p, f)
    BY DEF WellTyped, Gives
  <2>2. DOMAIN read \subseteq DOMAIN env
    BY DEF Readable
  <2>3. base = Overlay(Defaults(p.kind), read)
    BY DEF FromEnv
  <2> HIDE DEF base, read, env
  <2> QED
    BY <2>1, <2>2, <2>3, DefaultsSound, OverlaySound
<1> HIDE DEF base
<1>2. ASSUME NEW q, NEW n \in Nat, DOMAIN q = 1 .. n, \A i \in 1 .. n : q[i] \in Pems
      PROVE  Sound(p, ReadPems(base, q))
  <2>1. PICK h : Steps("pem", p.src, base, q, n, h) /\ h[n] = ReadPems(base, q)
    BY <1>2, PemFold
  <2>2. \A i \in 1 .. n : Admits(p, "pem", q[i])
    BY <1>2 DEF Admits
  <2>3. Sound(p, h[n])
    BY <1>1, <2>1, <2>2, StepsSound
  <2> QED
    BY <2>1, <2>3
<1>3. /\ Sound(p, ReadPems(base, <<"ClientPemFile", "ClientKeyFile">>))
      /\ Sound(p, ReadPems(base, <<"ServerPemFile", "ServerKeyFile", "ClientPemFile">>))
  <2> DEFINE q == <<"ClientPemFile", "ClientKeyFile">>
             r == <<"ServerPemFile", "ServerKeyFile", "ClientPemFile">>
  <2>1. /\ DOMAIN q = 1 .. 2 /\ \A i \in 1 .. 2 : q[i] \in Pems
        /\ DOMAIN r = 1 .. 3 /\ \A i \in 1 .. 3 : r[i] \in Pems
    BY DEF Pems
  <2> HIDE DEF q, r
  <2>2. 2 \in Nat /\ 3 \in Nat
    OBVIOUS
  <2>3. Sound(p, ReadPems(base, q))
    BY <1>2, <2>1, <2>2
  <2>4. Sound(p, ReadPems(base, r))
    BY <1>2, <2>1, <2>2
  <2> QED
    BY <2>3, <2>4 DEF q, r
<1>4. Sound(p, AppendGRPCConfig(base, EnvLibrary(env))) /\ Sound(p, AppendGRPCServerConfig(base, EnvLibrary(env)))
  BY <1>1, LibrarySound
<1> QED
  BY <1>1, <1>3, <1>4 DEF FromEnvironment, base

\* Files keep sound settings sound,
LEMMA FilesSound ==
  ASSUME NEW p, WellTyped(p), NEW c, Sound(p, c), NEW g, Steps(FilesOf(p.kind), p.src, c, FileOrder, 3, g)
  PROVE  Sound(p, g[3])
<1>1. \A i \in 1 .. 3 : FileOrder[i] \in Files
  BY DEF FileOrder, Files
<1>2. \A i \in 1 .. 3 : Admits(p, FilesOf(p.kind), FileOrder[i])
  BY <1>1 DEF Admits, FilesOf
<1>3. 3 \in Nat
  OBVIOUS
<1> QED
  BY <1>2, <1>3, StepsSound

\* and so do the options of a program.
LEMMA OptionsSound ==
  ASSUME NEW p, WellTyped(p), p.kind \in Kinds, NEW c, Sound(p, c), NEW h,
         Steps(p.kind, p.src, c, p.ops, Len(p.ops), h)
  PROVE  Sound(p, h[Len(p.ops)])
<1>1. Len(p.ops) \in Nat /\ DOMAIN p.ops = 1 .. Len(p.ops)
  BY OptionsAreListed
<1>2. \A i \in 1 .. Len(p.ops) : Admits(p, p.kind, p.ops[i])
  BY <1>1 DEF Admits
<1> QED
  BY <1>1, <1>2, StepsSound

\* The end of New...Config: the middlewares, and an address given alone is both.
LEMMA FinishedSame ==
  ASSUME NEW p, p.kind \in Kinds, NEW c, Sound(p, c)
  PROVE  /\ DOMAIN Finished(p, c) = DOMAIN c
         /\ \A f \in DOMAIN c \ {"ActionMiddlewares", "ServerAddr", "BindAddr"} : Finished(p, c)[f] = c[f]
<1> DEFINE e == WithMiddlewares(c)
           d == Finished(p, c)
<1>1. DOMAIN e = DOMAIN c /\ \A f \in DOMAIN c : f # "ActionMiddlewares" => e[f] = c[f]
  BY DEF WithMiddlewares
<1>2. d = e \/ d = Reset(e, "ServerAddr", "BindAddr")
  BY DEF Finished, ResetServerAddr
<1> HIDE DEF d, e
<1>3. DOMAIN d = DOMAIN e /\ \A f \in DOMAIN e : f \notin {"ServerAddr", "BindAddr"} => d[f] = e[f]
  BY <1>2 DEF Reset
<1>4. /\ DOMAIN d = DOMAIN c
      /\ \A f \in DOMAIN c \ {"ActionMiddlewares", "ServerAddr", "BindAddr"} : d[f] = c[f]
  BY <1>1, <1>3
<1> QED
  BY <1>4 DEF d

\* A server that is given one address at most has the same as both.
LEMMA FinalSound ==
  ASSUME NEW p, p.kind \in ServerKinds, NEW c, Sound(p, c), NEW d, d = Finished(p, c)
  PROVE  ~(Gives(p, "ServerAddr") /\ Gives(p, "BindAddr")) => d.ServerAddr = d.BindAddr
<1> DEFINE e == WithMiddlewares(c)
<1>1. "ServerAddr" \in DOMAIN c /\ "BindAddr" \in DOMAIN c
  BY DEF Sound, Defaults, ServerKinds, RpcServerDefaults, GrpcServerDefaults, HttpServerDefaults
<1>2. DOMAIN e = DOMAIN c /\ e["ServerAddr"] = c["ServerAddr"] /\ e["BindAddr"] = c["BindAddr"]
  BY <1>1 DEF WithMiddlewares
<1>3. d = Reset(e, "ServerAddr", "BindAddr")
  BY DEF Finished, ResetServerAddr
<1> HIDE DEF e
<1>4. d["BindAddr"] = IF e["BindAddr"] = Nothing THEN e["ServerAddr"] ELSE e["BindAddr"]
  BY <1>1, <1>2, <1>3 DEF Reset
<1>5. d["ServerAddr"] = IF e["ServerAddr"] = Nothing THEN d["BindAddr"] ELSE e["ServerAddr"]
  BY <1>1, <1>2, <1>3, <1>4 DEF Reset
<1>6. \A f \in AddrFields \cap DOMAIN c : ~Gives(p, f) => c[f] = Nothing
  BY DEF Sound
<1>7. ~(Gives(p, "ServerAddr") /\ Gives(p, "BindAddr")) =>
        e["ServerAddr"] = Nothing \/ e["BindAddr"] = Nothing
  BY <1>1, <1>2, <1>6 DEF AddrFields
<1> QED
  BY <1>4, <1>5, <1>7

\* New...Config, whatever the sources and the options are.
LEMMA ConfigSound ==
  ASSUME NEW p, WellTyped(p), p.kind \in Kinds, NEW c, c = NewConfig(p)
  PROVE  /\ DOMAIN c = DOMAIN Defaults(p.kind) /\ IsList(c.RegOps)
         /\ p.kind \in ServerKinds =>
              (~(Gives(p, "ServerAddr") /\ Gives(p, "BindAddr")) => c.ServerAddr = c.BindAddr)
<1>1. PICK g, h : /\ Steps(FilesOf(p.kind), p.src, FromEnvironment(p), FileOrder, 3, g)
                  /\ Steps(p.kind, p.src, g[3], p.ops, Len(p.ops), h)
                  /\ NewConfig(p) = Finished(p, h[Len(p.ops)])
  BY ConfigRead
<1> DEFINE d == h[Len(p.ops)]
<1>2. Sound(p, g[3])
  BY <1>1, EnvSound, FilesSound
<1>3. Sound(p, d)
  BY <1>1, <1>2, OptionsSound
<1>4. c = Finished(p, d)
  BY <1>1
<1> HIDE DEF d
<1>5. "RegOps" \in DOMAIN d
  BY <1>3 DEF Sound, Defaults, Kinds, ClientKinds, ServerKinds, RpcClientDefaults, GrpcClientDefaults,
              HttpClientDefaults, RpcServerDefaults, GrpcServerDefaults, HttpServerDefaults
<1>6. DOMAIN c = DOMAIN d /\ c["RegOps"] = d["RegOps"]
  BY <1>3, <1>4, <1>5, FinishedSame
<1>7. IsList(d["RegOps"]) /\ DOMAIN d = DOMAIN Defaults(p.kind)
  BY <1>3, <1>5 DEF Sound, ListFields
<1> QED
  BY <1>3, <1>4, <1>6, <1>7, FinalSound

-----------------------------------------------------------------------------
\* A fold over sources or options of the registry loses no field.
LEMMA RegistrySteps ==
  ASSUME NEW base, NEW k \in {"reg", "registry"}, NEW src, NEW seq, NEW n \in Nat,
         NEW h, Steps(k, src, base, seq, n, h)
  PROVE  \A i \in 0 .. n : DOMAIN h[i] = DOMAIN base
<1> DEFINE T == {m \in Nat : m <= n => DOMAIN h[m] = DOMAIN base}
<1>0. \A c, x : DOMAIN Apply(k, src, c, x) = DOMAIN c
  BY DEF Apply, GivenIn, Overlay, RegOption, Sets
<1>1. 0 \in T
  BY DEF Steps
<1>2. ASSUME NEW m \in Nat, m \in T PROVE m + 1 \in T
  <2> SUFFICES ASSUME m + 1 <= n PROVE DOMAIN h[m + 1] = DOMAIN base
    OBVIOUS
  <2>1. m + 1 \in 1 .. n /\ (m + 1) - 1 = m /\ m <= n
    OBVIOUS
  <2>2. DOMAIN h[m] = DOMAIN base
    BY <1>2, <2>1
  <2> HIDE DEF T
  <2>3. h[m + 1] = Apply(k, src, h[m], seq[m + 1])
    BY <2>1 DEF Steps
  <2> QED
    BY <1>0, <2>2, <2>3
<1> HIDE DEF T
<1>3. \A m \in Nat : m \in T
  BY <1>1, <1>2, NatSetInduction
<1> QED
  BY <1>3 DEF T

\* registry.go:154: the server's address, as the last option, is what GetConfig has.
LEMMA LastOptionFixes ==
  ASSUME NEW src, NEW ops, IsList(ops), NEW addr
  PROVE  GetConfig(src, WithServerAddr(ops, addr)).ServerAddr = addr
<1> DEFINE seq == WithServerAddr(ops, addr)
           last == [of |-> "ServerAddr", to |-> addr]
           n == Len(ops) + 1
<1>1. n \in Nat /\ n >= 1 /\ DOMAIN seq = 1 .. n /\ seq[n] = last
  <2>1. ops \in Seq(Range(ops))
    BY DEF IsList
  <2>2. ops \in Seq(Range(ops) \cup {last}) /\ last \in Range(ops) \cup {last}
    BY <2>1
  <2> QED
    BY <2>2 DEF WithServerAddr
<1> DEFINE a == FromEnv(RegistryDefaults, src["env"].reg)
           b == ReadFiles(a, RegFileOrder, "reg", src)
           c == [b EXCEPT !.WaitTime = ConsulWaitTime]
           d == FoldLeft(RegOption, c, seq)
<1>2. "ServerAddr" \in DOMAIN a
  BY DEF FromEnv, Overlay, RegistryDefaults
<1> HIDE DEF a
<1>3. DOMAIN RegFileOrder = 1 .. 5
  BY DEF RegFileOrder, FileOrder
<1>4. PICK h : Steps("reg", src, a, RegFileOrder, 5, h) /\ h[5] = b
  BY <1>3, FilesFold
<1>5. "ServerAddr" \in DOMAIN b
  <2>1. DOMAIN h[5] = DOMAIN a
    BY <1>4, RegistrySteps
  <2> QED
    BY <1>2, <1>4, <2>1
<1> HIDE DEF b
<1>6. "ServerAddr" \in DOMAIN c
  BY <1>5
<1> HIDE DEF c, seq, n
<1>7. PICK g : Steps("registry", src, c, seq, n, g) /\ g[n] = d
  BY <1>1, RegistryFold
<1>8. DOMAIN g[n - 1] = DOMAIN c
  <2>1. n - 1 \in 0 .. n
    BY <1>1
  <2>2. \A i \in 0 .. n : DOMAIN g[i] = DOMAIN c
    BY <1>1, <1>7, RegistrySteps
  <2> QED
    BY <2>1, <2>2
<1>9. d = Sets(g[n - 1], last)
  <2>1. n \in 1 .. n
    BY <1>1
  <2>2. d = Apply("registry", src, g[n - 1], last)
    BY <1>1, <1>7, <2>1 DEF Steps
  <2>3. \A e : Apply("registry", src, e, last) = Sets(e, last)
    BY DEF Apply, RegOption
  <2> HIDE DEF last
  <2> QED
    BY <2>2, <2>3
<1> HIDE DEF d
<1>10. d["ServerAddr"] = addr
  BY <1>6, <1>8, <1>9 DEF Sets
<1>11. GetConfig(src, seq) = Reset(d, "HealthCheckAddr", "HealthCheckBindAddr")
  BY DEF GetConfig, a, b, c, d
<1>12. Reset(d, "HealthCheckAddr", "HealthCheckBindAddr")["ServerAddr"] = d["ServerAddr"]
  <2>1. "ServerAddr" \in DOMAIN d
    BY <1>6, <1>8, <1>9 DEF Sets
  <2> QED
    BY <2>1 DEF Reset
<1> QED
  BY <1>10, <1>11, <1>12 DEF seq

-----------------------------------------------------------------------------
(***************************************************************************)
(* The address of a server                                                 *)
(***************************************************************************)
\* Every variable keeps its type.
LEMMA TypesKept == Spec => [](TypeOK /\ DOMAIN job = Services /\ DOMAIN loop = Services)
<1> DEFINE I == TypeOK /\ DOMAIN job = Services /\ DOMAIN loop = Services
<1>1. Init => I
  <2> SUFFICES ASSUME Init PROVE I
    OBVIOUS
  <2>1. job \in [Services -> Jobs \cup {NoJob}]
    BY StartsAssumption DEF Init
  <2>2. /\ loop = [s \in Services |-> "off"] /\ once = "no" /\ health = "off"
        /\ cached = FALSE /\ dead = FALSE /\ fails = 0 /\ losses = 0
    BY DEF Init
  <2>3. fails \in 0 .. MaxFails /\ losses \in 0 .. MaxLosses
    BY <2>2, BoundsAssumption
  <2>4. DOMAIN job = Services /\ DOMAIN loop = Services
    BY <2>1, <2>2
  <2>5. \A s \in Services : job[s] \in Jobs \cup {NoJob}
    BY <2>1
  <2>6. \A s \in Services : loop[s] \in {"off", "register", "hour"}
    BY <2>2
  <2>7. /\ once \in {"no", "running", "done"} /\ health \in {"off", "starting", "up"}
        /\ cached \in BOOLEAN /\ dead \in BOOLEAN
    BY <2>2
  <2>8. TypeOK
    BY <2>3, <2>5, <2>6, <2>7 DEF TypeOK
  <2> QED
    BY <2>4, <2>8
<1>2. I /\ [Next]_vars => I'
  <2> SUFFICES ASSUME I, [Next]_vars
               PROVE  I'
    OBVIOUS
  <2> USE DEF setVars, regVars, healthVars
  <2>1. CASE UNCHANGED vars
    BY <2>1 DEF vars, TypeOK
  <2>2. CASE ListenAndServe
    BY <2>2 DEF ListenAndServe, TypeOK
  <2>3. ASSUME NEW s \in Services, Load(s) \/ Listen(s) \/ Stop(s) \/ Deregister(s) \/ Close(s)
        PROVE  I'
    <3>1. UNCHANGED <<job, loop, fails, losses, cached, healthVars, dead>>
      BY <2>3 DEF Load, Listen, Stop, Deregister, Close
    <3> QED
      BY <3>1 DEF TypeOK
  <2>4. ASSUME NEW s \in Services, Run(s) PROVE I'
    <3>1. job' = [job EXCEPT ![s] = NoJob] /\ UNCHANGED <<loop, fails, losses, cached, healthVars, dead>>
      BY <2>4 DEF Run
    <3> QED
      BY <3>1 DEF TypeOK
  <2>5. ASSUME NEW s \in Services, ConsulClient(s) \/ MakeConsulClient(s) PROVE I'
    <3>1. /\ UNCHANGED <<job, loop, fails, losses, healthVars>>
          /\ cached' \in {cached, TRUE} /\ dead' \in {dead, TRUE}
      BY <2>5 DEF ConsulClient, MakeConsulClient
    <3> QED
      BY <3>1 DEF TypeOK
  <2>6. ASSUME NEW s \in Services, HealthCheck(s) \/ MakeServer(s) \/ Waited(s) PROVE I'
    <3>1. /\ UNCHANGED <<job, loop, fails, losses, cached>> /\ dead' \in {dead, TRUE}
          /\ once' \in {once, "running", "done"} /\ health' \in {health, "starting"}
      BY <2>6 DEF HealthCheck, Once, MakeServer, Waited
    <3> QED
      BY <3>1 DEF TypeOK
  <2>7. ASSUME NEW s \in Services, StartLoop(s) \/ Wake(s) PROVE I'
    <3>1. /\ loop' = [loop EXCEPT ![s] = "register"]
          /\ UNCHANGED <<job, fails, losses, cached, healthVars, dead>>
      BY <2>7 DEF StartLoop, Wake
    <3> QED
      BY <3>1 DEF TypeOK
  <2>8. ASSUME NEW s \in Services, Register(s) PROVE I'
    <3>1. /\ loop' = [loop EXCEPT ![s] = "hour"] \/ UNCHANGED loop
          /\ fails' = fails \/ (fails < MaxFails /\ fails' = fails + 1)
          /\ UNCHANGED <<job, losses, cached, healthVars, dead>>
      BY <2>8 DEF Register, Again
    <3>2. fails' \in 0 .. MaxFails
      BY <3>1, BoundsAssumption DEF TypeOK
    <3> QED
      BY <3>1, <3>2 DEF TypeOK
  <2>9. ASSUME NEW s \in Services, Lose(s) PROVE I'
    <3>1. /\ losses < MaxLosses /\ losses' = losses + 1
          /\ UNCHANGED <<job, loop, fails, cached, healthVars, dead>>
      BY <2>9 DEF Lose
    <3>2. losses' \in 0 .. MaxLosses
      BY <3>1, BoundsAssumption DEF TypeOK
    <3> QED
      BY <3>1, <3>2 DEF TypeOK
  <2> QED
    BY <2>1, <2>2, <2>3, <2>4, <2>5, <2>6, <2>7, <2>8, <2>9 DEF Next, Loop
<1> QED
  BY <1>1, <1>2, PTL DEF Spec

-----------------------------------------------------------------------------
\* Where an rpc server has its listener.
Announced == {"consul", "consul client", "health", "make server", "wait", "registration", "serve"}
Heard(s, to) == at[s].kind = "rpc" /\ (to \in Announced \/ (to = "deregister" /\ at[s].run = "tcp"))

\* The settings that have been read, what came of them, and what consul was told.
Ready(s) ==
  LET p == ProgramOf(job[s])
  IN  /\ job[s] \in Jobs
      /\ pc[s] = "loaded" /\ p.kind \in ServerKinds =>
           /\ reg[s].ServerAddr = cfg[s].ServerAddr
           /\ ~(Gives(p, "ServerAddr") /\ Gives(p, "BindAddr")) => cfg[s].ServerAddr = cfg[s].BindAddr
Settled(s) == /\ at[s].addr = at[s].server
              /\ at[s].kind = "rpc" /\ ~at[s].both => at[s].bind = at[s].server
Listens(s) == listening[s] = Bound(at[s].bind) /\ listening[s] # NoAddr

AddrInv ==
  /\ DOMAIN pc = Services /\ DOMAIN loop = Services /\ DOMAIN catalog = Services
  /\ DOMAIN at = Services /\ DOMAIN cfg = Services /\ DOMAIN reg = Services
  /\ DOMAIN listening = Services /\ DOMAIN job = Services
  /\ \A s \in Services :
       /\ pc[s] \in {"start", "loaded"} => Ready(s) /\ loop[s] = "off" /\ catalog[s] = NoReg
       /\ pc[s] \notin {"start", "loaded", "done"} => Settled(s)
       /\ loop[s] # "off" \/ catalog[s] # NoReg => Settled(s)
       /\ catalog[s] # NoReg => catalog[s].addr = at[s].server
       /\ Heard(s, pc[s]) => Listens(s)

\* A step of a service that runs.
LEMMA MovesAddr ==
  ASSUME AddrInv, NEW s \in Services, NEW to, to \notin {"start", "loaded"},
         pc[s] \notin {"start", "loaded", "done"}, pc' = [pc EXCEPT ![s] = to],
         UNCHANGED setVars, DOMAIN loop' = Services, DOMAIN catalog' = Services,
         DOMAIN listening' = Services,
         \A t \in Services : t # s => loop'[t] = loop[t],
         \A t \in Services : catalog'[t] = catalog[t] \/ (t = s /\ catalog'[t] = NoReg),
         \A t \in Services : t # s => listening'[t] = listening[t],
         Heard(s, to) => Listens(s)'
  PROVE  AddrInv'
<1>1. /\ pc'[s] = to /\ at' = at /\ cfg' = cfg /\ reg' = reg /\ job' = job
      /\ \A t \in Services : t # s => pc'[t] = pc[t]
  BY DEF AddrInv, setVars
<1>2. \A t \in Services : t # s => Listens(t)' = Listens(t)
  BY <1>1 DEF Listens
<1>3. \A t \in Services : \A x : Heard(t, x)' = Heard(t, x)
  BY <1>1 DEF Heard
<1>4. \A t \in Services : Heard(t, pc[t])' = Heard(t, pc'[t])
  BY <1>1 DEF Heard
<1>5. \A t \in Services : Heard(t, pc[t])' => Listens(t)'
  BY <1>1, <1>2, <1>4 DEF AddrInv
<1> QED
  BY <1>1, <1>5 DEF AddrInv, Ready, Settled, setVars

\* RunServer, once the settings are read.
LEMMA ServesAddr ==
  ASSUME AddrInv, NEW s \in Services,
         \/ Listen(s) \/ Stop(s) \/ Deregister(s) \/ Close(s)
         \/ ConsulClient(s) \/ MakeConsulClient(s) \/ HealthCheck(s) \/ MakeServer(s)
         \/ Waited(s) \/ StartLoop(s)
  PROVE  AddrInv'
<1> USE DEF regVars, healthVars
<1>1. /\ DOMAIN pc = Services /\ DOMAIN listening = Services
      /\ DOMAIN loop = Services /\ DOMAIN catalog = Services
  BY DEF AddrInv
<1>2. at[s].kind = "rpc" /\ pc[s] \in Announced => Listens(s)
  BY DEF AddrInv, Heard
<1>3. CASE Listen(s)
  <2>1. PICK to \in {"consul", "serve", "done", "deregister"} : pc' = [pc EXCEPT ![s] = to]
    BY <1>3 DEF Listen, Goto
  <2>2. pc[s] = "listen" /\ UNCHANGED <<setVars, loop, catalog>>
    BY <1>3 DEF Listen
  <2>3. \/ CanListen(s) /\ listening' = [listening EXCEPT ![s] = Bound(at[s].bind)]
        \/ UNCHANGED listening /\ pc' = [pc EXCEPT ![s] = IF at[s].kind = "rpc" THEN "done" ELSE "deregister"]
    BY <1>3 DEF Listen, Goto
  <2>4. CASE CanListen(s) /\ listening' = [listening EXCEPT ![s] = Bound(at[s].bind)]
    <3>1. Bound(at[s].bind) \in AddrsWithPort \cup Names \cup {"any"}
      BY <2>4 DEF CanListen, Bound, HasPort
    <3>2. listening'[s] = Bound(at[s].bind) /\ listening'[s] # NoAddr /\ at' = at
      BY <1>1, <2>2, <2>4, <3>1, AddrsAssumption DEF setVars
    <3>3. Listens(s)'
      BY <3>2 DEF Listens
    <3>4. \A t \in Services : t # s => listening'[t] = listening[t]
      BY <2>4
    <3>5. DOMAIN listening' = Services
      BY <1>1, <2>4
    <3> QED
      BY <1>1, <2>1, <2>2, <3>3, <3>4, <3>5, MovesAddr
  <2>5. CASE /\ UNCHANGED listening
            /\ pc' = [pc EXCEPT ![s] = IF at[s].kind = "rpc" THEN "done" ELSE "deregister"]
    <3>1. PICK go \in {"done", "deregister"} :
            pc' = [pc EXCEPT ![s] = go] /\ (at[s].kind = "rpc" => go = "done")
      BY <2>5
    <3>2. ~Heard(s, go)
      BY <3>1 DEF Announced, Heard
    <3> QED
      BY <1>1, <2>2, <2>5, <3>1, <3>2, MovesAddr
  <2> QED
    BY <2>3, <2>4, <2>5
<1>4. CASE Stop(s)
  <2>1. /\ pc[s] = "serve" /\ pc' = [pc EXCEPT ![s] = "deregister"] /\ UNCHANGED <<setVars, loop, catalog>>
        /\ listening' = [listening EXCEPT ![s] = NoAddr] \/ listening' = listening
        /\ at[s].run = "tcp" => listening' = listening
    BY <1>4 DEF Stop, Goto
  <2>2. Heard(s, "deregister") => Listens(s)'
    BY <1>2, <2>1 DEF Announced, Heard, Listens, setVars
  <2>3. DOMAIN listening' = Services /\ \A t \in Services : t # s => listening'[t] = listening[t]
    BY <1>1, <2>1
  <2> QED
    BY <1>1, <2>1, <2>2, <2>3, MovesAddr
<1>5. CASE Deregister(s)
  <2>1. PICK to \in {"close", "done"} : pc' = [pc EXCEPT ![s] = to]
    BY <1>5 DEF Deregister, Goto
  <2>2. /\ pc[s] = "deregister" /\ UNCHANGED <<setVars, loop, listening>>
        /\ catalog' = catalog \/ catalog' = [catalog EXCEPT ![s] = NoReg]
    BY <1>5 DEF Deregister
  <2>3. ~Heard(s, to)
    BY DEF Announced, Heard
  <2>4. DOMAIN catalog' = Services
        /\ \A t \in Services : catalog'[t] = catalog[t] \/ (t = s /\ catalog'[t] = NoReg)
    BY <1>1, <2>2
  <2> QED
    BY <1>1, <2>1, <2>2, <2>3, <2>4, MovesAddr
<1>6. CASE Close(s)
  <2>1. /\ pc[s] = "close" /\ pc' = [pc EXCEPT ![s] = "done"] /\ UNCHANGED <<setVars, loop, catalog>>
        /\ listening' = [listening EXCEPT ![s] = NoAddr]
    BY <1>6 DEF Close, Goto
  <2>2. ~Heard(s, "done")
    BY DEF Announced, Heard
  <2>3. DOMAIN listening' = Services /\ \A t \in Services : t # s => listening'[t] = listening[t]
    BY <1>1, <2>1
  <2> QED
    BY <1>1, <2>1, <2>2, <2>3, MovesAddr
<1>7. CASE ConsulClient(s) \/ MakeConsulClient(s) \/ HealthCheck(s) \/ MakeServer(s) \/ Waited(s)
  <2>1. /\ pc[s] \in {"consul", "consul client", "health", "make server", "wait"}
        /\ UNCHANGED <<setVars, listening, loop, catalog>>
    BY <1>7 DEF ConsulClient, MakeConsulClient, HealthCheck, Once, MakeServer, Waited
  <2>2. at[s].kind = "rpc" => Listens(s)'
    BY <1>2, <2>1 DEF Announced, Listens, setVars
  <2>3. \/ UNCHANGED pc
        \/ \E to \in {"consul client", "done", "close", "registration", "health", "make server", "wait"} :
             pc' = [pc EXCEPT ![s] = to]
    BY <1>7 DEF ConsulClient, MakeConsulClient, Registers, HealthCheck, Once, MakeServer, Waited, Goto
  <2>4. CASE UNCHANGED pc
    BY <2>1, <2>4 DEF AddrInv, Ready, Settled, Heard, Listens, setVars
  <2>5. ASSUME NEW to \in {"consul client", "done", "close", "registration", "health", "make server", "wait"},
               pc' = [pc EXCEPT ![s] = to]
        PROVE  AddrInv'
    <3>1. Heard(s, to) => Listens(s)'
      BY <2>2 DEF Heard
    <3> QED
      BY <1>1, <2>1, <2>5, <3>1, MovesAddr
  <2> QED
    BY <2>3, <2>4, <2>5
<1>8. CASE StartLoop(s)
  <2>1. PICK to \in {"listen", "serve"} : pc' = [pc EXCEPT ![s] = to]
    BY <1>8 DEF StartLoop, Goto
  <2>2. /\ pc[s] = "registration" /\ UNCHANGED <<setVars, listening, catalog>>
        /\ loop' = [loop EXCEPT ![s] = "register"]
    BY <1>8 DEF StartLoop
  <2>3. at[s].kind = "rpc" => Listens(s)'
    BY <1>2, <2>2 DEF Announced, Listens, setVars
  <2>4. DOMAIN loop' = Services /\ \A t \in Services : t # s => loop'[t] = loop[t]
    BY <1>1, <2>2
  <2> QED
    BY <1>1, <2>1, <2>2, <2>3, <2>4, MovesAddr DEF Heard
<1> QED
  BY <1>3, <1>4, <1>5, <1>6, <1>7, <1>8

\* Reading the settings: the folds.
LEMMA LoadAddr ==
  ASSUME AddrInv, NEW s \in Services, Load(s)
  PROVE  AddrInv'
<1> DEFINE p == ProgramOf(job[s])
           c == NewConfig(p)
           r == GetConfig(p.src, RegOps(p, c))
<1>1. pc[s] = "start" /\ Ready(s) /\ loop[s] = "off" /\ catalog[s] = NoReg
  BY DEF Load, AddrInv
<1>2. job[s] \in Jobs /\ WellTyped(p)
  BY <1>1, ProgramsAssumption DEF Ready
<1>3. /\ pc' = [pc EXCEPT ![s] = "loaded"] /\ cfg' = [cfg EXCEPT ![s] = c] /\ reg' = [reg EXCEPT ![s] = r]
      /\ UNCHANGED <<job, at, listening, loop, catalog>>
  BY DEF Load, Goto, regVars
<1>4. p.kind \in ServerKinds =>
        /\ r.ServerAddr = c.ServerAddr
        /\ ~(Gives(p, "ServerAddr") /\ Gives(p, "BindAddr")) => c.ServerAddr = c.BindAddr
  <2> SUFFICES ASSUME p.kind \in ServerKinds
               PROVE  /\ r.ServerAddr = c.ServerAddr
                      /\ ~(Gives(p, "ServerAddr") /\ Gives(p, "BindAddr")) => c.ServerAddr = c.BindAddr
    OBVIOUS
  <2> HIDE DEF p
  <2>1. /\ IsList(c.RegOps)
        /\ ~(Gives(p, "ServerAddr") /\ Gives(p, "BindAddr")) => c.ServerAddr = c.BindAddr
    BY <1>2, ConfigSound DEF Kinds
  <2>2. r = GetConfig(p.src, WithServerAddr(c.RegOps, c.ServerAddr))
    BY DEF RegOps
  <2> HIDE DEF c, r
  <2> QED
    BY <2>1, <2>2, LastOptionFixes
<1>5. DOMAIN pc = Services /\ DOMAIN cfg = Services /\ DOMAIN reg = Services
  BY DEF AddrInv
<1>6. pc'[s] = "loaded" /\ cfg'[s] = c /\ reg'[s] = r /\ job' = job
  BY <1>3, <1>5
<1> HIDE DEF c, r
<1>7. Ready(s)'
  BY <1>2, <1>4, <1>6 DEF Ready, p
<1>8. \A t \in Services : t # s => pc'[t] = pc[t] /\ cfg'[t] = cfg[t] /\ reg'[t] = reg[t]
  BY <1>3
<1>9. \A t \in Services : t # s => Ready(t)' = Ready(t)
  BY <1>3, <1>8 DEF Ready
<1>10. /\ DOMAIN pc' = Services /\ DOMAIN cfg' = Services /\ DOMAIN reg' = Services
  BY <1>3, <1>5
<1>11. \A t \in Services : Heard(t, pc[t])' => Listens(t)'
  <2> TAKE t \in Services
  <2>1. CASE t = s
    BY <1>6, <2>1 DEF Heard, Announced
  <2>2. CASE t # s
    BY <1>3, <1>8, <2>2 DEF Heard, Listens, AddrInv
  <2> QED
    BY <2>1, <2>2
<1> QED
  BY <1>1, <1>3, <1>6, <1>7, <1>8, <1>9, <1>10, <1>11 DEF AddrInv, Settled

\* Taking from the settings what the later steps use.
LEMMA RunAddr ==
  ASSUME AddrInv, NEW s \in Services, Run(s)
  PROVE  AddrInv'
<1> DEFINE p == ProgramOf(job[s])
<1>1. pc[s] = "loaded" /\ Ready(s) /\ loop[s] = "off" /\ catalog[s] = NoReg
  BY DEF Run, AddrInv
<1>2. PICK to \in {"listen", "consul", "done"} :
        pc' = [pc EXCEPT ![s] = to] /\ (to = "consul" => p.kind # "rpc")
  BY DEF Run, Goto
<1>3. /\ UNCHANGED <<listening, loop, catalog>>
      /\ job' = [job EXCEPT ![s] = NoJob]
      /\ cfg' = [cfg EXCEPT ![s] = NoCfg] /\ reg' = [reg EXCEPT ![s] = NoCfg]
  BY DEF Run, regVars
<1>4. /\ DOMAIN pc = Services /\ DOMAIN cfg = Services /\ DOMAIN reg = Services
      /\ DOMAIN at = Services /\ DOMAIN job = Services
  BY DEF AddrInv
<1>5. /\ DOMAIN at' = Services /\ \A t \in Services : t # s => at'[t] = at[t]
      /\ at'[s].kind = p.kind /\ at'[s].addr = reg[s].ServerAddr
      /\ at'[s].server = IF p.kind \in ServerKinds THEN cfg[s].ServerAddr ELSE reg[s].ServerAddr
      /\ p.kind \in ServerKinds => at'[s].bind = cfg[s].BindAddr
      /\ at'[s].both <=> Gives(p, "ServerAddr") /\ Gives(p, "BindAddr")
  BY <1>4 DEF Run
<1>6. p.kind \in ServerKinds =>
           /\ reg[s].ServerAddr = cfg[s].ServerAddr
           /\ ~(Gives(p, "ServerAddr") /\ Gives(p, "BindAddr")) => cfg[s].ServerAddr = cfg[s].BindAddr
  BY <1>1 DEF Ready
<1> HIDE DEF p
<1>7. "rpc" \in ServerKinds
  BY DEF ServerKinds
<1>8. Settled(s)'
  BY <1>5, <1>6, <1>7 DEF Settled
<1>9. ~Heard(s, pc[s])'
  BY <1>2, <1>4, <1>5 DEF Announced, Heard
<1>10. pc'[s] \notin {"start", "loaded"}
  BY <1>2, <1>4
<1>11. \A t \in Services : t # s => /\ pc'[t] = pc[t] /\ cfg'[t] = cfg[t] /\ reg'[t] = reg[t]
                                    /\ job'[t] = job[t]
  BY <1>2, <1>3
<1>12. \A t \in Services : t # s => /\ Ready(t)' = Ready(t) /\ Settled(t)' = Settled(t)
                                    /\ Listens(t)' = Listens(t)
                                    /\ Heard(t, pc[t])' = Heard(t, pc[t])
  BY <1>3, <1>5, <1>11 DEF Ready, Settled, Listens, Heard
<1>13. /\ DOMAIN pc' = Services /\ DOMAIN cfg' = Services /\ DOMAIN reg' = Services /\ DOMAIN job' = Services
  BY <1>2, <1>3, <1>4
<1> QED
  BY <1>1, <1>3, <1>5, <1>8, <1>9, <1>10, <1>11, <1>12, <1>13 DEF AddrInv

\* What consul is told is what the settings say.
LEMMA LoopAddr ==
  ASSUME AddrInv, NEW s \in Services, Loop(s) \/ Lose(s)
  PROVE  AddrInv'
<1>1. UNCHANGED <<setVars, pc, listening>>
  BY DEF Loop, Register, Wake, Lose
<1>2. \/ UNCHANGED loop
      \/ loop[s] # "off" /\ \E to \in {"hour", "register"} : loop' = [loop EXCEPT ![s] = to]
  BY DEF Loop, Register, Again, Wake, Lose
<1>3. \/ UNCHANGED catalog
      \/ catalog' = [catalog EXCEPT ![s] = NoReg]
      \/ loop[s] # "off" /\ catalog' = [catalog EXCEPT ![s] = Registration(s)]
  BY DEF Loop, Register, Wake, Lose
<1>4. DOMAIN loop = Services /\ DOMAIN catalog = Services
  BY DEF AddrInv
<1>5. \A t \in Services : \/ catalog'[t] = catalog[t]
                          \/ catalog'[t] = NoReg
                          \/ loop[t] # "off" /\ catalog'[t].addr = at[t].addr
  BY <1>3, <1>4 DEF Registration
<1>6. \A t \in Services : loop'[t] = loop[t] \/ (loop[t] # "off" /\ loop'[t] # "off")
  BY <1>2, <1>4
<1>7. DOMAIN loop' = Services /\ DOMAIN catalog' = Services
  BY <1>2, <1>3, <1>4
<1>8. \A t \in Services : /\ Ready(t)' = Ready(t) /\ Settled(t)' = Settled(t) /\ Listens(t)' = Listens(t)
                          /\ Heard(t, pc[t])' = Heard(t, pc[t])
  BY <1>1 DEF setVars, Ready, Settled, Listens, Heard
<1>9. \A t \in Services : loop[t] # "off" => at[t].addr = at[t].server
  BY DEF AddrInv, Settled
<1> QED
  BY <1>1, <1>5, <1>6, <1>7, <1>8, <1>9 DEF AddrInv, setVars

\* AddrInv is inductive.
LEMMA AddrKept == Spec => []AddrInv
<1>1. Init => AddrInv
  <2> SUFFICES ASSUME Init PROVE AddrInv
    OBVIOUS
  <2>1. DOMAIN job = Services /\ \A s \in Services : job[s] \in Jobs \cup {NoJob}
    BY StartsAssumption DEF Init
  <2>2. \A s \in Services : /\ pc[s] \in {"start", "done"} /\ (pc[s] = "start" => job[s] # NoJob)
                            /\ loop[s] = "off" /\ catalog[s] = NoReg
    BY DEF Init
  <2>3. \A s \in Services : pc[s] = "start" => Ready(s)
    BY <2>1, <2>2 DEF Ready
  <2>4. \A s \in Services : ~Heard(s, pc[s])
    BY <2>2 DEF Announced, Heard
  <2>5. /\ DOMAIN pc = Services /\ DOMAIN loop = Services /\ DOMAIN catalog = Services
        /\ DOMAIN at = Services /\ DOMAIN cfg = Services /\ DOMAIN reg = Services
        /\ DOMAIN listening = Services
    BY DEF Init
  <2> QED
    BY <2>1, <2>2, <2>3, <2>4, <2>5 DEF AddrInv
<1>2. AddrInv /\ [Next]_vars => AddrInv'
  <2> SUFFICES ASSUME AddrInv, [Next]_vars PROVE AddrInv'
    OBVIOUS
  <2>1. CASE UNCHANGED vars \/ ListenAndServe
    BY <2>1 DEF vars, ListenAndServe, setVars, regVars, AddrInv, Ready, Settled, Listens, Heard
  <2>2. ASSUME NEW s \in Services,
               \/ Load(s) \/ Run(s) \/ Listen(s) \/ Stop(s) \/ Deregister(s) \/ Close(s)
               \/ ConsulClient(s) \/ MakeConsulClient(s) \/ HealthCheck(s) \/ MakeServer(s)
               \/ Waited(s) \/ StartLoop(s) \/ Loop(s) \/ Lose(s)
        PROVE  AddrInv'
    BY <2>2, LoadAddr, RunAddr, ServesAddr, LoopAddr
  <2> QED
    BY <2>1, <2>2 DEF Next
<1> QED
  BY <1>1, <1>2, PTL DEF Spec

\* registry.go:154 (RegistryServerWithServerAddr): for every program, environment,
\* set of files and list of options, what consul has of a server is the address of
\* the server's own settings: nothing those of the registry say can change it.
THEOREM AddressIsFixed == Spec => []AddressFixed
<1>1. AddrInv /\ TypeOK => AddressFixed
  BY DEF AddrInv, AddressFixed
<1> QED
  BY <1>1, AddrKept, TypesKept, PTL

\* rpc/server.go:71-94, utils.go:8: an rpc server that consul has listens while it
\* serves; given one address only, where consul sends its clients.  One that accepts
\* tcp connections itself still does until it has deregistered, one that net/http
\* runs does not.
THEOREM AnnouncedIsServed == Spec => []AnnouncedServed
<1>1. AddrInv => AnnouncedServed
  <2> SUFFICES ASSUME AddrInv, NEW s \in Services, catalog[s] # NoReg, at[s].kind = "rpc",
                      pc[s] = "serve" \/ (pc[s] = "deregister" /\ at[s].run = "tcp")
               PROVE  /\ listening[s] # NoAddr
                      /\ ~at[s].both /\ at[s].bind # Nothing => listening[s] = catalog[s].addr
    BY DEF AnnouncedServed
  <2>1. Heard(s, pc[s])
    BY DEF Heard, Announced
  <2>2. Listens(s) /\ Settled(s) /\ catalog[s].addr = at[s].server
    BY <2>1 DEF AddrInv
  <2> QED
    BY <2>2 DEF Listens, Settled, Bound
<1> QED
  BY <1>1, AddrKept, PTL

-----------------------------------------------------------------------------
(***************************************************************************)
(* Which source wins                                                       *)
(***************************************************************************)
\* What f becomes when a source or an option says s.
Said(s, f, old) == IF f \in DOMAIN s THEN s[f] ELSE old

\* Of what is said one after the other: the last that gives f,
IsLast(n, says, f, i) ==
  /\ n \in Nat /\ DOMAIN says = 1 .. n /\ i \in 1 .. n /\ f \in DOMAIN says[i]
  /\ \A j \in 1 .. n : f \in DOMAIN says[j] => j <= i

\* it is Latest;
LEMMA LatestIs ==
  ASSUME NEW n, NEW says, NEW f, NEW default, NEW i, IsLast(n, says, f, i)
  PROVE  Latest(says, f, default) = says[i][f]
<1> USE DEF IsLast
<1> DEFINE by == {j \in DOMAIN says : f \in DOMAIN says[j]}
<1>1. by \in SUBSET (1 .. n) /\ i \in by
  OBVIOUS
<1>2. Max(by) \in by /\ \A j \in by : j <= Max(by)
  <2> HIDE DEF by
  <2> QED
    BY <1>1, MaxOfIndices
<1>3. Max(by) = i
  <2>1. i <= Max(by) /\ Max(by) <= i /\ Max(by) \in 1 .. n
    BY <1>1, <1>2
  <2> HIDE DEF by
  <2> QED
    BY <2>1
<1>4. Latest(says, f, default) = IF by = {} THEN default ELSE says[Max(by)][f]
  BY DEF Latest
<1> HIDE DEF by
<1> QED
  BY <1>1, <1>3, <1>4

\* default if there is none,
LEMMA LatestNone ==
  ASSUME NEW says, NEW f, NEW default, \A i \in DOMAIN says : f \notin DOMAIN says[i]
  PROVE  Latest(says, f, default) = default
BY DEF Latest

\* and one or the other is the case.
LEMMA LatestCases ==
  ASSUME NEW n \in Nat, NEW says, DOMAIN says = 1 .. n, NEW f
  PROVE  (\A i \in 1 .. n : f \notin DOMAIN says[i]) \/ \E i \in 1 .. n : IsLast(n, says, f, i)
<1> DEFINE by == {j \in 1 .. n : f \in DOMAIN says[j]}
<1>1. CASE by # {}
  <2>1. Max(by) \in by /\ \A j \in by : j <= Max(by)
    <3>1. by \in SUBSET (1 .. n)
      OBVIOUS
    <3> HIDE DEF by
    <3> QED
      BY <1>1, <3>1, MaxOfIndices
  <2> DEFINE m == Max(by)
  <2>2. m \in 1 .. n /\ f \in DOMAIN says[m] /\ \A j \in 1 .. n : f \in DOMAIN says[j] => j <= m
    BY <2>1
  <2> HIDE DEF m
  <2> QED
    BY <2>2 DEF IsLast
<1> QED
  BY <1>1

\* A value that changes to what is said is in the end what was said last.
Takes(n, says, f, default, v) ==
  /\ n \in Nat /\ DOMAIN says = 1 .. n
  /\ v[0] = default /\ \A i \in 1 .. n : v[i] = Said(says[i], f, v[i - 1])

\* From any default, however much is said.
LEMMA LastWins ==
  ASSUME NEW n, NEW says, NEW f, NEW default, NEW v, Takes(n, says, f, default, v)
  PROVE  v[n] = Latest(says, f, default)
<1> USE DEF Takes
<1> DEFINE Speaks(i)   == f \in DOMAIN says[i]
           Final(m, i) == Speaks(i) /\ \A j \in 1 .. m : Speaks(j) => j <= i
           T == {m \in Nat : m <= n => \/ (\A i \in 1 .. m : ~Speaks(i)) /\ v[m] = default
                                       \/ \E i \in 1 .. m : Final(m, i) /\ v[m] = says[i][f]}
<1>1. 0 \in T
  OBVIOUS
<1>2. ASSUME NEW m \in Nat, m \in T PROVE m + 1 \in T
  <2> SUFFICES ASSUME m + 1 <= n
               PROVE  \/ (\A i \in 1 .. m + 1 : ~Speaks(i)) /\ v[m + 1] = default
                      \/ \E i \in 1 .. m + 1 : Final(m + 1, i) /\ v[m + 1] = says[i][f]
    OBVIOUS
  <2>1. m + 1 \in 1 .. n /\ (m + 1) - 1 = m
    OBVIOUS
  <2>2. v[m + 1] = Said(says[m + 1], f, v[m])
    BY <2>1
  <2>3. \/ (\A i \in 1 .. m : ~Speaks(i)) /\ v[m] = default
        \/ \E i \in 1 .. m : Final(m, i) /\ v[m] = says[i][f]
    <3>1. m <= n
      BY <2>1
    <3> HIDE DEF Final, Speaks, Takes
    <3> QED
      BY <1>2, <3>1
  <2>4. CASE Speaks(m + 1)
    <3>1. v[m + 1] = says[m + 1][f]
      BY <2>2, <2>4 DEF Said
    <3> HIDE DEF Speaks
    <3>2. Final(m + 1, m + 1) /\ m + 1 \in 1 .. m + 1
      BY <2>4
    <3> QED
      BY <3>1, <3>2
  <2>5. CASE ~Speaks(m + 1)
    <3>1. v[m + 1] = v[m]
      BY <2>2, <2>5 DEF Said
    <3> HIDE DEF Speaks
    <3>2. \A j \in 1 .. m + 1 : Speaks(j) => j \in 1 .. m
      BY <2>5
    <3>3. 1 .. m \subseteq 1 .. m + 1
      OBVIOUS
    <3> QED
      BY <2>3, <3>1, <3>2, <3>3
  <2> QED
    BY <2>4, <2>5
<1> HIDE DEF T
<1>3. n \in T
  BY <1>1, <1>2, NatSetInduction
<1>4. CASE (\A i \in 1 .. n : ~Speaks(i)) /\ v[n] = default
  BY <1>4, LatestNone
<1>5. ASSUME NEW i \in 1 .. n, Final(n, i), v[n] = says[i][f]
      PROVE  v[n] = Latest(says, f, default)
  <2>1. IsLast(n, says, f, i)
    BY <1>5 DEF IsLast
  <2> QED
    BY <1>5, <2>1, LatestIs
<1> QED
  BY <1>3, <1>4, <1>5 DEF T

\* What else is said does not matter once something is.
LEMMA LatestOnly ==
  ASSUME NEW says, NEW f, NEW i \in DOMAIN says, f \in DOMAIN says[i], NEW d, NEW e
  PROVE  Latest(says, f, d) = Latest(says, f, e)
BY DEF Latest

\* What a source or an option says of the fields of a client or a server.
Told(p, k, x) == CASE k = "pem"     -> [f \in {} |-> Nothing]
                   [] k \in Kinds   -> Says(k, x)
                   [] OTHER         -> p.src[x].cfg

\* A certificate is Special, and the name of its file stays.
LEMMA PemSilent ==
  ASSUME NEW p, NEW x, NEW f, NEW old
  PROVE  Said(Told(p, "pem", x), f, old) = old
<1> DEFINE s == Told(p, "pem", x)
<1>1. s = [g \in {} |-> Nothing]
  BY DEF Told, Kinds, ClientKinds, ServerKinds
<1>2. f \notin DOMAIN s
  BY <1>1
<1> HIDE DEF s
<1>3. Said(s, f, old) = old
  BY <1>2 DEF Said
<1> QED
  BY <1>3 DEF s

\* A source that is laid over the settings says what it gives,
LEMMA OverlayTells ==
  ASSUME NEW c, NEW d, NEW f \in DOMAIN c
  PROVE  Overlay(c, d)[f] = Said(d, f, c[f])
BY DEF Overlay, Said

\* and so does a file of a grpc server or client;
LEMMA FileTells ==
  ASSUME NEW c, NEW d, NEW f \in DOMAIN c \ Special
  PROVE  /\ GrpcServerFile(c, d)[f] = Said(d.cfg, f, c[f])
         /\ GrpcClientFile(c, d)[f] = Said(d.cfg, f, c[f])
<1> DEFINE e == Overlay(c, d.cfg)
<1>1. DOMAIN e = DOMAIN c /\ e[f] = Said(d.cfg, f, c[f])
  BY OverlayTells DEF Overlay
<1>2. f \notin {"RegOps", "GRPCDialOps", "GRPCSvrOps"}
  BY DEF Special
<1> HIDE DEF e
<1>3. AppendGRPCServerConfig(e, d.cfg)[f] = e[f]
  BY <1>1, <1>2 DEF AppendGRPCServerConfig
<1> DEFINE g == AppendGRPCConfig(e, d.cfg)
<1>4. DOMAIN g = DOMAIN e /\ g[f] = e[f]
  BY <1>1, <1>2 DEF AppendGRPCConfig
<1> HIDE DEF g
<1>5. [g EXCEPT !.RegOps = Append(@, [of |-> "file", to |-> d])][f] = g[f]
  BY <1>1, <1>2, <1>4
<1> QED
  BY <1>1, <1>3, <1>4, <1>5 DEF GrpcServerFile, GrpcClientFile, e, g

\* an option that reads a certificate sets the name of the file.
LEMMA PemTells ==
  ASSUME NEW c, NEW op, op.of \in Pems, NEW f \in DOMAIN c \ Special
  PROVE  ReadsPem(c, op)[f] = IF f = op.of THEN op.to ELSE c[f]
<1> DEFINE g == PemOf[op.of]
<1>1. g \in Special
  BY DEF Pems, PemOf, Special
<1> HIDE DEF g
<1>2. f # g
  BY <1>1
<1>3. ReadsPem(c, op) = [c EXCEPT ![op.of] = op.to, ![g] = IF op.to \in PemFiles THEN op.to ELSE @]
  BY DEF ReadsPem, g
<1> QED
  BY <1>2, <1>3

\* The header as a whole.
IsHeader(kind, op) == kind = "httpClient" /\ op.of = "Header"

\* An option that names no file and is no header, and is accepted.
LEMMA PlainTells ==
  ASSUME NEW kind, NEW op, op.of # "file", ~IsHeader(kind, op), ~Rejected(kind, op), NEW f, NEW old
  PROVE  Said(Says(kind, op), f, old) = IF f = op.of THEN op.to ELSE old
<1> DEFINE s == Says(kind, op)
<1>1. DOMAIN s = {op.of} /\ s[op.of] = op.to
  BY DEF Says, IsHeader
<1> HIDE DEF s
<1>2. Said(s, f, old) = IF f = op.of THEN op.to ELSE old
  BY <1>1 DEF Said
<1> QED
  BY <1>2 DEF s

\* An option that is not accepted.
LEMMA RejectedTells ==
  ASSUME NEW kind, NEW op, op.of # "file", Rejected(kind, op), NEW f, NEW old
  PROVE  Said(Says(kind, op), f, old) = old
<1> DEFINE s == Says(kind, op)
<1>1. DOMAIN s = {}
  BY DEF Says, Rejected
<1> HIDE DEF s
<1>2. Said(s, f, old) = old
  BY <1>1 DEF Said
<1> QED
  BY <1>2 DEF s

\* An option that adds to a list, sets a field, or reads a certificate.
LEMMA OptionOps ==
  ASSUME NEW kind, NEW op, op.of # "file", ~IsHeader(kind, op), ~Rejected(kind, op), NEW c, NEW f \in DOMAIN c \ Special
  PROVE  /\ Sets(c, op)[f] = Said(Says(kind, op), f, c[f])
         /\ op.of \in Special => Adds(c, op)[f] = Said(Says(kind, op), f, c[f])
         /\ op.of \in Pems => ReadsPem(c, op)[f] = Said(Says(kind, op), f, c[f])
<1>1. Said(Says(kind, op), f, c[f]) = IF f = op.of THEN op.to ELSE c[f]
  BY PlainTells
<1>2. Sets(c, op)[f] = IF f = op.of THEN op.to ELSE c[f]
  BY DEF Sets
<1>3. op.of \in Special => Adds(c, op)[f] = IF f = op.of THEN op.to ELSE c[f]
  BY DEF Adds
<1>4. op.of \in Pems => ReadsPem(c, op)[f] = IF f = op.of THEN op.to ELSE c[f]
  BY PemTells
<1> QED
  BY <1>1, <1>2, <1>3, <1>4

\* Any option of a client or a server,
LEMMA OptionTells ==
  ASSUME NEW k \in Kinds, NEW src, NEW op, NEW c, NEW f \in DOMAIN c \ Special
  PROVE  Apply(k, src, c, op)[f] = Said(Says(k, op), f, c[f])
<1> DEFINE d == Apply(k, src, c, op)
           Lists == {"RegOps", "ConsulTags", "HttpClientOps", "GRPCDialOps", "GRPCSvrOps",
                     "tmpActionMiddlewares"}
<1>1. k \in {"rpcClient", "grpcClient", "httpClient", "rpc", "grpc", "http"}
  BY DEF Kinds, ClientKinds, ServerKinds
<1>2. d = CASE k = "rpcClient"  -> RpcClientOption(c, op)
            [] k = "grpcClient" -> GrpcClientOption(c, op)
            [] k = "httpClient" -> HttpClientOption(c, op)
            [] k = "rpc"        -> RpcServerOption(c, op)
            [] k = "grpc"       -> GrpcServerOption(c, op)
            [] k = "http"       -> HttpServerOption(c, op)
  BY <1>1 DEF Apply
<1> HIDE DEF d
<1> USE DEF RpcServerOption, GrpcServerOption, HttpServerOption, RpcClientOption,
            GrpcClientOption, HttpClientOption
<1>3. CASE op.of = "file"
  <2>1. d \in {Overlay(c, op.to.cfg), GrpcServerFile(c, op.to), GrpcClientFile(c, op.to)}
    BY <1>1, <1>2, <1>3
  <2>2. d[f] = Said(op.to.cfg, f, c[f])
    BY <2>1, OverlayTells, FileTells
  <2>3. Says(k, op) = op.to.cfg
    BY <1>3 DEF Says
  <2> QED
    BY <2>2, <2>3 DEF d
<1>4. CASE op.of # "file" /\ Rejected(k, op)
  <2>1. d = c
    BY <1>2, <1>4 DEF Rejected
  <2> QED
    BY <1>4, <2>1, RejectedTells DEF d
<1>5. CASE op.of # "file" /\ IsHeader(k, op)
  <2>1. d = Overlay(c, WholeHeader(op.to))
    BY <1>2, <1>5 DEF IsHeader
  <2>2. Says(k, op) = WholeHeader(op.to)
    BY <1>5 DEF Says, IsHeader
  <2> QED
    BY <2>1, <2>2, OverlayTells DEF d
<1>6. CASE op.of # "file" /\ ~IsHeader(k, op) /\ ~Rejected(k, op)
  <2>1. Lists \subseteq Special
    BY DEF Special
  <2>2. \/ d = Sets(c, op)
        \/ op.of \in Lists /\ d = Adds(c, op)
        \/ op.of \in Pems /\ d = ReadsPem(c, op)
    BY <1>1, <1>2, <1>6 DEF Rejected, Pems, IsHeader
  <2> HIDE DEF Lists
  <2> QED
    BY <1>6, <2>1, <2>2, OptionOps DEF d
<1> QED
  BY <1>3, <1>4, <1>5, <1>6

\* and whatever a fold applies, change a field to what they say of it.
LEMMA ApplyTells ==
  ASSUME NEW p, NEW k, NEW x, Admits(p, k, x), NEW c, NEW f \in DOMAIN c \ Special
  PROVE  Apply(k, p.src, c, x)[f] = Said(Told(p, k, x), f, c[f])
<1>1. CASE k = "cfg" /\ x \in Files
  <2>1. Apply(k, p.src, c, x) = Overlay(c, p.src[x].cfg) /\ Told(p, k, x) = p.src[x].cfg
    BY <1>1 DEF Apply, GivenIn, Told, Kinds, ClientKinds, ServerKinds
  <2> QED
    BY <2>1, OverlayTells
<1>2. CASE k \in {"grpcFiles", "grpcClientFiles"} /\ x \in Files
  <2>1. k = "grpcFiles" => Apply(k, p.src, c, x) = GrpcServerFile(c, p.src[x])
    BY DEF Apply, GrpcGivenIn
  <2>2. k = "grpcClientFiles" => Apply(k, p.src, c, x) = GrpcClientFile(c, p.src[x])
    BY DEF Apply, GrpcClientGivenIn
  <2>3. Told(p, k, x) = p.src[x].cfg
    BY <1>2 DEF Told, Kinds, ClientKinds, ServerKinds
  <2> QED
    BY <1>2, <2>1, <2>2, <2>3, FileTells
<1>3. CASE k = "pem" /\ x \in Pems
  <2> DEFINE op == [of |-> x, to |-> c[x]]
  <2>1. Apply(k, p.src, c, x) = ReadsPem(c, op) /\ op.of = x /\ op.to = c[x]
    BY <1>3 DEF Apply, PemIn
  <2>2. Said(Told(p, k, x), f, c[f]) = c[f]
    BY <1>3, PemSilent
  <2> HIDE DEF op
  <2>3. ReadsPem(c, op)[f] = IF f = x THEN c[x] ELSE c[f]
    BY <1>3, <2>1, PemTells
  <2> QED
    BY <2>1, <2>2, <2>3
<1>4. CASE k \in Kinds
  <2>1. Told(p, k, x) = Says(k, x)
    BY <1>4 DEF Told, Kinds, ClientKinds, ServerKinds
  <2> QED
    BY <1>4, <2>1, OptionTells
<1> QED
  BY <1>1, <1>2, <1>3, <1>4 DEF Admits

\* A fold over sources or options of p, from sound settings.
Reading(p, k, base, seq, n, h) ==
  /\ WellTyped(p) /\ Sound(p, base) /\ n \in Nat
  /\ \A i \in 1 .. n : Admits(p, k, seq[i])
  /\ Steps(k, p.src, base, seq, n, h)

\* A field changes in each step to what is said of it,
LEMMA StepsTell ==
  ASSUME NEW p, NEW k, NEW base, NEW seq, NEW n, NEW h, Reading(p, k, base, seq, n, h),
         NEW f \in DOMAIN Defaults(p.kind) \ Special, NEW i \in 1 .. n
  PROVE  h[i][f] = Said(Told(p, k, seq[i]), f, h[i - 1][f])
<1> USE DEF Reading
<1> DEFINE m == i - 1
<1>1. m \in Nat /\ m <= n /\ i \in 1 .. n
  OBVIOUS
<1> HIDE DEF m
<1>2. Steps(k, p.src, base, seq, m, h) /\ \A j \in 1 .. m : Admits(p, k, seq[j])
  BY <1>1 DEF Steps
<1>3. Sound(p, h[m])
  BY <1>1, <1>2, StepsSound
<1>4. f \in DOMAIN h[m] \ Special
  BY <1>3 DEF Sound
<1>5. h[i] = Apply(k, p.src, h[m], seq[i])
  BY DEF Steps, m
<1>6. Admits(p, k, seq[i])
  OBVIOUS
<1>7. Apply(k, p.src, h[m], seq[i])[f] = Said(Told(p, k, seq[i]), f, h[m][f])
  BY <1>4, <1>6, ApplyTells
<1> QED
  BY <1>5, <1>7 DEF m

\* and before the files to what the environment says.
LEMMA EnvTells ==
  ASSUME NEW p, WellTyped(p), p.kind \in Kinds, NEW f \in DOMAIN Defaults(p.kind) \ Special
  PROVE  FromEnvironment(p)[f] = Said(Readable(p.src["env"].cfg), f, Defaults(p.kind)[f])
<1> DEFINE env  == p.src["env"].cfg
           read == Readable(env)
           base == FromEnv(Defaults(p.kind), env)
           q == <<"ClientPemFile", "ClientKeyFile">>
           r == <<"ServerPemFile", "ServerKeyFile", "ClientPemFile">>
<1>1. Sound(p, base)
  <2>1. ListFields \cap DOMAIN env = {} /\ \A g \in AddrFields : g \in DOMAIN env => Gives(p, g)
    BY DEF WellTyped, Gives
  <2>2. DOMAIN read \subseteq DOMAIN env
    BY DEF Readable
  <2>3. base = Overlay(Defaults(p.kind), read)
    BY DEF FromEnv
  <2> HIDE DEF base, read, env
  <2> QED
    BY <2>1, <2>2, <2>3, DefaultsSound, OverlaySound
<1>2. base[f] = Said(read, f, Defaults(p.kind)[f])
  BY OverlayTells DEF FromEnv
<1>3. \A x : Said(Told(p, "pem", x), f, base[f]) = base[f]
  BY PemSilent
<1> HIDE DEF base
<1>4. f \in DOMAIN base
  BY <1>1 DEF Sound
<1>5. ReadPems(base, q)[f] = base[f]
  <2>1. DOMAIN q = 1 .. 2 /\ \A i \in 1 .. 2 : q[i] \in Pems
    BY DEF Pems
  <2> HIDE DEF q
  <2>2. ASSUME NEW n \in Nat, DOMAIN q = 1 .. n
        PROVE  \E h : Steps("pem", p.src, base, q, n, h) /\ h[n] = ReadPems(base, q)
    BY <2>2, PemFold
  <2>3. PICK h : Steps("pem", p.src, base, q, 2, h) /\ h[2] = ReadPems(base, q)
    BY <2>1, <2>2
  <2>4. Reading(p, "pem", base, q, 2, h)
    BY <1>1, <2>1, <2>3 DEF Admits, Reading
  <2>5. ASSUME NEW i \in 1 .. 2 PROVE h[i][f] = Said(Told(p, "pem", q[i]), f, h[i - 1][f])
    BY <2>4, StepsTell
  <2>6. h[0] = base
    BY <2>3 DEF Steps
  <2>7. h[1][f] = base[f]
    BY <1>3, <2>5, <2>6
  <2>8. h[2][f] = base[f]
    BY <1>3, <2>5, <2>7
  <2> QED
    BY <2>3, <2>8
<1>6. ReadPems(base, r)[f] = base[f]
  <2>1. DOMAIN r = 1 .. 3 /\ \A i \in 1 .. 3 : r[i] \in Pems
    BY DEF Pems
  <2> HIDE DEF r
  <2>2. ASSUME NEW n \in Nat, DOMAIN r = 1 .. n
        PROVE  \E h : Steps("pem", p.src, base, r, n, h) /\ h[n] = ReadPems(base, r)
    BY <2>2, PemFold
  <2>3. PICK h : Steps("pem", p.src, base, r, 3, h) /\ h[3] = ReadPems(base, r)
    BY <2>1, <2>2
  <2>4. Reading(p, "pem", base, r, 3, h)
    BY <1>1, <2>1, <2>3 DEF Admits, Reading
  <2>5. ASSUME NEW i \in 1 .. 3 PROVE h[i][f] = Said(Told(p, "pem", r[i]), f, h[i - 1][f])
    BY <2>4, StepsTell
  <2>6. h[0] = base
    BY <2>3 DEF Steps
  <2>7. h[1][f] = base[f]
    BY <1>3, <2>5, <2>6
  <2>8. h[2][f] = base[f]
    BY <1>3, <2>5, <2>7
  <2>9. h[3][f] = base[f]
    BY <1>3, <2>5, <2>8
  <2> QED
    BY <2>3, <2>9
<1>7. /\ AppendGRPCConfig(base, EnvLibrary(env))[f] = base[f]
      /\ AppendGRPCServerConfig(base, EnvLibrary(env))[f] = base[f]
  BY <1>4 DEF AppendGRPCConfig, AppendGRPCServerConfig, Special
<1>8. FromEnvironment(p)[f] = base[f]
  BY <1>5, <1>6, <1>7 DEF FromEnvironment, base
<1> QED
  BY <1>2, <1>8

\* A value that the environment, the files and the options set, one after the other.
Follow(n, given, says, f, default, g, h) ==
  /\ DOMAIN given = 1 .. 4 /\ g[0] = Said(given[1], f, default)
  /\ \A i \in 1 .. 3 : g[i] = Said(given[i + 1], f, g[i - 1])
  /\ Takes(n, says, f, g[3], h)

\* It is in the end what the last option, else the last source, says.
LEMMA SettingWins ==
  ASSUME NEW n, NEW given, NEW says, NEW f, NEW default, NEW g, NEW h,
         Follow(n, given, says, f, default, g, h)
  PROVE  h[n] = Latest(says, f, Latest(given, f, default))
<1> USE DEF Follow
<1>1. g[3] = Latest(given, f, default)
  <2> DEFINE v == [i \in 0 .. 4 |-> IF i = 0 THEN default ELSE g[i - 1]]
  <2>1. v[0] = default /\ v[1] = g[0] /\ v[4] = g[3] /\ \A i \in 1 .. 3 : v[i] = g[i - 1] /\ v[i + 1] = g[i]
    OBVIOUS
  <2> HIDE DEF v
  <2>2. v[1] = Said(given[1], f, v[0])
    BY <2>1
  <2>3. \A i \in 1 .. 3 : v[i + 1] = Said(given[i + 1], f, v[i])
    BY <2>1
  <2>4. \A i \in 1 .. 4 : i = 1 \/ (i - 1 \in 1 .. 3 /\ (i - 1) + 1 = i)
    OBVIOUS
  <2>5. 4 \in Nat /\ \A i \in 1 .. 4 : v[i] = Said(given[i], f, v[i - 1])
    BY <2>2, <2>3, <2>4
  <2>6. Takes(4, given, f, default, v)
    BY <2>1, <2>5 DEF Takes
  <2>7. v[4] = Latest(given, f, default)
    BY <2>6, LastWins
  <2> QED
    BY <2>1, <2>7
<1>2. h[n] = Latest(says, f, g[3])
  BY LastWins
<1> QED
  BY <1>1, <1>2

\* docs/rpc/client: every field of every client and server.
LEMMA ConfigTells ==
  ASSUME NEW p, WellTyped(p), p.kind \in Kinds
  PROVE  CfgRight(p, NewConfig(p))
<1> SUFFICES ASSUME NEW f \in DOMAIN NewConfig(p) \ Special
             PROVE  NewConfig(p)[f] =
                      Latest([i \in DOMAIN p.ops |-> Says(p.kind, p.ops[i])], f,
                        Latest(GivenBy(p.src, "cfg", CfgOrder), f, Defaults(p.kind)[f]))
  BY DEF CfgRight
<1> DEFINE N == Len(p.ops)
           c == NewConfig(p)
           a == FromEnvironment(p)
           d == Defaults(p.kind)[f]
           given == GivenBy(p.src, "cfg", CfgOrder)
           says == [i \in DOMAIN p.ops |-> Says(p.kind, p.ops[i])]
<1>1. PICK g, h : /\ Steps(FilesOf(p.kind), p.src, a, FileOrder, 3, g)
                  /\ Steps(p.kind, p.src, g[3], p.ops, N, h)
                  /\ c = Finished(p, h[N])
  BY ConfigRead
<1>2. Sound(p, a) /\ Sound(p, g[3]) /\ Sound(p, h[N])
  BY <1>1, EnvSound, FilesSound, OptionsSound
<1>3. N \in Nat /\ DOMAIN p.ops = 1 .. N
  BY OptionsAreListed
<1> HIDE DEF c, N
<1>4. DOMAIN c = DOMAIN h[N] /\ \A x \in DOMAIN h[N] \ {"ActionMiddlewares", "ServerAddr", "BindAddr"} :
                                  c[x] = h[N][x]
  BY <1>1, <1>2, FinishedSame
<1>5. f \in DOMAIN Defaults(p.kind) \ Special /\ f \in DOMAIN h[N]
  BY <1>2, <1>4 DEF Sound, c
<1>6. c[f] = h[N][f]
  BY <1>4, <1>5 DEF Special
<1>7. DOMAIN given = 1 .. 4 /\ \A i \in 1 .. 3 : given[i + 1] = p.src[FileOrder[i]].cfg
  BY DEF GivenBy, CfgOrder, FileOrder
<1>8. given[1] = Readable(p.src["env"].cfg)
  BY DEF GivenBy, CfgOrder
<1>9. ASSUME NEW i \in 1 .. 3 PROVE g[i][f] = Said(given[i + 1], f, g[i - 1][f])
  <2>1. \A j \in 1 .. 3 : FileOrder[j] \in Files
    BY DEF FileOrder, Files
  <2>2. \A j \in 1 .. 3 : Admits(p, FilesOf(p.kind), FileOrder[j])
    BY <2>1 DEF Admits, FilesOf
  <2>3. Reading(p, FilesOf(p.kind), a, FileOrder, 3, g)
    BY <1>1, <1>2, <2>2 DEF Reading
  <2>4. g[i][f] = Said(Told(p, FilesOf(p.kind), FileOrder[i]), f, g[i - 1][f])
    BY <1>5, <2>3, StepsTell
  <2>5. Told(p, FilesOf(p.kind), FileOrder[i]) = p.src[FileOrder[i]].cfg
    BY DEF Told, FilesOf, Kinds, ClientKinds, ServerKinds
  <2> QED
    BY <1>7, <2>4, <2>5
<1>10. g[0][f] = Said(given[1], f, d)
  BY <1>1, <1>5, <1>8, EnvTells DEF Steps
<1>11. ASSUME NEW i \in 1 .. N PROVE h[i][f] = Said(says[i], f, h[i - 1][f])
  <2>1. Reading(p, p.kind, g[3], p.ops, N, h)
    BY <1>1, <1>2, <1>3 DEF Admits, Reading
  <2>2. h[i][f] = Said(Told(p, p.kind, p.ops[i]), f, h[i - 1][f])
    BY <1>5, <2>1, StepsTell
  <2>3. Told(p, p.kind, p.ops[i]) = Says(p.kind, p.ops[i])
    BY DEF Told, Kinds, ClientKinds, ServerKinds
  <2> QED
    BY <1>3, <2>2, <2>3
<1>12. DOMAIN says = 1 .. N /\ h[0] = g[3]
  BY <1>1, <1>3 DEF Steps
<1> DEFINE u == [i \in 0 .. 3 |-> g[i][f]]
           v == [i \in 0 .. N |-> h[i][f]]
<1> HIDE DEF given, d, says
<1>13. Follow(N, given, says, f, d, u, v)
  BY <1>3, <1>7, <1>9, <1>10, <1>11, <1>12 DEF Follow, Takes
<1>14. v[N] = h[N][f]
  BY <1>3
<1> HIDE DEF u, v
<1>15. v[N] = Latest(says, f, Latest(given, f, d))
  BY <1>13, SettingWins
<1> QED
  BY <1>6, <1>14, <1>15 DEF c, given, d, says

\* The registry: its files, and options that name one or set a field.
LEMMA RegTells ==
  ASSUME NEW src, NEW c, NEW x, NEW f \in DOMAIN c
  PROVE  /\ Apply("reg", src, c, x)[f] = Said(src[x]["reg"], f, c[f])
         /\ Apply("registry", src, c, x)[f] = Said(RegSays(x), f, c[f])
<1>1. Apply("reg", src, c, x)[f] = Said(src[x]["reg"], f, c[f])
  BY OverlayTells DEF Apply, GivenIn
<1>2. Apply("registry", src, c, x) = RegOption(c, x)
  BY DEF Apply
<1>3. CASE x.of = "file"
  <2>1. RegOption(c, x) = Overlay(c, x.to.reg) /\ RegSays(x) = x.to.reg
    BY <1>3 DEF RegOption, RegSays
  <2> QED
    BY <1>1, <1>2, <2>1, OverlayTells
<1>4. CASE x.of # "file"
  <2> DEFINE s == RegSays(x)
  <2>1. DOMAIN s = {x.of} /\ s[x.of] = x.to
    BY <1>4 DEF RegSays
  <2>2. RegOption(c, x)[f] = IF f = x.of THEN x.to ELSE c[f]
    BY <1>4 DEF RegOption, Sets
  <2> HIDE DEF s
  <2>3. Said(s, f, c[f]) = IF f = x.of THEN x.to ELSE c[f]
    BY <2>1 DEF Said
  <2> QED
    BY <1>1, <1>2, <2>2, <2>3 DEF s
<1> QED
  BY <1>1, <1>3, <1>4

\* GetConfig, field by field: the environment, five files, the options.
RegFollow(src, ops, f, g, h) ==
  /\ g[0] = Said(Readable(src["env"]["reg"]), f, RegistryDefaults[f])
  /\ \A i \in 1 .. 5 : g[i] = Said(src[RegFileOrder[i]]["reg"], f, g[i - 1])
  /\ Takes(Len(ops), [i \in DOMAIN ops |-> RegSays(ops[i])], f, g[5], h)

\* Every setting of a registry but the Special ones follows its sources and options.
LEMMA GetConfigTells ==
  ASSUME NEW src, NEW ops, IsList(ops), NEW f \in DOMAIN RegistryDefaults \ Special
  PROVE  /\ DOMAIN GetConfig(src, ops) = DOMAIN RegistryDefaults
         /\ \E g, h : RegFollow(src, ops, f, g, h) /\ GetConfig(src, ops)[f] = h[Len(ops)]
<1> DEFINE N == Len(ops)
           a == FromEnv(RegistryDefaults, src["env"].reg)
           b == ReadFiles(a, RegFileOrder, "reg", src)
           c == [b EXCEPT !.WaitTime = ConsulWaitTime]
           d == FoldLeft(RegOption, c, ops)
<1>1. N \in Nat /\ DOMAIN ops = 1 .. N
  BY ListDomain
<1>2. GetConfig(src, ops) = Reset(d, "HealthCheckAddr", "HealthCheckBindAddr")
  BY DEF GetConfig
<1>3. DOMAIN a = DOMAIN RegistryDefaults
      /\ a[f] = Said(Readable(src["env"]["reg"]), f, RegistryDefaults[f])
  <2>1. a = Overlay(RegistryDefaults, Readable(src["env"]["reg"]))
    BY DEF FromEnv
  <2>2. DOMAIN a = DOMAIN RegistryDefaults
    BY DEF FromEnv, Overlay
  <2> QED
    BY <2>1, <2>2, OverlayTells
<1> HIDE DEF a, N
<1>4. PICK g : Steps("reg", src, a, RegFileOrder, 5, g) /\ g[5] = b
  <2>1. DOMAIN RegFileOrder = 1 .. 5
    BY DEF RegFileOrder, FileOrder
  <2> QED
    BY <2>1, FilesFold
<1>5. \A i \in 0 .. 5 : DOMAIN g[i] = DOMAIN RegistryDefaults
  <2>1. ASSUME NEW n \in Nat, Steps("reg", src, a, RegFileOrder, n, g)
        PROVE  \A i \in 0 .. n : DOMAIN g[i] = DOMAIN a
    BY <2>1, RegistrySteps
  <2> QED
    BY <1>3, <1>4, <2>1
<1>6. DOMAIN b = DOMAIN RegistryDefaults
  BY <1>4, <1>5
<1> HIDE DEF b
<1>7. DOMAIN c = DOMAIN RegistryDefaults /\ c[f] = b[f]
  BY <1>6 DEF Special
<1> HIDE DEF c
<1>8. PICK h : Steps("registry", src, c, ops, N, h) /\ h[N] = d
  BY <1>1, RegistryFold
<1>9. \A i \in 0 .. N : DOMAIN h[i] = DOMAIN RegistryDefaults
  BY <1>1, <1>7, <1>8, RegistrySteps
<1> HIDE DEF d
<1>10. DOMAIN d = DOMAIN RegistryDefaults
  BY <1>1, <1>8, <1>9
<1>11. DOMAIN GetConfig(src, ops) = DOMAIN d /\ GetConfig(src, ops)[f] = d[f]
  BY <1>2, <1>10 DEF Reset, Special
<1> DEFINE u == [i \in 0 .. 5 |-> g[i][f]]
           v == [i \in 0 .. N |-> h[i][f]]
<1>12. ASSUME NEW i \in 1 .. 5 PROVE u[i] = Said(src[RegFileOrder[i]]["reg"], f, u[i - 1])
  <2>3. g[i] = Apply("reg", src, g[i - 1], RegFileOrder[i])
    BY <1>4 DEF Steps
  <2>4. f \in DOMAIN g[i - 1]
    BY <1>5
  <2>5. g[i][f] = Said(src[RegFileOrder[i]]["reg"], f, g[i - 1][f])
    BY <2>3, <2>4, RegTells
  <2> QED
    BY <2>5
<1> DEFINE says == [i \in DOMAIN ops |-> RegSays(ops[i])]
<1>13. ASSUME NEW i \in 1 .. N PROVE v[i] = Said(says[i], f, v[i - 1])
  <2>1. h[i] = Apply("registry", src, h[i - 1], ops[i])
    BY <1>8 DEF Steps
  <2>2. f \in DOMAIN h[i - 1]
    BY <1>1, <1>9
  <2>3. h[i][f] = Said(RegSays(ops[i]), f, h[i - 1][f])
    BY <2>1, <2>2, RegTells
  <2> QED
    BY <1>1, <2>3
<1>14. /\ u[0] = Said(Readable(src["env"]["reg"]), f, RegistryDefaults[f])
       /\ v[0] = u[5]
  BY <1>1, <1>3, <1>4, <1>7, <1>8 DEF Steps
<1>15. v[N] = d[f]
  BY <1>1, <1>8
<1>16. DOMAIN says = 1 .. N
  BY <1>1
<1> HIDE DEF u, v, says
<1>17. Takes(N, says, f, u[5], v)
  BY <1>1, <1>13, <1>14, <1>16 DEF Takes
<1>18. RegFollow(src, ops, f, u, v)
  BY <1>12, <1>14, <1>17 DEF RegFollow, N, says
<1> QED
  BY <1>10, <1>11, <1>15, <1>18 DEF N


\* What the environment and the files leave, of a server and of clients but grpc's.
LEMMA RegFilesWin ==
  ASSUME NEW src, NEW ops, NEW f, NEW g, NEW h, RegFollow(src, ops, f, g, h),
         NEW kind, kind # "grpcClient"
  PROVE  g[5] = Latest(GivenBy(src, "reg", RegOrder(kind)), f, RegistryDefaults[f])
<1> USE DEF RegFollow
<1> DEFINE d == RegistryDefaults[f]
           given == GivenBy(src, "reg", RegOrder(kind))
           v == [i \in 0 .. 6 |-> IF i = 0 THEN d ELSE g[i - 1]]
<1>1. v[0] = d /\ v[1] = g[0] /\ v[6] = g[5] /\ \A i \in 1 .. 5 : v[i] = g[i - 1] /\ v[i + 1] = g[i]
  OBVIOUS
<1>2. DOMAIN given = 1 .. 6 /\ given[1] = Readable(src["env"]["reg"])
  BY DEF GivenBy, RegOrder
<1>3. \A i \in 1 .. 5 : given[i + 1] = src[RegFileOrder[i]]["reg"]
  BY DEF GivenBy, RegOrder, RegFileOrder, FileOrder
<1>4. v[1] = Said(given[1], f, v[0])
  BY <1>1, <1>2
<1> HIDE DEF v, given
<1>5. \A i \in 1 .. 5 : v[i + 1] = Said(given[i + 1], f, v[i])
  BY <1>1, <1>3
<1>6. \A i \in 1 .. 6 : i = 1 \/ (i - 1 \in 1 .. 5 /\ (i - 1) + 1 = i)
  OBVIOUS
<1>7. 6 \in Nat /\ \A i \in 1 .. 6 : v[i] = Said(given[i], f, v[i - 1])
  BY <1>1, <1>4, <1>5, <1>6
<1>8. Takes(6, given, f, d, v)
  BY <1>1, <1>2, <1>7 DEF Takes
<1>9. v[6] = Latest(given, f, d)
  BY <1>8, LastWins
<1> QED
  BY <1>1, <1>9 DEF given

\* For a client of grpc, fields that its files do not give to the registry.
LEMMA GrpcRegFilesWin ==
  ASSUME NEW src, NEW ops, NEW f, NEW g, NEW h, RegFollow(src, ops, f, g, h),
         \A n \in Files : f \notin DOMAIN src[n]["reg"]
  PROVE  g[5] = Latest(GivenBy(src, "reg", RegOrder("grpcClient")), f, RegistryDefaults[f])
<1> USE DEF RegFollow
<1> DEFINE d == RegistryDefaults[f]
           given == GivenBy(src, "reg", RegOrder("grpcClient"))
           v == [i \in 0 .. 6 |-> IF i = 0 THEN d ELSE IF i = 1 THEN g[0]
                                  ELSE IF i = 2 THEN g[4] ELSE g[5]]
<1>1. /\ RegFileOrder[1] = "path" /\ RegFileOrder[2] = "toml" /\ RegFileOrder[3] = "json"
      /\ RegFileOrder[4] = "registry.json" /\ RegFileOrder[5] = "registry.toml"
  BY DEF RegFileOrder, FileOrder
<1>2. \A n \in Files : \A old : Said(src[n]["reg"], f, old) = old
  BY DEF Said
<1>3. g[1] = g[0] /\ g[2] = g[1] /\ g[3] = g[2]
  BY <1>1, <1>2 DEF Files
<1>4. g[4] = Said(src["registry.json"]["reg"], f, g[0]) /\ g[5] = Said(src["registry.toml"]["reg"], f, g[4])
  BY <1>1, <1>3
<1>5. /\ DOMAIN given = 1 .. 6 /\ given[1] = Readable(src["env"]["reg"])
      /\ given[2] = src["registry.json"]["reg"] /\ given[3] = src["registry.toml"]["reg"]
      /\ given[4] = src["path"]["reg"] /\ given[5] = src["toml"]["reg"] /\ given[6] = src["json"]["reg"]
  BY DEF GivenBy, RegOrder
<1>6. v[0] = d /\ v[1] = g[0] /\ v[2] = g[4] /\ v[3] = g[5] /\ v[4] = g[5] /\ v[5] = g[5] /\ v[6] = g[5]
  OBVIOUS
<1> HIDE DEF v, given
<1>7. \A i \in 1 .. 6 : i \in {1, 2, 3, 4, 5, 6}
  OBVIOUS
<1>8. /\ v[1] = Said(given[1], f, v[0]) /\ v[2] = Said(given[2], f, v[1]) /\ v[3] = Said(given[3], f, v[2])
      /\ v[4] = Said(given[4], f, v[3]) /\ v[5] = Said(given[5], f, v[4]) /\ v[6] = Said(given[6], f, v[5])
  BY <1>2, <1>4, <1>5, <1>6 DEF Files
<1>9. 6 \in Nat /\ \A i \in 1 .. 6 : v[i] = Said(given[i], f, v[i - 1])
  BY <1>7, <1>8
<1>10. Takes(6, given, f, d, v)
  BY <1>5, <1>6, <1>9 DEF Takes
<1>11. v[6] = Latest(given, f, d)
  BY <1>10, LastWins
<1> QED
  BY <1>6, <1>11 DEF given

\* What a list with another behind it is,
LEMMA ListConcatFacts ==
  ASSUME NEW a, NEW b, IsList(a), IsList(b)
  PROVE  /\ Len(a) \in Nat /\ Len(b) \in Nat /\ DOMAIN a = 1 .. Len(a) /\ DOMAIN b = 1 .. Len(b)
         /\ DOMAIN (a \o b) = 1 .. Len(a) + Len(b)
         /\ \A i \in 1 .. Len(a) : (a \o b)[i] = a[i]
         /\ \A i \in 1 .. Len(b) : (a \o b)[Len(a) + i] = b[i]
<1> DEFINE S == Range(a) \cup Range(b)
<1>1. a \in Seq(S) /\ b \in Seq(S)
  <2>1. a \in Seq(Range(a)) /\ b \in Seq(Range(b))
    BY DEF IsList
  <2>2. Range(a) \subseteq S /\ Range(b) \subseteq S
    OBVIOUS
  <2> HIDE DEF S
  <2> QED
    BY <2>1, <2>2
<1> HIDE DEF S
<1> QED
  BY <1>1

\* and that it has the elements of both.
LEMMA ListKeeps ==
  ASSUME NEW a, NEW b, IsList(a), IsList(b)
  PROVE  Range(a) \subseteq Range(a \o b) /\ Range(b) \subseteq Range(a \o b)
<1> DEFINE c == a \o b
           n == Len(a)
           m == Len(b)
<1>1. /\ n \in Nat /\ m \in Nat /\ DOMAIN a = 1 .. n /\ DOMAIN b = 1 .. m
      /\ DOMAIN c = 1 .. n + m
      /\ \A i \in 1 .. n : c[i] = a[i]
      /\ \A i \in 1 .. m : c[n + i] = b[i]
  BY ListConcatFacts
<1> HIDE DEF c, n, m
<1>2. \A i \in 1 .. n : i \in 1 .. n + m
  BY <1>1
<1>3. \A i \in 1 .. m : n + i \in 1 .. n + m
  BY <1>1
<1> QED
  BY <1>1, <1>2, <1>3 DEF Range, c

\* What Append does to a list.
LEMMA ListAppendFacts ==
  ASSUME NEW a, NEW x, IsList(a)
  PROVE  /\ Len(a) \in Nat /\ DOMAIN a = 1 .. Len(a)
         /\ Len(Append(a, x)) = Len(a) + 1 /\ DOMAIN Append(a, x) = 1 .. Len(a) + 1
         /\ \A i \in 1 .. Len(a) : Append(a, x)[i] = a[i]
         /\ Append(a, x)[Len(a) + 1] = x
<1> DEFINE S == Range(a) \cup {x}
<1>1. a \in Seq(S) /\ x \in S
  <2>1. a \in Seq(Range(a)) /\ Range(a) \subseteq S
    BY DEF IsList
  <2> QED
    BY <2>1
<1> HIDE DEF S
<1> QED
  BY <1>1

\* Append keeps the elements of a list and adds its own.
LEMMA ListAppendKeeps ==
  ASSUME NEW a, NEW x, IsList(a)
  PROVE  Range(a) \subseteq Range(Append(a, x)) /\ x \in Range(Append(a, x))
BY ListAppendFacts DEF Range

\* A file of a client of grpc is an option of its registry from then on.
FileOp(file) == [of |-> "file", to |-> file]

\* The settings after the file have both,
LEMMA FileIsOption ==
  ASSUME NEW c, "RegOps" \in DOMAIN c, IsList(c["RegOps"]), NEW d, "RegOps" \notin DOMAIN d.cfg
  PROVE  /\ Range(c["RegOps"]) \subseteq Range(GrpcClientFile(c, d)["RegOps"])
         /\ FileOp(d) \in Range(GrpcClientFile(c, d)["RegOps"])
<1> DEFINE e == AppendGRPCConfig(Overlay(c, d.cfg), d.cfg)
<1>1. "RegOps" \in DOMAIN e /\ e["RegOps"] = c["RegOps"]
  BY DEF AppendGRPCConfig, Overlay
<1>2. GrpcClientFile(c, d) = [e EXCEPT !.RegOps = Append(@, FileOp(d))]
  BY DEF GrpcClientFile, FileOp
<1> HIDE DEF e
<1>3. GrpcClientFile(c, d)["RegOps"] = Append(c["RegOps"], FileOp(d))
  BY <1>1, <1>2
<1> QED
  BY <1>3, ListAppendKeeps

\* as have those after any file and any option,
LEMMA RegOpsKept ==
  ASSUME NEW p, WellTyped(p), p.kind = "grpcClient", NEW c, Sound(p, c),
         NEW k \in {"grpcClientFiles", "grpcClient"}, NEW x, Admits(p, k, x)
  PROVE  /\ Range(c["RegOps"]) \subseteq Range(Apply(k, p.src, c, x)["RegOps"])
         /\ k = "grpcClientFiles" => FileOp(p.src[x]) \in Range(Apply(k, p.src, c, x)["RegOps"])
<1>1. "RegOps" \in DOMAIN c /\ IsList(c["RegOps"])
  BY DEF Sound, Defaults, GrpcClientDefaults, ListFields
<1>2. CASE k = "grpcClientFiles"
  <2>1. x \in Files
    BY <1>2 DEF Admits, Kinds, ClientKinds, ServerKinds
  <2>2. "RegOps" \notin DOMAIN p.src[x].cfg
    BY <2>1 DEF WellTyped, Files, ListFields
  <2>3. Apply(k, p.src, c, x) = GrpcClientFile(c, p.src[x])
    BY <1>2 DEF Apply, GrpcClientGivenIn
  <2> QED
    BY <1>1, <2>2, <2>3, FileIsOption
<1>3. CASE k = "grpcClient"
  <2>1. PICK i \in DOMAIN p.ops : x = p.ops[i]
    BY <1>3 DEF Admits, Kinds, ClientKinds, ServerKinds
  <2>2. /\ x.of = "file" => "RegOps" \notin DOMAIN x.to.cfg
        /\ x.of = "RegOps" => IsList(x.to)
    BY <2>1 DEF WellTyped, ListFields
  <2> DEFINE e == Apply(k, p.src, c, x)
  <2>3. e = GrpcClientOption(c, x)
    BY <1>3 DEF Apply
  <2> HIDE DEF e
  <2>4. CASE x.of = "file"
    <3>1. e = GrpcClientFile(c, x.to)
      BY <2>3, <2>4 DEF GrpcClientOption
    <3>2. Range(c["RegOps"]) \subseteq Range(GrpcClientFile(c, x.to)["RegOps"])
      BY <1>1, <2>2, <2>4, FileIsOption
    <3> QED
      BY <1>3, <3>1, <3>2 DEF e
  <2>5. CASE x.of = "RegOps"
    <3>1. e["RegOps"] = c["RegOps"] \o x.to
      BY <1>1, <2>3, <2>5 DEF GrpcClientOption, Adds
    <3>2. Range(c["RegOps"]) \subseteq Range(c["RegOps"] \o x.to)
      BY <1>1, <2>2, <2>5, ListKeeps
    <3> QED
      BY <1>3, <3>1, <3>2 DEF e
  <2>6. CASE x.of \notin {"file", "RegOps"}
    <3>1. e["RegOps"] = c["RegOps"]
      BY <1>1, <2>3, <2>6 DEF GrpcClientOption, Adds, Sets
    <3> QED
      BY <1>3, <3>1 DEF e
  <2> QED
    BY <2>4, <2>5, <2>6
<1> QED
  BY <1>2, <1>3

\* A step of a fold, with what it starts from.
LEMMA StepSound ==
  ASSUME NEW p, NEW k, NEW base, NEW seq, NEW n, NEW h, Reading(p, k, base, seq, n, h), NEW i \in 1 .. n
  PROVE  Sound(p, h[i - 1]) /\ h[i] = Apply(k, p.src, h[i - 1], seq[i]) /\ Admits(p, k, seq[i])
<1> USE DEF Reading
<1> DEFINE m == i - 1
<1>1. m \in Nat /\ m <= n /\ i \in 1 .. n
  OBVIOUS
<1> HIDE DEF m
<1>2. Steps(k, p.src, base, seq, m, h) /\ \A j \in 1 .. m : Admits(p, k, seq[j])
  BY <1>1 DEF Steps
<1>3. Sound(p, h[m])
  BY <1>1, <1>2, StepsSound
<1>4. h[i] = Apply(k, p.src, h[i - 1], seq[i])
  BY DEF Steps
<1> QED
  BY <1>3, <1>4 DEF m

\* A fold over the files or the options of a grpc client.
ReadingClient(p, k, base, seq, n, h) ==
  p.kind = "grpcClient" /\ k \in {"grpcClientFiles", "grpcClient"} /\ Reading(p, k, base, seq, n, h)

\* and those after however many,
LEMMA StepsKeepRegOps ==
  ASSUME NEW p, NEW k, NEW base, NEW seq, NEW n, NEW h, ReadingClient(p, k, base, seq, n, h)
  PROVE  Range(base["RegOps"]) \subseteq Range(h[n]["RegOps"])
<1> USE DEF Reading, ReadingClient
<1> DEFINE T == {m \in Nat : m <= n => Range(base["RegOps"]) \subseteq Range(h[m]["RegOps"])}
<1>1. 0 \in T
  BY DEF Steps
<1>2. ASSUME NEW m \in Nat, m \in T PROVE m + 1 \in T
  <2> SUFFICES ASSUME m + 1 <= n PROVE Range(base["RegOps"]) \subseteq Range(h[m + 1]["RegOps"])
    OBVIOUS
  <2>1. m + 1 \in 1 .. n /\ (m + 1) - 1 = m /\ m <= n
    OBVIOUS
  <2>2. Range(base["RegOps"]) \subseteq Range(h[m]["RegOps"])
    BY <1>2, <2>1
  <2> HIDE DEF T, Reading, ReadingClient
  <2>3. Sound(p, h[m]) /\ h[m + 1] = Apply(k, p.src, h[m], seq[m + 1]) /\ Admits(p, k, seq[m + 1])
    BY <2>1, StepSound DEF ReadingClient
  <2>4. Range(h[m]["RegOps"]) \subseteq Range(h[m + 1]["RegOps"])
    BY <2>3, RegOpsKept DEF Reading, ReadingClient
  <2> QED
    BY <2>2, <2>4
<1> HIDE DEF T
<1>3. n \in T
  BY <1>1, <1>2, NatSetInduction
<1> QED
  BY <1>3 DEF T

\* and so the registry reads each of the three files a second time, as an option.
LEMMA FilesAreOptions ==
  ASSUME NEW p, WellTyped(p), p.kind = "grpcClient", NEW x \in Files
  PROVE  FileOp(p.src[x]) \in Range(NewConfig(p)["RegOps"])
<1> DEFINE N == Len(p.ops)
           c == NewConfig(p)
           a == FromEnvironment(p)
<1>0. p.kind \in Kinds
  BY DEF Kinds, ClientKinds
<1>1. PICK g, h : /\ Steps(FilesOf(p.kind), p.src, a, FileOrder, 3, g)
                  /\ Steps(p.kind, p.src, g[3], p.ops, N, h)
                  /\ c = Finished(p, h[N])
  BY <1>0, ConfigRead
<1>2. Sound(p, a) /\ Sound(p, g[3]) /\ Sound(p, h[N])
  BY <1>0, <1>1, EnvSound, FilesSound, OptionsSound
<1>3. N \in Nat /\ DOMAIN p.ops = 1 .. N
  BY OptionsAreListed
<1> HIDE DEF c, N, a
<1>4. c["RegOps"] = h[N]["RegOps"]
  <2>1. "RegOps" \in DOMAIN h[N]
    BY <1>2 DEF Sound, Defaults, GrpcClientDefaults
  <2> DEFINE d == h[N]
  <2>2. Sound(p, d) /\ "RegOps" \in DOMAIN d /\ c = Finished(p, d)
    BY <1>1, <1>2, <2>1
  <2> HIDE DEF d
  <2>3. Finished(p, d)["RegOps"] = d["RegOps"]
    BY <1>0, <2>2, FinishedSame
  <2> QED
    BY <2>2, <2>3 DEF d
<1>5. FilesOf(p.kind) = "grpcClientFiles"
  BY DEF FilesOf
<1>6. Reading(p, "grpcClientFiles", a, FileOrder, 3, g)
  <2>1. \A i \in 1 .. 3 : FileOrder[i] \in Files
    BY DEF FileOrder, Files
  <2> QED
    BY <1>1, <1>2, <1>5, <2>1 DEF Reading, Admits
<1>7. ASSUME NEW i \in 1 .. 3
      PROVE  /\ Range(g[i - 1]["RegOps"]) \subseteq Range(g[i]["RegOps"])
             /\ FileOp(p.src[FileOrder[i]]) \in Range(g[i]["RegOps"])
  <2>1. Sound(p, g[i - 1]) /\ g[i] = Apply("grpcClientFiles", p.src, g[i - 1], FileOrder[i])
        /\ Admits(p, "grpcClientFiles", FileOrder[i])
    BY <1>6, StepSound
  <2> QED
    BY <2>1, RegOpsKept
<1>8. FileOp(p.src[x]) \in Range(g[3]["RegOps"])
  <2>1. FileOrder[1] = "path" /\ FileOrder[2] = "toml" /\ FileOrder[3] = "json"
    BY DEF FileOrder
  <2>2. Range(g[1]["RegOps"]) \subseteq Range(g[2]["RegOps"])
        /\ Range(g[2]["RegOps"]) \subseteq Range(g[3]["RegOps"])
    BY <1>7
  <2>3. /\ FileOp(p.src["path"]) \in Range(g[1]["RegOps"])
        /\ FileOp(p.src["toml"]) \in Range(g[2]["RegOps"])
        /\ FileOp(p.src["json"]) \in Range(g[3]["RegOps"])
    BY <1>7, <2>1
  <2> QED
    BY <2>2, <2>3 DEF Files
<1>9. Range(g[3]["RegOps"]) \subseteq Range(h[N]["RegOps"])
  <2>1. \A i \in 1 .. N : Admits(p, p.kind, p.ops[i])
    BY <1>0, <1>3 DEF Admits
  <2>2. Reading(p, p.kind, g[3], p.ops, N, h)
    BY <1>1, <1>2, <1>3, <2>1 DEF Reading
  <2>3. ReadingClient(p, p.kind, g[3], p.ops, N, h)
    BY <2>2 DEF ReadingClient
  <2> QED
    BY <2>3, StepsKeepRegOps
<1> QED
  BY <1>4, <1>8, <1>9 DEF c

\* The registry of every client, every server, and of a program that registers itself.
LEMMA RegistryTells ==
  ASSUME NEW p, WellTyped(p), NEW c, c = NewConfig(p), NEW r, r = GetConfig(p.src, RegOps(p, c))
  PROVE  RegRight(p, c, r)
<1>1. IsList(c["RegOps"])
  <2>1. CASE p.kind \in Kinds
    BY <2>1, ConfigSound
  <2>2. CASE p.kind \notin Kinds
    <3>1. p.kind = "registrar"
      BY <2>2 DEF WellTyped, Kinds
    <3>2. c["RegOps"] = p.ops
      BY <3>1 DEF NewConfig
    <3> QED
      BY <3>2 DEF WellTyped
  <2> QED
    BY <2>1, <2>2
<1>2. DOMAIN r = DOMAIN RegistryDefaults
  <2>1. IsList(RegOps(p, c))
    BY <1>1, ListAppend DEF RegOps, WithServerAddr
  <2>2. "Namespace" \in DOMAIN RegistryDefaults \ Special
    BY DEF RegistryDefaults, Special
  <2> QED
    BY <2>1, <2>2, GetConfigTells
<1> SUFFICES ASSUME NEW f \in DOMAIN r \ Special
             PROVE  r[f] = Latest([i \in DOMAIN c.RegOps |-> RegSays(c.RegOps[i])], f,
                             Latest(GivenBy(p.src, "reg", RegOrder(p.kind)), f, RegistryDefaults[f]))
  BY DEF RegRight
<1> DEFINE ops  == c["RegOps"]
           says == [i \in DOMAIN ops |-> RegSays(ops[i])]
           told == Latest(GivenBy(p.src, "reg", RegOrder(p.kind)), f, RegistryDefaults[f])
<1>3. \E g, h : RegFollow(p.src, ops, f, g, h) /\ r[f] = h[Len(ops)]
  <2>1. CASE p.kind \in ServerKinds
    <3> DEFINE op   == [of |-> "ServerAddr", to |-> c["ServerAddr"]]
               more == Append(ops, op)
    <3>1. IsList(more)
      BY <1>1, ListAppend
    <3>2. r = GetConfig(p.src, more)
      BY <2>1 DEF RegOps, WithServerAddr
    <3>3. f \in DOMAIN RegistryDefaults \ Special
      BY <1>2
    <3> HIDE DEF more
    <3>4. PICK g, h : RegFollow(p.src, more, f, g, h) /\ GetConfig(p.src, more)[f] = h[Len(more)]
      BY <3>1, <3>3, GetConfigTells
    <3> DEFINE n == Len(ops)
    <3>5. /\ n \in Nat /\ DOMAIN ops = 1 .. n /\ Len(more) = n + 1 /\ DOMAIN more = 1 .. n + 1
          /\ \A i \in 1 .. n : more[i] = ops[i]
          /\ more[n + 1] = op
      BY <1>1, ListAppendFacts DEF more
    <3> HIDE DEF n, op, ops
    <3>6. h[0] = g[5] /\ \A i \in 1 .. n + 1 : h[i] = Said(RegSays(more[i]), f, h[i - 1])
      BY <3>4, <3>5 DEF RegFollow, Takes
    <3>7. Takes(n, says, f, g[5], h)
      <4>1. DOMAIN says = 1 .. n /\ \A i \in 1 .. n : says[i] = RegSays(more[i])
        BY <3>5
      <4>2. \A i \in 1 .. n : i \in 1 .. n + 1
        BY <3>5
      <4> HIDE DEF says
      <4> QED
        BY <3>5, <3>6, <4>1, <4>2 DEF Takes
    <3>8. h[Len(more)] = h[n]
      <4>1. n + 1 \in 1 .. n + 1 /\ (n + 1) - 1 = n
        BY <3>5
      <4>2. h[n + 1] = Said(RegSays(op), f, h[n])
        BY <3>5, <3>6, <4>1
      <4> DEFINE s == RegSays(op)
      <4>3. f \notin DOMAIN s
        BY <3>3 DEF RegSays, Special, op
      <4> HIDE DEF s
      <4> QED
        BY <3>5, <4>2, <4>3 DEF Said, s
    <3>9. RegFollow(p.src, ops, f, g, h)
      BY <3>4, <3>7 DEF RegFollow, n
    <3> QED
      BY <3>2, <3>4, <3>8, <3>9 DEF n
  <2>2. CASE p.kind \notin ServerKinds
    <3>1. r = GetConfig(p.src, ops)
      BY <2>2 DEF RegOps
    <3> HIDE DEF ops
    <3> QED
      BY <1>1, <1>2, <3>1, GetConfigTells DEF ops
  <2> QED
    BY <2>1, <2>2
<1>4. PICK g, h : RegFollow(p.src, ops, f, g, h) /\ r[f] = h[Len(ops)]
  BY <1>3
<1>5. r[f] = Latest(says, f, g[5])
  BY <1>4, LastWins DEF RegFollow
<1>6. Latest(says, f, g[5]) = Latest(says, f, told)
  <2>1. CASE p.kind # "grpcClient"
    <3>1. g[5] = told
      BY <1>4, <2>1, RegFilesWin
    <3> QED
      BY <3>1
  <2>2. CASE p.kind = "grpcClient" /\ \A n \in Files : f \notin DOMAIN p.src[n]["reg"]
    <3>1. g[5] = told
      BY <1>4, <2>2, GrpcRegFilesWin
    <3> QED
      BY <3>1
  <2>3. CASE p.kind = "grpcClient" /\ \E n \in Files : f \in DOMAIN p.src[n]["reg"]
    <3>1. PICK n \in Files : f \in DOMAIN p.src[n]["reg"]
      BY <2>3
    <3>2. FileOp(p.src[n]) \in Range(ops)
      BY <2>3, FilesAreOptions
    <3>3. PICK i \in DOMAIN ops : ops[i] = FileOp(p.src[n])
      BY <3>2 DEF Range
    <3>4. RegSays(FileOp(p.src[n])) = p.src[n].reg
      BY DEF RegSays, FileOp
    <3>5. i \in DOMAIN says /\ says[i] = p.src[n].reg
      BY <3>3, <3>4
    <3>6. f \in DOMAIN says[i]
      BY <3>1, <3>5
    <3> HIDE DEF says, told
    <3> QED
      BY <3>5, <3>6, LatestOnly
  <2> QED
    BY <2>1, <2>2, <2>3
<1> QED
  BY <1>5, <1>6

-----------------------------------------------------------------------------
(***************************************************************************)
(* The options of the grpc library                                         *)
(***************************************************************************)
\* The last option of a kind in a list,
IsLastOf(list, f, i) ==
  /\ IsList(list) /\ i \in DOMAIN list /\ list[i].of = f
  /\ \A j \in DOMAIN list : list[j].of = f => j <= i

\* is what the library takes;
LEMMA InLibraryIs ==
  ASSUME NEW list, NEW f, NEW i, IsLastOf(list, f, i), NEW d
  PROVE  InLibrary(list, f, d) = list[i].to
<1> DEFINE n == Len(list)
           says == [j \in DOMAIN list |-> [g \in {list[j].of} |-> list[j].to]]
<1>1. n \in Nat /\ DOMAIN list = 1 .. n
  BY ListDomain DEF IsLastOf
<1>2. says[i][f] = list[i].to
  BY DEF IsLastOf
<1>3. \A j \in DOMAIN list : f \in DOMAIN says[j] <=> list[j].of = f
  OBVIOUS
<1>4. DOMAIN says = DOMAIN list
  OBVIOUS
<1> HIDE DEF n, says
<1>5. IsLast(n, says, f, i)
  BY <1>1, <1>3, <1>4 DEF IsLast, IsLastOf
<1>6. Latest(says, f, d) = says[i][f]
  BY <1>5, LatestIs
<1> QED
  BY <1>2, <1>6 DEF InLibrary, says

\* without one it takes its default,
LEMMA InLibraryNone ==
  ASSUME NEW list, NEW f, \A i \in DOMAIN list : list[i].of # f, NEW d
  PROVE  InLibrary(list, f, d) = d
<1> DEFINE says == [j \in DOMAIN list |-> [g \in {list[j].of} |-> list[j].to]]
<1>1. \A j \in DOMAIN says : f \notin DOMAIN says[j]
  OBVIOUS
<1> HIDE DEF says
<1>2. Latest(says, f, d) = d
  BY <1>1, LatestNone
<1> QED
  BY <1>2 DEF InLibrary, says

\* and one or the other is the case.
LEMMA InLibraryCases ==
  ASSUME NEW list, IsList(list), NEW f
  PROVE  (\A i \in DOMAIN list : list[i].of # f) \/ \E i \in DOMAIN list : IsLastOf(list, f, i)
<1> DEFINE n == Len(list)
           says == [j \in DOMAIN list |-> [g \in {list[j].of} |-> list[j].to]]
<1>1. n \in Nat /\ DOMAIN list = 1 .. n
  BY ListDomain
<1>2. \A j \in DOMAIN list : f \in DOMAIN says[j] <=> list[j].of = f
  OBVIOUS
<1>3. DOMAIN says = DOMAIN list
  OBVIOUS
<1> HIDE DEF n, says
<1>4. (\A i \in 1 .. n : f \notin DOMAIN says[i]) \/ \E i \in 1 .. n : IsLast(n, says, f, i)
  BY <1>1, <1>3, LatestCases
<1> QED
  BY <1>1, <1>2, <1>4 DEF IsLast, IsLastOf

\* Of two lists the second counts, and the first where the second says nothing.
LEMMA InLibraryConcat ==
  ASSUME NEW a, NEW b, IsList(a), IsList(b), NEW f, NEW d
  PROVE  InLibrary(a \o b, f, d) = InLibrary(b, f, InLibrary(a, f, d))
<1> DEFINE n == Len(a)
           m == Len(b)
           c == a \o b
<1>1. /\ n \in Nat /\ m \in Nat /\ DOMAIN a = 1 .. n /\ DOMAIN b = 1 .. m
      /\ DOMAIN c = 1 .. n + m
      /\ \A i \in 1 .. n : c[i] = a[i]
      /\ \A i \in 1 .. m : c[n + i] = b[i]
  BY ListConcatFacts
<1>2. IsList(c)
  BY ListConcat
<1> HIDE DEF n, m, c
<1>3. \A j \in 1 .. n + m : j \in 1 .. n \/ (j - n \in 1 .. m /\ c[j] = b[j - n])
  <2> TAKE j \in 1 .. n + m
  <2>1. CASE j <= n
    BY <1>1, <2>1
  <2>2. CASE j > n
    <3>1. j - n \in 1 .. m /\ n + (j - n) = j
      BY <1>1, <2>2
    <3> QED
      BY <1>1, <3>1
  <2> QED
    BY <1>1, <2>1, <2>2
<1>4. ASSUME NEW i \in 1 .. m, IsLastOf(b, f, i)
      PROVE  InLibrary(c, f, d) = InLibrary(b, f, InLibrary(a, f, d))
  <2>1. n + i \in 1 .. n + m /\ c[n + i] = b[i]
    BY <1>1
  <2>2. ASSUME NEW j \in 1 .. n + m, c[j].of = f PROVE j <= n + i
    <3>1. CASE j \in 1 .. n
      BY <1>1, <3>1
    <3>2. CASE j - n \in 1 .. m /\ c[j] = b[j - n]
      <4>1. j - n <= i
        BY <1>1, <1>4, <2>2, <3>2 DEF IsLastOf
      <4> QED
        BY <1>1, <4>1
    <3> QED
      BY <1>3, <3>1, <3>2
  <2>3. IsLastOf(c, f, n + i)
    BY <1>1, <1>2, <1>4, <2>1, <2>2 DEF IsLastOf
  <2>4. InLibrary(c, f, d) = c[n + i].to
    BY <2>3, InLibraryIs
  <2>5. InLibrary(b, f, InLibrary(a, f, d)) = b[i].to
    BY <1>4, InLibraryIs
  <2> QED
    BY <2>1, <2>4, <2>5
<1>5. ASSUME \A i \in 1 .. m : b[i].of # f
      PROVE  InLibrary(c, f, d) = InLibrary(b, f, InLibrary(a, f, d))
  <2>1. InLibrary(b, f, InLibrary(a, f, d)) = InLibrary(a, f, d)
    BY <1>1, <1>5, InLibraryNone
  <2>2. \A j \in 1 .. n + m : c[j].of = f => j \in 1 .. n
    BY <1>3, <1>5
  <2>3. ASSUME NEW i \in 1 .. n, IsLastOf(a, f, i) PROVE InLibrary(c, f, d) = InLibrary(a, f, d)
    <3>1. i \in 1 .. n + m /\ c[i] = a[i]
      BY <1>1
    <3>2. ASSUME NEW j \in 1 .. n + m, c[j].of = f PROVE j <= i
      BY <1>1, <2>2, <2>3, <3>2 DEF IsLastOf
    <3>3. IsLastOf(c, f, i)
      BY <1>1, <1>2, <2>3, <3>1, <3>2 DEF IsLastOf
    <3>4. InLibrary(c, f, d) = c[i].to /\ InLibrary(a, f, d) = a[i].to
      BY <2>3, <3>3, InLibraryIs
    <3> QED
      BY <3>1, <3>4
  <2>4. ASSUME \A i \in 1 .. n : a[i].of # f PROVE InLibrary(c, f, d) = InLibrary(a, f, d)
    <3>1. \A j \in DOMAIN c : c[j].of # f
      BY <1>1, <2>2, <2>4
    <3>2. InLibrary(c, f, d) = d /\ InLibrary(a, f, d) = d
      BY <1>1, <2>4, <3>1, InLibraryNone
    <3> QED
      BY <3>2
  <2>5. (\A i \in 1 .. n : a[i].of # f) \/ \E i \in 1 .. n : IsLastOf(a, f, i)
    BY <1>1, InLibraryCases
  <2> QED
    BY <2>1, <2>3, <2>4, <2>5
<1>6. (\A i \in 1 .. m : b[i].of # f) \/ \E i \in 1 .. m : IsLastOf(b, f, i)
  BY <1>1, InLibraryCases
<1> QED
  BY <1>4, <1>5, <1>6 DEF c

\* The options a source becomes are what it asks for.
LEMMA InLibraryOps ==
  ASSUME NEW fields, IsList(fields), fields \in {DialFields, ServerFields}, NEW source,
         NEW f \in Range(fields), NEW d
  PROVE  InLibrary(LibraryOps(fields, source), f, d) = Said(Asked(source), f, d)
<1> DEFINE n == Len(fields)
           given == Asked(source)
<1>1. n \in Nat /\ DOMAIN fields = 1 .. n
  BY ListDomain
<1>2. /\ \A g \in DOMAIN given : given[g] = Setting(source, g)
      /\ \A i \in 1 .. n : fields[i] \in DOMAIN given <=> Asks(source, fields[i])
  <2>1. \A i \in 1 .. n : fields[i] \in Range(DialFields) \cup Range(ServerFields)
    BY <1>1 DEF Range
  <2> QED
    BY <2>1 DEF Asked
<1> HIDE DEF n, given
<1>3. PICK h : Steps("library", source, <<>>, fields, n, h) /\ h[n] = LibraryOps(fields, source)
  BY <1>1, LibraryFold
<1> DEFINE Listed(l, m) ==
             /\ IsList(l)
             /\ \A i \in DOMAIN l : l[i].of \in DOMAIN given /\ l[i].to = given[l[i].of]
             /\ \A i \in 1 .. m : fields[i] \in DOMAIN given => \E j \in DOMAIN l : l[j].of = fields[i]
           T == {m \in Nat : m <= n => Listed(h[m], m)}
<1>4. 0 \in T
  <2>1. IsList(<<>>)
    BY DEF IsList
  <2>2. h[0] = <<>>
    BY <1>3 DEF Steps
  <2>3. DOMAIN <<>> = {}
    OBVIOUS
  <2>4. Listed(h[0], 0)
    BY <2>1, <2>2, <2>3
  <2> HIDE DEF Listed
  <2> QED
    BY <2>4
<1>5. ASSUME NEW m \in Nat, m \in T PROVE m + 1 \in T
  <2> SUFFICES ASSUME m + 1 <= n PROVE Listed(h[m + 1], m + 1)
    BY DEF T
  <2>1. m + 1 \in 1 .. n /\ (m + 1) - 1 = m /\ m <= n
    BY <1>1
  <2>2. Listed(h[m], m)
    <3> HIDE DEF Listed
    <3> QED
      BY <1>5, <2>1
  <2>3. h[m + 1] = LibraryAdds(source, h[m], fields[m + 1])
    BY <1>3, <2>1 DEF Steps, Apply
  <2> DEFINE l == h[m]
             x == fields[m + 1]
  <2>4. \A i \in 1 .. m + 1 : i \in 1 .. m \/ i = m + 1
    OBVIOUS
  <2>5. CASE x \in DOMAIN given
    <3> DEFINE e == [of |-> x, to |-> Setting(source, x)]
               k == Append(l, e)
    <3>1. h[m + 1] = k
      BY <1>2, <2>1, <2>3, <2>5 DEF LibraryAdds
    <3>2. e.of = x /\ e.to = given[x]
      BY <1>2, <2>5
    <3>3. IsList(l)
      BY <2>2
    <3> HIDE DEF e, l, x
    <3>4. IsList(k)
      BY <3>3, ListAppend
    <3>5. /\ Len(l) \in Nat /\ DOMAIN l = 1 .. Len(l) /\ DOMAIN k = 1 .. Len(l) + 1
          /\ \A i \in 1 .. Len(l) : k[i] = l[i]
          /\ k[Len(l) + 1] = e
      BY <3>3, ListAppendFacts
    <3> HIDE DEF k
    <3>6. \A i \in DOMAIN k : k[i].of \in DOMAIN given /\ k[i].to = given[k[i].of]
      <4> TAKE i \in DOMAIN k
      <4>1. CASE i \in 1 .. Len(l)
        <5>1. k[i] = l[i] /\ i \in DOMAIN l
          BY <3>5, <4>1
        <5> QED
          BY <2>2, <5>1 DEF l
      <4>2. CASE i = Len(l) + 1
        BY <2>5, <3>2, <3>5, <4>2
      <4> QED
        BY <3>5, <4>1, <4>2
    <3>7. ASSUME NEW i \in 1 .. m + 1, fields[i] \in DOMAIN given
          PROVE  \E j \in DOMAIN k : k[j].of = fields[i]
      <4>1. CASE i \in 1 .. m
        <5>1. PICK j \in DOMAIN l : l[j].of = fields[i]
          BY <2>2, <3>7, <4>1 DEF l
        <5>2. j \in DOMAIN k /\ k[j] = l[j]
          BY <3>5
        <5> QED
          BY <5>1, <5>2
      <4>2. CASE i = m + 1
        <5>1. Len(l) + 1 \in DOMAIN k
          BY <3>5
        <5> QED
          BY <3>2, <3>5, <4>2, <5>1 DEF x
      <4> QED
        BY <2>4, <4>1, <4>2
    <3> QED
      BY <3>1, <3>4, <3>6, <3>7
  <2>6. CASE x \notin DOMAIN given
    <3>1. h[m + 1] = l
      BY <1>2, <2>1, <2>3, <2>6 DEF LibraryAdds
    <3>2. ASSUME NEW i \in 1 .. m + 1, fields[i] \in DOMAIN given
          PROVE  \E j \in DOMAIN l : l[j].of = fields[i]
      BY <2>2, <2>4, <2>6, <3>2
    <3>3. Listed(l, m + 1)
      BY <2>2, <3>2
    <3> HIDE DEF Listed, l
    <3> QED
      BY <3>1, <3>3
  <2> QED
    BY <2>5, <2>6
<1> HIDE DEF T
<1>6. n \in T
  BY <1>1, <1>4, <1>5, NatSetInduction
<1> DEFINE l == LibraryOps(fields, source)
<1>7. Listed(l, n)
  <2> HIDE DEF Listed
  <2> QED
    BY <1>1, <1>3, <1>6 DEF T
<1> HIDE DEF l
<1>8. CASE f \in DOMAIN given
  <2>1. PICK i \in 1 .. n : f = fields[i]
    BY <1>1 DEF Range
  <2>2. \E j \in DOMAIN l : l[j].of = f
    BY <1>7, <1>8, <2>1
  <2>3. PICK j \in DOMAIN l : IsLastOf(l, f, j)
    BY <1>7, <2>2, InLibraryCases
  <2>4. InLibrary(l, f, d) = l[j].to
    BY <2>3, InLibraryIs
  <2>5. l[j].to = given[f]
    BY <1>7, <2>3 DEF IsLastOf
  <2> QED
    BY <1>8, <2>4, <2>5 DEF Said, given, l
<1>9. CASE f \notin DOMAIN given
  <2>1. \A i \in DOMAIN l : l[i].of # f
    BY <1>7, <1>9
  <2>2. InLibrary(l, f, d) = d
    BY <2>1, InLibraryNone
  <2> QED
    BY <1>9, <2>2 DEF Said, given, l
<1> QED
  BY <1>8, <1>9

\* What of the settings of a grpc server or client counts for the library, and how.
OpsOf(kind)         == IF kind = "grpc" THEN "GRPCSvrOps" ELSE "GRPCDialOps"
LibraryFields(kind) == IF kind = "grpc" THEN ServerFields ELSE DialFields
Library(p, c, f)    == InLibrary(c[OpsOf(p.kind)], f, Unset)

\* A grpc server or client with sound settings, and a field of the library.
GrpcSound(p, c, f) == /\ WellTyped(p) /\ p.kind \in {"grpc", "grpcClient"} /\ Sound(p, c)
                      /\ f \in Range(LibraryFields(p.kind))

\* They have the list of its options.
LEMMA OpsListed ==
  ASSUME NEW p, NEW c, NEW f, GrpcSound(p, c, f)
  PROVE  OpsOf(p.kind) \in DOMAIN c /\ IsList(c[OpsOf(p.kind)])
<1>1. OpsOf(p.kind) \in DOMAIN c
  BY DEF GrpcSound, Sound, OpsOf, Defaults, GrpcServerDefaults, GrpcClientDefaults
<1>2. OpsOf(p.kind) \in ListFields
  BY DEF OpsOf, ListFields
<1> QED
  BY <1>1, <1>2 DEF GrpcSound, Sound

\* A source that is appended to the settings,
LEMMA AppendTells ==
  ASSUME NEW p, NEW c, NEW f, GrpcSound(p, c, f), NEW d
  PROVE  /\ p.kind = "grpc" => Library(p, AppendGRPCServerConfig(c, d), f)
                                 = Said(Asked(d), f, Library(p, c, f))
         /\ p.kind = "grpcClient" => Library(p, AppendGRPCConfig(c, d), f)
                                       = Said(Asked(d), f, Library(p, c, f))
<1> DEFINE ops    == OpsOf(p.kind)
           fields == LibraryFields(p.kind)
           a == c[ops]
           b == LibraryOps(fields, d)
<1>1. ops \in DOMAIN c /\ IsList(a)
  BY OpsListed
<1>2. IsList(fields) /\ f \in Range(fields) /\ fields \in {DialFields, ServerFields}
  BY FieldsListed DEF LibraryFields, GrpcSound
<1>3. /\ p.kind = "grpc" => AppendGRPCServerConfig(c, d)[ops] = a \o b
      /\ p.kind = "grpcClient" => AppendGRPCConfig(c, d)[ops] = a \o b
  BY <1>1 DEF AppendGRPCServerConfig, AppendGRPCConfig, OpsOf, LibraryFields
<1> HIDE DEF ops, fields, a
<1>4. IsList(b)
  BY <1>2, LibraryListed
<1>5. InLibrary(b, f, InLibrary(a, f, Unset)) = Said(Asked(d), f, InLibrary(a, f, Unset))
  BY <1>2, InLibraryOps
<1> HIDE DEF b
<1>6. InLibrary(a \o b, f, Unset) = Said(Asked(d), f, InLibrary(a, f, Unset))
  BY <1>1, <1>4, <1>5, InLibraryConcat
<1> QED
  BY <1>3, <1>6 DEF Library, ops, a

\* a file,
LEMMA FileTellsLibrary ==
  ASSUME NEW p, NEW c, NEW f, GrpcSound(p, c, f), NEW d, ListFields \cap DOMAIN d.cfg = {},
         \A g \in AddrFields : g \in DOMAIN d.cfg => Gives(p, g)
  PROVE  /\ p.kind = "grpc" => Library(p, GrpcServerFile(c, d), f)
                                 = Said(Asked(d.cfg), f, Library(p, c, f))
         /\ p.kind = "grpcClient" => Library(p, GrpcClientFile(c, d), f)
                                       = Said(Asked(d.cfg), f, Library(p, c, f))
<1> DEFINE e == Overlay(c, d.cfg)
           g == AppendGRPCConfig(e, d.cfg)
           ops == OpsOf(p.kind)
<1>1. GrpcSound(p, e, f)
  BY OverlaySound DEF GrpcSound
<1>2. ops \in ListFields /\ ops \in DOMAIN c /\ ops # "RegOps"
  BY OpsListed DEF OpsOf, ListFields
<1>3. e[ops] = c[ops] /\ DOMAIN e = DOMAIN c
  BY <1>2 DEF Overlay
<1>4. Library(p, e, f) = Library(p, c, f)
  BY <1>3 DEF Library
<1> HIDE DEF e
<1>5. p.kind = "grpcClient" => Library(p, g, f) = Said(Asked(d.cfg), f, Library(p, e, f))
  BY <1>1, AppendTells
<1>6. p.kind = "grpc" => Library(p, AppendGRPCServerConfig(e, d.cfg), f)
                           = Said(Asked(d.cfg), f, Library(p, e, f))
  BY <1>1, AppendTells
<1>7. ops \in DOMAIN g
  BY <1>2, <1>3 DEF AppendGRPCConfig
<1>8. GrpcServerFile(c, d) = AppendGRPCServerConfig(e, d.cfg)
  BY DEF GrpcServerFile, e
<1>9. GrpcClientFile(c, d) = [g EXCEPT !.RegOps = Append(@, [of |-> "file", to |-> d])]
  BY DEF GrpcClientFile, e
<1> HIDE DEF g, ops
<1>10. GrpcClientFile(c, d)[ops] = g[ops]
  BY <1>2, <1>7, <1>9
<1>11. p.kind = "grpcClient" => Library(p, GrpcClientFile(c, d), f) = Library(p, g, f)
  BY <1>10 DEF Library, ops
<1> QED
  BY <1>4, <1>5, <1>6, <1>8, <1>11

\* and an option of the program, change a setting of the library to what they say of it.
LEMMA OptionTellsLibrary ==
  ASSUME NEW p, NEW c, NEW f, GrpcSound(p, c, f), NEW i \in DOMAIN p.ops, NEW op, op = p.ops[i]
  PROVE  Library(p, Apply(p.kind, p.src, c, op), f)
           = Said(LibrarySays(OpsOf(p.kind), op), f, Library(p, c, f))
<1> DEFINE ops  == OpsOf(p.kind)
           d    == Apply(p.kind, p.src, c, op)
           old  == Library(p, c, f)
           says == LibrarySays(ops, op)
<1>1. ops \in DOMAIN c /\ IsList(c[ops])
  BY OpsListed
<1>2. \/ p.kind = "grpc" /\ d = GrpcServerOption(c, op)
      \/ p.kind = "grpcClient" /\ d = GrpcClientOption(c, op)
  <2>1. CASE p.kind = "grpc"
    BY <2>1 DEF Apply
  <2>2. CASE p.kind = "grpcClient"
    BY <2>2 DEF Apply
  <2> QED
    BY <2>1, <2>2 DEF GrpcSound
<1>3. /\ op.of = "file" => ListFields \cap DOMAIN op.to.cfg = {}
      /\ op.of \in ListFields => IsList(op.to)
      /\ op.of = "file" => \A g \in AddrFields : g \in DOMAIN op.to.cfg => Gives(p, g)
  BY DEF GrpcSound, WellTyped, Gives
<1>4. ops = IF p.kind = "grpc" THEN "GRPCSvrOps" ELSE "GRPCDialOps"
  BY DEF OpsOf
<1> HIDE DEF d, ops
<1>5. CASE op.of = "file"
  <2>1. d = IF p.kind = "grpc" THEN GrpcServerFile(c, op.to) ELSE GrpcClientFile(c, op.to)
    BY <1>2, <1>5 DEF GrpcServerOption, GrpcClientOption
  <2>2. Library(p, d, f) = Said(Asked(op.to.cfg), f, old)
    BY <1>2, <1>3, <1>5, <2>1, FileTellsLibrary
  <2>3. says = Asked(op.to.cfg)
    BY <1>5 DEF LibrarySays
  <2> QED
    BY <2>2, <2>3 DEF d, ops
<1>6. CASE op.of = ops
  <2> DEFINE a == c[ops]
             b == op.to
  <2>1. d[ops] = a \o b
    BY <1>1, <1>2, <1>4, <1>6 DEF GrpcServerOption, GrpcClientOption, Adds
  <2>2. IsList(a) /\ IsList(b)
    BY <1>1, <1>3, <1>4, <1>6 DEF ListFields
  <2>3. ops # "file"
    BY <1>4
  <2>4. says = [g \in {b[j].of : j \in DOMAIN b} |-> InLibrary(b, g, Unset)]
    BY <1>6, <2>3 DEF LibrarySays
  <2>5. Library(p, d, f) = InLibrary(d[ops], f, Unset) /\ old = InLibrary(a, f, Unset)
    BY DEF Library, ops
  <2> HIDE DEF a, b, says, old
  <2>6. InLibrary(a \o b, f, Unset) = InLibrary(b, f, old)
    BY <2>2, <2>5, InLibraryConcat
  <2>7. InLibrary(b, f, old) = Said(says, f, old)
    <3>1. CASE \A j \in DOMAIN b : b[j].of # f
      <4>1. f \notin DOMAIN says
        BY <2>4, <3>1
      <4> QED
        BY <3>1, <4>1, InLibraryNone DEF Said
    <3>2. ASSUME NEW j \in DOMAIN b, IsLastOf(b, f, j) PROVE InLibrary(b, f, old) = Said(says, f, old)
      <4>1. f \in DOMAIN says /\ says[f] = InLibrary(b, f, Unset)
        BY <2>4, <3>2 DEF IsLastOf
      <4>2. InLibrary(b, f, old) = b[j].to /\ InLibrary(b, f, Unset) = b[j].to
        BY <3>2, InLibraryIs
      <4> QED
        BY <4>1, <4>2 DEF Said
    <3> QED
      BY <2>2, <3>1, <3>2, InLibraryCases
  <2> QED
    BY <2>1, <2>5, <2>6, <2>7 DEF says, d, ops, old
<1>7. CASE op.of # "file" /\ op.of # ops
  <2>1. d[ops] = c[ops]
    BY <1>1, <1>2, <1>7 DEF GrpcServerOption, GrpcClientOption, Adds, Sets
  <2>2. Library(p, d, f) = old
    BY <2>1 DEF Library, ops
  <2>3. DOMAIN says = {}
    BY <1>7 DEF LibrarySays, Unset
  <2> HIDE DEF says, old
  <2>4. Said(says, f, old) = old
    BY <2>3 DEF Said
  <2> QED
    BY <2>2, <2>4 DEF says, d, ops, old
<1> QED
  BY <1>5, <1>6, <1>7

\* The environment,
LEMMA EnvTellsLibrary ==
  ASSUME NEW p, WellTyped(p), p.kind \in {"grpc", "grpcClient"}, NEW f \in Range(LibraryFields(p.kind))
  PROVE  Library(p, FromEnvironment(p), f)
           = Said(Asked(EnvLibrary(p.src["env"].cfg)), f, Library(p, Defaults(p.kind), f))
<1> DEFINE env  == p.src["env"].cfg
           read == Readable(env)
           lib  == EnvLibrary(env)
           base == FromEnv(Defaults(p.kind), env)
<1>1. p.kind \in Kinds
  BY DEF Kinds, ClientKinds, ServerKinds
<1>2. /\ ListFields \cap DOMAIN read = {}
      /\ \A g \in AddrFields : g \in DOMAIN read => Gives(p, g)
  BY DEF WellTyped, Gives, Readable
<1>3. base = Overlay(Defaults(p.kind), read)
  BY DEF FromEnv
<1> HIDE DEF base, read, lib, env
<1>4. GrpcSound(p, Defaults(p.kind), f)
  BY <1>1, DefaultsSound DEF GrpcSound
<1>5. GrpcSound(p, base, f)
  BY <1>2, <1>3, <1>4, OverlaySound DEF GrpcSound
<1>6. Library(p, base, f) = Library(p, Defaults(p.kind), f)
  <2>1. OpsOf(p.kind) \in ListFields /\ OpsOf(p.kind) \in DOMAIN Defaults(p.kind)
    BY <1>4, OpsListed DEF OpsOf, ListFields
  <2>2. base[OpsOf(p.kind)] = Defaults(p.kind)[OpsOf(p.kind)]
    BY <1>2, <1>3, <2>1 DEF Overlay
  <2> QED
    BY <2>2 DEF Library
<1>7. /\ p.kind = "grpc" => Library(p, AppendGRPCServerConfig(base, lib), f)
                              = Said(Asked(lib), f, Library(p, base, f))
      /\ p.kind = "grpcClient" => Library(p, AppendGRPCConfig(base, lib), f)
                                    = Said(Asked(lib), f, Library(p, base, f))
  BY <1>5, AppendTells
<1>8. /\ p.kind = "grpc" => FromEnvironment(p) = AppendGRPCServerConfig(base, lib)
      /\ p.kind = "grpcClient" => FromEnvironment(p) = AppendGRPCConfig(base, lib)
  BY DEF FromEnvironment, base, lib, env
<1> QED
  BY <1>6, <1>7, <1>8 DEF lib, env

\* and each file, say what the library gets.
LEMMA FilesTellLibrary ==
  ASSUME NEW p, NEW c, NEW f, GrpcSound(p, c, f), NEW x \in Files
  PROVE  Library(p, Apply(FilesOf(p.kind), p.src, c, x), f)
           = Said(Asked(p.src[x].cfg), f, Library(p, c, f))
<1>1. /\ ListFields \cap DOMAIN p.src[x].cfg = {}
      /\ \A g \in AddrFields : g \in DOMAIN p.src[x].cfg => Gives(p, g)
  BY DEF GrpcSound, WellTyped, Gives, Files
<1>2. /\ p.kind = "grpc" => Library(p, GrpcServerFile(c, p.src[x]), f)
                              = Said(Asked(p.src[x].cfg), f, Library(p, c, f))
      /\ p.kind = "grpcClient" => Library(p, GrpcClientFile(c, p.src[x]), f)
                                    = Said(Asked(p.src[x].cfg), f, Library(p, c, f))
  BY <1>1, FileTellsLibrary
<1>3. CASE p.kind = "grpc"
  <2>1. Apply(FilesOf(p.kind), p.src, c, x) = GrpcServerFile(c, p.src[x])
    BY <1>3 DEF FilesOf, Apply, GrpcGivenIn
  <2> QED
    BY <1>2, <1>3, <2>1
<1>4. CASE p.kind = "grpcClient"
  <2>1. Apply(FilesOf(p.kind), p.src, c, x) = GrpcClientFile(c, p.src[x])
    BY <1>4 DEF FilesOf, Apply, GrpcClientGivenIn
  <2> QED
    BY <1>2, <1>4, <2>1
<1> QED
  BY <1>3, <1>4 DEF GrpcSound

\* What the library of a grpc server or client gets.
LEMMA LibraryTells ==
  ASSUME NEW p, WellTyped(p), p.kind \in {"grpc", "grpcClient"}
  PROVE  LibraryRight(p, NewConfig(p), OpsOf(p.kind), LibraryFields(p.kind))
<1> DEFINE N == Len(p.ops)
           c == NewConfig(p)
           a == FromEnvironment(p)
           ops   == OpsOf(p.kind)
           heard == [i \in DOMAIN CfgOrder |->
                       Asked(IF CfgOrder[i] = "env" THEN EnvLibrary(p.src["env"].cfg)
                             ELSE p.src[CfgOrder[i]].cfg)]
           says  == [i \in DOMAIN p.ops |-> LibrarySays(ops, p.ops[i])]
<1> SUFFICES ASSUME NEW f \in Range(LibraryFields(p.kind))
             PROVE  Library(p, c, f) = Latest(says, f, Latest(heard, f, Library(p, Defaults(p.kind), f)))
  BY DEF LibraryRight, Library
<1> DEFINE d == Library(p, Defaults(p.kind), f)
<1>0. p.kind \in Kinds
  BY DEF Kinds, ClientKinds, ServerKinds
<1>1. PICK g, h : /\ Steps(FilesOf(p.kind), p.src, a, FileOrder, 3, g)
                  /\ Steps(p.kind, p.src, g[3], p.ops, N, h)
                  /\ c = Finished(p, h[N])
  BY <1>0, ConfigRead
<1>2. Sound(p, a) /\ Sound(p, g[3]) /\ Sound(p, h[N])
  BY <1>0, <1>1, EnvSound, FilesSound, OptionsSound
<1>3. N \in Nat /\ DOMAIN p.ops = 1 .. N
  BY OptionsAreListed
<1> HIDE DEF c, N, a
<1>4. Library(p, c, f) = Library(p, h[N], f)
  <2>1. \A x \in DOMAIN h[N] \ {"ActionMiddlewares", "ServerAddr", "BindAddr"} : c[x] = h[N][x]
    BY <1>0, <1>1, <1>2, FinishedSame
  <2>2. GrpcSound(p, h[N], f)
    BY <1>2 DEF GrpcSound
  <2>3. OpsOf(p.kind) \in DOMAIN h[N] \ {"ActionMiddlewares", "ServerAddr", "BindAddr"}
    BY <2>2, OpsListed DEF OpsOf
  <2> QED
    BY <2>1, <2>3 DEF Library
<1>5. /\ DOMAIN heard = 1 .. 4 /\ heard[1] = Asked(EnvLibrary(p.src["env"].cfg))
      /\ \A i \in 1 .. 3 : heard[i + 1] = Asked(p.src[FileOrder[i]].cfg)
  BY DEF CfgOrder, FileOrder
<1>6. Library(p, g[0], f) = Said(heard[1], f, d)
  BY <1>1, <1>5, EnvTellsLibrary DEF Steps, a
<1>7. ASSUME NEW i \in 1 .. 3
      PROVE  Library(p, g[i], f) = Said(heard[i + 1], f, Library(p, g[i - 1], f))
  <2>1. \A j \in 1 .. 3 : FileOrder[j] \in Files
    BY DEF FileOrder, Files
  <2>2. \A j \in 1 .. 3 : Admits(p, FilesOf(p.kind), FileOrder[j])
    BY <2>1 DEF Admits, FilesOf
  <2>3. Reading(p, FilesOf(p.kind), a, FileOrder, 3, g)
    BY <1>1, <1>2, <2>2 DEF Reading
  <2>4. Sound(p, g[i - 1]) /\ g[i] = Apply(FilesOf(p.kind), p.src, g[i - 1], FileOrder[i])
    BY <2>3, StepSound
  <2>5. GrpcSound(p, g[i - 1], f)
    BY <2>4 DEF GrpcSound
  <2> DEFINE e == g[i - 1]
             x == FileOrder[i]
  <2>6. GrpcSound(p, e, f) /\ x \in Files /\ g[i] = Apply(FilesOf(p.kind), p.src, e, x)
    BY <2>1, <2>4, <2>5
  <2> HIDE DEF e, x
  <2>7. Library(p, Apply(FilesOf(p.kind), p.src, e, x), f)
          = Said(Asked(p.src[x].cfg), f, Library(p, e, f))
    BY <2>6, FilesTellLibrary
  <2> QED
    BY <1>5, <2>6, <2>7 DEF e, x
<1>8. ASSUME NEW i \in 1 .. N
      PROVE  Library(p, h[i], f) = Said(says[i], f, Library(p, h[i - 1], f))
  <2>1. Reading(p, p.kind, g[3], p.ops, N, h)
    BY <1>0, <1>1, <1>2, <1>3 DEF Admits, Reading
  <2>2. Sound(p, h[i - 1]) /\ h[i] = Apply(p.kind, p.src, h[i - 1], p.ops[i])
    BY <2>1, StepSound
  <2> DEFINE e == h[i - 1]
             x == p.ops[i]
  <2>3. GrpcSound(p, e, f) /\ i \in DOMAIN p.ops /\ h[i] = Apply(p.kind, p.src, e, x)
    BY <1>3, <2>2 DEF GrpcSound
  <2>4. says[i] = LibrarySays(OpsOf(p.kind), x)
    BY <1>3
  <2> HIDE DEF e, says
  <2>5. Library(p, Apply(p.kind, p.src, e, x), f)
          = Said(LibrarySays(OpsOf(p.kind), x), f, Library(p, e, f))
    BY <2>3, OptionTellsLibrary
  <2> QED
    BY <2>3, <2>4, <2>5 DEF e
<1>9. DOMAIN says = 1 .. N /\ h[0] = g[3]
  BY <1>1, <1>3 DEF Steps
<1> DEFINE u == [i \in 0 .. 3 |-> Library(p, g[i], f)]
           v == [i \in 0 .. N |-> Library(p, h[i], f)]
<1> HIDE DEF heard, d, says
<1>10. Follow(N, heard, says, f, d, u, v)
  BY <1>3, <1>5, <1>6, <1>7, <1>8, <1>9 DEF Follow, Takes
<1>11. v[N] = Library(p, h[N], f)
  BY <1>3
<1> HIDE DEF u, v
<1>12. v[N] = Latest(says, f, Latest(heard, f, d))
  BY <1>10, SettingWins
<1> QED
  BY <1>4, <1>11, <1>12 DEF d

\* The settings that have been read are those of the program.
Loaded(s) == LET p == ProgramOf(job[s])
             IN  cfg[s] = NewConfig(p) /\ reg[s] = GetConfig(p.src, RegOps(p, cfg[s]))
LoadedInv == AddrInv /\ \A s \in Services : pc[s] = "loaded" => Loaded(s)

\* LoadedInv is inductive: Load makes it so, and nothing changes settings, or a job,
\* of a service that is loaded but Run, which leaves it.
LEMMA LoadedKept == Spec => []LoadedInv
<1> DEFINE L == \A s \in Services : pc[s] = "loaded" => Loaded(s)
<1>1. Init => L
  BY DEF Init
<1>2. AddrInv /\ L /\ [Next]_vars => L'
  <2> SUFFICES ASSUME AddrInv, L, [Next]_vars PROVE L'
    OBVIOUS
  <2>0. DOMAIN pc = Services /\ DOMAIN cfg = Services /\ DOMAIN reg = Services
    BY DEF AddrInv
  <2>1. CASE UNCHANGED vars \/ ListenAndServe
    BY <2>1 DEF vars, ListenAndServe, setVars, Loaded
  <2>2. ASSUME NEW s \in Services, Load(s) PROVE L'
    <3> DEFINE p == ProgramOf(job[s])
               c == NewConfig(p)
               r == GetConfig(p.src, RegOps(p, c))
    <3>1. /\ pc' = [pc EXCEPT ![s] = "loaded"] /\ cfg' = [cfg EXCEPT ![s] = c]
          /\ reg' = [reg EXCEPT ![s] = r] /\ job' = job
      BY <2>2 DEF Load, Goto
    <3> HIDE DEF c, r
    <3>2. cfg'[s] = c /\ reg'[s] = r
      BY <2>0, <3>1
    <3>3. Loaded(s)'
      BY <3>1, <3>2 DEF Loaded, c, r
    <3>4. \A t \in Services : t # s => pc'[t] = pc[t] /\ cfg'[t] = cfg[t] /\ reg'[t] = reg[t]
      BY <3>1
    <3>5. \A t \in Services : t # s => Loaded(t)' = Loaded(t)
      BY <3>1, <3>4 DEF Loaded
    <3> QED
      BY <3>3, <3>4, <3>5
  <2>3. ASSUME NEW s \in Services, Run(s) PROVE L'
    <3>1. PICK to \in {"listen", "consul", "done"} : pc' = [pc EXCEPT ![s] = to]
      BY <2>3 DEF Run, Goto
    <3>2. /\ job' = [job EXCEPT ![s] = NoJob] /\ cfg' = [cfg EXCEPT ![s] = NoCfg]
          /\ reg' = [reg EXCEPT ![s] = NoCfg]
      BY <2>3 DEF Run
    <3>3. \A t \in Services : t # s => /\ pc'[t] = pc[t] /\ cfg'[t] = cfg[t] /\ reg'[t] = reg[t]
                                       /\ job'[t] = job[t]
      BY <3>1, <3>2
    <3>4. pc'[s] # "loaded"
      BY <2>0, <3>1
    <3>5. \A t \in Services : t # s => Loaded(t)' = Loaded(t)
      BY <3>3 DEF Loaded
    <3> QED
      BY <3>3, <3>4, <3>5
  <2>4. ASSUME NEW s \in Services,
               \/ Listen(s) \/ Stop(s) \/ Deregister(s) \/ Close(s)
               \/ ConsulClient(s) \/ MakeConsulClient(s) \/ HealthCheck(s) \/ MakeServer(s)
               \/ Waited(s) \/ StartLoop(s) \/ Loop(s) \/ Lose(s)
        PROVE  L'
    <3>1. UNCHANGED setVars
      BY <2>4 DEF Listen, Stop, Deregister, Close, ConsulClient, MakeConsulClient, HealthCheck,
                  MakeServer, Waited, StartLoop, Loop, Register, Wake, Lose
    <3>2. UNCHANGED pc \/ \E to : to # "loaded" /\ pc' = [pc EXCEPT ![s] = to]
      <4>1. CASE Listen(s) \/ Stop(s) \/ Deregister(s) \/ Close(s) \/ Waited(s) \/ StartLoop(s)
        <5>1. \E to \in {"consul", "serve", "done", "deregister", "close", "registration", "listen"} :
                pc' = [pc EXCEPT ![s] = to]
          BY <4>1 DEF Listen, Stop, Deregister, Close, Waited, StartLoop, Goto
        <5> QED
          BY <5>1
      <4>2. CASE ConsulClient(s) \/ MakeConsulClient(s) \/ HealthCheck(s) \/ MakeServer(s)
        <5>1. \/ UNCHANGED pc
              \/ \E to \in {"consul client", "done", "close", "registration", "health",
                            "make server", "wait"} : pc' = [pc EXCEPT ![s] = to]
          BY <4>2 DEF ConsulClient, MakeConsulClient, Registers, HealthCheck, Once, MakeServer, Goto
        <5> QED
          BY <5>1
      <4>3. CASE Loop(s) \/ Lose(s)
        BY <4>3 DEF Loop, Register, Wake, Lose
      <4> QED
        BY <2>4, <4>1, <4>2, <4>3
    <3>3. \A t \in Services : pc'[t] = "loaded" => pc[t] = "loaded"
      BY <2>0, <3>2
    <3>4. \A t \in Services : Loaded(t)' = Loaded(t)
      BY <3>1 DEF setVars, Loaded
    <3> QED
      BY <3>3, <3>4
  <2> QED
    BY <2>1, <2>2, <2>3, <2>4 DEF Next
<1>3. AddrInv /\ L <=> LoadedInv
  BY DEF LoadedInv
<1> HIDE DEF L
<1> QED
  BY <1>1, <1>2, <1>3, AddrKept, PTL DEF Spec

\* docs/rpc/client配置参数.md:3 and the others: for every program, environment, set of
\* files and list of options, each setting of a client or a server is what the
\* strongest source that gives it says, the strongest as the documents have it; each
\* setting of the registry, as the code has it (DocumentedOrder is the documents'
\* order, and false); and each option of the grpc library is as the strongest source
\* that asks for it says, which decides all the settings it is made of.
THEOREM LastSourceIsRight == Spec => []LastSourceWins
<1>1. LoadedInv => LastSourceWins
  <2> SUFFICES ASSUME LoadedInv, NEW s \in Services, pc[s] = "loaded", NEW p, p = ProgramOf(job[s])
               PROVE  /\ CfgRight(p, cfg[s])
                      /\ p.kind = "grpcClient" => LibraryRight(p, cfg[s], "GRPCDialOps", DialFields)
                      /\ p.kind = "grpc"       => LibraryRight(p, cfg[s], "GRPCSvrOps", ServerFields)
                      /\ RegRight(p, cfg[s], reg[s])
    BY DEF LastSourceWins
  <2>1. job[s] \in Jobs /\ cfg[s] = NewConfig(p) /\ reg[s] = GetConfig(p.src, RegOps(p, cfg[s]))
    BY DEF LoadedInv, AddrInv, Ready, Loaded
  <2>2. WellTyped(p)
    BY <2>1, ProgramsAssumption
  <2>3. CfgRight(p, cfg[s])
    <3>1. CASE p.kind \in Kinds
      BY <2>1, <2>2, <3>1, ConfigTells
    <3>2. CASE p.kind \notin Kinds
      <4>1. p.kind = "registrar"
        BY <2>2, <3>2 DEF WellTyped, Kinds
      <4>2. cfg[s] = [RegOps |-> p.ops]
        BY <2>1, <4>1 DEF NewConfig
      <4>3. DOMAIN cfg[s] \ Special = {}
        BY <4>2 DEF Special
      <4> QED
        BY <4>3 DEF CfgRight
    <3> QED
      BY <3>1, <3>2
  <2>4. p.kind \in {"grpc", "grpcClient"} =>
          LibraryRight(p, cfg[s], OpsOf(p.kind), LibraryFields(p.kind))
    BY <2>1, <2>2, LibraryTells
  <2>5. RegRight(p, cfg[s], reg[s])
    BY <2>1, <2>2, RegistryTells
  <2> QED
    BY <2>3, <2>4, <2>5 DEF OpsOf, LibraryFields
<1> QED
  BY <1>1, LoadedKept, PTL
==============================================================================
