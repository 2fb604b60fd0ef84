------------------------------ MODULE Service ------------------------------
(***************************************************************************)
(* The services of one process: RunServer of transport/rpc, grpc and http, *)
(* RegistryServer called by a program itself, and clients as far as they   *)
(* read settings and share the consul clients.  Consul is external: it     *)
(* accepts a registration or fails, and sometimes loses one.  One consul   *)
(* agent is modelled.                                                      *)
(***************************************************************************)
EXTENDS Settings

CONSTANTS
  Services,     \* names of services, which differ
  Jobs,         \* the programs a service may be, ProgramOf gives each one's settings
  ProgramOf(_), \* [kind, src, ops]
  Starts,       \* the jobs that meet: functions from Services to Jobs
  NoJob, NoCfg, NoReg, NoAddr,
  AddrsWithPort, Names, \* addresses with a port, with a port that is not a number
  MaxFails,     \* bound: registrations that fail
  MaxLosses     \* bound: registrations consul loses

ClientKinds == {"rpcClient", "grpcClient", "httpClient"}
ServerKinds == {"rpc", "grpc", "http"}

\* A program that go accepts: options are lists, and the lists that options add to
\* have no name in a file.
IsList(x) == x \in Seq(Range(x))
ListFields == {"RegOps", "GRPCDialOps", "GRPCSvrOps"}
WellTyped(p) ==
  /\ p.kind \in ClientKinds \cup ServerKinds \cup {"registrar"}
  /\ {"env", "path", "toml", "json", "registry.json", "registry.toml"} \subseteq DOMAIN p.src
  /\ \A n \in DOMAIN p.src : ListFields \cap DOMAIN p.src[n].cfg = {}
  /\ IsList(p.ops)
  /\ \A i \in DOMAIN p.ops :
       /\ p.ops[i].of \in ListFields => IsList(p.ops[i].to)
       /\ p.ops[i].of = "file" => ListFields \cap DOMAIN p.ops[i].to.cfg = {}

ASSUME StartsAssumption == Starts \subseteq [Services -> Jobs \cup {NoJob}]
ASSUME ProgramsAssumption == \A j \in Jobs : WellTyped(ProgramOf(j))
ASSUME AddrsAssumption == NoAddr \notin AddrsWithPort \cup Names \cup {"any"}
ASSUME BoundsAssumption == MaxFails \in Nat /\ MaxLosses \in Nat

VARIABLES
  job,       \* what each service is to be, until its settings are read
  cfg, reg,  \* its settings and those of its registry, when they have been read
  at,        \* what its later steps use of them
  pc,
  listening, \* the address it listens at
  loop,      \* the goroutine of do_register: "off", "register" or asleep for an "hour"
  catalog,   \* external: what consul has registered for it
  cached,    \* mapConsulReg has the client of the agent
  once,      \* registrySvrOnce: "no", "running" or "done"
  healthAddr, \* healthCheckHttpServerAddr
  health,    \* the goroutine of the health check server
  dead,      \* the process has ended
  fails, losses

setVars    == <<job, cfg, reg, at>>
healthVars == <<once, healthAddr, health>>
regVars    == <<loop, catalog, fails, losses>>
vars == <<setVars, pc, listening, regVars, cached, healthVars, dead>>

Goto(s, to) == pc' = [pc EXCEPT ![s] = to]

Parses(addr) == addr \notin Names
HasPort(addr) == addr \in AddrsWithPort

-----------------------------------------------------------------------------
(***************************************************************************)
(* Settings                                                                *)
(***************************************************************************)
NewConfig(p) == CASE p.kind = "rpcClient"  -> NewRpcClientConfig(p)
                  [] p.kind = "grpcClient" -> NewGrpcClientConfig(p)
                  [] p.kind = "httpClient" -> NewHttpClientConfig(p)
                  [] p.kind = "rpc"        -> NewRpcServerConfig(p)
                  [] p.kind = "grpc"       -> NewGrpcServerConfig(p)
                  [] p.kind = "http"       -> NewHttpServerConfig(p)
                  [] p.kind = "registrar"  -> [RegOps |-> p.ops]

RegOps(p, c) == IF p.kind \in ServerKinds THEN WithServerAddr(c.RegOps, c.ServerAddr) ELSE c.RegOps

Load(s) ==
  /\ pc[s] = "start"
  /\ LET p == ProgramOf(job[s])
         c == NewConfig(p)
     IN  /\ cfg' = [cfg EXCEPT ![s] = c]
         /\ reg' = [reg EXCEPT ![s] = GetConfig(p.src, RegOps(p, c))]
  /\ Goto(s, "loaded")
  /\ UNCHANGED <<job, at, listening, regVars, cached, healthVars, dead>>

\* What of the settings counts for an address.
Gives(p, f) ==
  \/ \E n \in DOMAIN p.src : f \in DOMAIN p.src[n].cfg
  \/ \E i \in DOMAIN p.ops : p.ops[i].of = f
  \/ \E i \in DOMAIN p.ops : p.ops[i].of = "file" /\ f \in DOMAIN p.ops[i].to.cfg

\* WrapEndpoint fails for a service without endpoints to wrap.
CannotWrap(p) == p.kind \in {"rpc", "grpc"}

\* rpc listens before it registers.
Run(s) ==
  /\ pc[s] = "loaded"
  /\ LET p == ProgramOf(job[s]) IN
       /\ at' = [at EXCEPT ![s] =
            [kind |-> p.kind, addr |-> reg[s].ServerAddr, health |-> reg[s].HealthCheckAddr,
             server |-> IF p.kind \in ServerKinds THEN cfg[s].ServerAddr ELSE reg[s].ServerAddr,
             bind   |-> IF p.kind \in ServerKinds THEN cfg[s].BindAddr ELSE Nothing,
             run    |-> IF p.kind = "rpc" THEN cfg[s].ServerRun ELSE p.kind,
             both   |-> Gives(p, "ServerAddr") /\ Gives(p, "BindAddr")]]
       /\ \/ Goto(s, IF p.kind = "rpc" THEN "listen" ELSE "consul")
          \/ CannotWrap(p) /\ Goto(s, "done")
  /\ job' = [job EXCEPT ![s] = NoJob]
  /\ cfg' = [cfg EXCEPT ![s] = NoCfg] /\ reg' = [reg EXCEPT ![s] = NoCfg]
  /\ UNCHANGED <<listening, regVars, cached, healthVars, dead>>

-----------------------------------------------------------------------------
(***************************************************************************)
(* RunServer                                                               *)
(***************************************************************************)
\* Without an address the system chooses a port; an address may be in use.
Bound(addr) == IF addr = Nothing THEN "any" ELSE addr
CanListen(s) == /\ at[s].bind = Nothing \/ HasPort(at[s].bind) \/ at[s].bind \in Names
                /\ \A q \in Services \ {s} : listening[q] # Bound(at[s].bind)
                                             \/ at[s].bind = Nothing

\* grpc and http have registered by then, and deregister when they cannot listen.
Listen(s) ==
  /\ pc[s] = "listen"
  /\ \/ /\ CanListen(s)
        /\ listening' = [listening EXCEPT ![s] = Bound(at[s].bind)]
        /\ Goto(s, IF at[s].kind = "rpc" THEN "consul" ELSE "serve")
     \/ /\ Goto(s, IF at[s].kind = "rpc" THEN "done" ELSE "deregister")
        /\ UNCHANGED listening
  /\ UNCHANGED <<setVars, regVars, cached, healthVars, dead>>

\* Serving ends.  The servers of grpc and of net/http, which may run rpc, too,
\* close the listener before they return, and the service is deregistered after
\* that; accepting tcp connections leaves it open, and so does an rpc service
\* that cannot be served at all.
Stop(s) ==
  /\ pc[s] = "serve"
  /\ \/ at[s].run # "tcp" /\ listening' = [listening EXCEPT ![s] = NoAddr]
     \/ at[s].kind = "rpc" /\ UNCHANGED listening
  /\ Goto(s, "deregister")
  /\ UNCHANGED <<setVars, regVars, cached, healthVars, dead>>

\* Whatever consul says to it.  The loop does not hear of it.
Deregister(s) ==
  /\ pc[s] = "deregister"
  /\ catalog' \in {catalog, [catalog EXCEPT ![s] = NoReg]}
  /\ Goto(s, IF at[s].kind = "rpc" THEN "close" ELSE "done")
  /\ UNCHANGED <<setVars, listening, loop, fails, losses, cached, healthVars, dead>>

Close(s) == /\ pc[s] = "close"
            /\ listening' = [listening EXCEPT ![s] = NoAddr]
            /\ Goto(s, "done")
            /\ UNCHANGED <<setVars, regVars, cached, healthVars, dead>>

-----------------------------------------------------------------------------
(***************************************************************************)
(* RegistryServer, NewConsulClient                                         *)
(***************************************************************************)
\* A client needs nothing but the consul client.  An address whose port is no
\* number is an error: of rpc's deferred calls the one that closes is due.
Registers(s) == IF at[s].kind \in ClientKinds THEN Goto(s, "done")
                ELSE IF ~Parses(at[s].addr)
                     THEN Goto(s, IF at[s].kind = "rpc" THEN "close" ELSE "done")
                ELSE Goto(s, IF HasPort(at[s].addr) THEN "registration" ELSE "health")

\* getConsulReg and pushConsulReg lock the map for themselves: two services may
\* both make a client, and the map keeps one.
ConsulClient(s) == /\ pc[s] = "consul"
                   /\ IF cached THEN Registers(s) ELSE Goto(s, "consul client")
                   /\ UNCHANGED <<setVars, listening, regVars, cached, healthVars, dead>>

\* RegistryServer logs a setting of the configuration it got none of.
MakeConsulClient(s) ==
  /\ pc[s] = "consul client"
  /\ \/ cached' = TRUE /\ Registers(s) /\ UNCHANGED dead
     \/ at[s].kind \in ClientKinds /\ Goto(s, "done") /\ UNCHANGED <<cached, dead>>
     \/ at[s].kind \notin ClientKinds /\ dead' = TRUE /\ UNCHANGED <<cached, pc>>
  /\ UNCHANGED <<setVars, listening, regVars, healthVars>>

\* The first service without a port starts the health check server, with its
\* own settings; others wait in Do until the first is through.
MutOnce(s) == /\ once \in {"running", "done"}  \* mutant: a flag instead of sync.Once
              /\ Goto(s, "registration")
              /\ UNCHANGED <<healthAddr, health, once>>
Once(s) == /\ once = "done"
           /\ Goto(s, "registration")
           /\ UNCHANGED <<healthAddr, health, once>>
HealthCheck(s) ==
  /\ pc[s] = "health"
  /\ \/ Once(s)
     \/ /\ once = "no" /\ once' = "running"
        /\ Goto(s, "make server")
        /\ UNCHANGED <<healthAddr, health>>
  /\ UNCHANGED <<setVars, listening, regVars, cached, dead>>

\* A health check address without a port gets a free one; with a port that is no
\* number, the process panics.
RandomHostAddr(addr) == [addr |-> addr, free |-> ~HasPort(addr)]
MakeServer(s) ==
  /\ pc[s] = "make server"
  /\ \/ /\ Parses(at[s].health)
        /\ healthAddr' = RandomHostAddr(at[s].health)
        /\ health' = "starting"
        /\ Goto(s, "wait")
        /\ UNCHANGED dead
     \/ /\ ~Parses(at[s].health)
        /\ dead' = TRUE
        /\ UNCHANGED <<healthAddr, health, pc>>
  /\ UNCHANGED <<setVars, listening, regVars, cached, once>>

\* The port may have been taken since.
ListenAndServe == /\ health = "starting"
                  /\ \/ health' = "up" /\ UNCHANGED dead
                     \/ dead' = TRUE /\ UNCHANGED health
                  /\ UNCHANGED <<setVars, pc, listening, regVars, cached, once, healthAddr>>

\* A second without an error.
Waited(s) == /\ pc[s] = "wait"
             /\ once' = "done"
             /\ Goto(s, "registration")
             /\ UNCHANGED <<setVars, listening, regVars, cached, healthAddr, health, dead>>

\* makeConsulAgentServiceRegistration is made when it is sent: nothing it reads
\* changes in between.
Registration(s) == [addr |-> at[s].addr,
                    check |-> IF HasPort(at[s].addr) THEN at[s].addr ELSE healthAddr]
StartLoop(s) ==
  /\ pc[s] = "registration"
  /\ loop' = [loop EXCEPT ![s] = "register"]
  /\ Goto(s, IF at[s].kind \in {"grpc", "http"} THEN "listen" ELSE "serve")
  /\ UNCHANGED <<setVars, listening, catalog, fails, losses, cached, healthVars, dead>>

\* The goroutine of do_register: again after 5 seconds or an hour.
MutAgain(s) == [loop EXCEPT ![s] = "off"]      \* mutant: registers once
Again(s) == [loop EXCEPT ![s] = "hour"]
Register(s) ==
  /\ loop[s] = "register"
  /\ \/ /\ catalog' = [catalog EXCEPT ![s] = Registration(s)]
        /\ loop' = Again(s)
        /\ UNCHANGED fails
     \/ /\ fails < MaxFails /\ fails' = fails + 1
        /\ UNCHANGED <<catalog, loop>>
  /\ UNCHANGED <<setVars, pc, listening, losses, cached, healthVars, dead>>

Wake(s) == /\ loop[s] = "hour"
           /\ loop' = [loop EXCEPT ![s] = "register"]
           /\ UNCHANGED <<setVars, pc, listening, catalog, fails, losses, cached, healthVars, dead>>

\* Consul loses a registration: its health checks went with another service's.
Lose(s) == /\ catalog[s] # NoReg /\ losses < MaxLosses
           /\ catalog' = [catalog EXCEPT ![s] = NoReg]
           /\ losses' = losses + 1
           /\ UNCHANGED <<setVars, pc, listening, loop, fails, cached, healthVars, dead>>

-----------------------------------------------------------------------------
Init == /\ job \in Starts
        /\ cfg = [s \in Services |-> NoCfg] /\ reg = [s \in Services |-> NoCfg]
        /\ at = [s \in Services |-> NoCfg]
        /\ pc = [s \in Services |-> IF job[s] = NoJob THEN "done" ELSE "start"]
        /\ listening = [s \in Services |-> NoAddr] /\ loop = [s \in Services |-> "off"]
        /\ catalog = [s \in Services |-> NoReg] /\ cached = FALSE
        /\ once = "no" /\ healthAddr = NoAddr /\ health = "off"
        /\ dead = FALSE /\ fails = 0 /\ losses = 0

Loop(s) == Register(s) \/ Wake(s)

Next == /\ ~dead
        /\ \/ ListenAndServe
           \/ \E s \in Services :
                \/ Load(s) \/ Run(s) \/ Listen(s) \/ Stop(s) \/ Deregister(s) \/ Close(s)
                \/ ConsulClient(s) \/ MakeConsulClient(s) \/ HealthCheck(s) \/ MakeServer(s)
                \/ Waited(s) \/ StartLoop(s) \/ Loop(s) \/ Lose(s)

\* The goroutine of do_register runs while the process does.
Spec == Init /\ [][Next]_vars /\ \A s \in Services : WF_vars(~dead /\ Loop(s))

-----------------------------------------------------------------------------
(***************************************************************************)
(* Properties                                                              *)
(***************************************************************************)
\* Every variable keeps its type.
TypeOK ==
  /\ \A s \in Services : job[s] \in Jobs \cup {NoJob} /\ loop[s] \in {"off", "register", "hour"}
  /\ once \in {"no", "running", "done"} /\ health \in {"off", "starting", "up"}
  /\ cached \in BOOLEAN /\ dead \in BOOLEAN
  /\ fails \in 0 .. MaxFails /\ losses \in 0 .. MaxLosses

\* Of what is said one after the other, the last that gives f, default if nothing does.
Latest(says, f, default) == LET by == {i \in DOMAIN says : f \in DOMAIN says[i]}
                            IN  IF by = {} THEN default ELSE says[Max(by)][f]

\* The sources, the strongest last, and what each gives.
CfgOrder == <<"env", "path", "toml", "json">>
RegOrder(kind) ==
  IF kind = "grpcClient"
  THEN <<"env", "registry.json", "registry.toml", "path", "toml", "json">>
  ELSE <<"env", "path", "toml", "json", "registry.json", "registry.toml">>
GivenBy(src, part, order) ==
  [i \in DOMAIN order |-> IF order[i] = "env" THEN Readable(src["env"][part]) ELSE src[order[i]][part]]

\* What an option with a value that is accepted gives to which fields.
Rejected(kind, op) ==
  \/ kind = "httpClient" /\ op.of = "Scheme" /\ op.to \notin {"http", "https"}
  \/ kind = "rpcClient"  /\ op.of = "AsyncCallChan" /\ op.to \in {Nothing, Zero}
  \/ kind = "grpcClient" /\ op.of = "AsyncCallChan" /\ op.to = Nothing
Says(kind, op) == IF op.of = "file" THEN op.to.cfg
                  ELSE IF kind = "httpClient" /\ op.of = "Header" THEN WholeHeader(op.to)
                  ELSE [f \in IF Rejected(kind, op) THEN {} ELSE {op.of} |-> op.to]
RegSays(op)    == IF op.of = "file" THEN op.to.reg ELSE [f \in {op.of} |-> op.to]

Special == {"RegOps", "ConsulTags", "HttpClientOps", "GRPCDialOps", "GRPCSvrOps", "ServerAddr",
            "BindAddr", "HealthCheckAddr", "HealthCheckBindAddr", "WaitTime",
            "ActionMiddlewares", "tmpActionMiddlewares", "ClientPem", "ClientKey", "ServerPem",
            "ServerKey"}

Defaults(kind) == CASE kind = "rpcClient"  -> RpcClientDefaults
                    [] kind = "grpcClient" -> GrpcClientDefaults
                    [] kind = "httpClient" -> HttpClientDefaults
                    [] kind = "rpc"        -> RpcServerDefaults
                    [] kind = "grpc"       -> GrpcServerDefaults
                    [] kind = "http"       -> HttpServerDefaults
                    [] kind = "registrar"  -> [RegOps |-> <<>>]

CfgRight(p, c) ==
  \A f \in DOMAIN c \ Special :
    c[f] = Latest([i \in DOMAIN p.ops |-> Says(p.kind, p.ops[i])], f,
                  Latest(GivenBy(p.src, "cfg", CfgOrder), f, Defaults(p.kind)[f]))

\* What the grpc library makes of a list of its options: it takes the last of a
\* kind.  A source says of an option what it gives of its settings when it asks
\* for the option, and nothing of the others.
Unset == [x \in {} |-> Zero]
InLibrary(list, f, default) ==
  Latest([i \in DOMAIN list |-> [g \in {list[i].of} |-> list[i].to]], f, default)
Asked(source) ==
  [f \in {f \in Range(DialFields) \cup Range(ServerFields) : Asks(source, f)} |-> Setting(source, f)]
LibrarySays(ops, op) ==
  IF op.of = "file" THEN Asked(op.to.cfg)
  ELSE IF op.of = ops
       THEN [f \in {op.to[i].of : i \in DOMAIN op.to} |-> InLibrary(op.to, f, Unset)]
       ELSE Unset

LibraryRight(p, c, ops, fields) ==
  LET heard == [i \in DOMAIN CfgOrder |->
                  Asked(IF CfgOrder[i] = "env" THEN EnvLibrary(p.src["env"].cfg)
                        ELSE p.src[CfgOrder[i]].cfg)]
  IN  \A f \in Range(fields) :
        InLibrary(c[ops], f, Unset) =
          Latest([i \in DOMAIN p.ops |-> LibrarySays(ops, p.ops[i])], f,
                 Latest(heard, f, InLibrary(Defaults(p.kind)[ops], f, Unset)))

RegRight(p, c, r) ==
  \A f \in DOMAIN r \ Special :
    r[f] = Latest([i \in DOMAIN c.RegOps |-> RegSays(c.RegOps[i])], f,
                  Latest(GivenBy(p.src, "reg", RegOrder(p.kind)), f, RegistryDefaults[f]))

\* docs/rpc/client配置参数.md:3 and the others: options win over json files, those
\* over toml files, those over the environment, as far as it can be read.  Between
\* them and the environment is the file the environment names.  Of two options the
\* later wins, one that names a file with all the file has.  For the registry this
\* is the order of the code: its own two files after the service's (for a grpc
\* client before them), json first; that docs/register says otherwise is
\* DocumentedOrder.  Of the settings of the grpc library a zero counts as not
\* given, and of an option made of several settings the strongest source that asks
\* for it gives all: what weaker sources say of the others is lost.  Left out are
\* what the code treats in another way: fields that are added to, addresses that
\* are given as one for both, the content of certificate files, and WaitTime, of
\* which only an option counts.
LastSourceWins ==
  \A s \in Services : pc[s] = "loaded" =>
    LET p == ProgramOf(job[s])
    IN  /\ CfgRight(p, cfg[s])
        /\ p.kind = "grpcClient" => LibraryRight(p, cfg[s], "GRPCDialOps", DialFields)
        /\ p.kind = "grpc"       => LibraryRight(p, cfg[s], "GRPCSvrOps", ServerFields)
        /\ RegRight(p, cfg[s], reg[s])

\* docs/register/配置参数.md:3 and :5: of the registry's two files, json wins over
\* toml, and toml over the environment, where no other file and no option says.
DocumentedOrder ==
  \A s \in Services : pc[s] = "loaded" =>
    LET p == ProgramOf(job[s]) IN
    \A f \in DOMAIN reg[s] \ Special :
      /\ \A n \in {"path", "toml", "json"} : f \notin DOMAIN p.src[n].reg
      /\ \A i \in DOMAIN cfg[s].RegOps : f \notin DOMAIN RegSays(cfg[s].RegOps[i])
      => reg[s][f] = Latest(GivenBy(p.src, "reg", <<"env", "registry.toml", "registry.json">>), f,
                            RegistryDefaults[f])

\* registry.go:154 (RegistryServerWithServerAddr): whatever the environment, the
\* files and the options of the registry say, consul gets the server's address.
\* (TypeOK is a part of it.)
AddressFixed ==
  /\ TypeOK
  /\ \A s \in Services : catalog[s] # NoReg => catalog[s].addr = at[s].server

\* rpc/server.go:71-94: while an rpc server serves, it listens when consul has it,
\* and utils.go:8: given one address, at the address consul has.  It still does
\* when serving has ended, until it has deregistered, if it accepts tcp connections
\* itself; net/http closes the listener first (server_fatory.go:45).
AnnouncedServed ==
  \A s \in Services :
    /\ catalog[s] # NoReg /\ at[s].kind = "rpc"
    /\ pc[s] = "serve" \/ (pc[s] = "deregister" /\ at[s].run = "tcp")
    => /\ listening[s] # NoAddr
       /\ ~at[s].both /\ at[s].bind # Nothing => listening[s] = catalog[s].addr

\* registry.go:195 (runHealthCheckServer): consul checks a service without a port
\* at the one health check server of the process, whichever service started it.
CheckAnswered ==
  \A s \in Services :
    catalog[s] # NoReg /\ ~HasPort(catalog[s].addr) =>
      catalog[s].check # NoAddr /\ catalog[s].check = healthAddr /\ health # "off"

\* registry.go:99 (do_register): a service that consul lost with another one is
\* registered again while it serves.
StaysRegistered ==
  \A s \in Services : pc[s] = "serve" ~> catalog[s] # NoReg \/ pc[s] # "serve" \/ dead
=============================================================================
