----------------------------- MODULE Settings -----------------------------
(***************************************************************************)
(* How a client, a server and the registry get their settings.  A source   *)
(* (the environment, a file, an option) gives values to some fields, which *)
(* replace what weaker sources gave; some options add to a field, or leave *)
(* a value they do not accept.  A value is a string or a sequence, and a   *)
(* file has a part for the client or the server, cfg, and one for the      *)
(* registry, reg; so does the environment, with C_ or S_ and R_.           *)
(***************************************************************************)
EXTENDS Naturals, FiniteSets, SequencesExt

CONSTANT PemFiles \* names of the certificate files that exist

Nothing == ""
Zero    == "0"
Garbage == "?"

Overlay(cfg, source) == [f \in DOMAIN cfg |-> IF f \in DOMAIN source THEN source[f] ELSE cfg[f]]

\* Of the environment, what reads as a value of the field: Garbage is text.
Numbers == {"Retry", "RetryIntervalMS", "RateLimit", "TimeOut", "PoolCap", "MaxCap",
            "DialTimeout", "IdleTimeout", "ReadTimeout", "WriteTimeout", "HealthCheckInterval",
            "HealthCheckTimeOut", "DeregisterCriticalServiceAfter", "WaitTime",
            "WriteBufferSize", "ReadBufferSize", "MaxMsgSize", "MaxSendMsgSize", "MaxRecvMsgSize",
            "InitialWindowSize", "InitialConnWindowSize", "Timeout", "ConnectionTimeout",
            "MaxConcurrentStreams", "MaxHeaderListSize", "CompressorLevel", "KeepaliveTime",
            "KeepaliveTimeout", "MaxConnectionIdle", "MaxConnectionAge", "MaxConnectionAgeGrace"}
Flags   == {"PassingOnly", "KeepAlive", "EnableCompressor", "PermitWithoutStream"}

Reads(f, text) == text # Nothing /\ (f \in Numbers \cup Flags => text # Garbage)
Readable(env) == [f \in {f \in DOMAIN env : Reads(f, env[f])} |-> env[f]]
FromEnv(cfg, env) == Overlay(cfg, Readable(env))

\* Sources by name, the files in the order they are read.
MutFileOrder == <<"path", "json", "toml">>     \* mutant: the other way round
FileOrder    == <<"path", "toml", "json">>
RegFileOrder == FileOrder \o <<"registry.json", "registry.toml">>

ReadFiles(cfg, order, part, src) ==
  FoldLeft(LAMBDA c, name : Overlay(c, src[name][part]), cfg, order)

(***************************************************************************)
(* Options: [of |-> a field, to |-> a value]                               *)
(***************************************************************************)
Sets(cfg, op) == [cfg EXCEPT ![op.of] = op.to]
Adds(cfg, op) == [cfg EXCEPT ![op.of] = @ \o op.to]

\* The name of a certificate file, and its content if there is such a file.
PemOf == [ClientPemFile |-> "ClientPem", ClientKeyFile |-> "ClientKey",
          ServerPemFile |-> "ServerPem", ServerKeyFile |-> "ServerKey"]
ReadsPem(cfg, op) ==
  [cfg EXCEPT ![op.of] = op.to, ![PemOf[op.of]] = IF op.to \in PemFiles THEN op.to ELSE @]
ReadPems(cfg, fields) ==
  FoldLeft(LAMBDA c, f : ReadsPem(c, [of |-> f, to |-> c[f]]), cfg, fields)

\* The middlewares of a program replace the six that are there without them,
\* the innermost of which waits for the rate limiter.
DefaultMiddleware(cfg) ==
  <<"ResponeTime", "ActionRequest", "TotalRequest", "TotalRequestError", "ActionRequestError",
    cfg.RateLimit>>
WithMiddlewares(cfg) ==
  [cfg EXCEPT !.ActionMiddlewares = IF cfg.tmpActionMiddlewares = <<>> THEN DefaultMiddleware(cfg)
                                    ELSE cfg.tmpActionMiddlewares]

-----------------------------------------------------------------------------
(***************************************************************************)
(* The rpc client                                                          *)
(***************************************************************************)
RpcClientDefaults ==
  [RegOps |-> <<>>, ActionMiddlewares |-> <<>>, tmpActionMiddlewares |-> <<>>,
   AsyncCallChan |-> "10", Fatory |-> "tcp", ConsulTags |-> <<>>, Strategy |-> "least",
   PrometheusNameSpace |-> "name", Codec |-> "gob", Retry |-> "3", RetryIntervalMS |-> "1000",
   RateLimit |-> Zero, TimeOut |-> "60", PassingOnly |-> "true", KeepAlive |-> "true",
   PoolCap |-> "2", MaxCap |-> "64", DialTimeout |-> "10", IdleTimeout |-> "600",
   ReadTimeout |-> "60", WriteTimeout |-> "60", ClientPemFile |-> Nothing,
   ClientPem |-> Nothing, ClientKeyFile |-> Nothing, ClientKey |-> Nothing]

RpcClientOption(cfg, op) ==
  CASE op.of = "file" -> Overlay(cfg, op.to.cfg)
    [] op.of \in {"RegOps", "ConsulTags", "tmpActionMiddlewares"} -> Adds(cfg, op)
    [] op.of \in {"ClientPemFile", "ClientKeyFile"} -> ReadsPem(cfg, op)
    [] op.of = "AsyncCallChan" -> IF op.to \in {Nothing, Zero} THEN cfg ELSE Sets(cfg, op)
    [] OTHER -> Sets(cfg, op)

NewRpcClientConfig(p) ==
  LET fromEnv == ReadPems(FromEnv(RpcClientDefaults, p.src["env"].cfg),
                          <<"ClientPemFile", "ClientKeyFile">>)
  IN  WithMiddlewares(FoldLeft(RpcClientOption, ReadFiles(fromEnv, FileOrder, "cfg", p.src), p.ops))

(***************************************************************************)
(* The http client                                                         *)
(***************************************************************************)
\* A file has some keys of the header, an option a header that is all there is:
\* the header is a field for each key.  Two keys stand for all.
HeaderKeys == {"HeaderAccept", "HeaderAgent"}
WholeHeader(header) == [k \in HeaderKeys |-> IF k \in DOMAIN header THEN header[k] ELSE Nothing]

HttpClientDefaults ==
  [HttpClientOps |-> <<>>, RegOps |-> <<>>, ActionMiddlewares |-> <<>>,
   tmpActionMiddlewares |-> <<>>, GetAction |-> "action=", HeaderAccept |-> Nothing,
   HeaderAgent |-> Nothing, ConsulTags |-> <<>>, Strategy |-> "round", PrometheusNameSpace |-> "name",
   Scheme |-> "http", Retry |-> "3", RateLimit |-> Zero, TimeOut |-> "60",
   PassingOnly |-> "true"]

HttpClientOption(cfg, op) ==
  CASE op.of = "file" -> Overlay(cfg, op.to.cfg)
    [] op.of \in {"RegOps", "ConsulTags", "HttpClientOps", "tmpActionMiddlewares"} -> Adds(cfg, op)
    [] op.of = "Header" -> Overlay(cfg, WholeHeader(op.to))
    [] op.of = "Scheme" -> IF op.to \in {"http", "https"} THEN Sets(cfg, op) ELSE cfg
    [] OTHER -> Sets(cfg, op)

NewHttpClientConfig(p) ==
  LET fromEnv == FromEnv(HttpClientDefaults, p.src["env"].cfg)
  IN  WithMiddlewares(FoldLeft(HttpClientOption, ReadFiles(fromEnv, FileOrder, "cfg", p.src), p.ops))

-----------------------------------------------------------------------------
(***************************************************************************)
(* The grpc client and server: a source's settings of the grpc library     *)
(* become options of that library, appended source after source; zero, or  *)
(* off, is no option, and the library takes the last of a kind.  Some      *)
(* options are made of several settings of one source.                     *)
(***************************************************************************)
DialFields   == <<"WriteBufferSize", "ReadBufferSize", "MaxMsgSize", "MaxSendMsgSize",
                  "MaxRecvMsgSize", "InitialWindowSize", "InitialConnWindowSize", "Timeout",
                  "Compressor", "WithKeepaliveParams">>
ServerFields == <<"WriteBufferSize", "ReadBufferSize", "MaxMsgSize", "WriteBufferSize",
                  "MaxRecvMsgSize", "ConnectionTimeout", "MaxConcurrentStreams",
                  "InitialWindowSize", "InitialConnWindowSize", "MaxHeaderListSize",
                  "Compressor", "KeepaliveParams">>

\* The settings an option f is made of, and those one of which asks for it.
Parts(f) == CASE f = "Compressor" -> {"CompressorLevel"}
              [] f = "WithKeepaliveParams" -> {"PermitWithoutStream", "KeepaliveTime", "KeepaliveTimeout"}
              [] f = "KeepaliveParams" -> {"MaxConnectionIdle", "MaxConnectionAge", "MaxConnectionAgeGrace",
                                           "KeepaliveTime", "KeepaliveTimeout"}
              [] OTHER -> {f}
Field(source, x) == IF x \in DOMAIN source THEN source[x] ELSE Zero
Asks(source, f) ==
  \E x \in IF f = "Compressor" THEN {"EnableCompressor"} ELSE Parts(f) : Field(source, x) # Zero

\* A level that is no level of gzip is the best one.
BestCompression == "9"
TooHigh         == "10"
Setting(source, f) ==
  [x \in Parts(f) |-> IF x = "CompressorLevel" /\ Field(source, x) = TooHigh THEN BestCompression
                      ELSE Field(source, x)]

LibraryOps(fields, source) ==
  FoldLeft(LAMBDA ops, f : IF Asks(source, f) THEN Append(ops, [of |-> f, to |-> Setting(source, f)])
                           ELSE ops,
           <<>>, fields)

\* The environment has a level without being told one.
EnvLibrary(env) ==
  LET read == Readable(env)
  IN  [f \in DOMAIN read \cup {"CompressorLevel"} |-> IF f \in DOMAIN read THEN read[f] ELSE BestCompression]

AppendGRPCConfig(cfg, source) ==
  [cfg EXCEPT !.GRPCDialOps = @ \o LibraryOps(DialFields, source)]
AppendGRPCServerConfig(cfg, source) ==
  [cfg EXCEPT !.GRPCSvrOps = @ \o LibraryOps(ServerFields, source)]

GrpcClientDefaults ==
  [RegOps |-> <<>>, ActionMiddlewares |-> <<>>, tmpActionMiddlewares |-> <<>>,
   AsyncCallChan |-> "100", GRPCDialOps |-> <<[of |-> "Timeout", to |-> [Timeout |-> "5"]]>>,
   ConsulTags |-> <<>>, Strategy |-> "least", PrometheusNameSpace |-> "name", Retry |-> "3",
   RetryIntervalMS |-> "1000", RateLimit |-> Zero, TimeOut |-> "60", PoolCap |-> "2",
   MaxCap |-> "32", PassingOnly |-> "true", KeepAlive |-> "true"]

\* The registry reads the file, too, as the last of its options so far.
GrpcClientFile(cfg, file) ==
  LET given == AppendGRPCConfig(Overlay(cfg, file.cfg), file.cfg)
  IN  [given EXCEPT !.RegOps = Append(@, [of |-> "file", to |-> file])]

GrpcClientOption(cfg, op) ==
  CASE op.of = "file" -> GrpcClientFile(cfg, op.to)
    [] op.of \in {"RegOps", "ConsulTags", "GRPCDialOps", "tmpActionMiddlewares"} -> Adds(cfg, op)
    [] op.of = "AsyncCallChan" -> IF op.to = Nothing THEN cfg ELSE Sets(cfg, op)
    [] OTHER -> Sets(cfg, op)

\* A file that is not there is one that gives nothing.
NewGrpcClientConfig(p) ==
  LET fromEnv == AppendGRPCConfig(FromEnv(GrpcClientDefaults, p.src["env"].cfg),
                                  EnvLibrary(p.src["env"].cfg))
      read    == FoldLeft(LAMBDA c, name : GrpcClientFile(c, p.src[name]), fromEnv, FileOrder)
  IN  WithMiddlewares(FoldLeft(GrpcClientOption, read, p.ops))

-----------------------------------------------------------------------------
(***************************************************************************)
(* Servers                                                                 *)
(***************************************************************************)
\* A server that is given one of its addresses has it as the other, too.
MutReset(cfg, server, bind) ==
  [cfg EXCEPT ![bind] = IF cfg[bind] = Nothing THEN cfg[server] ELSE @]
                                               \* mutant: one direction only
Reset(cfg, server, bind) ==
  LET bound == [cfg EXCEPT ![bind] = IF @ = Nothing THEN cfg[server] ELSE @]
  IN  [bound EXCEPT ![server] = IF @ = Nothing THEN bound[bind] ELSE @]
ResetServerAddr(cfg) == Reset(cfg, "ServerAddr", "BindAddr")

RpcServerDefaults ==
  [RegOps |-> <<>>, ActionMiddlewares |-> <<>>, tmpActionMiddlewares |-> <<>>,
   ListenerFatory |-> "tcp", ServerRun |-> "tcp", ServerAddr |-> Nothing, BindAddr |-> Nothing,
   PrometheusNameSpace |-> "name", RpcPath |-> "/_goRPC_", RpcName |-> Nothing, Codec |-> "gob",
   RpcDebugPath |-> "/debug/rpc", RateLimit |-> Zero, ServerPemFile |-> Nothing,
   ServerPem |-> Nothing, ServerKeyFile |-> Nothing, ServerKey |-> Nothing,
   ClientPemFile |-> Nothing, ClientPem |-> Nothing]

\* ServerActionMiddlewares of rpc, and of http, is an option of the client.
RpcServerOption(cfg, op) ==
  CASE op.of = "file" -> Overlay(cfg, op.to.cfg)
    [] op.of = "RegOps" -> Adds(cfg, op)
    [] op.of \in {"ServerPemFile", "ServerKeyFile", "ClientPemFile"} -> ReadsPem(cfg, op)
    [] OTHER -> Sets(cfg, op)

NewRpcServerConfig(p) ==
  LET fromEnv == ReadPems(FromEnv(RpcServerDefaults, p.src["env"].cfg),
                          <<"ServerPemFile", "ServerKeyFile", "ClientPemFile">>)
      given   == FoldLeft(RpcServerOption, ReadFiles(fromEnv, FileOrder, "cfg", p.src), p.ops)
  IN  ResetServerAddr(WithMiddlewares(given))

GrpcServerDefaults ==
  [RegOps |-> <<>>, GRPCSvrOps |-> <<>>, ActionMiddlewares |-> <<>>,
   tmpActionMiddlewares |-> <<>>, ServerAddr |-> Nothing, BindAddr |-> Nothing,
   PrometheusNameSpace |-> "name", RateLimit |-> Zero]

GrpcServerFile(cfg, file) == AppendGRPCServerConfig(Overlay(cfg, file.cfg), file.cfg)

GrpcServerOption(cfg, op) ==
  CASE op.of = "file" -> GrpcServerFile(cfg, op.to)
    [] op.of \in {"RegOps", "GRPCSvrOps", "tmpActionMiddlewares"} -> Adds(cfg, op)
    [] OTHER -> Sets(cfg, op)

NewGrpcServerConfig(p) ==
  LET fromEnv == AppendGRPCServerConfig(FromEnv(GrpcServerDefaults, p.src["env"].cfg),
                                        EnvLibrary(p.src["env"].cfg))
      read    == FoldLeft(LAMBDA c, name : GrpcServerFile(c, p.src[name]), fromEnv, FileOrder)
  IN  ResetServerAddr(WithMiddlewares(FoldLeft(GrpcServerOption, read, p.ops)))

HttpServerDefaults ==
  [RegOps |-> <<>>, GetAction |-> "Action", ActionMiddlewares |-> <<>>,
   tmpActionMiddlewares |-> <<>>, ServerAddr |-> Nothing, BindAddr |-> Nothing,
   PrometheusNameSpace |-> "name", RateLimit |-> Zero]

HttpServerOption(cfg, op) ==
  CASE op.of = "file" -> Overlay(cfg, op.to.cfg)
    [] op.of = "RegOps" -> Adds(cfg, op)
    [] OTHER -> Sets(cfg, op)

NewHttpServerConfig(p) ==
  LET fromEnv == FromEnv(HttpServerDefaults, p.src["env"].cfg)
      given   == FoldLeft(HttpServerOption, ReadFiles(fromEnv, FileOrder, "cfg", p.src), p.ops)
  IN  ResetServerAddr(WithMiddlewares(given))

-----------------------------------------------------------------------------
(***************************************************************************)
(* The registry                                                            *)
(***************************************************************************)
RegistryDefaults ==
  [ServerAddr |-> Nothing, ConsulAddr |-> "127.0.0.1:8500", HealthCheckAddr |-> "127.0.0.1",
   HealthCheckBindAddr |-> Nothing, HealthCheckInterval |-> "1", HealthCheckTimeOut |-> "60",
   DeregisterCriticalServiceAfter |-> "30", PassingOnly |-> "true", Namespace |-> Nothing,
   PrometheusNameSpace |-> "name", PrometheusAddr |-> Nothing, PrometheusBindAddr |-> Nothing,
   PrometheusServerName |-> "prometheus", UserName |-> Nothing, Password |-> Nothing,
   ConsulTags |-> <<>>, WaitTime |-> "60", QueryOpts |-> Nothing]

RegOption(cfg, op) == IF op.of = "file" THEN Overlay(cfg, op.to.reg) ELSE Sets(cfg, op)

\* The wait time of consul's own client replaces what the environment and the
\* files say; an option still counts.
ConsulWaitTime == Zero
GetConfig(src, ops) ==
  LET read == ReadFiles(FromEnv(RegistryDefaults, src["env"].reg), RegFileOrder, "reg", src)
  IN  Reset(FoldLeft(RegOption, [read EXCEPT !.WaitTime = ConsulWaitTime], ops),
            "HealthCheckAddr", "HealthCheckBindAddr")

\* RegistryServerWithServerAddr has the server's address as the last option.
MutWithServerAddr(ops, addr) == <<[of |-> "ServerAddr", to |-> addr]>> \o ops
                                               \* mutant: as the first
WithServerAddr(ops, addr) == Append(ops, [of |-> "ServerAddr", to |-> addr])
=============================================================================
