----------------------------- MODULE MCService -----------------------------
EXTENDS Service

(***************************************************************************)
(* A job is <<"field", kind, part, field, sources, options>>, a program    *)
(* whose sources and options each give one field a value of their own (the *)
(* source "garbage" is an environment with text that is no number),        *)
(* <<"library", kind, sources, zeros, options>>, one of grpc's library,    *)
(* <<"parts", kind, gives, options>>, one whose sources and options give   *)
(* the sets of fields they are mapped to, or                               *)
(* <<"addr", kind, server, bind, regAddr, check>>, one with addresses.     *)
(***************************************************************************)
MCServices == {"s1", "s2"}

None == [cfg |-> [f \in {} |-> Nothing], reg |-> [f \in {} |-> Nothing]]
Sources == {"env", "path", "toml", "json", "registry.json", "registry.toml"}
Give(part, f, v) == [None EXCEPT ![part] = f :> v]

\* The option "file" names a file that gives the field.
OneOption(part, f, v) == IF v = "file" THEN [of |-> "file", to |-> Give(part, f, v)]
                     ELSE [of |-> f, to |-> v]
Option(part, f, v) == IF part = "cfg" THEN OneOption(part, f, v)
                      ELSE [of |-> "RegOps", to |-> <<OneOption(part, f, v)>>]
FieldProgram(kind, part, f, sources, ops) ==
  [kind |-> kind,
   src  |-> [n \in Sources |-> IF n \in sources THEN Give(part, f, n)
                              ELSE IF n = "env" /\ "garbage" \in sources THEN Give(part, f, Garbage)
                              ELSE None],
   ops  |-> IF kind = "registrar" THEN [i \in DOMAIN ops |-> OneOption(part, f, ops[i])]
            ELSE [i \in DOMAIN ops |-> Option(part, f, ops[i])]]

\* Some sources say zero; an option is a file or a list of the library's own.
LibraryProgram(kind, sources, zeros, ops) ==
  LET f == "WriteBufferSize"
      own(v) == [of |-> IF kind = "grpc" THEN "GRPCSvrOps" ELSE "GRPCDialOps",
                 to |-> <<[of |-> f, to |-> [WriteBufferSize |-> v]], [of |-> f, to |-> [WriteBufferSize |-> v \o v]],
                          [of |-> "Timeout", to |-> [Timeout |-> v]]>>]
  IN  [kind |-> kind,
       src  |-> [n \in Sources |-> IF n \in zeros THEN Give("cfg", f, Zero)
                                  ELSE IF n \in sources THEN Give("cfg", f, n) ELSE None],
       ops  |-> [i \in DOMAIN ops |-> IF ops[i] = "file" THEN OneOption("cfg", f, "file")
                                     ELSE IF ops[i] = Zero
                                     THEN [of |-> "file", to |-> Give("cfg", f, Zero)]
                                     ELSE own(ops[i])]]

\* The toml file gives a level that is none.  An option gives a header, or a file.
PartsProgram(kind, gives, ops) ==
  LET given(n) == [f \in gives[n] |-> IF f = "CompressorLevel" /\ n = "toml" THEN TooHigh ELSE n]
      fields(i) == [f \in ops[i] |-> IF i = 1 THEN "a" ELSE "b"]
  IN  [kind |-> kind,
       src  |-> [n \in Sources |-> IF n \in DOMAIN gives THEN [None EXCEPT !.cfg = given(n)] ELSE None],
       ops  |-> [i \in DOMAIN ops |->
                   IF kind = "httpClient" THEN [of |-> "Header", to |-> fields(i)]
                   ELSE [of |-> "file", to |-> [None EXCEPT !.cfg = fields(i)]]]]

\* Addresses: the toml file has the server's, an option the one to bind; the
\* registry's environment has another one, and so does an option of its own.
AddrProgram(kind, server, bind, regAddr, check) ==
  LET addr(f, v) == IF v = Nothing THEN None.cfg ELSE f :> v
  IN  [kind |-> IF kind = "rpc http" THEN "rpc" ELSE kind,
       src |-> [n \in Sources |->
                  IF n = "toml" THEN [cfg |-> addr("ServerAddr", server), reg |-> None.reg]
                  ELSE IF n = "env" THEN [cfg |-> None.cfg,
                                          reg |-> addr("ServerAddr", regAddr)
                                                  @@ addr("HealthCheckAddr", check)]
                  ELSE None],
       ops |-> IF kind = "registrar"
               THEN (IF server = Nothing THEN <<>> ELSE <<[of |-> "ServerAddr", to |-> server]>>)
               ELSE (IF bind = Nothing THEN <<>> ELSE <<[of |-> "BindAddr", to |-> bind]>>)
                    \o (IF kind = "rpc http" THEN <<[of |-> "ServerRun", to |-> "http"]>> ELSE <<>>)
                    \o (IF regAddr = Nothing THEN <<>>
                        ELSE <<Option("reg", "ServerAddr", regAddr)>>)]

MCProgramOf(j) == CASE j[1] = "field"   -> FieldProgram(j[2], j[3], j[4], j[5], j[6])
                    [] j[1] = "library" -> LibraryProgram(j[2], j[3], j[4], j[5])
                    [] j[1] = "parts"   -> PartsProgram(j[2], j[3], j[4])
                    [] j[1] = "addr"    -> AddrProgram(j[2], j[3], j[4], j[5], j[6])

OptionLists == {<<>>, <<"a">>, <<"a", "b">>}
FileLists == {<<"file">>, <<"a", "file">>, <<"file", "a">>}
CfgSources == {"env", "path", "toml", "json"}

\* Fields no file has, and every other one, which the sources give in any way.
OptionOnly == {"AsyncCallChan", "Fatory", "GetAction", "ListenerFatory", "ServerRun"}
Given(kind) == DOMAIN Defaults(kind) \ (Special \cup OptionOnly \cup HeaderKeys)

\* Several fields of one option, and the keys of a header, by several sources.
PartsJobs ==
  LET jobs(kinds, sources, fields, ops) ==
        {<<"parts", k, g, o>> : k \in kinds, g \in [sources -> SUBSET fields], o \in ops}
      files == {"path", "toml", "json"}
  IN  jobs({"grpcClient"}, {"env", "toml", "json"}, {"KeepaliveTime", "PermitWithoutStream"},
           {<<>>, <<{"KeepaliveTime"}>>, <<{"WriteBufferSize"}>>})
      \cup jobs({"grpc"}, {"env", "toml", "json"}, {"KeepaliveTime", "MaxConnectionAge"},
                {<<>>, <<{"KeepaliveTime"}>>, <<{"WriteBufferSize"}>>})
      \cup jobs({"grpcClient", "grpc"}, {"env", "toml", "json"}, {"EnableCompressor", "CompressorLevel"},
                {<<>>, <<{"EnableCompressor"}>>})
      \cup jobs({"httpClient"}, files, HeaderKeys,
                {<<>>, <<{"HeaderAccept"}>>, <<{"HeaderAccept"}, {"HeaderAgent"}>>})
FieldJobs ==
  LET jobs(kind, part, f, sources) ==
        {<<"field", kind, part, f, S, o>> : S \in SUBSET sources, o \in OptionLists}
  IN  UNION {jobs(k, "cfg", f, CfgSources) : k \in {"rpcClient"}, f \in Given("rpcClient")}
      \cup UNION {jobs(k, "cfg", f, CfgSources) : k \in {"grpcClient"}, f \in Given("grpcClient")}
      \cup UNION {jobs(k, "cfg", f, CfgSources) : k \in {"httpClient"}, f \in Given("httpClient")}
      \cup UNION {jobs(k, "cfg", f, CfgSources) : k \in {"rpc"}, f \in Given("rpc")}
      \cup UNION {jobs(k, "cfg", f, CfgSources) : k \in {"grpc", "http"}, f \in Given("http")}
      \cup UNION {jobs(k, "reg", f, Sources) :
                    k \in {"rpcClient", "grpcClient", "registrar"}, f \in {"PassingOnly", "UserName"}}
      \cup {<<"field", k, "cfg", f, S, <<>>>> :
              k \in {"rpcClient"}, f \in Given("rpcClient"), S \in {{"garbage"}, {"garbage", "toml"}}}
      \cup {<<"field", "registrar", "reg", f, {"garbage"}, <<>>>> :
              f \in {"PassingOnly", "UserName", "HealthCheckInterval"}}
      \cup {<<"field", k, "cfg", f, S, <<>>>> :
              k \in {"grpcClient", "grpc"}, f \in {"KeepaliveTime", "EnableCompressor", "WriteBufferSize"},
              S \in SUBSET (CfgSources \cup {"garbage"})}
      \cup {<<"field", k, "cfg", f, S, o>> :
              k \in {"rpcClient", "grpcClient", "httpClient", "rpc", "grpc", "http"},
              f \in {"RateLimit", "WriteBufferSize"}, S \in SUBSET {"env", "json"}, o \in FileLists}
      \cup {<<"field", k, "reg", "UserName", S, o>> :
              k \in {"rpcClient", "grpcClient", "registrar"}, S \in SUBSET {"env", "json", "registry.json"},
              o \in FileLists}
      \cup {<<"library", k, S, Z, o>> :
              k \in {"grpcClient", "grpc"}, S \in SUBSET CfgSources, Z \in {{}, {"json"}, {"toml", "json"}},
              o \in FileLists \cup {<<>>, <<"a">>, <<"file", Zero>>, <<"a", Zero>>}}
      \cup {<<"field", "rpcClient", "cfg", "AsyncCallChan", {}, o>> :
              o \in {<<Nothing>>, <<"a">>, <<"a", Nothing>>, <<"a", Zero>>}}
      \cup {<<"field", "httpClient", "cfg", "Scheme", S, o>> :
              S \in SUBSET {"env", "json"}, o \in {<<"ftp">>, <<"https", "ftp">>}}

AddrJobs ==
  <<<<"addr", "rpc", "h:1", Nothing, "h:2", Nothing>>, <<"addr", "rpc", Nothing, "h:1", Nothing, Nothing>>,
   <<"addr", "rpc", "h:2", "h:1", Nothing, Nothing>>, <<"addr", "rpc", "h:x", Nothing, Nothing, Nothing>>,
   <<"addr", "rpc http", "h:1", Nothing, Nothing, Nothing>>,
   <<"addr", "grpc", "h:1", Nothing, "h:2", Nothing>>, <<"addr", "http", Nothing, "h:1", "h:2", Nothing>>,
   <<"addr", "rpc", Nothing, Nothing, "h:2", Nothing>>,
   <<"addr", "grpc", "h", Nothing, Nothing, Nothing>>,
   <<"addr", "registrar", "h:2", Nothing, Nothing, Nothing>>,
   <<"addr", "registrar", "h", Nothing, Nothing, "h:2">>,
   <<"addr", "registrar", Nothing, Nothing, Nothing, "h:x">>>>
MCJobs == FieldJobs \cup PartsJobs \cup Range(AddrJobs)

\* The programs that differ in one field run alone; two services of a pair are
\* interchangeable.
MCStarts == {[s \in MCServices |-> IF s = "s1" THEN j ELSE NoJob] : j \in FieldJobs \cup PartsJobs}
            \cup UNION {{[s \in MCServices |-> IF s = "s1" THEN AddrJobs[i] ELSE AddrJobs[k]] :
                          k \in i .. Len(AddrJobs)} : i \in DOMAIN AddrJobs}
MCAddrs == {"h:1", "h:2"}
MCNames == {"h:x"}
=============================================================================
