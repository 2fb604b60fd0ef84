---------------------------- MODULE TimeoutCodec ----------------------------
(***************************************************************************)
(* One RPC connection: timeoutCodec of pool/rpc/timeout_codec.go between   *)
(* net/rpc's client (one reader goroutine, writers one after another) and  *)
(* the socket.  Requests wait in a list, oldest first; before it reads a   *)
(* header the reader answers the oldest itself once that is late, and the  *)
(* list says whether reads of the socket have a deadline.                  *)
(*                                                                         *)
(* net/rpc, the socket and the server are modelled from how they are used. *)
(* The server answers in any order, or never.  A gob answer is two         *)
(* messages on the wire, a JSON answer is one.  A write that fails leaves  *)
(* the request unsent; that it may leave half of it in EncBuf, so that the *)
(* server hangs up, is one of the ways the socket breaks.                  *)
(*                                                                         *)
(* Time is abstract: a listed request grows late, oldest first, and a      *)
(* deadline that is near may pass.                                         *)
(***************************************************************************)
EXTENDS Integers, Sequences, SequencesExt

CONSTANTS
  MaxReq,   \* bound: requests sent on the connection
  Nothing   \* a call that has not ended

ASSUME MaxReqAssumption == MaxReq \in Nat

Reqs  == 1 .. MaxReq   \* requests are their sequence numbers
NoSeq == 0             \* headerSeq before any header (there MaxUint64); no request

VARIABLES
  \* net/rpc's client
  pending,   \* Client.pending: requests whose call waits
  next,      \* Client.seq
  outcome,   \* what each call ended with
  up,        \* the client is neither shut down nor closing
  \* timeoutCodec
  li,        \* liRpcReq and seq2em
  late,      \* requests listed for longer than readTimeout
  marked,    \* requests whose rpcReq.err is ErrTimeout
  headerSeq,
  isReadingBody,
  deadline,  \* of reads: "near" (readTimeout), "past" or "far" (365 days)
  gob,       \* the codec under it: gob, or JSON
  \* the writer that has reqMutex, and the reader
  wpc, wseq,
  rpc, cur,  \* cur: seq and err of the Response, whether its call waits, and the call's outcome
  \* the server and the wire
  sent,      \* requests the server received
  served,    \* how it answered
  wire,      \* messages not read yet
  sending,   \* the request whose header is on the wire and whose body is not
  socket     \* "open", "lost", or "garbled" once a message was read as another

netVars    == <<pending, next, outcome, up>>
listVars   == <<li, late, marked>>
writerVars == <<wpc, wseq>>
readerVars == <<rpc, cur, headerSeq, isReadingBody>>
serverVars == <<sent, served, wire, sending>>
vars == <<netVars, listVars, deadline, gob, writerVars, readerVars, serverVars, socket>>

Late     == [kind |-> "late"]
Down     == [kind |-> "down"]
Unsent   == [kind |-> "unsent"]
Refused  == [kind |-> "refused"]
Reply(r) == [kind |-> "reply", of |-> r]
Outcomes == {Late, Down, Unsent, Refused} \cup {Reply(r) : r \in Reqs}

NoResponse == [seq |-> NoSeq, err |-> "no", call |-> FALSE, end |-> Nothing]

\* The sections of mtReq are one step each, but for a writer's setDeadline
\* that lifts the read deadline: the reader sets isReadingBody without mtReq.
MtReqFree == wpc \notin {"lift", "relift"}

-----------------------------------------------------------------------------
\* removeReq: seq2em leads to the place of a request in the list.
Place(r)  == CHOOSE k \in DOMAIN li : li[k] = r
Unlist(r) == /\ li' = IF r \in ToSet(li) THEN RemoveAt(li, Place(r)) ELSE li
             /\ late' = late \ {r}
             /\ UNCHANGED marked

(***************************************************************************)
(* Writers: Client.send, WriteRequest                                      *)
(***************************************************************************)
Send == /\ wpc = "idle" /\ up /\ next \in Reqs
        /\ pending' = pending \cup {next} /\ wseq' = next /\ next' = next + 1
        /\ wpc' = "push"
        /\ UNCHANGED <<outcome, up, listVars, deadline, sent>>

PushReq == /\ wpc = "push"
           /\ li' = Append(li, wseq)
           /\ wpc' = "arm"
           /\ UNCHANGED <<netVars, late, marked, deadline, wseq, sent>>

\* What follows a writer's setDeadline: the one after pushReq, or after removeReq.
After(step) == IF step \in {"arm", "lift"} THEN "write" ELSE "unpend"

MutListDeadline == deadline                    \* mutant: a writer leaves the deadline
ListDeadline == "near"

\* setDeadline: near as long as a request is listed; far otherwise, but not if
\* isReadingBody is set when it looks.
SetDeadline ==
  /\ wpc \in {"arm", "rearm"}
  /\ \/ li # <<>> /\ deadline' = ListDeadline /\ wpc' = After(wpc)
     \/ /\ li = <<>>
        /\ wpc' = IF isReadingBody THEN After(wpc) ELSE IF wpc = "arm" THEN "lift" ELSE "relift"
        /\ UNCHANGED deadline
  /\ UNCHANGED <<netVars, listVars, wseq, sent>>

Lift == /\ wpc \in {"lift", "relift"}
        /\ deadline' = "far" /\ wpc' = After(wpc)
        /\ UNCHANGED <<netVars, listVars, wseq, sent>>

\* codec.WriteRequest
Write == /\ wpc = "write"
         /\ \/ wpc' = "idle" /\ sent' = sent \cup {wseq}
            \/ wpc' = "remove" /\ UNCHANGED sent
         /\ UNCHANGED <<netVars, listVars, deadline, wseq>>

RemoveUnsent == /\ wpc = "remove"
                /\ Unlist(wseq)
                /\ wpc' = "rearm"
                /\ UNCHANGED <<netVars, deadline, wseq, sent>>

\* Client.send after an error: the call ends, if it still waits.
Unpend == /\ wpc = "unpend"
          /\ pending' = pending \ {wseq}
          /\ outcome' = IF wseq \in pending THEN [outcome EXCEPT ![wseq] = Unsent] ELSE outcome
          /\ wpc' = "idle"
          /\ UNCHANGED <<next, up, listVars, deadline, wseq, sent>>

(***************************************************************************)
(* The reader: Client.input, ReadResponseHeader, ReadResponseBody          *)
(***************************************************************************)
TimedOut == li # <<>> /\ Head(li) \in late

MutLateErr == "no"                             \* mutant: r.Error is not set
LateErr == "late"

\* getTimeoutRequest: the oldest request, if it is late, gets its header here.
GetTimeout == /\ rpc = "check" /\ MtReqFree
              /\ \/ /\ TimedOut
                    /\ marked' = marked \cup {Head(li)}
                    /\ headerSeq' = Head(li)
                    /\ cur' = [NoResponse EXCEPT !.seq = Head(li), !.err = LateErr]
                    /\ rpc' = "found"
                 \/ /\ ~TimedOut
                    /\ rpc' = "arm"
                    /\ UNCHANGED <<marked, headerSeq, cur>>
              /\ UNCHANGED <<pending, outcome, up, li, late, deadline, isReadingBody, wire, socket>>

HeaderDeadline == IF li # <<>> THEN "near" ELSE "far"

\* setDeadline by the reader itself, which is not reading a body.
ArmHeader == /\ rpc = "arm" /\ MtReqFree
             /\ deadline' = HeaderDeadline
             /\ rpc' = "header"
             /\ UNCHANGED <<pending, outcome, up, listVars, cur, headerSeq, isReadingBody, wire, socket>>

\* A read that blocks ends with an error.
Fails == deadline = "past" \/ socket # "open"

ReadHeader ==
  /\ rpc = "header"
  /\ \/ /\ wire # <<>> /\ Head(wire).what = "header"
        /\ headerSeq' = Head(wire).seq
        /\ cur' = [NoResponse EXCEPT !.seq = Head(wire).seq, !.err = Head(wire).err]
        /\ rpc' = "found" /\ wire' = Tail(wire)
        /\ UNCHANGED socket
     \/ /\ wire # <<>> /\ Head(wire).what = "body"
        /\ socket' = "garbled" /\ rpc' = "stop" /\ wire' = Tail(wire)
        /\ UNCHANGED <<cur, headerSeq>>
     \/ /\ Fails
        /\ socket' = IF socket = "open" THEN "lost" ELSE socket
        /\ rpc' = "stop"
        /\ UNCHANGED <<cur, headerSeq, wire>>
  /\ UNCHANGED <<pending, outcome, up, listVars, deadline, isReadingBody>>

\* Client.input takes the call out of pending.
TakeCall == /\ rpc = "found"
            /\ cur' = [cur EXCEPT !.call = cur.seq \in pending,
                                  !.end = CASE cur.err = "late" -> Late
                                            [] cur.err = "refused" -> Refused
                                            [] OTHER -> Nothing]
            /\ pending' = pending \ {cur.seq}
            /\ rpc' = "remove"
            /\ UNCHANGED <<outcome, up, listVars, deadline, headerSeq, isReadingBody, wire, socket>>

\* Client.input passes nil for a body unless the call waits for a reply.
NilBody == ~cur.call \/ cur.err # "no"

\* ReadResponseBody: nothing to read if the header was getTimeoutRequest's.
MutOwnHeader == headerSeq \in ToSet(li) /\ NilBody        \* mutant: rq.err is not looked at
OwnHeader == headerSeq \in ToSet(li) /\ NilBody /\ headerSeq \in marked

MutForget == UNCHANGED listVars                \* mutant: a request stays in the list
Forget == Unlist(headerSeq)

RemoveReq == /\ rpc = "remove" /\ MtReqFree
             /\ Forget
             /\ rpc' = IF OwnHeader THEN "done" ELSE "flag"
             /\ UNCHANGED <<pending, outcome, up, deadline, cur, headerSeq, isReadingBody, wire, socket>>

SetReading == /\ rpc = "flag"
              /\ isReadingBody' = TRUE /\ rpc' = "armbody"
              /\ UNCHANGED <<pending, outcome, up, listVars, deadline, cur, headerSeq, wire, socket>>

ArmBody == /\ rpc = "armbody"
           /\ deadline' = "near" /\ rpc' = "body"
           /\ UNCHANGED <<pending, outcome, up, listVars, cur, headerSeq, isReadingBody, wire, socket>>

\* codec.ReadResponseBody: the next message on the wire, decoded into the
\* reply, or dropped if there is none.  jsonrpc has read it with its header.
Got(r) == /\ cur' = [cur EXCEPT !.end = IF NilBody THEN @ ELSE Reply(r)]
          /\ rpc' = "unflag"
BodyFails == /\ cur' = [cur EXCEPT !.end = IF NilBody THEN @ ELSE Down, !.err = "read"]
             /\ rpc' = "unflag"

ReadBody ==
  /\ rpc = "body"
  /\ \/ /\ ~gob
        /\ Got(cur.seq)
        /\ UNCHANGED <<wire, socket>>
     \/ /\ gob /\ wire # <<>> /\ Head(wire).what = "body"
        /\ Got(Head(wire).seq)
        /\ wire' = Tail(wire)
        /\ UNCHANGED socket
     \/ /\ gob /\ wire # <<>> /\ Head(wire).what = "header"
        /\ socket' = "garbled" /\ wire' = Tail(wire)
        /\ IF NilBody THEN Got(cur.seq) ELSE BodyFails
     \/ /\ gob /\ Fails
        /\ socket' = IF socket = "open" THEN "lost" ELSE socket
        /\ BodyFails
        /\ UNCHANGED wire
  /\ UNCHANGED <<pending, outcome, up, listVars, deadline, headerSeq, isReadingBody>>

SetUnread == /\ rpc = "unflag"
             /\ isReadingBody' = FALSE /\ rpc' = "done"
             /\ UNCHANGED <<pending, outcome, up, listVars, deadline, cur, headerSeq, wire, socket>>

\* call.done, and the loop goes on unless the body could not be read.
Done == /\ rpc = "done"
        /\ outcome' = IF cur.call THEN [outcome EXCEPT ![cur.seq] = cur.end] ELSE outcome
        /\ rpc' = IF cur.err = "read" THEN "stop" ELSE "check"
        /\ cur' = NoResponse
        /\ UNCHANGED <<pending, up, listVars, deadline, headerSeq, isReadingBody, wire, socket>>

\* The loop ended: every call that waits gets the error.
Shutdown == /\ rpc = "stop" /\ wpc = "idle"
            /\ up' = FALSE /\ pending' = {}
            /\ outcome' = [r \in Reqs |-> IF r \in pending THEN Down ELSE outcome[r]]
            /\ rpc' = "ended"
            /\ UNCHANGED <<listVars, deadline, cur, headerSeq, isReadingBody, wire, socket>>

(***************************************************************************)
(* The server, the socket, the pool that closes the client, and time       *)
(***************************************************************************)
Answer(r) == /\ r \in sent /\ served[r] = "no" /\ sending = NoSeq
             /\ \E err \in {"no", "refused"} :
                  /\ wire' = Append(wire, [what |-> "header", seq |-> r, err |-> err])
                  /\ served' = [served EXCEPT ![r] = IF err = "no" THEN "reply" ELSE err]
             /\ sending' = IF gob THEN r ELSE NoSeq

AnswerBody == /\ sending # NoSeq
              /\ wire' = Append(wire, [what |-> "body", seq |-> sending, err |-> "no"])
              /\ sending' = NoSeq
              /\ UNCHANGED served

Break == socket = "open" /\ socket' = "lost" /\ UNCHANGED up
Close == up /\ up' = FALSE /\ socket' = (IF socket = "open" THEN "lost" ELSE socket)

GrowLate == \E k \in DOMAIN li : /\ li[k] \notin late /\ \A j \in 1 .. k - 1 : li[j] \in late
                                 /\ late' = late \cup {li[k]}
                                 /\ UNCHANGED deadline
PassDeadline == deadline = "near" /\ deadline' = "past" /\ UNCHANGED late

-----------------------------------------------------------------------------
Init == /\ pending = {} /\ next = 1 /\ outcome = [r \in Reqs |-> Nothing] /\ up = TRUE
        /\ li = <<>> /\ late = {} /\ marked = {} /\ headerSeq = NoSeq /\ isReadingBody = FALSE
        /\ deadline = "far" /\ gob \in BOOLEAN
        /\ wpc = "idle" /\ wseq = NoSeq /\ rpc = "check" /\ cur = NoResponse
        /\ sent = {} /\ served = [r \in Reqs |-> "no"] /\ wire = <<>> /\ sending = NoSeq
        /\ socket = "open"

Writer == /\ Send \/ PushReq \/ SetDeadline \/ Lift \/ Write \/ RemoveUnsent \/ Unpend
          /\ UNCHANGED <<gob, readerVars, served, wire, sending, socket>>
Reader == /\ \/ GetTimeout \/ ArmHeader \/ ReadHeader \/ TakeCall \/ RemoveReq \/ SetReading
             \/ ArmBody \/ ReadBody \/ SetUnread \/ Done \/ Shutdown
          /\ UNCHANGED <<next, gob, writerVars, sent, served, sending>>
Server == /\ AnswerBody \/ \E r \in Reqs : Answer(r)
          /\ UNCHANGED <<netVars, listVars, deadline, gob, writerVars, readerVars, sent, socket>>
Socket == /\ Break \/ Close
          /\ UNCHANGED <<pending, next, outcome, listVars, deadline, gob, writerVars, readerVars, serverVars>>
Time   == /\ GrowLate \/ PassDeadline
          /\ UNCHANGED <<netVars, li, marked, gob, writerVars, readerVars, serverVars, socket>>

Next == Writer \/ Reader \/ Server \/ Socket \/ Time

\* Goroutines run, a write ends (it has a deadline too), and a deadline that
\* nobody moves passes.  Nothing is assumed of the server.
Fairness == /\ WF_vars(wpc # "idle" /\ Writer) /\ WF_vars(Reader)
            /\ WF_vars(deadline = "near" /\ Time)

Safety == Init /\ [][Next]_vars
Spec == Safety /\ Fairness

-----------------------------------------------------------------------------
(***************************************************************************)
(* Properties                                                              *)
(***************************************************************************)
\* Every variable keeps its type, and the list has no request twice.
TypeOK ==
  /\ pending \subseteq Reqs /\ next \in Nat \ {0} /\ outcome \in [Reqs -> Outcomes \cup {Nothing}]
  /\ up \in BOOLEAN
  /\ li \in Seq(Reqs) /\ late \subseteq ToSet(li) /\ marked \subseteq Reqs
  /\ headerSeq \in Reqs \cup {NoSeq} /\ isReadingBody \in BOOLEAN
  /\ deadline \in {"near", "past", "far"} /\ gob \in BOOLEAN
  /\ wpc \in {"idle", "push", "arm", "lift", "write", "remove", "rearm", "relift", "unpend"}
  /\ wseq \in Reqs \cup {NoSeq} /\ wpc # "idle" => wseq \in Reqs
  /\ rpc \in {"check", "arm", "header", "found", "remove", "flag", "armbody", "body", "unflag",
              "done", "stop", "ended"}
  /\ cur \in [seq : Reqs \cup {NoSeq}, err : {"no", "late", "refused", "read"}, call : BOOLEAN,
              end : Outcomes \cup {Nothing}]
  /\ rpc \in {"found", "remove", "flag", "armbody", "body", "unflag", "done"} => cur.seq \in Reqs
  /\ sent \subseteq Reqs /\ served \in [Reqs -> {"no", "reply", "refused"}]
  /\ wire \in Seq([what : {"header", "body"}, seq : Reqs, err : {"no", "refused"}])
  /\ sending \in Reqs \cup {NoSeq} /\ socket \in {"open", "lost", "garbled"}

\* timeout_codec.go:140-203 (pushReq, removeReq): a call that waits can time out,
\* its request is listed until its writer fails or the reader takes the call; and a
\* listed request has a call that waits, or the reader is at it, so that none is
\* left behind to be timed out after its call ended.  (TypeOK is a part of it.)
PendingExact ==
  /\ TypeOK
  /\ \A r \in pending : r \in ToSet(li) \/ (wseq = r /\ wpc # "idle")
  /\ rpc # "ended" =>
       \A r \in ToSet(li) : r \in pending \/ (rpc = "remove" /\ headerSeq = r)

\* timeout_codec.go:107 (ReadResponseBody): what was late is answered without
\* reading a body, so that the messages are not confused.
ReadInSync == socket # "garbled"

\* As long as every request was written, they are not.
SentInSync == socket = "garbled" => \E r \in 1 .. next - 1 : r \notin sent

\* A call ends once, with its own reply, with its server's refusal, late, unsent
\* or with the connection; never with what another request was answered.
Exchange == INSTANCE RpcExchange
              WITH asked <- 1 .. next - 1, conn <- IF socket = "open" THEN "up" ELSE "down"
Implements == Exchange!Spec

\* The reader waits for a body without a deadline.  The comment at
\* timeout_codec.go:212 forbids it, but a writer that saw isReadingBody unset may
\* set its 365 days after the reader set the deadline of the body.
Lifted == rpc = "body" /\ deadline = "far"

\* timeout_codec.go:81-118: though the server never answers, nothing keeps a call
\* waiting for good but a server that stops before a body whose deadline a
\* writer lifted; a deadline that was lifted only for a while does not.  This is
\* said of connections on which the requests pause: every WriteRequest moves the
\* deadline for all that wait (line 209), and it is MaxReq that ends the flow.
StuckOnlyByLift == \A r \in Reqs :
  r \in pending ~> outcome[r] # Nothing \/ [](Lifted /\ wire = <<>>)
=============================================================================
