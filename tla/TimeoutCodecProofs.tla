-------------------------- MODULE TimeoutCodecProofs --------------------------
(***************************************************************************)
(* The connection keeps the promise of RpcExchange, for any number of      *)
(* requests: a call ends once, and with its own reply, whichever answers   *)
(* are late and whichever writes fail, and although the reader can take    *)
(* one message for another (ReadInSync does not hold).  The list of        *)
(* requests is exact, and unless a write failed the reader stays in sync.  *)
(***************************************************************************)
EXTENDS TimeoutCodec, ListFacts, SequenceTheorems, TLAPS

Asked    == 1 .. next - 1
Messages == [what : {"header", "body"}, seq : Reqs, err : {"no", "refused"}]

\* What the caller of r may be told now.
Ends(r, o) == \/ o = Late
              \/ o = Refused  /\ served[r] = "refused"
              \/ o = Reply(r) /\ served[r] = "reply"
              \/ o = Down     /\ socket # "open"

\* Requests are numbered as they are made, and nobody ends a call that waits.
Waiting == /\ next \in 1 .. MaxReq + 1 /\ pending \subseteq Asked /\ sent \subseteq Asked
           /\ wpc # "idle" => wseq \in Asked
           /\ outcome = [r \in Reqs |-> outcome[r]] /\ served = [r \in Reqs |-> served[r]]
           /\ \A r \in Reqs : r \in pending \/ r \notin Asked => outcome[r] = Nothing

\* What the server answered r is what a header says.
Says(r, err) == r \in Reqs /\ served[r] = IF err = "no" THEN "reply" ELSE "refused"

\* On the wire a body follows its header, or is what the server will send next.
Wired == /\ wire \in Seq(Messages) /\ sending \in Reqs \cup {NoSeq} /\ (gob \/ sending = NoSeq)
         /\ \A i \in 1 .. Len(wire) : wire[i].what = "header" =>
              /\ Says(wire[i].seq, wire[i].err)
              /\ gob => IF i < Len(wire) THEN wire[i + 1].what = "body" /\ wire[i + 1].seq = wire[i].seq
                                         ELSE sending = wire[i].seq

\* The reader is at an answer whose header it has.
AtBody == {"remove", "flag", "armbody", "body"}

\* When the header came from the wire, its body is the next there.
Fetched ==
  rpc \in {"found"} \cup AtBody /\ cur.err \in {"no", "refused"} =>
    /\ Says(cur.seq, cur.err)
    /\ gob => IF wire = <<>> THEN sending = cur.seq
                             ELSE wire[1].what = "body" /\ wire[1].seq = cur.seq

\* The call the reader has taken waits for nobody else, and it has what to tell it.
Taken ==
  /\ cur = [seq |-> cur.seq, err |-> cur.err, call |-> cur.call, end |-> cur.end]
  /\ rpc \in AtBody \cup {"unflag", "done"} /\ cur.call =>
       cur.seq \in Asked /\ cur.seq \notin pending /\ outcome[cur.seq] = Nothing
  /\ rpc \in {"found"} \cup AtBody => cur.err \in {"no", "late", "refused"}
  /\ rpc \in AtBody => /\ cur.err = "late" => cur.end = Late
                       /\ cur.err = "refused" => cur.end = Refused
  /\ rpc \in {"unflag", "done"} /\ cur.call => Ends(cur.seq, cur.end)
  /\ cur.err = "read" => socket # "open"
  /\ rpc = "stop" => socket # "open"

Kept == Waiting /\ Wired /\ Fetched /\ Taken

-----------------------------------------------------------------------------
LEMMA Start == Init => Kept
<1> SUFFICES ASSUME Init PROVE Kept
  OBVIOUS
<1>1. next \in 1 .. MaxReq + 1 /\ Asked = {}
  BY MaxReqAssumption DEF Init, Asked
<1>2. Waiting
  BY <1>1 DEF Init, Waiting
<1>3. Wired
  BY DEF Init, Wired
<1>4. Fetched /\ Taken
  BY DEF Init, Fetched, Taken, AtBody, NoResponse
<1> QED
  BY <1>2, <1>3, <1>4 DEF Kept

(***************************************************************************)
(* Writers                                                                 *)
(***************************************************************************)
\* Wired, Fetched and most of Taken are about what writers leave alone.
LEMMA WriterLeaves ==
  ASSUME Kept, Writer
  PROVE  /\ Wired' /\ Fetched'
         /\ UNCHANGED <<rpc, cur, served, socket>>
         /\ (cur.call /\ rpc \in AtBody \cup {"unflag", "done"} =>
              cur.seq \in Asked' /\ cur.seq \notin pending' /\ outcome'[cur.seq] = Nothing) => Taken'
<1>1. UNCHANGED <<gob, rpc, cur, served, wire, sending, socket>>
  BY DEF Writer, readerVars
<1>2. Wired' /\ Fetched'
  BY <1>1 DEF Kept, Wired, Fetched, Says
<1>3. (cur.call /\ rpc \in AtBody \cup {"unflag", "done"} =>
         cur.seq \in Asked' /\ cur.seq \notin pending' /\ outcome'[cur.seq] = Nothing) => Taken'
  BY <1>1 DEF Kept, Taken, Ends
<1> QED
  BY <1>1, <1>2, <1>3

LEMMA WriterKeeps == Kept /\ Writer => Kept'
<1> SUFFICES ASSUME Kept, Writer PROVE Kept'
  OBVIOUS
<1>1. /\ Waiting /\ Taken /\ Wired' /\ Fetched' /\ UNCHANGED <<rpc, cur, served, socket>>
      /\ (cur.call /\ rpc \in AtBody \cup {"unflag", "done"} =>
           cur.seq \in Asked' /\ cur.seq \notin pending' /\ outcome'[cur.seq] = Nothing) => Taken'
  BY WriterLeaves DEF Kept
<1>2. CASE Send
  <2>1. /\ next \in Reqs /\ next' = next + 1 /\ pending' = pending \cup {next} /\ wseq' = next
        /\ UNCHANGED <<outcome, sent>>
    BY <1>2 DEF Send
  <2>2. next' \in 1 .. MaxReq + 1 /\ Asked' = Asked \cup {next} /\ next \notin Asked
    BY <2>1, MaxReqAssumption DEF Reqs, Asked
  <2>3. Waiting'
    BY <1>1, <2>1, <2>2 DEF Waiting
  <2>4. Taken'
    BY <1>1, <2>1, <2>2 DEF Taken
  <2> QED
    BY <1>1, <2>3, <2>4 DEF Kept
<1>3. CASE PushReq \/ SetDeadline \/ Lift \/ RemoveUnsent
  <2>1. UNCHANGED <<pending, next, outcome, sent, wseq>> /\ wpc # "idle"
    BY <1>3 DEF PushReq, SetDeadline, Lift, RemoveUnsent, netVars
  <2>2. Waiting'
    BY <1>1, <2>1 DEF Waiting, Asked
  <2>3. Taken'
    BY <1>1, <2>1 DEF Taken, Asked
  <2> QED
    BY <1>1, <2>2, <2>3 DEF Kept
<1>4. CASE Write
  <2>1. UNCHANGED <<pending, next, outcome, wseq>> /\ wpc # "idle" /\ sent' \subseteq sent \cup {wseq}
    BY <1>4 DEF Write, netVars
  <2>2. Waiting'
    BY <1>1, <2>1 DEF Waiting, Asked
  <2>3. Taken'
    BY <1>1, <2>1 DEF Taken, Asked
  <2> QED
    BY <1>1, <2>2, <2>3 DEF Kept
<1>5. CASE Unpend
  <2>1. /\ UNCHANGED <<next, wseq, sent>> /\ wpc # "idle" /\ wpc' = "idle"
        /\ pending' = pending \ {wseq}
        /\ outcome' = IF wseq \in pending THEN [outcome EXCEPT ![wseq] = Unsent] ELSE outcome
    BY <1>5 DEF Unpend
  <2>2. wseq \in Asked /\ Asked' = Asked /\ outcome' = [r \in Reqs |-> outcome'[r]]
        /\ \A r \in Reqs : r # wseq => outcome'[r] = outcome[r]
    BY <1>1, <2>1 DEF Waiting, Asked
  <2>3. Waiting'
    BY <1>1, <2>1, <2>2 DEF Waiting
  <2>4. Taken'
    <3>1. \A r : r # wseq \/ wseq \notin pending => outcome'[r] = outcome[r]
      BY <1>1, <2>1 DEF Waiting
    <3> QED
      BY <1>1, <2>1, <2>2, <3>1 DEF Taken
  <2> QED
    BY <1>1, <2>3, <2>4 DEF Kept
<1> QED
  BY <1>2, <1>3, <1>4, <1>5 DEF Writer

(***************************************************************************)
(* The reader                                                              *)
(***************************************************************************)
\* The head of the wire, and what is left once it is read.
LEMMA ReadOne ==
  ASSUME Wired, wire # <<>>
  PROVE  /\ Head(wire) = wire[1] /\ wire[1] \in Messages
         /\ wire' = Tail(wire) /\ UNCHANGED <<gob, served, sending>> => Wired'
         /\ wire[1].what = "header" => Says(wire[1].seq, wire[1].err)
         /\ wire[1].what = "header" /\ gob =>
              IF Tail(wire) = <<>> THEN sending = wire[1].seq
                                   ELSE Tail(wire)[1].what = "body" /\ Tail(wire)[1].seq = wire[1].seq
<1>1. wire \in Seq(Messages)
  BY DEF Wired
<1>2. /\ Tail(wire) \in Seq(Messages) /\ Len(Tail(wire)) = Len(wire) - 1
      /\ \A i \in 1 .. Len(Tail(wire)) : Tail(wire)[i] = wire[i + 1]
  BY <1>1, HeadTailProperties
<1>3. Len(wire) \in Nat \ {0} /\ Head(wire) = wire[1] /\ wire[1] \in Messages
  BY <1>1
<1>4. ASSUME wire' = Tail(wire), UNCHANGED <<gob, served, sending>> PROVE Wired'
  <2>1. ASSUME NEW i \in 1 .. Len(wire'), wire'[i].what = "header"
        PROVE  /\ Says(wire[i].seq, wire[i].err)'
               /\ gob => IF i < Len(wire') THEN wire'[i + 1].what = "body" /\ wire'[i + 1].seq = wire'[i].seq
                                           ELSE sending = wire'[i].seq
    <3>1. /\ i + 1 \in 1 .. Len(wire) /\ wire'[i] = wire[i + 1]
          /\ i < Len(wire') <=> i + 1 < Len(wire)
          /\ i < Len(wire') => wire'[i + 1] = wire[i + 1 + 1]
      BY <1>2, <1>3, <1>4
    <3>2. /\ Says(wire[i + 1].seq, wire[i + 1].err)
          /\ gob => IF i + 1 < Len(wire)
                      THEN wire[i + 1 + 1].what = "body" /\ wire[i + 1 + 1].seq = wire[i + 1].seq
                      ELSE sending = wire[i + 1].seq
      BY <2>1, <3>1 DEF Wired
    <3> QED
      BY <1>4, <3>1, <3>2 DEF Says
  <2> QED
    BY <1>2, <1>4, <2>1 DEF Wired
<1>5. ASSUME wire[1].what = "header"
      PROVE  /\ Says(wire[1].seq, wire[1].err)
             /\ gob => IF Tail(wire) = <<>> THEN sending = wire[1].seq
                                            ELSE Tail(wire)[1].what = "body" /\ Tail(wire)[1].seq = wire[1].seq
  <2>1. /\ Says(wire[1].seq, wire[1].err)
        /\ gob => IF 1 < Len(wire) THEN wire[2].what = "body" /\ wire[2].seq = wire[1].seq
                                   ELSE sending = wire[1].seq
    BY <1>3, <1>5 DEF Wired
  <2>2. Tail(wire) = <<>> <=> ~(1 < Len(wire))
    <3>1. Len(<<>>) = 0 /\ \A s \in Seq(Messages) : s # <<>> => Len(s) \in Nat \ {0}
      BY EmptySeq
    <3>2. Tail(wire) # <<>> => Len(Tail(wire)) \in Nat \ {0}
      BY <1>2, <3>1
    <3>3. Tail(wire) = <<>> => Len(Tail(wire)) = 0
      BY <3>1
    <3> QED
      BY <1>2, <1>3, <3>2, <3>3
  <2>3. Tail(wire) # <<>> => Tail(wire)[1] = wire[2]
    BY <1>2, <1>3, <2>2
  <2> QED
    BY <2>1, <2>2, <2>3
<1> QED
  BY <1>3, <1>4, <1>5

\* What no step of the reader touches.
LEMMA ReaderLeaves ==
  ASSUME Kept, Reader
  PROVE  /\ Waiting /\ Wired /\ Fetched /\ Taken
         /\ UNCHANGED <<next, gob, wpc, wseq, sent, served, sending>>
         /\ Asked' = Asked
         /\ UNCHANGED <<pending, outcome>> => Waiting'
         /\ UNCHANGED wire => Wired'
BY DEF Kept, Reader, writerVars, Waiting, Wired, Says, Asked

LEMMA GetTimeoutKeeps == ASSUME Kept, Reader, GetTimeout PROVE Kept'
<1>1. UNCHANGED <<pending, outcome, wire, socket>> /\ rpc = "check"
  BY DEF GetTimeout
<1>2. Waiting' /\ Wired'
  BY <1>1, ReaderLeaves
<1>3. \/ rpc' = "found" /\ cur' = [NoResponse EXCEPT !.seq = Head(li), !.err = "late"]
      \/ rpc' = "arm" /\ UNCHANGED cur
  BY DEF GetTimeout, LateErr
<1>4. Fetched'
  BY <1>3 DEF Fetched, AtBody, NoResponse
<1>5. Taken'
  BY <1>1, <1>3, ReaderLeaves DEF Taken, AtBody, NoResponse, Ends
<1> QED
  BY <1>2, <1>4, <1>5 DEF Kept

\* Steps that leave the call and the response alone, and do not begin or end a call.
LEMMA QuietKeeps ==
  ASSUME Kept, Reader, UNCHANGED <<pending, outcome, cur, wire, socket>>,
         \/ rpc \in AtBody /\ rpc' \in AtBody
         \/ rpc \in {"unflag", "done"} /\ rpc' \in {"unflag", "done"}
         \/ rpc' \in {"header", "check"}
  PROVE  Kept'
<1>1. Waiting' /\ Wired'
  BY ReaderLeaves
<1>2. Fetched'
  BY ReaderLeaves DEF Fetched, AtBody, Says
<1>3. Taken'
  BY ReaderLeaves DEF Taken, AtBody, Ends
<1> QED
  BY <1>1, <1>2, <1>3 DEF Kept

LEMMA ReadHeaderKeeps == ASSUME Kept, Reader, ReadHeader PROVE Kept'
<1>1. UNCHANGED <<pending, outcome>> /\ rpc = "header"
  BY DEF ReadHeader
<1>2. Waiting'
  BY <1>1, ReaderLeaves
<1>3. CASE /\ wire # <<>> /\ Head(wire).what = "header" /\ wire' = Tail(wire)
           /\ cur' = [NoResponse EXCEPT !.seq = Head(wire).seq, !.err = Head(wire).err]
           /\ rpc' = "found" /\ UNCHANGED socket
  <2>1. /\ Wired' /\ Says(wire[1].seq, wire[1].err) /\ Head(wire) = wire[1] /\ wire[1] \in Messages
        /\ gob => IF wire' = <<>> THEN sending = wire[1].seq
                                  ELSE wire'[1].what = "body" /\ wire'[1].seq = wire[1].seq
    BY <1>3, ReadOne, ReaderLeaves
  <2>2. /\ cur'.seq = wire[1].seq /\ cur'.err = wire[1].err /\ cur'.call = FALSE
        /\ cur' = [seq |-> cur'.seq, err |-> cur'.err, call |-> cur'.call, end |-> cur'.end]
        /\ cur'.err \in {"no", "refused"}
    BY <1>3, <2>1 DEF NoResponse, Messages
  <2>3. Fetched'
    BY <2>1, <2>2, ReaderLeaves DEF Fetched, Says
  <2>4. Taken'
    BY <1>3, <2>2 DEF Taken, AtBody
  <2> QED
    BY <1>2, <2>1, <2>3, <2>4 DEF Kept
<1>4. CASE wire # <<>> /\ wire' = Tail(wire) /\ socket' = "garbled" /\ rpc' = "stop" /\ UNCHANGED cur
  <2>1. Wired'
    BY <1>4, ReadOne, ReaderLeaves
  <2>2. Fetched' /\ Taken'
    BY <1>4, ReaderLeaves DEF Fetched, Taken, AtBody
  <2> QED
    BY <1>2, <2>1, <2>2 DEF Kept
<1>5. CASE UNCHANGED <<cur, wire>> /\ socket' # "open" /\ rpc' = "stop"
  BY <1>2, <1>5, ReaderLeaves DEF Kept, Fetched, Taken, AtBody
<1> QED
  BY <1>3, <1>4, <1>5 DEF ReadHeader

LEMMA TakeCallKeeps == ASSUME Kept, Reader, TakeCall PROVE Kept'
<1>1. /\ rpc = "found" /\ rpc' = "remove" /\ UNCHANGED <<outcome, wire, socket>>
      /\ pending' = pending \ {cur.seq}
      /\ cur' = [cur EXCEPT !.call = cur.seq \in pending,
                            !.end = CASE cur.err = "late" -> Late
                                      [] cur.err = "refused" -> Refused
                                      [] OTHER -> Nothing]
  BY DEF TakeCall
<1>2. /\ cur'.seq = cur.seq /\ cur'.err = cur.err /\ cur'.call = (cur.seq \in pending)
      /\ cur.err = "late" => cur'.end = Late
      /\ cur.err = "refused" => cur'.end = Refused
      /\ cur' = [seq |-> cur'.seq, err |-> cur'.err, call |-> cur'.call, end |-> cur'.end]
  BY <1>1, ReaderLeaves DEF Taken
<1>3. Waiting'
  <2>1. \A r \in Reqs : r \in pending \/ r \notin Asked => outcome[r] = Nothing
    BY ReaderLeaves DEF Waiting
  <2> QED
    BY <1>1, <2>1, ReaderLeaves DEF Waiting
<1>4. Wired'
  BY <1>1, ReaderLeaves
<1>5. Fetched'
  BY <1>1, <1>2, ReaderLeaves DEF Fetched, Says
<1>6. Taken'
  <2>1. cur.seq \in pending => cur.seq \in Asked /\ cur.seq \in Reqs
    BY MaxReqAssumption, ReaderLeaves DEF Waiting, Asked, Reqs
  <2>2. cur.seq \in pending => outcome[cur.seq] = Nothing
    BY <2>1, ReaderLeaves DEF Waiting
  <2> QED
    BY <1>1, <1>2, <2>1, <2>2, ReaderLeaves DEF Taken, AtBody
<1> QED
  BY <1>3, <1>4, <1>5, <1>6 DEF Kept

\* OwnHeader: a response whose body is not read has what it tells the call.
LEMMA RemoveReqKeeps == ASSUME Kept, Reader, RemoveReq PROVE Kept'
<1>1. UNCHANGED <<pending, outcome, cur, wire, socket>> /\ rpc = "remove"
      /\ (rpc' = "flag" \/ (rpc' = "done" /\ NilBody))
  <2>1. OwnHeader => NilBody
    BY DEF OwnHeader
  <2> QED
    BY <2>1 DEF RemoveReq
<1>2. CASE rpc' = "flag"
  BY <1>1, <1>2, QuietKeeps DEF AtBody
<1>3. CASE rpc' = "done" /\ NilBody
  <2>1. Waiting' /\ Wired'
    BY <1>1, ReaderLeaves
  <2>2. Fetched'
    BY <1>3 DEF Fetched, AtBody
  <2>3. cur.call => Ends(cur.seq, cur.end)
    BY <1>1, <1>3, ReaderLeaves DEF Fetched, Taken, AtBody, NilBody, Ends, Says
  <2>4. Taken'
    BY <1>1, <1>3, <2>3, ReaderLeaves DEF Taken, AtBody, Ends
  <2> QED
    BY <2>1, <2>2, <2>4 DEF Kept
<1> QED
  BY <1>1, <1>2, <1>3

LEMMA ReadBodyKeeps == ASSUME Kept, Reader, ReadBody PROVE Kept'
<1>1. UNCHANGED <<pending, outcome>> /\ rpc = "body" /\ rpc' = "unflag"
  BY DEF ReadBody, Got, BodyFails
<1>2. Waiting'
  BY <1>1, ReaderLeaves
<1>3. Wired'
  BY ReadOne, ReaderLeaves DEF ReadBody
<1>4. Fetched'
  BY <1>1 DEF Fetched, AtBody
\* What the reader knows of the response.
<1>5. /\ cur = [seq |-> cur.seq, err |-> cur.err, call |-> cur.call, end |-> cur.end]
      /\ cur.call => cur.seq \in Asked /\ cur.seq \notin pending /\ outcome[cur.seq] = Nothing
      /\ cur.err \in {"no", "late", "refused"}
      /\ cur.call /\ NilBody => Ends(cur.seq, cur.end)
      /\ ~NilBody => cur.call /\ cur.err = "no" /\ served[cur.seq] = "reply"
      /\ ~NilBody /\ gob /\ wire # <<>> => wire[1].what = "body" /\ wire[1].seq = cur.seq
  BY <1>1, ReaderLeaves DEF Fetched, Taken, AtBody, NilBody, Ends, Says
<1>6. ASSUME NEW r, Got(r), ~NilBody => r = cur.seq, socket # "open" => socket' # "open"
      PROVE  Taken'
  <2>1. /\ cur' = [cur EXCEPT !.end = IF NilBody THEN cur.end ELSE Reply(r)]
    BY <1>6 DEF Got
  <2>2. /\ cur'.seq = cur.seq /\ cur'.err = cur.err /\ cur'.call = cur.call
        /\ cur'.end = IF NilBody THEN cur.end ELSE Reply(cur.seq)
        /\ cur' = [seq |-> cur'.seq, err |-> cur'.err, call |-> cur'.call, end |-> cur'.end]
    BY <1>5, <1>6, <2>1
  <2>3. cur'.call => Ends(cur.seq, cur.end)'
    BY <1>5, <1>6, <2>2, ReaderLeaves DEF Ends
  <2> QED
    BY <1>1, <1>5, <2>2, <2>3, ReaderLeaves DEF Taken, AtBody
<1>7. ASSUME BodyFails, socket' # "open" PROVE Taken'
  <2>1. cur' = [cur EXCEPT !.end = IF NilBody THEN cur.end ELSE Down, !.err = "read"]
    BY <1>7 DEF BodyFails
  <2>2. /\ cur'.seq = cur.seq /\ cur'.err = "read" /\ cur'.call = cur.call
        /\ cur'.end = IF NilBody THEN cur.end ELSE Down
        /\ cur' = [seq |-> cur'.seq, err |-> cur'.err, call |-> cur'.call, end |-> cur'.end]
    BY <1>5, <2>1
  <2>3. cur'.call => Ends(cur.seq, cur.end)'
    BY <1>5, <1>7, <2>2, ReaderLeaves DEF Ends
  <2> QED
    BY <1>1, <1>5, <1>7, <2>2, <2>3, ReaderLeaves DEF Taken, AtBody
<1>8. Taken'
  <2>1. CASE ~gob /\ Got(cur.seq) /\ UNCHANGED socket
    BY <1>6, <2>1
  <2>2. CASE gob /\ wire # <<>> /\ Got(Head(wire).seq) /\ UNCHANGED socket
    <3>1. ~NilBody => Head(wire).seq = cur.seq
      BY <1>5, <2>2, ReadOne, ReaderLeaves
    <3> QED
      BY <1>6, <2>2, <3>1
  <2>3. CASE socket' = "garbled" /\ IF NilBody THEN Got(cur.seq) ELSE BodyFails
    BY <1>6, <1>7, <2>3
  <2>4. CASE BodyFails /\ socket' = IF socket = "open" THEN "lost" ELSE socket
    BY <1>7, <2>4
  <2> QED
    BY <2>1, <2>2, <2>3, <2>4 DEF ReadBody
<1> QED
  BY <1>2, <1>3, <1>4, <1>8 DEF Kept

LEMMA DoneKeeps == ASSUME Kept, Reader, Done PROVE Kept'
<1>1. /\ rpc = "done" /\ rpc' = IF cur.err = "read" THEN "stop" ELSE "check"
      /\ cur' = NoResponse /\ UNCHANGED <<pending, wire, socket>>
      /\ outcome' = IF cur.call THEN [outcome EXCEPT ![cur.seq] = cur.end] ELSE outcome
  BY DEF Done
<1>2. Waiting'
  <2>1. cur.call => cur.seq \in Asked /\ cur.seq \notin pending
    BY <1>1, ReaderLeaves DEF Taken
  <2>2. outcome' = [r \in Reqs |-> outcome'[r]]
        /\ \A r \in Reqs : r # cur.seq \/ ~cur.call => outcome'[r] = outcome[r]
    BY <1>1, ReaderLeaves DEF Waiting
  <2> QED
    BY <1>1, <2>1, <2>2, ReaderLeaves DEF Waiting
<1>3. Wired'
  BY <1>1, ReaderLeaves
<1>4. Fetched' /\ Taken'
  BY <1>1, ReaderLeaves DEF Fetched, Taken, AtBody, NoResponse
<1> QED
  BY <1>2, <1>3, <1>4 DEF Kept

LEMMA ShutdownKeeps == ASSUME Kept, Reader, Shutdown PROVE Kept'
<1>1. /\ rpc' = "ended" /\ pending' = {} /\ UNCHANGED <<cur, wire, socket>>
      /\ outcome' = [r \in Reqs |-> IF r \in pending THEN Down ELSE outcome[r]]
  BY DEF Shutdown
<1>2. Waiting'
  BY <1>1, ReaderLeaves DEF Waiting
<1>3. Wired' /\ Fetched' /\ Taken'
  BY <1>1, ReaderLeaves DEF Fetched, Taken, AtBody
<1> QED
  BY <1>2, <1>3 DEF Kept

LEMMA ReaderKeeps == Kept /\ Reader => Kept'
<1> SUFFICES ASSUME Kept, Reader PROVE Kept'
  OBVIOUS
<1>1. CASE ArmHeader \/ SetReading \/ ArmBody \/ SetUnread
  BY <1>1, QuietKeeps DEF ArmHeader, SetReading, ArmBody, SetUnread, AtBody
<1> QED
  BY <1>1, GetTimeoutKeeps, ReadHeaderKeeps, TakeCallKeeps, RemoveReqKeeps, ReadBodyKeeps, DoneKeeps,
     ShutdownKeeps DEF Reader

(***************************************************************************)
(* The server, the socket and time                                         *)
(***************************************************************************)
\* A message at the end of the wire; the head stays, if there was one.
LEMMA SendOne ==
  ASSUME wire \in Seq(Messages), NEW m \in Messages
  PROVE  /\ Append(wire, m) \in Seq(Messages) /\ Len(Append(wire, m)) = Len(wire) + 1
         /\ Len(wire) \in Nat /\ Append(wire, m) # <<>>
         /\ \A i \in 1 .. Len(wire) : Append(wire, m)[i] = wire[i]
         /\ Append(wire, m)[Len(wire) + 1] = m
         /\ wire = <<>> => Append(wire, m)[1] = m
         /\ wire # <<>> => Append(wire, m)[1] = wire[1]
<1>1. /\ Append(wire, m) \in Seq(Messages) /\ Len(Append(wire, m)) = Len(wire) + 1
      /\ Len(wire) \in Nat /\ Append(wire, m) # <<>>
      /\ \A i \in 1 .. Len(wire) : Append(wire, m)[i] = wire[i]
      /\ Append(wire, m)[Len(wire) + 1] = m
  BY AppendProperties
<1>2. Len(<<>>) = 0 /\ \A s \in Seq(Messages) : s # <<>> => Len(s) \in Nat \ {0}
  BY EmptySeq
<1>3. wire = <<>> => Append(wire, m)[1] = m
  BY <1>1, <1>2
<1>4. wire # <<>> => Append(wire, m)[1] = wire[1]
  BY <1>1, <1>2
<1> QED
  BY <1>1, <1>3, <1>4

\* A header goes on the wire when no body is missing there.
LEMMA AnswerKeeps ==
  ASSUME Kept, NEW r \in Reqs, Answer(r), UNCHANGED <<netVars, gob, writerVars, readerVars, sent, socket>>
  PROVE  Kept'
<1>1. /\ Waiting /\ Wired /\ Fetched /\ Taken /\ Asked' = Asked
      /\ UNCHANGED <<pending, next, outcome, wpc, wseq, rpc, cur, gob, sent, socket>>
  BY DEF Kept, netVars, writerVars, readerVars, Asked
<1>2. PICK err \in {"no", "refused"} :
        /\ wire' = Append(wire, [what |-> "header", seq |-> r, err |-> err])
        /\ served' = [served EXCEPT ![r] = IF err = "no" THEN "reply" ELSE err]
  BY DEF Answer
<1>3. served[r] = "no" /\ sending = NoSeq /\ sending' = (IF gob THEN r ELSE NoSeq) /\ NoSeq \notin Reqs
  BY DEF Answer, NoSeq, Reqs
<1>4. /\ served' = [q \in Reqs |-> served'[q]]
      /\ Says(r, err)'
      /\ \A q \in Reqs : served[q] # "no" => served'[q] = served[q]
  BY <1>1, <1>2, <1>3 DEF Waiting, Says
<1>5. \A q, e : Says(q, e) => Says(q, e)'
  BY <1>4 DEF Says
<1> DEFINE m == [what |-> "header", seq |-> r, err |-> err]
<1>6. m \in Messages
  BY DEF Messages
<1>7. /\ wire' \in Seq(Messages) /\ Len(wire') = Len(wire) + 1 /\ Len(wire) \in Nat /\ wire' # <<>>
      /\ \A i \in 1 .. Len(wire) : wire'[i] = wire[i]
      /\ wire'[Len(wire) + 1] = m
      /\ wire # <<>> => wire'[1] = wire[1]
  BY <1>1, <1>2, <1>6, SendOne DEF Wired
<1>8. Wired'
  <2>1. ASSUME NEW i \in 1 .. Len(wire'), wire'[i].what = "header"
        PROVE  /\ Says(wire[i].seq, wire[i].err)'
               /\ gob => IF i < Len(wire') THEN wire'[i + 1].what = "body" /\ wire'[i + 1].seq = wire'[i].seq
                                           ELSE sending' = wire'[i].seq
    <3>1. CASE i = Len(wire) + 1
      BY <1>3, <1>4, <1>7, <3>1
    <3>2. CASE i \in 1 .. Len(wire)
      <4>1. wire'[i] = wire[i] /\ Says(wire[i].seq, wire[i].err)
        BY <1>1, <1>7, <2>1, <3>2 DEF Wired
      <4>2. gob => i < Len(wire) /\ wire[i + 1].what = "body" /\ wire[i + 1].seq = wire[i].seq
        BY <1>1, <1>3, <1>7, <2>1, <3>2, <4>1 DEF Wired, Says
      <4> QED
        BY <1>5, <1>7, <3>2, <4>1, <4>2
    <3> QED
      BY <1>7, <3>1, <3>2
  <2> QED
    BY <1>1, <1>3, <1>7, <2>1 DEF Wired
<1>9. Waiting'
  BY <1>1, <1>4 DEF Waiting
<1>10. Fetched'
  <2>1. ASSUME rpc \in {"found"} \cup AtBody, cur.err \in {"no", "refused"}
        PROVE  Says(cur.seq, cur.err)' /\ (gob => wire'[1].what = "body" /\ wire'[1].seq = cur.seq)
    <3>1. /\ Says(cur.seq, cur.err)
          /\ gob => IF wire = <<>> THEN sending = cur.seq
                                   ELSE wire[1].what = "body" /\ wire[1].seq = cur.seq
      BY <1>1, <2>1 DEF Fetched
    <3>2. gob => wire # <<>>
      BY <1>3, <3>1 DEF Says
    <3> QED
      BY <1>1, <1>5, <1>7, <3>1, <3>2 DEF Says
  <2> QED
    BY <1>1, <1>7, <2>1 DEF Fetched
<1>11. Taken'
  <2>1. \A o : cur.seq \in Reqs /\ Ends(cur.seq, o) => Ends(cur.seq, o)'
    BY <1>1, <1>4 DEF Ends
  <2>2. cur.seq \in Asked => cur.seq \in Reqs
    BY <1>1, MaxReqAssumption DEF Waiting, Asked, Reqs
  <2> QED
    BY <1>1, <2>1, <2>2 DEF Taken
<1> QED
  BY <1>8, <1>9, <1>10, <1>11 DEF Kept

LEMMA AnswerBodyKeeps ==
  ASSUME Kept, AnswerBody, UNCHANGED <<netVars, gob, writerVars, readerVars, sent, socket>>
  PROVE  Kept'
<1>1. /\ Waiting /\ Wired /\ Fetched /\ Taken /\ Asked' = Asked
      /\ UNCHANGED <<pending, next, outcome, wpc, wseq, rpc, cur, gob, sent, served, socket>>
  BY DEF Kept, netVars, writerVars, readerVars, Asked, AnswerBody
<1> DEFINE m == [what |-> "body", seq |-> sending, err |-> "no"]
<1>2. wire' = Append(wire, m) /\ sending' = NoSeq /\ sending # NoSeq
  BY DEF AnswerBody
<1>3. m \in Messages
  BY <1>1, <1>2 DEF Messages, Wired
<1>4. /\ wire' \in Seq(Messages) /\ Len(wire') = Len(wire) + 1 /\ Len(wire) \in Nat /\ wire' # <<>>
      /\ \A i \in 1 .. Len(wire) : wire'[i] = wire[i]
      /\ wire'[Len(wire) + 1] = m
      /\ wire = <<>> => wire'[1] = m
      /\ wire # <<>> => wire'[1] = wire[1]
  BY <1>1, <1>2, <1>3, SendOne DEF Wired
<1>5. Wired'
  <2>1. ASSUME NEW i \in 1 .. Len(wire'), wire'[i].what = "header"
        PROVE  /\ Says(wire[i].seq, wire[i].err)'
               /\ gob => IF i < Len(wire') THEN wire'[i + 1].what = "body" /\ wire'[i + 1].seq = wire'[i].seq
                                           ELSE sending' = wire'[i].seq
    <3>1. i \in 1 .. Len(wire)
      BY <1>4, <2>1
    <3>2. wire'[i] = wire[i] /\ Says(wire[i].seq, wire[i].err)
      BY <1>1, <1>4, <2>1, <3>1 DEF Wired
    <3>3. gob => IF i < Len(wire) THEN wire[i + 1].what = "body" /\ wire[i + 1].seq = wire[i].seq
                                  ELSE sending = wire[i].seq
      BY <1>1, <2>1, <3>1, <3>2 DEF Wired
    <3>4. CASE i < Len(wire)
      BY <1>1, <1>4, <3>1, <3>2, <3>3, <3>4 DEF Says
    <3>5. CASE i = Len(wire)
      BY <1>1, <1>4, <3>1, <3>2, <3>3, <3>5 DEF Says
    <3> QED
      BY <1>4, <3>1, <3>4, <3>5
  <2> QED
    BY <1>1, <1>2, <1>4, <2>1 DEF Wired
<1>6. Waiting'
  BY <1>1 DEF Waiting
<1>7. Fetched'
  BY <1>1, <1>4 DEF Fetched, Says
<1>8. Taken'
  BY <1>1 DEF Taken, Ends
<1> QED
  BY <1>5, <1>6, <1>7, <1>8 DEF Kept

\* The socket may break, and deadlines pass; no request is told anything.
LEMMA RestKeeps ==
  ASSUME Kept, UNCHANGED <<pending, next, outcome, gob, writerVars, rpc, cur, serverVars>>,
         socket # "open" => socket' # "open"
  PROVE  Kept'
<1>1. /\ Waiting /\ Wired /\ Fetched /\ Taken /\ Asked' = Asked
      /\ UNCHANGED <<pending, next, outcome, wpc, wseq, rpc, cur, gob, sent, served, wire, sending>>
  BY DEF Kept, serverVars, writerVars, Asked
<1>2. Waiting' /\ Wired' /\ Fetched'
  BY <1>1 DEF Waiting, Wired, Fetched, Says
<1>3. Taken'
  BY <1>1 DEF Taken, Ends
<1> QED
  BY <1>2, <1>3 DEF Kept

LEMMA NextKeeps == Kept /\ [Next]_vars => Kept'
<1> SUFFICES ASSUME Kept, [Next]_vars PROVE Kept'
  OBVIOUS
<1>1. CASE Writer
  BY <1>1, WriterKeeps
<1>2. CASE Reader
  BY <1>2, ReaderKeeps
<1>3. CASE Server
  <2>1. UNCHANGED <<netVars, gob, writerVars, readerVars, sent, socket>>
    BY <1>3 DEF Server
  <2> QED
    BY <1>3, <2>1, AnswerKeeps, AnswerBodyKeeps DEF Server
<1>4. CASE Socket
  BY <1>4, RestKeeps DEF Socket, Break, Close, readerVars
<1>5. CASE Time
  BY <1>5, RestKeeps DEF Time, netVars, readerVars
<1>6. CASE UNCHANGED vars
  BY <1>6, RestKeeps DEF vars, netVars, readerVars
<1> QED
  BY <1>1, <1>2, <1>3, <1>4, <1>5, <1>6 DEF Next

-----------------------------------------------------------------------------
(***************************************************************************)
(* The refinement                                                          *)
(***************************************************************************)
LEMMA StartMaps == Init => Exchange!Init
BY DEF Init, Exchange!Init

\* Steps that none of RpcExchange's variables sees.
LEMMA Stutters ==
  ASSUME UNCHANGED <<next, served, outcome>>, socket' = "open" <=> socket = "open"
  PROVE  UNCHANGED Exchange!vars
BY DEF Exchange!vars

\* The socket breaks.
LEMMA Loses ==
  ASSUME UNCHANGED <<next, served, outcome>>, socket # "open" => socket' # "open"
  PROVE  [Exchange!Next]_(Exchange!vars)
<1>1. CASE socket = "open" /\ socket' # "open"
  BY <1>1 DEF Exchange!Next, Exchange!Lose
<1>2. CASE socket' = "open" <=> socket = "open"
  BY <1>2, Stutters
<1> QED
  BY <1>1, <1>2

LEMMA WriterMaps == ASSUME Kept, Writer PROVE [Exchange!Next]_(Exchange!vars)
<1>1. UNCHANGED <<served, socket>> /\ Waiting
  BY DEF Writer, Kept
<1>2. CASE Send
  <2>1. /\ next \in Reqs /\ next' = next + 1 /\ UNCHANGED <<outcome, served, socket>>
    BY <1>1, <1>2 DEF Send
  <2>2. next \notin 1 .. next - 1 /\ 1 .. next' - 1 = (1 .. next - 1) \cup {next}
    BY <2>1 DEF Reqs
  <2>3. Exchange!Ask(next)
    BY <2>1, <2>2 DEF Exchange!Ask
  <2> QED
    BY <2>1, <2>3 DEF Exchange!Next
<1>3. CASE Unpend /\ wseq \in pending
  <2>1. outcome' = [outcome EXCEPT ![wseq] = Unsent] /\ UNCHANGED <<next, served, socket>>
    BY <1>1, <1>3 DEF Unpend
  <2>2. wseq \in 1 .. next - 1 /\ wseq \in Reqs /\ outcome[wseq] = Nothing
    BY <1>1, <1>3, MaxReqAssumption DEF Waiting, Asked, Reqs
  <2>3. Exchange!End(wseq)
    BY <2>1, <2>2 DEF Exchange!End, Unsent, Exchange!Unsent
  <2> QED
    BY <2>2, <2>3 DEF Exchange!Next
<1>4. CASE UNCHANGED <<next, outcome>>
  BY <1>1, <1>4, Stutters
<1> QED
  BY <1>2, <1>3, <1>4 DEF Writer, PushReq, SetDeadline, Lift, Write, RemoveUnsent, Unpend, netVars

\* The end of a response is what the call is told.
LEMMA DoneMaps ==
  ASSUME Kept, Reader, Done PROVE [Exchange!Next]_(Exchange!vars)
<1>1. /\ UNCHANGED <<next, served, socket>> /\ Waiting /\ Taken
      /\ outcome' = IF cur.call THEN [outcome EXCEPT ![cur.seq] = cur.end] ELSE outcome
  BY ReaderLeaves DEF Done
<1>2. CASE cur.call
  <2>1. /\ cur.seq \in Asked /\ outcome[cur.seq] = Nothing /\ Ends(cur.seq, cur.end)
        /\ cur.seq \in Reqs
    BY <1>1, <1>2, MaxReqAssumption DEF Done, Taken, Waiting, Asked, Reqs
  <2>2. CASE cur.end = Down /\ socket # "open"
    <3>1. outcome' = [r \in Reqs |-> IF r \in {cur.seq} THEN Down ELSE outcome[r]]
      BY <1>1, <1>2, <2>1, <2>2 DEF Waiting
    <3>2. {cur.seq} \in SUBSET {r \in 1 .. next - 1 : outcome[r] = Nothing}
      BY <2>1 DEF Asked
    <3>3. Exchange!Abandon
      BY <1>1, <2>2, <3>1, <3>2 DEF Exchange!Abandon, Down, Exchange!Down
    <3> QED
      BY <3>3 DEF Exchange!Next
  <2>3. CASE ~(cur.end = Down /\ socket # "open")
    <3>1. cur.end \in {Late, Unsent} \cup (IF served[cur.seq] = "reply" THEN {Reply(cur.seq)} ELSE {})
                                     \cup (IF served[cur.seq] = "refused" THEN {Refused} ELSE {})
      BY <2>1, <2>3 DEF Ends
    <3>2. Exchange!End(cur.seq)
      BY <1>1, <1>2, <2>1, <3>1
      DEF Exchange!End, Asked, Late, Exchange!Late, Unsent, Exchange!Unsent, Reply, Exchange!Reply,
          Refused, Exchange!Refused
    <3> QED
      BY <2>1, <3>2 DEF Exchange!Next
  <2> QED
    BY <2>2, <2>3
<1>3. CASE ~cur.call
  BY <1>1, <1>3, Stutters
<1> QED
  BY <1>2, <1>3

LEMMA ShutdownMaps ==
  ASSUME Kept, Reader, Shutdown PROVE [Exchange!Next]_(Exchange!vars)
<1>1. /\ UNCHANGED <<next, served, socket>> /\ Waiting /\ socket # "open"
      /\ outcome' = [r \in Reqs |-> IF r \in pending THEN Down ELSE outcome[r]]
  BY ReaderLeaves DEF Shutdown, Taken
<1>2. pending \in SUBSET {r \in 1 .. next - 1 : outcome[r] = Nothing}
  BY <1>1, MaxReqAssumption DEF Waiting, Asked, Reqs
<1>3. Exchange!Abandon
  BY <1>1, <1>2 DEF Exchange!Abandon, Down, Exchange!Down
<1> QED
  BY <1>3 DEF Exchange!Next

LEMMA ReaderMaps == ASSUME Kept, Reader PROVE [Exchange!Next]_(Exchange!vars)
<1>1. CASE UNCHANGED outcome /\ (socket # "open" => socket' # "open")
  BY <1>1, Loses, ReaderLeaves
<1>2. CASE ReadHeader \/ ReadBody
  BY <1>1, <1>2 DEF ReadHeader, ReadBody
<1>3. CASE GetTimeout \/ ArmHeader \/ TakeCall \/ RemoveReq \/ SetReading \/ ArmBody \/ SetUnread
  BY <1>1, <1>3 DEF GetTimeout, ArmHeader, TakeCall, RemoveReq, SetReading, ArmBody, SetUnread
<1> QED
  BY <1>2, <1>3, DoneMaps, ShutdownMaps DEF Reader

LEMMA ServerMaps == ASSUME Kept, Server PROVE [Exchange!Next]_(Exchange!vars)
<1>1. UNCHANGED <<next, outcome, socket>> /\ Waiting
  BY DEF Server, netVars, Kept
<1>2. CASE AnswerBody
  BY <1>1, <1>2, Stutters DEF AnswerBody
<1>3. ASSUME NEW r \in Reqs, Answer(r) PROVE Exchange!Serve(r)
  <2>1. r \in 1 .. next - 1 /\ served[r] = "no"
    BY <1>1, <1>3 DEF Answer, Waiting, Asked
  <2>2. \E how \in {"reply", "refused"} : served' = [served EXCEPT ![r] = how]
    BY <1>3 DEF Answer
  <2> QED
    BY <1>1, <2>1, <2>2 DEF Exchange!Serve
<1> QED
  BY <1>2, <1>3 DEF Server, Exchange!Next

LEMMA StepMaps == Kept /\ [Next]_vars => [Exchange!Next]_(Exchange!vars)
<1> SUFFICES ASSUME Kept, [Next]_vars PROVE [Exchange!Next]_(Exchange!vars)
  OBVIOUS
<1>1. CASE Socket
  BY <1>1, Loses DEF Socket, Break, Close, serverVars
<1>2. CASE Time
  BY <1>2, Stutters DEF Time, netVars, serverVars
<1>3. CASE UNCHANGED vars
  BY <1>3, Stutters DEF vars, netVars, serverVars
<1> QED
  BY <1>1, <1>2, <1>3, WriterMaps, ReaderMaps, ServerMaps DEF Next

\* timeout_codec.go:90-203: every call ends at most once, with the reply or the
\* refusal its own request got, late, unsent, or because the connection is down;
\* for any number of requests, and without ReadInSync.
THEOREM KeepsPromise == Safety => Implements
<1>1. Safety => []Kept
  BY Start, NextKeeps, PTL DEF Safety
<1>2. Init => Exchange!Init
  BY StartMaps
<1>3. Kept /\ [Next]_vars => [Exchange!Next]_(Exchange!vars)
  BY StepMaps
<1> QED
  BY <1>1, <1>2, <1>3, PTL DEF Safety, Implements, Exchange!Spec

-----------------------------------------------------------------------------
(***************************************************************************)
(* The list of requests                                                    *)
(***************************************************************************)
\* A writer whose request waits and is not, or not any more, listed.
Unlisted == {"push", "rearm", "relift", "unpend"}

\* A request is listed from its writer's pushReq on, until the writer failed or
\* the reader took the call; in between its call waits.
Listing ==
  /\ li \in Seq(Reqs) /\ late \subseteq ToSet(li) /\ ToSet(li) \subseteq Asked
  /\ \A i, j \in DOMAIN li : li[i] = li[j] => i = j
  /\ marked \subseteq Asked /\ cur.seq \in Asked \cup {NoSeq}
  /\ wpc # "idle" => wseq \notin sent
  /\ \A r \in Reqs : served[r] # "no" => r \in sent
  /\ wpc \in Unlisted => wseq \notin ToSet(li)
  /\ wpc = "push" => wseq \in pending /\ wseq \notin marked /\ wseq # cur.seq
  /\ rpc \in {"found", "remove"} => headerSeq = cur.seq
  /\ rpc = "remove" => headerSeq \notin pending
  /\ \A r \in pending : r \in ToSet(li) \/ (r = wseq /\ wpc \in Unlisted)
  /\ rpc # "ended" => \A r \in ToSet(li) : r \in pending \/ (rpc = "remove" /\ headerSeq = r)

\* The set of a list's elements, for the facts about lists.
LEMMA SetOfList ==
  ASSUME NEW S, NEW s \in Seq(S)
  PROVE  \A e : e \in ToSet(s) <=> Contains(s, e)
<1>1. DOMAIN s = 1 .. Len(s)
  OBVIOUS
<1> QED
  BY <1>1 DEF ToSet, Contains

\* pushReq, for a request that is not listed.
LEMMA PushFacts ==
  ASSUME Listing, NEW r \in Reqs, r \notin ToSet(li), li' = Append(li, r), late' = late
  PROVE  /\ li' \in Seq(Reqs) /\ ToSet(li') = ToSet(li) \cup {r} /\ late' \subseteq ToSet(li')
         /\ \A i, j \in DOMAIN li' : li'[i] = li'[j] => i = j
<1>1. /\ li' \in Seq(Reqs) /\ Len(li') = Len(li) + 1 /\ Len(li) \in Nat
      /\ \A j \in 1 .. Len(li) + 1 : li'[j] = IF j <= Len(li) THEN li[j] ELSE r
      /\ \A e : Contains(li', e) <=> Contains(li, e) \/ e = r
  BY AppendFacts, LenProperties DEF Listing
<1>2. ToSet(li') = ToSet(li) \cup {r}
  BY <1>1, SetOfList DEF Listing
<1>3. \A i \in 1 .. Len(li) : li[i] # r
  BY DEF Listing, ToSet
<1>4. ASSUME NEW i \in DOMAIN li', NEW j \in DOMAIN li', li'[i] = li'[j] PROVE i = j
  <2>1. i \in 1 .. Len(li) + 1 /\ j \in 1 .. Len(li) + 1 /\ DOMAIN li = 1 .. Len(li)
    BY <1>1 DEF Listing
  <2>2. CASE i <= Len(li) /\ j <= Len(li)
    BY <1>1, <1>4, <2>1, <2>2 DEF Listing
  <2>3. CASE ~(i <= Len(li)) \/ ~(j <= Len(li))
    BY <1>1, <1>3, <1>4, <2>1, <2>3
  <2> QED
    BY <2>2, <2>3
<1> QED
  BY <1>1, <1>2, <1>4 DEF Listing

\* removeReq takes just that request away.
LEMMA UnlistFacts ==
  ASSUME Listing, NEW r, Unlist(r)
  PROVE  /\ li' \in Seq(Reqs) /\ ToSet(li') = ToSet(li) \ {r} /\ late' \subseteq ToSet(li') /\ marked' = marked
         /\ \A i, j \in DOMAIN li' : li'[i] = li'[j] => i = j
<1>1. CASE r \notin ToSet(li)
  BY <1>1 DEF Unlist, Listing
<1>2. CASE r \in ToSet(li)
  <2> DEFINE k == Place(r)
  <2>1. k \in DOMAIN li /\ li[k] = r
    BY <1>2 DEF Place, ToSet
  <2> HIDE DEF k
  <2>2. k \in 1 .. Len(li) /\ li \in Seq(Reqs)
    BY <2>1 DEF Listing
  <2>3. li' = RemoveAt(li, k) /\ late' = late \ {r} /\ marked' = marked
    BY <1>2 DEF Unlist, k
  <2>4. /\ li' \in Seq(Reqs)
        /\ \A e : Contains(li', e) <=> Contains(li, e) /\ e # r
        /\ \A i, j \in DOMAIN li' : li'[i] = li'[j] => i = j
    BY <2>1, <2>2, <2>3, RemoveAtFacts, RemoveAtDistinct DEF Listing
  <2>5. ToSet(li') = ToSet(li) \ {r}
    BY <2>2, <2>4, SetOfList
  <2> QED
    BY <2>3, <2>4, <2>5 DEF Listing
<1> QED
  BY <1>1, <1>2

LEMMA ListStart == Init => Listing
<1> SUFFICES ASSUME Init PROVE Listing
  OBVIOUS
<1>1. li = <<>> /\ late = {} /\ <<>> \in Seq(Reqs) /\ ToSet(<<>>) = {} /\ DOMAIN <<>> = {}
  BY DEF Init, ToSet
<1> QED
  BY <1>1 DEF Init, Listing, NoResponse, NoSeq, Unlisted

\* Whoever is at the requests: the writers ...
LEMMA WriterLists ==
  ASSUME Kept, Listing, Writer
  PROVE  Listing'
<1>1. UNCHANGED <<rpc, cur, headerSeq, served>> /\ Waiting /\ NoSeq = 0
  BY DEF Writer, readerVars, Kept, NoSeq
<1>2. CASE Send
  <2>1. /\ next \in Reqs /\ next' = next + 1 /\ pending' = pending \cup {next} /\ wseq' = next
        /\ wpc = "idle" /\ wpc' = "push" /\ UNCHANGED <<li, late, marked, sent>>
    BY <1>2 DEF Send, listVars
  <2>2. Asked' = Asked \cup {next} /\ next \notin Asked /\ next # NoSeq
    BY <1>1, <2>1, MaxReqAssumption DEF Reqs, Asked
  <2>3. next \notin sent /\ next \notin ToSet(li) /\ next \notin marked /\ next # cur.seq
    BY <1>1, <2>2 DEF Listing, Waiting
  <2> QED
    BY <1>1, <2>1, <2>2, <2>3 DEF Listing, Unlisted
<1>3. CASE PushReq
  <2>1. /\ wpc = "push" /\ wpc' = "arm" /\ li' = Append(li, wseq)
        /\ UNCHANGED <<pending, next, late, marked, wseq, sent>>
    BY <1>3 DEF PushReq, netVars
  <2>2. wseq \in Reqs /\ wseq \in Asked /\ wseq \in pending /\ wseq \notin ToSet(li) /\ Asked' = Asked
    BY <1>1, <2>1, MaxReqAssumption DEF Listing, Waiting, Asked, Reqs, Unlisted
  <2>3. /\ li' \in Seq(Reqs) /\ ToSet(li') = ToSet(li) \cup {wseq} /\ late' \subseteq ToSet(li')
        /\ \A i, j \in DOMAIN li' : li'[i] = li'[j] => i = j
    BY <2>1, <2>2, PushFacts
  <2> QED
    BY <1>1, <2>1, <2>2, <2>3 DEF Listing, Unlisted
<1>4. CASE SetDeadline \/ Lift
  <2>1. /\ UNCHANGED <<pending, next, li, late, marked, wseq, sent>> /\ Asked' = Asked
        /\ wpc # "idle" /\ wpc' # "push" /\ (wpc' \in Unlisted => wpc \in Unlisted)
        /\ (wpc \in Unlisted => wpc' \in Unlisted)
    BY <1>4 DEF SetDeadline, Lift, After, netVars, listVars, Unlisted, Asked
  <2> QED
    BY <1>1, <2>1 DEF Listing
<1>5. CASE Write
  <2>1. /\ UNCHANGED <<pending, next, li, late, marked, wseq>> /\ Asked' = Asked /\ wpc = "write"
        /\ \/ wpc' = "idle" /\ sent' = sent \cup {wseq}
           \/ wpc' = "remove" /\ sent' = sent
    BY <1>5 DEF Write, netVars, listVars, Asked
  <2> QED
    BY <1>1, <2>1 DEF Listing, Unlisted
<1>6. CASE RemoveUnsent
  <2>1. /\ UNCHANGED <<pending, next, wseq, sent>> /\ Asked' = Asked /\ wpc = "remove" /\ wpc' = "rearm"
        /\ Unlist(wseq)
    BY <1>6 DEF RemoveUnsent, netVars, Asked
  <2>2. /\ li' \in Seq(Reqs) /\ ToSet(li') = ToSet(li) \ {wseq} /\ late' \subseteq ToSet(li') /\ marked' = marked
        /\ \A i, j \in DOMAIN li' : li'[i] = li'[j] => i = j
    BY <2>1, UnlistFacts
  <2> QED
    BY <1>1, <2>1, <2>2 DEF Listing, Unlisted
<1>7. CASE Unpend
  <2>1. /\ UNCHANGED <<next, li, late, marked, wseq, sent>> /\ Asked' = Asked
        /\ wpc = "unpend" /\ wpc' = "idle" /\ pending' = pending \ {wseq}
    BY <1>7 DEF Unpend, listVars, Asked
  <2> QED
    BY <1>1, <2>1 DEF Listing, Unlisted
<1> QED
  BY <1>2, <1>3, <1>4, <1>5, <1>6, <1>7 DEF Writer

\* ... and the reader.
LEMMA ReaderLists ==
  ASSUME Kept, Listing, Reader
  PROVE  Listing'
<1>1. /\ UNCHANGED <<next, wpc, wseq, sent, served>> /\ Asked' = Asked /\ Waiting /\ Wired
      /\ NoSeq = 0
  BY ReaderLeaves DEF NoSeq
<1>2. ASSUME UNCHANGED <<pending, li, late, marked, cur, headerSeq>>,
             rpc' \in {"found", "remove"} => rpc' = rpc, rpc # "remove", rpc' # "ended"
      PROVE  Listing'
  <2>1. rpc # "ended" \/ rpc' = rpc
    BY <1>2 DEF Reader, GetTimeout, ArmHeader, ReadHeader, TakeCall, RemoveReq, SetReading, ArmBody, ReadBody,
       SetUnread, Done, Shutdown
  <2> QED
    BY <1>1, <1>2, <2>1 DEF Listing
<1>3. CASE GetTimeout
  <2>1. CASE /\ TimedOut /\ marked' = marked \cup {Head(li)} /\ headerSeq' = Head(li)
             /\ cur' = [NoResponse EXCEPT !.seq = Head(li), !.err = LateErr]
             /\ rpc' = "found"
    <3>1. UNCHANGED <<pending, li, late>> /\ rpc = "check"
      BY <1>3 DEF GetTimeout
    <3>2. Head(li) \in ToSet(li)
      BY <2>1 DEF TimedOut, Listing
    <3>3. cur'.seq = Head(li)
      BY <2>1 DEF NoResponse
    <3>4. wpc = "push" => wseq # Head(li)
      BY <3>2 DEF Listing, Unlisted
    <3> QED
      BY <1>1, <2>1, <3>1, <3>2, <3>3, <3>4 DEF Listing
  <2>2. CASE rpc' = "arm" /\ UNCHANGED <<marked, headerSeq, cur>>
    BY <1>2, <1>3, <2>2 DEF GetTimeout
  <2> QED
    BY <1>3, <2>1, <2>2 DEF GetTimeout
<1>4. CASE ArmHeader \/ SetReading \/ ArmBody \/ SetUnread
  BY <1>2, <1>4 DEF ArmHeader, SetReading, ArmBody, SetUnread, listVars
<1>5. CASE ReadHeader
  <2>1. UNCHANGED <<pending, li, late, marked>> /\ rpc = "header"
    BY <1>5 DEF ReadHeader, listVars
  <2>2. CASE /\ wire # <<>> /\ Head(wire).what = "header" /\ headerSeq' = Head(wire).seq
             /\ cur' = [NoResponse EXCEPT !.seq = Head(wire).seq, !.err = Head(wire).err]
             /\ rpc' = "found"
    <3>1. Head(wire).seq \in Reqs /\ served[Head(wire).seq] # "no"
      BY <1>1, <2>2, ReadOne DEF Says
    <3>2. Head(wire).seq \in sent /\ Head(wire).seq \in Asked
      BY <1>1, <3>1 DEF Listing, Waiting
    <3>3. cur'.seq = Head(wire).seq
      BY <2>2 DEF NoResponse
    <3> QED
      BY <1>1, <2>1, <2>2, <3>2, <3>3 DEF Listing
  <2>3. CASE rpc' = "stop" /\ UNCHANGED <<cur, headerSeq>>
    BY <1>2, <2>1, <2>3
  <2> QED
    BY <1>5, <2>2, <2>3 DEF ReadHeader
<1>6. CASE TakeCall
  <2>1. /\ rpc = "found" /\ rpc' = "remove" /\ pending' = pending \ {cur.seq}
        /\ UNCHANGED <<li, late, marked, headerSeq>>
        /\ cur'.seq = cur.seq
    BY <1>6, ReaderLeaves DEF TakeCall, listVars, Taken
  <2> QED
    BY <1>1, <2>1 DEF Listing
<1>7. CASE RemoveReq
  <2>1. /\ rpc = "remove" /\ rpc' \in {"flag", "done"} /\ UNCHANGED <<pending, cur, headerSeq>>
        /\ Unlist(headerSeq)
    BY <1>7 DEF RemoveReq, Forget
  <2>2. /\ li' \in Seq(Reqs) /\ ToSet(li') = ToSet(li) \ {headerSeq} /\ late' \subseteq ToSet(li')
        /\ marked' = marked /\ \A i, j \in DOMAIN li' : li'[i] = li'[j] => i = j
    BY <2>1, UnlistFacts
  <2> QED
    BY <1>1, <2>1, <2>2 DEF Listing
<1>8. CASE ReadBody
  <2>1. UNCHANGED <<pending, li, late, marked, headerSeq>> /\ rpc = "body" /\ rpc' = "unflag" /\ cur'.seq = cur.seq
    BY <1>8, ReaderLeaves DEF ReadBody, listVars, Got, BodyFails, Taken
  <2> QED
    BY <1>1, <2>1 DEF Listing
<1>9. CASE Done
  <2>1. /\ UNCHANGED <<pending, li, late, marked, headerSeq>> /\ rpc = "done" /\ rpc' \in {"stop", "check"}
        /\ cur'.seq = NoSeq
    BY <1>9 DEF Done, listVars, NoResponse
  <2>2. wpc = "push" => wseq # NoSeq
    BY <1>1, MaxReqAssumption DEF Waiting, Asked
  <2> QED
    BY <1>1, <2>1, <2>2 DEF Listing
<1>10. CASE Shutdown
  <2>1. UNCHANGED <<li, late, marked, headerSeq, cur>> /\ rpc' = "ended" /\ pending' = {} /\ wpc = "idle"
    BY <1>10 DEF Shutdown, listVars
  <2> QED
    BY <1>1, <2>1 DEF Listing
<1> QED
  BY <1>3, <1>4, <1>5, <1>6, <1>7, <1>8, <1>9, <1>10 DEF Reader

\* The server, the socket and time leave the list; a request grows late there.
LEMMA RestLists ==
  ASSUME Kept, Listing, Server \/ Socket \/ Time \/ UNCHANGED vars
  PROVE  Listing'
<1>1. UNCHANGED <<pending, next, li, marked, cur, headerSeq, rpc, wpc, wseq, sent>>
  BY DEF Server, Socket, Time, Break, Close, GrowLate, PassDeadline, Answer, AnswerBody, netVars, listVars,
     writerVars, readerVars, serverVars, vars
<1>2. late' \subseteq ToSet(li)
  <2>1. CASE UNCHANGED late
    BY <2>1 DEF Listing
  <2>2. CASE GrowLate
    BY <2>2 DEF GrowLate, Listing, ToSet
  <2> QED
    BY <2>1, <2>2 DEF Server, Socket, Time, PassDeadline, listVars, vars
<1>3. \A r \in Reqs : served'[r] # "no" => r \in sent
  <2>1. CASE UNCHANGED served
    BY <2>1 DEF Listing
  <2>2. CASE \E r \in Reqs : Answer(r)
    <3>1. PICK r \in Reqs : r \in sent /\ \E how : served' = [served EXCEPT ![r] = how]
      BY <2>2 DEF Answer
    <3>2. \A q \in Reqs : q # r => served'[q] = served[q]
      BY <3>1 DEF Kept, Waiting
    <3> QED
      BY <3>1, <3>2 DEF Listing
  <2> QED
    BY <2>1, <2>2 DEF Server, Socket, Time, AnswerBody, serverVars, vars
<1>4. Asked' = Asked
  BY <1>1 DEF Asked
<1> QED
  BY <1>1, <1>2, <1>3, <1>4 DEF Listing

LEMMA NextLists == Kept /\ Listing /\ [Next]_vars => Listing'
BY WriterLists, ReaderLists, RestLists DEF Next

-----------------------------------------------------------------------------
(***************************************************************************)
(* The types of the other variables                                        *)
(***************************************************************************)
WriterAt  == {"idle", "push", "arm", "lift", "write", "remove", "rearm", "relift", "unpend"}
ReaderAt  == {"check", "arm", "header", "found", "remove", "flag", "armbody", "body", "unflag", "done",
              "stop", "ended"}
Responses == [seq : Reqs \cup {NoSeq}, err : {"no", "late", "refused", "read"}, call : BOOLEAN,
              end : Outcomes \cup {Nothing}]
HasHeader == {"found", "remove", "flag", "armbody", "body", "unflag", "done"}

NetTypes    == outcome \in [Reqs -> Outcomes \cup {Nothing}] /\ up \in BOOLEAN
WriterTypes == wpc \in WriterAt /\ wseq \in Reqs \cup {NoSeq}
ReaderTypes == /\ rpc \in ReaderAt /\ cur \in Responses /\ (rpc \in HasHeader => cur.seq \in Reqs)
               /\ headerSeq \in Reqs \cup {NoSeq} /\ isReadingBody \in BOOLEAN
WireTypes   == /\ deadline \in {"near", "past", "far"} /\ gob \in BOOLEAN
               /\ served \in [Reqs -> {"no", "reply", "refused"}]
               /\ socket \in {"open", "lost", "garbled"}
Types == NetTypes /\ WriterTypes /\ ReaderTypes /\ WireTypes

LEMMA OutcomeTypes ==
  /\ Late \in Outcomes /\ Down \in Outcomes /\ Unsent \in Outcomes /\ Refused \in Outcomes
  /\ \A r \in Reqs : Reply(r) \in Outcomes
BY DEF Outcomes

LEMMA TypesStart == Init => Types
<1> SUFFICES ASSUME Init PROVE Types
  OBVIOUS
<1>1. up = TRUE /\ isReadingBody = FALSE /\ gob \in BOOLEAN
  BY DEF Init
<1>2. up \in BOOLEAN /\ isReadingBody \in BOOLEAN
  BY <1>1
<1>3. NetTypes /\ WriterTypes /\ WireTypes
  BY <1>1, <1>2 DEF Init, NetTypes, WriterTypes, WireTypes, WriterAt
<1>4. NoResponse \in Responses
  BY DEF NoResponse, Responses
<1>5. ReaderTypes
  BY <1>2, <1>4 DEF Init, ReaderTypes, ReaderAt, HasHeader
<1> QED
  BY <1>3, <1>5 DEF Types

LEMMA WriterTyped ==
  ASSUME Kept, Types, Writer
  PROVE  Types'
<1>1. UNCHANGED <<up, gob, rpc, cur, headerSeq, isReadingBody, served, socket>>
  BY DEF Writer, readerVars, Send, PushReq, SetDeadline, Lift, Write, RemoveUnsent, Unpend, netVars
<1>2. outcome' \in [Reqs -> Outcomes \cup {Nothing}]
  <2>1. UNCHANGED outcome \/ outcome' = [outcome EXCEPT ![wseq] = Unsent]
    BY DEF Writer, Send, PushReq, SetDeadline, Lift, Write, RemoveUnsent, Unpend, netVars
  <2> QED
    BY <2>1, OutcomeTypes DEF Types, NetTypes
<1>3. wpc' \in WriterAt
  <2>1. \A step : After(step) \in WriterAt
    BY DEF After, WriterAt
  <2> QED
    BY <2>1 DEF Writer, Send, PushReq, SetDeadline, Lift, Write, RemoveUnsent, Unpend, WriterAt
<1>4. wseq' \in Reqs \cup {NoSeq}
  BY DEF Writer, Send, PushReq, SetDeadline, Lift, Write, RemoveUnsent, Unpend, Types, WriterTypes
<1>5. deadline' \in {"near", "past", "far"}
  <2>1. UNCHANGED deadline \/ deadline' = "near" \/ deadline' = "far"
    BY DEF Writer, Send, PushReq, SetDeadline, ListDeadline, Lift, Write, RemoveUnsent, Unpend
  <2> QED
    BY <2>1 DEF Types, WireTypes
<1> QED
  BY <1>1, <1>2, <1>3, <1>4, <1>5 DEF Types, NetTypes, WriterTypes, ReaderTypes, WireTypes

\* A response that the reader takes from the list or from the wire.
LEMMA ResponseTypes ==
  ASSUME NEW r \in Reqs, NEW e \in {"no", "late", "refused"}
  PROVE  /\ [NoResponse EXCEPT !.seq = r, !.err = e] \in Responses
         /\ [NoResponse EXCEPT !.seq = r, !.err = e].seq = r
BY DEF NoResponse, Responses

LEMMA ReaderTyped ==
  ASSUME Kept, Listing, Types, Reader
  PROVE  Types'
<1>1. UNCHANGED <<gob, wpc, wseq, served>> /\ Taken /\ Waiting /\ Wired
  BY ReaderLeaves
<1>2. WriterTypes'
  BY <1>1 DEF Types, WriterTypes
<1>3. NetTypes'
  <2>1. up' \in BOOLEAN
    <3>1. UNCHANGED up \/ up' = FALSE
      BY DEF Reader, GetTimeout, ArmHeader, ReadHeader, TakeCall, RemoveReq, SetReading, ArmBody, ReadBody,
         SetUnread, Done, Shutdown
    <3>2. CASE UNCHANGED up
      BY <3>2 DEF Types, NetTypes
    <3>3. CASE up' = FALSE
      BY <3>3
    <3> QED
      BY <3>1, <3>2, <3>3
  <2>2. outcome' \in [Reqs -> Outcomes \cup {Nothing}]
    <3>1. CASE UNCHANGED outcome
      BY <3>1 DEF Types, NetTypes
    <3>2. CASE Done
      <4>1. outcome' = outcome \/ outcome' = [outcome EXCEPT ![cur.seq] = cur.end]
        BY <3>2 DEF Done
      <4>2. cur.end \in Outcomes \cup {Nothing}
        BY DEF Types, ReaderTypes, Responses
      <4> QED
        BY <4>1, <4>2 DEF Types, NetTypes
    <3>3. CASE Shutdown
      BY <3>3, OutcomeTypes DEF Shutdown, Types, NetTypes
    <3> QED
      BY <3>1, <3>2, <3>3 DEF Reader, GetTimeout, ArmHeader, ReadHeader, TakeCall, RemoveReq, SetReading, ArmBody,
         ReadBody, SetUnread
  <2> QED
    BY <2>1, <2>2 DEF NetTypes
<1>4. WireTypes'
  <2>1. UNCHANGED deadline \/ deadline' = "near" \/ deadline' = "far"
    BY DEF Reader, GetTimeout, ArmHeader, HeaderDeadline, ReadHeader, TakeCall, RemoveReq, SetReading, ArmBody,
       ReadBody, SetUnread, Done, Shutdown
  <2>2. UNCHANGED socket \/ socket' = "garbled" \/ socket' = "lost"
    BY DEF Reader, GetTimeout, ArmHeader, ReadHeader, TakeCall, RemoveReq, SetReading, ArmBody,
       ReadBody, SetUnread, Done, Shutdown
  <2> QED
    BY <1>1, <2>1, <2>2 DEF Types, WireTypes
<1>5. headerSeq' \in Reqs \cup {NoSeq}
  <2>1. CASE UNCHANGED headerSeq
    BY <2>1 DEF Types, ReaderTypes
  <2>2. CASE li # <<>> /\ headerSeq' = Head(li)
    BY <2>2 DEF Listing
  <2>3. CASE wire # <<>> /\ headerSeq' = Head(wire).seq
    BY <1>1, <2>3, ReadOne DEF Messages
  <2> QED
    BY <2>1, <2>2, <2>3 DEF Reader, GetTimeout, TimedOut, ArmHeader, ReadHeader, TakeCall, RemoveReq, SetReading,
       ArmBody, ReadBody, SetUnread, Done, Shutdown
<1>6. isReadingBody' \in BOOLEAN
  <2>1. UNCHANGED isReadingBody \/ isReadingBody' = TRUE \/ isReadingBody' = FALSE
    BY DEF Reader, GetTimeout, ArmHeader, ReadHeader, TakeCall, RemoveReq, SetReading, ArmBody,
       ReadBody, SetUnread, Done, Shutdown
  <2>2. CASE UNCHANGED isReadingBody
    BY <2>2 DEF Types, ReaderTypes
  <2>3. CASE isReadingBody' = TRUE
    BY <2>3
  <2>4. CASE isReadingBody' = FALSE
    BY <2>4
  <2> QED
    BY <2>1, <2>2, <2>3, <2>4
<1>7. cur \in Responses /\ cur.seq \in Reqs \cup {NoSeq} /\ (rpc \in HasHeader => cur.seq \in Reqs)
  BY DEF Types, ReaderTypes, Responses
<1>8. rpc' \in ReaderAt /\ cur' \in Responses /\ (rpc' \in HasHeader => cur'.seq \in Reqs)
  <2>1. CASE GetTimeout
    <3>1. CASE TimedOut /\ cur' = [NoResponse EXCEPT !.seq = Head(li), !.err = LateErr] /\ rpc' = "found"
      <4>1. Head(li) \in Reqs
        BY <3>1 DEF TimedOut, Listing
      <4> QED
        BY <3>1, <4>1, ResponseTypes DEF LateErr, ReaderAt
    <3>2. CASE UNCHANGED cur /\ rpc' = "arm"
      BY <1>7, <3>2 DEF ReaderAt, HasHeader
    <3> QED
      BY <2>1, <3>1, <3>2 DEF GetTimeout
  <2>2. CASE ReadHeader
    <3>1. CASE /\ wire # <<>> /\ Head(wire).what = "header" /\ rpc' = "found"
               /\ cur' = [NoResponse EXCEPT !.seq = Head(wire).seq, !.err = Head(wire).err]
      <4>1. Head(wire).seq \in Reqs /\ Head(wire).err \in {"no", "late", "refused"}
        BY <1>1, <3>1, ReadOne DEF Messages
      <4> QED
        BY <3>1, <4>1, ResponseTypes DEF ReaderAt
    <3>2. CASE UNCHANGED cur /\ rpc' = "stop"
      BY <1>7, <3>2 DEF ReaderAt, HasHeader
    <3> QED
      BY <2>2, <3>1, <3>2 DEF ReadHeader
  <2>3. CASE TakeCall
    <3> DEFINE c == cur.seq \in pending
               e == CASE cur.err = "late" -> Late
                      [] cur.err = "refused" -> Refused
                      [] OTHER -> Nothing
    <3>1. rpc = "found" /\ rpc' = "remove" /\ cur' = [cur EXCEPT !.call = c, !.end = e]
      BY <2>3 DEF TakeCall
    <3>2. e \in Outcomes \cup {Nothing}
      BY OutcomeTypes
    <3>3. c \in BOOLEAN
      OBVIOUS
    <3> HIDE DEF c, e
    <3> QED
      BY <1>7, <3>1, <3>2, <3>3 DEF Responses, ReaderAt, HasHeader
  <2>4. CASE ReadBody
    <3>1. rpc = "body" /\ rpc' = "unflag"
      BY <2>4 DEF ReadBody, Got, BodyFails
    <3>2. cur.seq \in Reqs
      BY <1>7, <3>1 DEF HasHeader
    <3>3. ASSUME NEW r \in Reqs, Got(r) PROVE cur' \in Responses /\ cur'.seq = cur.seq
      BY <1>7, <3>3, OutcomeTypes DEF Got, Responses
    <3>4. ASSUME BodyFails PROVE cur' \in Responses /\ cur'.seq = cur.seq
      BY <1>7, <3>4, OutcomeTypes DEF BodyFails, Responses
    <3>5. wire # <<>> => Head(wire).seq \in Reqs
      BY <1>1, ReadOne DEF Messages
    <3>6. cur' \in Responses /\ cur'.seq = cur.seq
      BY <2>4, <3>2, <3>3, <3>4, <3>5 DEF ReadBody
    <3> QED
      BY <3>1, <3>2, <3>6 DEF ReaderAt
  <2>5. CASE Done
    <3>1. cur' = NoResponse /\ NoResponse \in Responses /\ rpc' \in {"stop", "check"}
      BY <2>5 DEF Done, NoResponse, Responses
    <3> QED
      BY <3>1 DEF ReaderAt, HasHeader
  <2>6. CASE UNCHANGED cur
    BY <1>7, <2>1, <2>2, <2>3, <2>4, <2>5, <2>6 DEF Reader, ArmHeader, RemoveReq, SetReading,
       ArmBody, SetUnread, Shutdown, ReaderAt, HasHeader
  <2> QED
    BY <2>1, <2>2, <2>3, <2>4, <2>5, <2>6 DEF Reader, ArmHeader, RemoveReq, SetReading, ArmBody, SetUnread, Shutdown
<1>9. ReaderTypes'
  BY <1>5, <1>6, <1>8 DEF ReaderTypes
<1> QED
  BY <1>2, <1>3, <1>4, <1>9 DEF Types

LEMMA RestTyped ==
  ASSUME Types, Server \/ Socket \/ Time \/ UNCHANGED vars
  PROVE  Types'
<1>1. UNCHANGED <<outcome, gob, rpc, cur, headerSeq, isReadingBody, wpc, wseq>>
  BY DEF Server, Socket, Time, netVars, writerVars, readerVars, vars
<1>2. up' \in BOOLEAN
  <2>1. UNCHANGED up \/ up' = FALSE
    BY DEF Server, Socket, Time, Break, Close, netVars, vars
  <2>2. CASE up' = FALSE
    BY <2>2
  <2> QED
    BY <2>1, <2>2 DEF Types, NetTypes
<1>3. /\ deadline' = deadline \/ deadline' = "past"
      /\ socket' = socket \/ socket' = "lost"
  BY DEF Server, Socket, Time, Break, Close, GrowLate, PassDeadline, vars
<1>4. served' \in [Reqs -> {"no", "reply", "refused"}]
  <2>1. UNCHANGED served \/ \E r \in Reqs, how \in {"reply", "refused"} : served' = [served EXCEPT ![r] = how]
    <3>1. ASSUME NEW r \in Reqs, Answer(r)
          PROVE  \E how \in {"reply", "refused"} : served' = [served EXCEPT ![r] = how]
      <4>1. PICK err \in {"no", "refused"} : served' = [served EXCEPT ![r] = IF err = "no" THEN "reply" ELSE err]
        BY <3>1 DEF Answer
      <4>2. (IF err = "no" THEN "reply" ELSE err) \in {"reply", "refused"}
        OBVIOUS
      <4> QED
        BY <4>1, <4>2
    <3> QED
      BY <3>1 DEF Server, Socket, Time, AnswerBody, serverVars, vars
  <2> QED
    BY <2>1 DEF Types, WireTypes
<1> QED
  BY <1>1, <1>2, <1>3, <1>4 DEF Types, NetTypes, WriterTypes, ReaderTypes, WireTypes

LEMMA CodecCorrect == Safety => [](Kept /\ Listing /\ Types)
<1>1. Kept /\ Listing /\ Types /\ [Next]_vars => Types'
  BY WriterTyped, ReaderTyped, RestTyped DEF Next
<1> QED
  BY <1>1, Start, NextKeeps, ListStart, NextLists, TypesStart, PTL DEF Safety

\* A call that waits can always be timed out, because its request is listed but
\* while its writer holds it; and nothing stays listed after its call has ended,
\* to be timed out in the place of another.
THEOREM PendingIsExact == Safety => []PendingExact
<1>1. Kept /\ Listing /\ Types => PendingExact
  <2> SUFFICES ASSUME Kept, Listing, Types PROVE PendingExact
    OBVIOUS
  <2>1. Asked \subseteq Reqs /\ next \in Nat \ {0}
    BY MaxReqAssumption DEF Kept, Waiting, Asked, Reqs
  <2>2. /\ pending \subseteq Reqs /\ marked \subseteq Reqs /\ sent \subseteq Reqs
        /\ (wpc # "idle" => wseq \in Reqs)
    BY <2>1 DEF Kept, Waiting, Listing
  <2>3. wire \in Seq(Messages) /\ sending \in Reqs \cup {NoSeq}
    BY DEF Kept, Wired
  <2>4. TypeOK
    BY <2>1, <2>2, <2>3
    DEF TypeOK, Listing, Types, NetTypes, WriterTypes, ReaderTypes, WireTypes, Messages, Responses, WriterAt,
        ReaderAt, HasHeader
  <2>5. "idle" \notin Unlisted
    BY DEF Unlisted
  <2> QED
    BY <2>4, <2>5 DEF PendingExact, Listing
<1> QED
  BY <1>1, CodecCorrect, PTL

-----------------------------------------------------------------------------
(***************************************************************************)
(* Messages and what the reader takes them for                             *)
(***************************************************************************)
\* Requests whose write failed.
Lost == {r \in Asked \ sent : ~(r = wseq /\ wpc \in {"push", "arm", "lift", "write"})}

\* The reader is at a header of getTimeoutRequest's; its next message is a header.
OwnTaken     == rpc \in {"found", "remove"} /\ cur.err = "late"
AwaitsHeader == \/ rpc \in {"check", "arm", "header"} \/ OwnTaken
                \/ rpc \in {"unflag", "done"} /\ cur.err # "read"

\* Headers and bodies alternate, and the next is what the reader will read.
InTurn ==
  /\ ~gob => \A i \in 1 .. Len(wire) : wire[i].what = "header"
  /\ gob => /\ \A i \in 1 .. Len(wire) - 1 : wire[i].what # wire[i + 1].what
            /\ sending # NoSeq /\ wire # <<>> => wire[Len(wire)].what = "header"
            /\ AwaitsHeader => IF wire = <<>> THEN sending = NoSeq ELSE wire[1].what = "header"

\* A response of getTimeoutRequest's is known for what it is.
OwnKnown ==
  /\ rpc \in {"flag", "armbody", "body"} => cur.err # "late"
  /\ OwnTaken => headerSeq \in ToSet(li) /\ headerSeq \in marked
  /\ \A r \in ToSet(li) : r \in marked => OwnTaken /\ r = headerSeq

InStep == socket # "garbled" /\ InTurn /\ OwnKnown

\* The reader may be out of step only once a write has failed.
Sync == Lost = {} => InStep

Facts == Kept /\ Listing /\ Types

LEMMA SyncStart == Init => Sync
<1> SUFFICES ASSUME Init PROVE InStep
  BY DEF Sync
<1>1. li = <<>> /\ wire = <<>> /\ Len(<<>>) = 0 /\ ToSet(<<>>) = {} /\ sending = NoSeq
  BY DEF Init, ToSet
<1>2. \A i \in 1 .. 0 : FALSE
  OBVIOUS
<1>3. \A i \in 1 .. 0 - 1 : FALSE
  OBVIOUS
<1> QED
  BY <1>1, <1>2, <1>3 DEF Init, InStep, InTurn, OwnKnown, OwnTaken

\* What is lost stays so; and a request that its writer gives up is lost.
LEMMA LostStays ==
  ASSUME Facts, [Next]_vars
  PROVE  /\ Lost \subseteq Lost'
         /\ RemoveUnsent => wseq \in Lost'
<1>1. Waiting /\ Listing /\ Types
  BY DEF Facts, Kept
<1>2. CASE ~Writer
  <2>1. UNCHANGED <<next, sent, wseq, wpc>>
    BY <1>2 DEF Next, Reader, Server, Socket, Time, Break, Close, netVars, writerVars, serverVars, vars
  <2> QED
    BY <2>1 DEF Lost, Asked, RemoveUnsent
<1>3. CASE Send
  <2>1. /\ next \in Reqs /\ next' = next + 1 /\ wseq' = next /\ wpc = "idle" /\ wpc' = "push" /\ UNCHANGED sent
    BY <1>3 DEF Send
  <2>2. Asked' = Asked \cup {next} /\ next \notin Asked
    BY <1>1, <2>1, MaxReqAssumption DEF Reqs, Asked
  <2> QED
    BY <1>3, <2>1, <2>2 DEF Lost, RemoveUnsent
<1>4. CASE PushReq \/ SetDeadline \/ Lift
  <2>1. /\ UNCHANGED <<next, wseq, sent>>
        /\ wpc' \in {"push", "arm", "lift", "write"} => wpc \in {"push", "arm", "lift", "write"}
        /\ wpc # "remove"
    BY <1>4 DEF PushReq, SetDeadline, Lift, After, netVars
  <2> QED
    BY <2>1 DEF Lost, Asked, RemoveUnsent
<1>5. CASE Write
  BY <1>5 DEF Write, Lost, Asked, RemoveUnsent, netVars
<1>6. CASE RemoveUnsent
  <2>1. UNCHANGED <<next, wseq, sent>> /\ wpc = "remove" /\ wpc' = "rearm"
    BY <1>6 DEF RemoveUnsent, netVars
  <2>2. wseq \in Asked /\ wseq \notin sent
    BY <1>1, <2>1 DEF Waiting, Listing
  <2> QED
    BY <2>1, <2>2 DEF Lost, Asked
<1>7. CASE Unpend
  BY <1>7 DEF Unpend, Lost, Asked, RemoveUnsent
<1> QED
  BY <1>2, <1>3, <1>4, <1>5, <1>6, <1>7 DEF Writer

\* A writer that does not give up leaves the reader in step.
LEMMA WriterInStep ==
  ASSUME Facts, InStep, Writer, ~RemoveUnsent
  PROVE  InStep'
<1>1. UNCHANGED <<gob, rpc, cur, headerSeq, wire, sending, socket>>
  BY DEF Writer, readerVars
<1>2. InTurn'
  BY <1>1 DEF InStep, InTurn, AwaitsHeader, OwnTaken
<1>3. CASE PushReq
  <2>1. wseq \in Reqs /\ wseq \notin ToSet(li) /\ wseq \notin marked /\ UNCHANGED marked
    <3>1. wpc = "push" /\ UNCHANGED marked
      BY <1>3 DEF PushReq
    <3> QED
      BY <3>1, MaxReqAssumption DEF Facts, Kept, Waiting, Listing, Unlisted, Asked, Reqs
  <2>2. ToSet(li') = ToSet(li) \cup {wseq}
    BY <1>3, <2>1, PushFacts DEF Facts, PushReq
  <2> QED
    BY <1>1, <1>2, <2>1, <2>2 DEF InStep, OwnKnown, OwnTaken
<1>4. CASE ~PushReq
  <2>1. UNCHANGED <<li, marked>>
    BY <1>4 DEF Writer, Send, SetDeadline, Lift, Write, Unpend, listVars
  <2> QED
    BY <1>1, <1>2, <2>1 DEF InStep, OwnKnown, OwnTaken
<1> QED
  BY <1>3, <1>4

\* The wire once its head is read: the next is of the other kind.
LEMMA InTurnTail ==
  ASSUME Facts, InTurn, wire # <<>>
  PROVE  /\ ~gob => \A i \in 1 .. Len(Tail(wire)) : Tail(wire)[i].what = "header"
         /\ gob => /\ \A i \in 1 .. Len(Tail(wire)) - 1 : Tail(wire)[i].what # Tail(wire)[i + 1].what
                   /\ sending # NoSeq /\ Tail(wire) # <<>> => Tail(wire)[Len(Tail(wire))].what = "header"
                   /\ wire[1].what = "body" => IF Tail(wire) = <<>> THEN sending = NoSeq
                                                                    ELSE Tail(wire)[1].what = "header"
<1>1. wire \in Seq(Messages) /\ \A m \in Messages : m.what \in {"header", "body"}
  BY DEF Facts, Kept, Wired, Messages
<1>2. /\ Tail(wire) \in Seq(Messages) /\ Len(Tail(wire)) = Len(wire) - 1
      /\ \A i \in 1 .. Len(Tail(wire)) : Tail(wire)[i] = wire[i + 1]
  BY <1>1, HeadTailProperties
<1>3. Len(wire) \in Nat \ {0} /\ \A i \in 1 .. Len(wire) : wire[i].what \in {"header", "body"}
  <2>1. Len(wire) \in Nat \ {0}
    BY <1>1
  <2>2. \A i \in 1 .. Len(wire) : wire[i] \in Messages
    BY <1>1, ElementOfSeq
  <2> QED
    BY <1>1, <2>1, <2>2
<1>4. Tail(wire) = <<>> <=> Len(wire) = 1
  <2>1. Len(<<>>) = 0 /\ \A s \in Seq(Messages) : s # <<>> => Len(s) \in Nat \ {0}
    BY EmptySeq
  <2>2. Tail(wire) # <<>> => Len(Tail(wire)) \in Nat \ {0}
    BY <1>2, <2>1
  <2>3. Tail(wire) = <<>> => Len(Tail(wire)) = 0
    BY <2>1
  <2> QED
    BY <1>2, <1>3, <2>2, <2>3
<1>5. ASSUME ~gob, NEW i \in 1 .. Len(Tail(wire)) PROVE Tail(wire)[i].what = "header"
  <2>1. i + 1 \in 1 .. Len(wire)
    BY <1>2, <1>3
  <2> QED
    BY <1>2, <1>5, <2>1 DEF InTurn
<1>6. ASSUME gob, NEW i \in 1 .. Len(Tail(wire)) - 1 PROVE Tail(wire)[i].what # Tail(wire)[i + 1].what
  <2>1. /\ i + 1 \in 1 .. Len(wire) - 1 /\ i \in 1 .. Len(Tail(wire)) /\ i + 1 \in 1 .. Len(Tail(wire))
    BY <1>2, <1>3
  <2> QED
    BY <1>2, <1>6, <2>1 DEF InTurn
<1>7. ASSUME gob, sending # NoSeq, Tail(wire) # <<>> PROVE Tail(wire)[Len(Tail(wire))].what = "header"
  <2>1. Len(Tail(wire)) \in 1 .. Len(Tail(wire)) /\ Len(Tail(wire)) + 1 = Len(wire)
    BY <1>2, <1>3, <1>4, <1>7
  <2> QED
    BY <1>2, <1>7, <2>1 DEF InTurn
<1>8. ASSUME gob, wire[1].what = "body", Tail(wire) # <<>> PROVE Tail(wire)[1].what = "header"
  <2>1. 1 \in 1 .. Len(wire) - 1 /\ 1 \in 1 .. Len(Tail(wire)) /\ 1 + 1 \in 1 .. Len(wire)
    BY <1>2, <1>3, <1>4, <1>8
  <2>2. Tail(wire)[1] = wire[1 + 1] /\ wire[1].what # wire[1 + 1].what
    BY <1>2, <1>8, <2>1 DEF InTurn
  <2> QED
    BY <1>3, <1>8, <2>1, <2>2
<1>9. ASSUME gob, wire[1].what = "body", Tail(wire) = <<>> PROVE sending = NoSeq
  BY <1>4, <1>9 DEF InTurn
<1> QED
  BY <1>5, <1>6, <1>7, <1>8, <1>9

\* A reader in step reads a header for a header and a body for a body.
LEMMA ReaderInStep ==
  ASSUME Facts, InStep, Reader
  PROVE  InStep'
<1>1. /\ UNCHANGED <<gob, sending>> /\ Waiting /\ Wired /\ Fetched /\ Taken /\ Listing /\ Types
      /\ InTurn /\ OwnKnown /\ socket # "garbled"
  BY ReaderLeaves DEF Facts, InStep
<1>2. wire # <<>> => Head(wire) = wire[1] /\ wire[1].what \in {"header", "body"}
  BY <1>1, ReadOne DEF Messages
<1>3. ASSUME UNCHANGED <<li, marked, cur, headerSeq, wire, socket>>,
             ~OwnTaken, ~OwnTaken', AwaitsHeader' => AwaitsHeader,
             rpc' \in {"flag", "armbody", "body"} => rpc \in {"flag", "armbody", "body"}
      PROVE  InStep'
  <2>1. InTurn'
    BY <1>1, <1>3 DEF InTurn
  <2>2. OwnKnown'
    BY <1>1, <1>3 DEF OwnKnown
  <2> QED
    BY <1>1, <1>3, <2>1, <2>2 DEF InStep
<1>4. CASE GetTimeout
  <2>0. rpc = "check" /\ UNCHANGED <<li, wire, socket>> /\ AwaitsHeader
    BY <1>4 DEF GetTimeout, AwaitsHeader
  <2>1. CASE /\ TimedOut /\ marked' = marked \cup {Head(li)} /\ headerSeq' = Head(li)
             /\ cur' = [NoResponse EXCEPT !.seq = Head(li), !.err = LateErr]
             /\ rpc' = "found"
    <3>1. Head(li) \in ToSet(li)
      BY <1>1, <2>1 DEF TimedOut, Listing
    <3>2. cur'.err = "late" /\ OwnTaken'
      BY <2>1 DEF NoResponse, LateErr, OwnTaken
    <3>3. InTurn'
      BY <1>1, <2>0 DEF InTurn
    <3>4. ~OwnTaken
      BY <2>0 DEF OwnTaken
    <3>5. OwnKnown'
      BY <1>1, <2>0, <2>1, <3>1, <3>2, <3>4 DEF OwnKnown
    <3> QED
      BY <1>1, <2>0, <3>3, <3>5 DEF InStep
  <2>2. CASE rpc' = "arm" /\ UNCHANGED <<marked, headerSeq, cur>>
    BY <1>3, <2>0, <2>2 DEF OwnTaken
  <2> QED
    BY <1>4, <2>1, <2>2 DEF GetTimeout
<1>5. CASE ArmHeader \/ SetReading \/ ArmBody \/ SetUnread
  <2>1. UNCHANGED <<li, marked, cur, headerSeq, wire, socket>>
    BY <1>5 DEF ArmHeader, SetReading, ArmBody, SetUnread, listVars
  <2> QED
    BY <1>3, <1>5, <2>1 DEF ArmHeader, SetReading, ArmBody, SetUnread, AwaitsHeader, OwnTaken
<1>6. CASE ReadHeader
  <2>0. rpc = "header" /\ UNCHANGED <<li, marked>> /\ AwaitsHeader /\ ~OwnTaken
    BY <1>6 DEF ReadHeader, listVars, AwaitsHeader, OwnTaken
  <2>1. wire # <<>> => wire[1].what = "header"
    <3>1. CASE gob
      BY <1>1, <2>0, <3>1 DEF InTurn
    <3>2. CASE ~gob
      <4>1. wire # <<>> => 1 \in 1 .. Len(wire)
        BY <1>1 DEF Wired
      <4> QED
        BY <1>1, <3>2, <4>1 DEF InTurn
    <3> QED
      BY <3>1, <3>2
  <2>2. CASE /\ wire # <<>> /\ wire' = Tail(wire) /\ rpc' = "found" /\ UNCHANGED socket
             /\ cur' = [NoResponse EXCEPT !.seq = Head(wire).seq, !.err = Head(wire).err]
    <3>1. Head(wire).err # "late"
      BY <1>1, <2>2, ReadOne DEF Messages
    <3>2. ~OwnTaken' /\ ~AwaitsHeader'
      BY <2>2, <3>1 DEF OwnTaken, AwaitsHeader, NoResponse
    <3>3. InTurn'
      BY <1>1, <2>2, <3>2, InTurnTail DEF InTurn
    <3>4. OwnKnown'
      BY <1>1, <2>0, <2>2, <3>2 DEF OwnKnown
    <3> QED
      BY <1>1, <2>2, <3>3, <3>4 DEF InStep
  <2>3. CASE /\ UNCHANGED <<cur, headerSeq, wire>> /\ rpc' = "stop"
             /\ socket' = IF socket = "open" THEN "lost" ELSE socket
    <3>1. ~OwnTaken' /\ ~AwaitsHeader'
      BY <2>3 DEF OwnTaken, AwaitsHeader
    <3>2. InTurn' /\ OwnKnown'
      BY <1>1, <2>0, <2>3, <3>1 DEF InTurn, OwnKnown
    <3> QED
      BY <1>1, <2>3, <3>2 DEF InStep
  <2> QED
    BY <1>2, <1>6, <2>1, <2>2, <2>3 DEF ReadHeader
<1>7. CASE TakeCall
  <2>1. /\ rpc = "found" /\ rpc' = "remove" /\ UNCHANGED <<li, marked, headerSeq, wire, socket>>
        /\ cur'.err = cur.err
    BY <1>1, <1>7 DEF TakeCall, listVars, Taken
  <2>2. OwnTaken' = OwnTaken /\ (AwaitsHeader' => AwaitsHeader)
    BY <2>1 DEF OwnTaken, AwaitsHeader
  <2>3. InTurn'
    BY <1>1, <2>1, <2>2 DEF InTurn
  <2>4. OwnKnown'
    BY <1>1, <2>1, <2>2 DEF OwnKnown
  <2> QED
    BY <1>1, <2>1, <2>3, <2>4 DEF InStep
<1>8. CASE RemoveReq
  <2>1. /\ rpc = "remove" /\ UNCHANGED <<cur, headerSeq, wire, socket>> /\ Unlist(headerSeq)
        /\ rpc' = IF OwnHeader THEN "done" ELSE "flag"
    BY <1>8 DEF RemoveReq, Forget
  <2>2. ToSet(li') = ToSet(li) \ {headerSeq} /\ marked' = marked
    BY <1>1, <2>1, UnlistFacts
  <2>3. OwnHeader <=> cur.err = "late"
    <3>1. cur.err = "late" => OwnTaken /\ NilBody
      BY <2>1 DEF OwnTaken, NilBody
    <3> QED
      BY <1>1, <3>1 DEF OwnHeader, OwnKnown, OwnTaken
  <2>4. ~OwnTaken' /\ (AwaitsHeader' => OwnTaken) /\ (OwnTaken => AwaitsHeader)
    BY <2>1, <2>3 DEF OwnTaken, AwaitsHeader
  <2>5. InTurn'
    BY <1>1, <2>1, <2>4 DEF InTurn
  <2>6. OwnKnown'
    BY <1>1, <2>1, <2>2, <2>3, <2>4 DEF OwnKnown
  <2> QED
    BY <1>1, <2>1, <2>5, <2>6 DEF InStep
<1>9. CASE ReadBody
  <2>0. rpc = "body" /\ rpc' = "unflag" /\ UNCHANGED <<li, marked, headerSeq>> /\ ~OwnTaken /\ ~OwnTaken'
    BY <1>9 DEF ReadBody, Got, BodyFails, listVars, OwnTaken
  <2>1. cur.err \in {"no", "refused"}
    BY <1>1, <2>0 DEF OwnKnown, Taken, AtBody
  <2>2. gob => IF wire = <<>> THEN sending = cur.seq ELSE wire[1].what = "body"
    BY <1>1, <2>0, <2>1 DEF Fetched, AtBody
  <2>3. OwnKnown'
    BY <1>1, <2>0 DEF OwnKnown
  <2>4. CASE ~gob /\ UNCHANGED <<wire, socket>>
    <3>1. InTurn'
      BY <1>1, <2>4 DEF InTurn
    <3> QED
      BY <1>1, <2>3, <2>4, <3>1 DEF InStep
  <2>5. CASE gob /\ wire # <<>> /\ wire' = Tail(wire) /\ UNCHANGED socket
    <3>1. InTurn'
      BY <1>1, <2>2, <2>5, InTurnTail DEF InTurn
    <3> QED
      BY <1>1, <2>3, <2>5, <3>1 DEF InStep
  <2>6. CASE gob /\ BodyFails /\ UNCHANGED wire /\ socket' = IF socket = "open" THEN "lost" ELSE socket
    <3>1. cur'.err = "read"
      BY <1>1, <2>6 DEF BodyFails, Taken
    <3>2. ~AwaitsHeader'
      BY <2>0, <3>1 DEF AwaitsHeader, OwnTaken
    <3>3. InTurn'
      BY <1>1, <2>6, <3>2 DEF InTurn
    <3> QED
      BY <1>1, <2>3, <2>6, <3>3 DEF InStep
  <2> QED
    BY <1>2, <1>9, <2>2, <2>4, <2>5, <2>6 DEF ReadBody
<1>10. CASE Done
  <2>1. /\ rpc = "done" /\ UNCHANGED <<li, marked, headerSeq, wire, socket>>
        /\ rpc' = IF cur.err = "read" THEN "stop" ELSE "check"
    BY <1>10 DEF Done, listVars
  <2>2. ~OwnTaken /\ ~OwnTaken' /\ (AwaitsHeader' => AwaitsHeader)
    BY <2>1 DEF OwnTaken, AwaitsHeader
  <2>3. InTurn' /\ OwnKnown'
    BY <1>1, <2>1, <2>2 DEF InTurn, OwnKnown
  <2> QED
    BY <1>1, <2>1, <2>3 DEF InStep
<1>11. CASE Shutdown
  <2>1. rpc = "stop" /\ rpc' = "ended" /\ UNCHANGED <<li, marked, cur, headerSeq, wire, socket>>
    BY <1>11 DEF Shutdown, listVars
  <2> QED
    BY <1>3, <2>1 DEF OwnTaken, AwaitsHeader
<1> QED
  BY <1>4, <1>5, <1>6, <1>7, <1>8, <1>9, <1>10, <1>11 DEF Reader

\* The server puts a message on the wire in its turn.
LEMMA ServerInStep ==
  ASSUME Facts, InStep, Server
  PROVE  InStep'
<1>1. /\ UNCHANGED <<gob, li, marked, rpc, cur, headerSeq, socket>> /\ Wired /\ Waiting /\ Types
      /\ InTurn /\ OwnKnown /\ socket # "garbled" /\ wire \in Seq(Messages)
  BY DEF Server, listVars, readerVars, Facts, Kept, Wired, InStep
<1>2. OwnKnown' /\ AwaitsHeader' = AwaitsHeader
  BY <1>1 DEF OwnKnown, OwnTaken, AwaitsHeader
<1>3. ASSUME NEW m \in Messages, wire' = Append(wire, m), ~gob => m.what = "header",
             gob => IF m.what = "header" THEN sending = NoSeq ELSE sending # NoSeq /\ sending' = NoSeq
      PROVE  InTurn'
  <2>1. /\ wire' \in Seq(Messages) /\ Len(wire') = Len(wire) + 1 /\ Len(wire) \in Nat /\ wire' # <<>>
        /\ \A i \in 1 .. Len(wire) : wire'[i] = wire[i]
        /\ wire'[Len(wire) + 1] = m
        /\ wire = <<>> => wire'[1] = m
        /\ wire # <<>> => wire'[1] = wire[1]
    BY <1>1, <1>3, SendOne
  <2>2. m.what \in {"header", "body"}
    BY DEF Messages
  <2>3. ASSUME ~gob, NEW i \in 1 .. Len(wire') PROVE wire'[i].what = "header"
    BY <1>1, <1>3, <2>1, <2>3 DEF InTurn
  <2>4. ASSUME gob, NEW i \in 1 .. Len(wire') - 1 PROVE wire'[i].what # wire'[i + 1].what
    <3>1. CASE i + 1 \in 1 .. Len(wire)
      <4>1. i \in 1 .. Len(wire) - 1 /\ i \in 1 .. Len(wire)
        BY <2>1, <3>1
      <4> QED
        BY <1>1, <2>1, <2>4, <3>1, <4>1 DEF InTurn
    <3>2. CASE i = Len(wire)
      <4>1. i \in 1 .. Len(wire) /\ wire # <<>> /\ wire'[i] = wire[i] /\ wire'[i + 1] = m
        <5>1. i \in 1 .. Len(wire) /\ i + 1 = Len(wire) + 1
          BY <2>1, <2>4, <3>2
        <5>2. Len(<<>>) = 0
          OBVIOUS
        <5>3. wire # <<>>
          BY <5>1, <5>2
        <5> QED
          BY <2>1, <5>1, <5>3
      <4>2. CASE m.what = "header"
        <5>1. sending = NoSeq
          BY <1>3, <2>4, <4>2
        <5>2. wire[Len(wire)].what = "header" => sending = wire[Len(wire)].seq /\ wire[Len(wire)].seq \in Reqs
          BY <1>1, <2>1, <2>4, <3>2, <4>1 DEF Wired, Says
        <5>3. NoSeq \notin Reqs
          BY DEF NoSeq, Reqs
        <5> QED
          BY <3>2, <4>1, <4>2, <5>1, <5>2, <5>3
      <4>3. CASE m.what = "body"
        BY <1>1, <1>3, <2>4, <3>2, <4>1, <4>3 DEF InTurn
      <4> QED
        BY <2>2, <4>2, <4>3
    <3> QED
      BY <2>1, <2>4, <3>1, <3>2
  <2>5. ASSUME gob, sending' # NoSeq PROVE wire'[Len(wire')].what = "header"
    BY <1>3, <2>1, <2>2, <2>5
  <2>6. ASSUME gob, AwaitsHeader PROVE wire'[1].what = "header"
    BY <1>1, <1>3, <2>1, <2>6 DEF InTurn
  <2> QED
    BY <1>1, <1>2, <2>1, <2>3, <2>4, <2>5, <2>6 DEF InTurn
<1>4. CASE AnswerBody
  <2> DEFINE m == [what |-> "body", seq |-> sending, err |-> "no"]
  <2>1. sending # NoSeq /\ wire' = Append(wire, m) /\ sending' = NoSeq
    BY <1>4 DEF AnswerBody
  <2>2. gob /\ m \in Messages /\ m.what = "body"
    BY <1>1, <2>1 DEF Wired, Messages
  <2> HIDE DEF m
  <2>3. InTurn'
    BY <1>3, <2>1, <2>2
  <2> QED
    BY <1>1, <1>2, <2>3 DEF InStep
<1>5. ASSUME NEW r \in Reqs, Answer(r) PROVE InStep'
  <2>1. PICK err \in {"no", "refused"} : wire' = Append(wire, [what |-> "header", seq |-> r, err |-> err])
    BY <1>5 DEF Answer
  <2> DEFINE m == [what |-> "header", seq |-> r, err |-> err]
  <2>2. sending = NoSeq /\ wire' = Append(wire, m) /\ m \in Messages /\ m.what = "header"
    BY <1>5, <2>1 DEF Answer, Messages
  <2> HIDE DEF m
  <2>3. InTurn'
    BY <1>3, <2>2
  <2> QED
    BY <1>1, <1>2, <2>3 DEF InStep
<1> QED
  BY <1>4, <1>5 DEF Server

\* Nor do the socket and time put it out of step.
LEMMA RestInStep ==
  ASSUME InStep, Socket \/ Time \/ UNCHANGED vars
  PROVE  InStep'
<1>1. UNCHANGED <<gob, li, marked, rpc, cur, headerSeq, wire, sending>> /\ socket' \in {socket, "lost"}
  BY DEF Socket, Time, Break, Close, listVars, readerVars, serverVars, vars
<1> QED
  BY <1>1 DEF InStep, InTurn, OwnKnown, OwnTaken, AwaitsHeader

LEMMA NextInStep == Facts /\ Sync /\ [Next]_vars => Sync'
<1> SUFFICES ASSUME Facts, Sync, [Next]_vars, Lost' = {} PROVE InStep'
  BY DEF Sync
<1>1. Lost = {} /\ ~RemoveUnsent /\ InStep
  BY LostStays DEF Sync
<1> QED
  BY <1>1, WriterInStep, ReaderInStep, ServerInStep, RestInStep DEF Next

\* As long as every request could be written, the reader never takes a body for
\* a header or a header for a body, though it answers late requests itself and
\* what the server says of them comes afterwards.
THEOREM InSyncIfSent == Safety => []SentInSync
<1>1. Safety => []Sync
  BY CodecCorrect, SyncStart, NextInStep, PTL DEF Safety, Facts
<1>2. Sync => SentInSync
  <2> SUFFICES ASSUME Sync, socket = "garbled" PROVE \E r \in 1 .. next - 1 : r \notin sent
    BY DEF SentInSync
  <2>1. Lost # {}
    BY DEF Sync, InStep
  <2> QED
    BY <2>1 DEF Lost, Asked
<1> QED
  BY <1>1, <1>2, PTL
==============================================================================
