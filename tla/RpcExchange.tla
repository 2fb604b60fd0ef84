---------------------------- MODULE RpcExchange ----------------------------
(***************************************************************************)
(* What a connection promises its callers, whatever happens on the wire: a *)
(* request ends once, with its own reply, with the server's refusal of it, *)
(* because it is late, or because the connection is down.  TimeoutCodec    *)
(* implements this.                                                        *)
(***************************************************************************)
CONSTANTS
  Reqs,     \* requests
  Nothing   \* no outcome yet

VARIABLES
  asked,    \* requests that callers made
  served,   \* requests the server answered, and how
  outcome,  \* what the call of a request ended with
  conn      \* "up", or "down"

vars == <<asked, served, outcome, conn>>

Late    == [kind |-> "late"]
Down    == [kind |-> "down"]
Unsent  == [kind |-> "unsent"]
Refused == [kind |-> "refused"]
Reply(r) == [kind |-> "reply", of |-> r]

Init == /\ asked = {} /\ conn = "up"
        /\ served = [r \in Reqs |-> "no"] /\ outcome = [r \in Reqs |-> Nothing]

Ask(r) == /\ r \notin asked
          /\ asked' = asked \cup {r}
          /\ UNCHANGED <<served, outcome, conn>>

Serve(r) == /\ r \in asked /\ served[r] = "no"
            /\ \E how \in {"reply", "refused"} : served' = [served EXCEPT ![r] = how]
            /\ UNCHANGED <<asked, outcome, conn>>

\* One call ends.
End(r) == /\ r \in asked /\ outcome[r] = Nothing
          /\ \E o \in {Late, Unsent} \cup (IF served[r] = "reply" THEN {Reply(r)} ELSE {})
                                     \cup (IF served[r] = "refused" THEN {Refused} ELSE {}) :
               outcome' = [outcome EXCEPT ![r] = o]
          /\ UNCHANGED <<asked, served, conn>>

\* The connection is lost, and with it every call that waits; the one whose
\* reply was being read may be told before the others.
Lose == /\ conn = "up" /\ conn' = "down"
        /\ UNCHANGED <<asked, served, outcome>>
Abandon == /\ conn = "down"
           /\ \E R \in SUBSET {r \in asked : outcome[r] = Nothing} :
                outcome' = [r \in Reqs |-> IF r \in R THEN Down ELSE outcome[r]]
           /\ UNCHANGED <<asked, served, conn>>

Next == Lose \/ Abandon \/ \E r \in Reqs : Ask(r) \/ Serve(r) \/ End(r)

Spec == Init /\ [][Next]_vars
=============================================================================
