---------------------------- MODULE MCClientPool ----------------------------
\* ClientPool with small constants for TLC.
EXTENDS ClientPool, TLC

CONSTANTS p1, p2, p3

MCFirst1 == (0 :> 1)
MCFirst2 == (0 :> 1) @@ (1 :> 2)
MCFirst3 == (0 :> 1) @@ (1 :> 2) @@ (2 :> 3)

\* What a client nobody knows was once like changes nothing: new_client gives
\* its identity out again with every field reset.
Live(f) == [c \in Known \ {NoClient} |-> f[c]]
MCView == <<Live(st), Live(bDestroy), Live(ref), Live(age), Live(recent), Live(slotOf),
            tableVars, recVars, callVars, initVars, idleVars, loopVars, closePc>>

MCSymmetry == Permutations(Callers)
=============================================================================
