----------------------------- MODULE MCRpcPools -----------------------------
\* RpcPools with small constants for TLC.
EXTENDS RpcPools, TLC

CONSTANTS p1, p2, a1, a2

MCNone == <<>>
MCFirst == <<1>>
MCFirstAddr == <<a1>>

\* A pool that nobody knows is made anew before it is looked at again.
Live(f) == [x \in Known \ {NoPool} |-> f[x]]
MCView == <<Live(addrOf), Live(static), Live(open), Live(calls), Live(stale),
            tableVars, callVars, idleVars, closeVars, mtNew>>

MCSymmetry == Permutations(Callers)
=============================================================================
