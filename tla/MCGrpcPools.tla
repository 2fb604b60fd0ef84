----------------------------- MODULE MCGrpcPools -----------------------------
\* GrpcPools with small constants for TLC.
EXTENDS GrpcPools, TLC

CONSTANTS p1, p2, a1, a2

MCFirst == <<1>>
MCFirstAddr == <<a1>>

\* As in MCRpcPools: a pool that nobody knows is made anew.
Live(f) == [x \in Known \ {NoPool} |-> f[x]]
MCView == <<Live(addrOf), Live(static), Live(open), Live(calls), Live(stale),
            tableVars, callVars, idleVars, closeVars, mtNew, pickVars>>

MCSymmetry == Permutations(Callers)
=============================================================================
