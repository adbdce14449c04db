------------------------- MODULE MCProcessorClient --------------------------
(* A small instance of ProcessorClient for TLC: k1 does whatever a call can   *)
(* do, k2 is another call that shares the token cache with it.                *)
EXTENDS ProcessorClient

CONSTANTS k1, k2

MCRevocable == {<<k1, 0>>, <<k1, 1>>, <<k2, 0>>}

\* Bound: k2 succeeds at its first attempt, if it is made, and before the clock moves.
PeerSucceeds ==
    /\ call[k2].attempt = 0 /\ call[k2].denied = {}
    /\ call[k2].status \in IF call[k2].pc \in {"body", "done"} THEN {"ok"} ELSE {"none", "ok"}
    /\ now > 0 => call[k2].pc \in {"idle", "done"}
=============================================================================
