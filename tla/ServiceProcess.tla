---------------------------- MODULE ServiceProcess ----------------------------
(* The life of the service's process (src/src/server.ts, src/src/config/db.ts)*)
(* from its start to its exit, and the HTTP connections it serves meanwhile.  *)
(* The module has the steps only: a module that says what the requests do     *)
(* puts them together.  The time the shutdown timer takes is not modelled:    *)
(* once a signal has come it may fire at any moment.                          *)

CONSTANT Requests   \* requests, each on a connection of its own or on one kept alive

VARIABLES
    phase,  \* "stopped" is an exit with code 0, "failed" any other end
    conn    \* the connection of each request

vars == <<phase, conn>>

Phase == {"connecting", "listening", "closing", "disconnecting", "stopped", "failed"}

\* "busy" while the client waits for the answer, then "kept" alive for another request.
Conn == {"none", "busy", "kept", "closed"}

TypeOK == phase \in Phase /\ conn \in [Requests -> Conn]

Exited == phase \in {"stopped", "failed"}

Init == phase = "connecting" /\ conn = [r \in Requests |-> "none"]

\* Both databases are connected, then the server listens and the signal handlers are set.
Start == phase = "connecting" /\ phase' = "listening" /\ UNCHANGED conn

\* A connection fails, the port is taken, or a signal comes before its handler is set.
StartFails == phase = "connecting" /\ phase' = "failed" /\ UNCHANGED conn

-----------------------------------------------------------------------------
(* Connections *)

\* A new connection is accepted only while the server listens; one kept alive may carry r also later.
Open(r) ==
    /\ conn[r] = "none"
    /\ \/ phase = "listening" /\ conn' = [conn EXCEPT ![r] = "busy"]
       \/ /\ phase \in {"listening", "closing"}
          /\ \E k \in Requests : conn[k] = "kept" /\ conn' = [conn EXCEPT ![k] = "closed", ![r] = "busy"]
    /\ UNCHANGED phase

\* The answer goes out, if the client is still there.
Answer(r) ==
    /\ conn' = [conn EXCEPT ![r] = IF @ = "busy" THEN "kept" ELSE @]
    /\ UNCHANGED phase

\* The client does not wait for the answer any longer.  The handler is not told.
HangUp(r) == conn[r] = "busy" /\ conn' = [conn EXCEPT ![r] = "closed"] /\ UNCHANGED phase

\* The client, or the server after its keep-alive time, closes an idle connection.
Expire(r) == conn[r] = "kept" /\ conn' = [conn EXCEPT ![r] = "closed"] /\ UNCHANGED phase

-----------------------------------------------------------------------------
(* shutdown *)

\* server.close also closes the connections that are idle at this moment.  A second signal does nothing.
Signal ==
    /\ phase = "listening"
    /\ phase' = "closing"
    /\ conn' = [r \in Requests |-> IF conn[r] = "kept" THEN "closed" ELSE conn[r]]

\* Mutant: the databases are disconnected on the signal, whatever is still being served.
Drained_AtOnce == phase = "closing" /\ phase' = "disconnecting" /\ UNCHANGED conn

\* The callback of server.close: every connection has ended.
Drained ==
    /\ phase = "closing"
    /\ \A r \in Requests : conn[r] \in {"none", "closed"}
    /\ phase' = "disconnecting"
    /\ UNCHANGED conn

\* The process takes its connections along.
End(last) ==
    /\ phase' = last
    /\ conn' = [r \in Requests |-> IF conn[r] = "none" THEN "none" ELSE "closed"]

\* disconnectDb returns or throws; either way the exit code is 0.
Exit == phase = "disconnecting" /\ End("stopped")

\* The timer is cleared only when the databases are disconnected.
ForceExit == phase \in {"closing", "disconnecting"} /\ End("failed")
=============================================================================
