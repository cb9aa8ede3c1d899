--------------------------- MODULE ServerShutdown ---------------------------
(***************************************************************************)
(* The graceful shutdown of one server (server/server.go) and the REST     *)
(* handler through which the other nodes ask for it, call it off and watch *)
(* it (doShutdown of server/http/admin_clustering_endpoint.go), as         *)
(* functions of the state of a server: the field shutdown, and how many    *)
(* monitorShutdown() goroutines wait for requests to end (waiting) or have *)
(* found that the server is shutting down and are about to mark it down    *)
(* (decided).  The check and the mark are two critical sections.           *)
(***************************************************************************)
EXTENDS Naturals

Servers(most) == [shutdown : {"RUNNING", "REQUESTED", "SHUTDOWN"},
                  waiting : 0 .. most, decided : 0 .. most]

NewServer == [shutdown |-> "RUNNING", waiting |-> 0, decided |-> 0]

ShuttingDown(s) == s.shutdown # "RUNNING"
ShutDown(s)     == s.shutdown = "SHUTDOWN"

InitiateShutdown(s) ==
  IF ShuttingDown(s) THEN s
  ELSE [s EXCEPT !.shutdown = "REQUESTED", !.waiting = @ + 1]

CancelShutdown(s) == [s EXCEPT !.shutdown = "RUNNING"]

\* POST, without and with cancel=true: what becomes of the server, and whether the
\* caller is told that it worked.  A server that is down says so in the body of a
\* reply with status 200, which doRemoteEndpointOp() takes for success; one that is
\* not shutting down has nothing to cancel, and fails the request.
PostShutdown(s)  == IF ShutDown(s) THEN s ELSE InitiateShutdown(s)

PostCancel(s)    == IF ~ShutDown(s) /\ ShuttingDown(s) THEN CancelShutdown(s) ELSE s

CancelAccepted(s) == ShuttingDown(s)


\* GET fails on a server that is not shutting down.
GetShutdown(s) == IF ShutDown(s) THEN "down" ELSE IF ShuttingDown(s) THEN "busy" ELSE "error"

(* monitorShutdown().  It stops waiting when no request or transaction is  *)
(* left, on a timeout, or when the shutdown was cancelled.                 *)

CanStopWaiting(s) == s.waiting > 0

\* Mutant: nobody asks whether the shutdown was cancelled in the meantime.
BugStopWaitingBlind(s) == [s EXCEPT !.waiting = @ - 1, !.decided = @ + 1]

StopWaiting(s) ==
  [s EXCEPT !.waiting = @ - 1, !.decided = IF ShuttingDown(s) THEN @ + 1 ELSE @]

CanMarkDown(s) == s.decided > 0

MarkDown(s) == [s EXCEPT !.decided = @ - 1, !.shutdown = "SHUTDOWN"]

=============================================================================
