----------------------------- MODULE MCScanRuns -----------------------------
(* A small instance of ScanRuns for TLC: a daemon whose callers (scheduler *)
(* job and requests) are one thread, and a shell that runs `scan --local`. *)
EXTENDS ScanRuns

CONSTANTS daemon, cli, request, shell

MCHome == [t \in Caller |-> IF t = shell THEN cli ELSE daemon]
=============================================================================
