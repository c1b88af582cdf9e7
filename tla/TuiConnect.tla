----------------------------- MODULE TuiConnect ----------------------------
(***************************************************************************)
(* How the terminal interface gets its client and gives it back            *)
(* (tui_app.py, run as run_tui runs it: it makes its own clients and       *)
(* closes them).  A thread connects; the loop's thread takes the client,   *)
(* and closes everything when the interface ends, at any moment.  What the *)
(* interface does with its client is TuiTables.                            *)
(***************************************************************************)
EXTENDS Integers

CONSTANT MaxClients  \* bound: connections tried

ASSUME TuiConnectAssumption == MaxClients \in Nat

VARIABLES
    app,           \* the loop: "up", then the steps of on_unmount, then "down"
    client,        \* self.client, 0 when there is none
    connector,     \* the thread of _connect and the client it made
    pending,       \* _pending_clients
    toClose,       \* on_unmount's copy of them
    made, closed   \* clients made so far, those closed

connectVars == <<app, client, connector, pending, toClose, made, closed>>

NoClient == 0
Stopping == app # "up"
NoConnector == [at |-> "none", client |-> NoClient]

(* _connect: asked for by on_mount, by a reload and by every operation     *)
(* that finds no client.                                                   *)
StartConnect ==
    /\ app = "up" /\ client = NoClient /\ connector = NoConnector /\ made < MaxClients
    /\ connector' = [at |-> "working", client |-> NoClient]
    /\ UNCHANGED <<app, client, pending, toClose, made, closed>>

(* connect_client gives a client, or closes it and raises. *)
ConnectorMakes ==
    /\ connector.at = "working"
    /\ made' = made + 1
    /\ \/ /\ connector' = [at |-> "made", client |-> made + 1]
          /\ closed' = closed
       \/ /\ connector' = [at |-> "added", client |-> NoClient]
          /\ closed' = closed \union {made + 1}
    /\ UNCHANGED <<app, client, pending, toClose>>

(* Mutant: the client is not registered before the stop flag is read. *)
Unregistered(c) == pending

Registered(c) == pending \union {c}

(* _run_task's runner: register first, look at the stop flag after. *)
ConnectorAdds ==
    /\ connector.at = "made"
    /\ pending' = Registered(connector.client)
    /\ connector' = [connector EXCEPT !.at = "added"]
    /\ UNCHANGED <<app, client, toClose, made, closed>>

ClosedBy(c) == closed \union ({c} \ {NoClient})

ConnectorLooks ==
    /\ connector.at = "added"
    /\ IF Stopping
       THEN /\ pending' = pending \ {connector.client}
            /\ closed' = ClosedBy(connector.client)
            /\ connector' = NoConnector
       ELSE /\ connector' = [connector EXCEPT !.at = "posted"]
            /\ UNCHANGED <<pending, closed>>
    /\ UNCHANGED <<app, client, toClose, made>>

(* _connect's finish, run by the loop; on_unmount is not interrupted. *)
ConnectFinishes ==
    /\ connector.at = "posted" /\ app = "up"
    /\ connector' = NoConnector
    /\ pending' = pending \ {connector.client}
    /\ client' = connector.client
    /\ UNCHANGED <<app, toClose, made, closed>>

(* Once the loop has ended the call raises, is dropped, or still runs      *)
(* while the threads are joined.                                           *)
ConnectorTooLate ==
    /\ connector.at = "posted" /\ app = "down"
    /\ connector' = NoConnector
    /\ \/ pending' = pending \ {connector.client} /\ closed' = ClosedBy(connector.client) /\ client' = client
       \/ UNCHANGED <<pending, closed, client>>
       \/ pending' = pending \ {connector.client} /\ client' = connector.client /\ closed' = closed
    /\ UNCHANGED <<app, toClose, made>>

-----------------------------------------------------------------------------
(* on_unmount, between whose steps the connecting thread goes on.          *)

SetStop ==
    /\ app = "up" /\ app' = "stopping"
    /\ UNCHANGED <<client, connector, pending, toClose, made, closed>>

CopyPending ==
    /\ app = "stopping" /\ app' = "copied" /\ toClose' = pending
    /\ UNCHANGED <<client, connector, pending, made, closed>>

ClearPending ==
    /\ app = "copied" /\ app' = "cleared" /\ pending' = {}
    /\ UNCHANGED <<client, connector, toClose, made, closed>>

CloseClients ==
    /\ app = "cleared" /\ app' = "down"
    /\ closed' = closed \union toClose \union ({client} \ {NoClient})
    /\ UNCHANGED <<client, connector, pending, toClose, made>>

-----------------------------------------------------------------------------
ConnectInit ==
    /\ app = "up" /\ client = NoClient /\ connector = NoConnector
    /\ pending = {} /\ toClose = {} /\ made = 0 /\ closed = {}

ConnectNext ==
    \/ StartConnect \/ ConnectorMakes \/ ConnectorAdds \/ ConnectorLooks
    \/ ConnectFinishes \/ ConnectorTooLate
    \/ SetStop \/ CopyPending \/ ClearPending \/ CloseClients

ConnectSpec == ConnectInit /\ [][ConnectNext]_connectVars

-----------------------------------------------------------------------------
(* Once the interface has ended and its connecting thread too, every       *)
(* client ever made is closed, wherever the end caught that thread         *)
(* (_pending_clients in _run_task, _connect and on_unmount).               *)
ClientsAreClosed ==
    app = "down" /\ connector = NoConnector => 1..made \subseteq closed
=============================================================================
