--------------------------- MODULE ClientsProofs ---------------------------
(***************************************************************************)
(* The user's side: the desktop windows and their lock, the terminal       *)
(* interface's connection, and its tables.  Each is proved for its own     *)
(* specification, for any windows, connections, operations and changes.    *)
(***************************************************************************)
EXTENDS DesktopShell, TuiConnect, TuiTables, TLAPS

-----------------------------------------------------------------------------
(* The desktop windows: the inductive invariant.                           *)

\* Before a window's loop there is nothing to clean up, and as long as it
\* needs the lock it has it.
Early == {"off", "try", "look", "kill", "again", "retry", "signal", "write", "stamp", "attach"}
Owning == {"write", "stamp", "attach", "loop"}

WindowOf(p) ==
    /\ stage[p] = "kill" => victim[p] \in Window \ {p}
    /\ stage[p] \in Owning => deskLock = p
    /\ stage[p] \in Early => helper[p] = NoHelper /\ tidy[p] = Untidied
    /\ stage[p] = "loop" => helper[p].at \in {"none", "destroy"}
    /\ DOMAIN helper[p] = {"for", "at"} /\ DOMAIN tidy[p] = {"by", "next"}
    /\ server[p] = "up" => deskLock = p /\ tidy[p].next = "server"

ShellInv ==
    /\ DOMAIN stage = Window /\ DOMAIN victim = Window /\ DOMAIN server = Window
    /\ DOMAIN helper = Window /\ DOMAIN tidy = Window
    /\ \A p \in Window : WindowOf(p)

-----------------------------------------------------------------------------
(* The connection: the inductive invariant.                                *)

\* A client that is posted to the loop was registered before the stop flag
\* was read, so that the end of the interface has it in hand.
PostedInHand ==
    CASE app \in {"up", "stopping"} -> connector.client \in pending \cup {NoClient}
      [] app \in {"copied", "cleared"} -> connector.client \in toClose \cup {NoClient}
      [] app = "down" -> connector.client \in closed \cup {NoClient}

ConnectInv ==
    /\ made \in Nat
    /\ app \in {"up", "stopping", "copied", "cleared", "down"}
    /\ connector.at \in {"none", "working", "made", "added", "posted"}
    /\ DOMAIN connector = {"at", "client"}
    /\ connector.at \in {"none", "working"} => connector.client = NoClient
    /\ connector.at # "none" => client = NoClient
    /\ \A c \in 1..made : c \in closed \/ c = client \/ c = connector.client
    /\ connector.at = "added" /\ app = "up" => connector.client \in pending \cup {NoClient}
    /\ connector.at = "posted" => PostedInHand
    /\ app = "down" => client \in closed \cup {NoClient}

-----------------------------------------------------------------------------
(* The tables: the inductive invariant.                                    *)

Versions == [Area -> Nat]

\* A refresh knows the generation it began with, and what it has read since
\* is no older than what the user was told, if it is still the current one.
TaskOf(t) ==
    /\ DOMAIN t = {"areas", "gen", "got"}
    /\ t.areas \subseteq Area /\ DOMAIN t.got \subseteq t.areas
    /\ \A a \in t.areas : t.gen[a] \in 0..gen[a]
    /\ \A a \in DOMAIN t.got : t.got[a] \in Nat /\ (t.gen[a] = gen[a] => t.got[a] >= own[a])

\* The table is as new as the user was told, or a refresh that will show it
\* is under way, or it failed: in silence only where another refresh of the
\* listings had overtaken it.
Awaited(a) ==
    \/ a \in missed \/ (a \in hushed /\ a # "listings")
    \/ shown[a] >= own[a] \/ \E t \in tasks : GenerationIsCurrent(t, a)

OpOf(g) == ops[g].at = "answered" => ops[g].version \in 0..remote[AreaOf(g)]

TablesInv ==
    /\ remote \in Versions /\ shown \in Versions /\ gen \in Versions /\ own \in Versions
    /\ \A a \in Area : own[a] <= remote[a] /\ Awaited(a)
    /\ \A t \in tasks : TaskOf(t)
    /\ DOMAIN ops = Group /\ \A g \in Group : OpOf(g)

-----------------------------------------------------------------------------
(* The desktop windows.                                                    *)

\* A window moves: what is left to be shown of the others.
LEMMA OthersStay ==
    ASSUME ShellInv, NEW p \in Window,
           DOMAIN stage' = Window, DOMAIN victim' = Window, DOMAIN server' = Window,
           DOMAIN helper' = Window, DOMAIN tidy' = Window,
           \A q \in Window : q # p =>
              /\ stage'[q] = stage[q] /\ victim'[q] = victim[q] /\ server'[q] = server[q]
              /\ helper'[q] = helper[q] /\ tidy'[q] = tidy[q]
              /\ deskLock = q => deskLock' = q,
           WindowOf(p)'
    PROVE  ShellInv'
<1>1. ASSUME NEW q \in Window PROVE WindowOf(q)'
  <2>1. CASE q = p
    BY <2>1
  <2>2. CASE q # p
    BY <2>2 DEF ShellInv, WindowOf
  <2> QED
    BY <2>1, <2>2
<1> QED
  BY <1>1 DEF ShellInv

LEMMA NothingToTidy ==
    /\ NoHelper.at = "none" /\ DOMAIN NoHelper = {"for", "at"}
    /\ Untidied.next = "server" /\ Untidied.by = "nobody" /\ DOMAIN Untidied = {"by", "next"}
  BY DEF NoHelper, Untidied

\* From the start of a window to its loop.
LEMMA StartKeeps ==
    ASSUME ShellInv, NEW p \in Window,
           \/ OpenWindow(p) \/ Acquire(p) \/ WriteMeta(p) \/ ReadMeta(p) \/ SignalWindow(p)
           \/ Attach(p) \/ AttachFails(p)
    PROVE  ShellInv'
<1>t. /\ WindowOf(p)
      /\ DOMAIN stage = Window /\ DOMAIN victim = Window /\ DOMAIN server = Window
      /\ DOMAIN helper = Window /\ DOMAIN tidy = Window
      /\ Nobody \notin Window
  BY DesktopShellAssumption DEF ShellInv
<1>e. stage[p] \in Early
  BY DEF OpenWindow, WindowStarts, Acquire, WriteMeta, ReadMeta, SignalWindow, Attach,
     AttachFails, Early
<1>1. CASE OpenWindow(p)
  <2>1. WindowOf(p)'
    BY <1>1, <1>t, <1>e DEF OpenWindow, WindowStarts, WindowOf, Go, endVars, Early, Owning
  <2> QED
    BY <1>1, <1>t, <2>1, OthersStay DEF OpenWindow, WindowStarts, Go, endVars
<1>2. CASE Acquire(p)
  <2>1. CASE deskLock = Nobody /\ deskLock' = p /\ Go(p, "write")
    <3>1. WindowOf(p)'
      BY <1>2, <2>1, <1>t, <1>e DEF Acquire, WindowOf, Go, endVars, Early, Owning
    <3> QED
      BY <1>2, <2>1, <1>t, <3>1, OthersStay DEF Acquire, Go, endVars
  <2>2. CASE deskLock # Nobody /\ UNCHANGED deskLock
             /\ \E to \in {"look", "done", "signal"} : Go(p, to)
    <3>1. WindowOf(p)'
      BY <1>2, <2>2, <1>t, <1>e DEF Acquire, WindowOf, Go, endVars, Early, Owning
    <3> QED
      BY <1>2, <2>2, <1>t, <3>1, OthersStay DEF Acquire, Go, endVars
  <2> QED
    BY <1>2, <2>1, <2>2 DEF Acquire
<1>3. CASE WriteMeta(p)
  <2>1. WindowOf(p)'
    BY <1>3, <1>t, <1>e DEF WriteMeta, WindowOf, Go, endVars, Early, Owning
  <2> QED
    BY <1>3, <1>t, <2>1, OthersStay DEF WriteMeta, Go, endVars
<1>4. CASE ReadMeta(p)
  <2>1. WindowOf(p)'
    BY <1>4, <1>t, <1>e DEF ReadMeta, WindowOf, Go, endVars, Early, Owning
  <2> QED
    BY <1>4, <1>t, <2>1, OthersStay DEF ReadMeta, Go, endVars
<1>5. CASE SignalWindow(p)
  <2>1. WindowOf(p)'
    BY <1>5, <1>t, <1>e DEF SignalWindow, WindowOf, Go, endVars, Early, Owning
  <2> QED
    BY <1>5, <1>t, <2>1, OthersStay DEF SignalWindow, Go, endVars
<1>6. CASE Attach(p)
  <2>1. WindowOf(p)'
    BY <1>6, <1>t, <1>e, NothingToTidy DEF Attach, WindowOf, Go, Early, Owning
  <2> QED
    BY <1>6, <1>t, <2>1, OthersStay DEF Attach, Go
<1>7. CASE AttachFails(p)
  <2>1. WindowOf(p)'
    BY <1>7, <1>t, <1>e DEF AttachFails, WindowOf, Go, startVars, endVars, Early, Owning
  <2> QED
    BY <1>7, <1>t, <2>1, OthersStay DEF AttachFails, Go, startVars, endVars
<1> QED
  BY <1>1, <1>2, <1>3, <1>4, <1>5, <1>6, <1>7

\* The loop, the thread that leaves and the cleaning up.
LEMMA SessionKeeps ==
    ASSUME ShellInv, NEW p \in Window,
           \/ PollSignal(p) \/ Close(p) \/ Fallback(p)
           \/ \E for \in {"relaunch", "force"} : Depart(p, for)
           \/ Destroy(p) \/ TidyMain(p) \/ TidyHelper(p) \/ TidyStep(p)
    PROVE  ShellInv'
<1>t. /\ WindowOf(p)
      /\ DOMAIN stage = Window /\ DOMAIN victim = Window /\ DOMAIN server = Window
      /\ DOMAIN helper = Window /\ DOMAIN tidy = Window
      /\ Nobody \notin Window
  BY DesktopShellAssumption DEF ShellInv
<1>1. CASE PollSignal(p)
  <2>1. WindowOf(p)'
    BY <1>1, <1>t DEF PollSignal, WindowOf
  <2> QED
    BY <1>1, <1>t, <2>1, OthersStay DEF PollSignal
<1>2. CASE Close(p)
  <2>1. WindowOf(p)'
    BY <1>2, <1>t DEF Close, WindowOf, Go, startVars, Early, Owning
  <2> QED
    BY <1>2, <1>t, <2>1, OthersStay DEF Close, Go, startVars
<1>3. CASE Fallback(p)
  <2>1. WindowOf(p)'
    BY <1>3, <1>t DEF Fallback, WindowOf, Go, startVars, Early, Owning
  <2> QED
    BY <1>3, <1>t, <2>1, OthersStay DEF Fallback, Go, startVars
<1>4. ASSUME NEW for \in {"relaunch", "force"}, Depart(p, for) PROVE ShellInv'
  <2>1. WindowOf(p)'
    BY <1>4, <1>t DEF Depart, WindowOf, startVars, Early, Owning
  <2> QED
    BY <1>4, <1>t, <2>1, OthersStay DEF Depart, startVars
<1>5. CASE Destroy(p)
  <2>1. helper[p] # NoHelper
    BY <1>5, NothingToTidy DEF Destroy
  <2>2. WindowOf(p)'
    BY <1>5, <1>t, <2>1 DEF Destroy, WindowOf, Go, startVars, Early, Owning
  <2> QED
    BY <1>5, <1>t, <2>2, OthersStay DEF Destroy, Go, startVars
<1>6. CASE TidyMain(p)
  <2>1. WindowOf(p)'
    BY <1>6, <1>t DEF TidyMain, WindowOf, Go, startVars, Early, Owning
  <2> QED
    BY <1>6, <1>t, <2>1, OthersStay DEF TidyMain, Go, startVars
<1>7. CASE TidyHelper(p)
  <2>1. helper[p] # NoHelper
    BY <1>7, NothingToTidy DEF TidyHelper
  <2>2. WindowOf(p)'
    BY <1>7, <1>t, <2>1 DEF TidyHelper, WindowOf, startVars, Early, Owning
  <2> QED
    BY <1>7, <1>t, <2>2, OthersStay DEF TidyHelper, startVars
<1>8. CASE TidyStep(p)
  <2>1. stage[p] \notin Early
    BY <1>8, <1>t, NothingToTidy DEF TidyStep, Working, WindowOf, Early
  <2>o. stage[p] \notin Owning
    BY <1>8, <1>t, <2>1 DEF TidyStep, Working, WindowOf, Owning, Early
  <2>2. WindowOf(p)'
    <3>1. CASE tidy[p].next = "server"
      <4>1. /\ server'[p] # "up" /\ deskLock' = deskLock /\ DOMAIN tidy'[p] = {"by", "next"}
            /\ UNCHANGED <<stage, helper, victim>>
        BY <1>8, <3>1, <1>t DEF TidyStep, NextTidy, StopServer, WindowOf
      <4> QED
        BY <4>1, <2>1, <2>o, <1>t DEF WindowOf, Owning
    <3>2. CASE tidy[p].next # "server"
      <4>1. server'[p] # "up" /\ DOMAIN tidy'[p] = {"by", "next"} /\ victim' = victim
        BY <1>8, <3>2, <1>t DEF TidyStep, NextTidy, ReleaseLock, WindowOf
      <4>2. \/ stage'[p] = "leave" /\ helper' = helper
            \/ stage' = stage /\ DOMAIN helper'[p] = DOMAIN helper[p]
        BY <1>8, <3>2, <1>t DEF TidyStep, Go
      <4> QED
        BY <4>1, <4>2, <2>1, <2>o, <1>t DEF WindowOf, Owning, Early
    <3> QED
      BY <3>1, <3>2
  <2> QED
    BY <1>8, <1>t, <2>2, OthersStay DEF TidyStep, NextTidy, StopServer, ReleaseLock, Go
<1> QED
  BY <1>1, <1>2, <1>3, <1>4, <1>5, <1>6, <1>7, <1>8

\* The end of a process, by itself or by another window.
LEMMA EndKeeps ==
    ASSUME ShellInv, NEW p \in Window,
           \/ KillOwner(p) \/ MainReturns(p) \/ ForceExit(p)
           \/ \E q \in Window : Relaunch(p, q)
    PROVE  ShellInv'
<1>t. /\ WindowOf(p)
      /\ DOMAIN stage = Window /\ DOMAIN victim = Window /\ DOMAIN server = Window
      /\ DOMAIN helper = Window /\ DOMAIN tidy = Window
      /\ Nobody \notin Window
  BY DesktopShellAssumption DEF ShellInv
<1>1. CASE KillOwner(p)
  <2>0. PICK q \in Window : q = victim[p]
    BY <1>1, <1>t DEF KillOwner, WindowOf
  <2>1. q # p /\ WindowOf(q)
    BY <1>1, <1>t, <2>0 DEF KillOwner, WindowOf, ShellInv
  <2>2. CASE stage[q] \in Off
    <3>1. Go(p, "again") /\ UNCHANGED <<deskLock, server, helper, tidy, victim>>
      BY <1>1, <2>0, <2>2 DEF KillOwner
    <3>2. WindowOf(p)'
      BY <1>1, <3>1, <1>t DEF KillOwner, WindowOf, Go, Early, Owning
    <3> QED
      BY <3>1, <3>2, <1>t, OthersStay DEF Go
  <2>3. CASE stage[q] \notin Off
    <3>1. /\ stage' = [stage EXCEPT ![p] = "again", ![q] = "done"] /\ Ended(q)
          /\ UNCHANGED victim
      BY <1>1, <2>0, <2>3 DEF KillOwner
    <3>2. /\ stage'[p] = "again" /\ stage'[q] = "done"
          /\ helper'[q] = NoHelper /\ tidy'[q] = Untidied /\ server'[q] = "no"
          /\ helper'[p] = helper[p] /\ tidy'[p] = tidy[p] /\ server'[p] = server[p]
          /\ deskLock = p => deskLock' = p
      BY <3>1, <2>1, <1>t DEF Ended
    <3>3. WindowOf(p)' /\ WindowOf(q)'
      BY <1>1, <3>2, <1>t, NothingToTidy DEF KillOwner, WindowOf, Early, Owning
    <3>4. ASSUME NEW r \in Window, r # p, r # q PROVE WindowOf(r)'
      <4>1. /\ stage'[r] = stage[r] /\ victim'[r] = victim[r] /\ server'[r] = server[r]
            /\ helper'[r] = helper[r] /\ tidy'[r] = tidy[r]
            /\ deskLock = r => deskLock' = r
        BY <3>1, <3>4, <1>t DEF Ended
      <4> QED
        BY <4>1 DEF ShellInv, WindowOf
    <3>5. /\ DOMAIN stage' = Window /\ DOMAIN victim' = Window /\ DOMAIN server' = Window
          /\ DOMAIN helper' = Window /\ DOMAIN tidy' = Window
      BY <3>1, <1>t DEF Ended
    <3> QED
      BY <3>3, <3>4, <3>5 DEF ShellInv
  <2> QED
    BY <2>2, <2>3
<1>2. CASE MainReturns(p) \/ ForceExit(p)
  <2>1. Go(p, "done") /\ Ended(p) /\ UNCHANGED victim
    BY <1>2 DEF MainReturns, ForceExit
  <2>2. WindowOf(p)'
    BY <2>1, <1>t, NothingToTidy DEF Go, Ended, WindowOf, Early, Owning
  <2> QED
    BY <2>1, <2>2, <1>t, OthersStay DEF Go, Ended
<1>3. ASSUME NEW q \in Window, Relaunch(p, q) PROVE ShellInv'
  <2>1. helper[p] # NoHelper /\ stage[p] \notin Early /\ WindowOf(q)
    BY <1>3, <1>t, NothingToTidy DEF Relaunch, WindowOf, ShellInv
  <2>2. q # p /\ helper[q] = NoHelper /\ tidy[q] = Untidied
    BY <1>3, <2>1 DEF Relaunch, WindowStarts, WindowOf, Early
  <2>3. /\ UNCHANGED <<victim, deskLock, server, tidy>>
        /\ DOMAIN stage' = Window /\ DOMAIN helper' = Window
        /\ stage'[q] = "try" /\ helper'[q] = helper[q]
        /\ \A r \in Window : r # q => stage'[r] = stage[r]
        /\ \A r \in Window : r # p => helper'[r] = helper[r]
        /\ DOMAIN helper'[p] = DOMAIN helper[p] /\ helper'[p].at = "none"
    BY <1>3, <2>2, <1>t DEF Relaunch, WindowStarts, Go, WindowOf
  <2>4. ASSUME NEW r \in Window PROVE WindowOf(r)'
    <3>1. CASE r = q
      BY <3>1, <2>1, <2>2, <2>3 DEF WindowOf, Early, Owning
    <3>2. CASE r = p
      BY <3>2, <2>1, <2>2, <2>3, <1>t DEF WindowOf
    <3>3. CASE r # p /\ r # q
      BY <3>3, <2>3 DEF ShellInv, WindowOf
    <3> QED
      BY <3>1, <3>2, <3>3
  <2> QED
    BY <2>3, <2>4, <1>t DEF ShellInv
<1> QED
  BY <1>1, <1>2, <1>3

\* ShellInv is an invariant of the desktop windows.
THEOREM ShellInvariance == ShellSpec => []ShellInv
<1>1. ShellInit => ShellInv
  BY NothingToTidy DEF ShellInit, ShellInv, WindowOf, Early, Owning
<1>2. ShellInv /\ [ShellNext]_shellVars => ShellInv'
  <2> SUFFICES ASSUME ShellInv, [ShellNext]_shellVars PROVE ShellInv'
    OBVIOUS
  <2>1. CASE UNCHANGED shellVars
    BY <2>1 DEF shellVars, ShellInv, WindowOf
  <2>2. CASE ShellNext
    BY <2>2, StartKeeps, SessionKeeps, EndKeeps DEF ShellNext, WindowStep
  <2> QED
    BY <2>1, <2>2
<1> QED
  BY <1>1, <1>2, PTL DEF ShellSpec

\* A window has desktop.lock only when no other window has a server that
\* nobody is stopping, for any number of windows of either version, whoever
\* cleans up and whoever is killed (cleanup, kill_desktop_owner).
THEOREM LockFollowsServer == ShellSpec => []ServerEndsBeforeLock
<1>1. ShellInv => ServerEndsBeforeLock
  BY DEF ShellInv, WindowOf, ServerEndsBeforeLock
<1> QED
  BY <1>1, ShellInvariance, PTL

-----------------------------------------------------------------------------
(* The connection.                                                         *)

LEMMA ConnectStep == ASSUME ConnectInv, [ConnectNext]_connectVars PROVE ConnectInv'
<1> USE DEF NoClient, NoConnector
<1>1. CASE StartConnect
  BY <1>1 DEF StartConnect, ConnectInv
<1>2. CASE ConnectorMakes
  <2>1. made' = made + 1 /\ \A c \in 1..made' : c \in 1..made \/ c = made + 1
    BY <1>2 DEF ConnectorMakes, ConnectInv
  <2> QED
    BY <1>2, <2>1 DEF ConnectorMakes, ConnectInv
<1>3. CASE ConnectorAdds
  BY <1>3 DEF ConnectorAdds, ConnectInv, Registered
<1>4. CASE ConnectorLooks
  <2>1. CASE Stopping
    BY <1>4, <2>1 DEF ConnectorLooks, ConnectInv, ClosedBy
  <2>2. CASE ~Stopping
    BY <1>4, <2>2 DEF ConnectorLooks, ConnectInv, Stopping, PostedInHand
  <2> QED
    BY <2>1, <2>2
<1>5. CASE ConnectFinishes
  BY <1>5 DEF ConnectFinishes, ConnectInv
<1>6. CASE ConnectorTooLate
  BY <1>6 DEF ConnectorTooLate, ConnectInv, PostedInHand, ClosedBy
<1>7. CASE SetStop \/ CopyPending \/ ClearPending \/ CloseClients
  BY <1>7 DEF SetStop, CopyPending, ClearPending, CloseClients, ConnectInv, PostedInHand
<1>8. CASE UNCHANGED connectVars
  BY <1>8 DEF connectVars, ConnectInv, PostedInHand
<1> QED
  BY <1>1, <1>2, <1>3, <1>4, <1>5, <1>6, <1>7, <1>8 DEF ConnectNext

\* Every client ever made is closed when the interface and its connecting
\* thread have ended, for any number of connections and wherever the end
\* catches that thread (_run_task, _connect, on_unmount).
THEOREM AllClientsAreClosed == ConnectSpec => []ClientsAreClosed
<1>1. ConnectInit => ConnectInv
  BY DEF ConnectInit, ConnectInv, NoClient, NoConnector
<1>2. ConnectInv /\ [ConnectNext]_connectVars => ConnectInv'
  BY ConnectStep
<1>3. ConnectInv => ClientsAreClosed
  BY DEF ConnectInv, ClientsAreClosed, NoClient, NoConnector
<1> QED
  BY <1>1, <1>2, <1>3, PTL DEF ConnectSpec

-----------------------------------------------------------------------------
(* The tables.                                                             *)

LEMMA LargerOfTwo ==
    ASSUME NEW a \in Nat, NEW b \in Nat
    PROVE  Max({a, b}) \in {a, b}
<1>1. \E x \in {a, b} : \A y \in {a, b} : x >= y
  OBVIOUS
<1> QED
  BY <1>1 DEF Max

LEMMA VersionsAre ==
    ASSUME TablesInv, NEW a \in Area
    PROVE  /\ remote[a] \in Nat /\ shown[a] \in Nat /\ gen[a] \in Nat /\ own[a] \in Nat
           /\ own[a] <= remote[a]
  BY DEF TablesInv, Versions

LEMMA TablesBegin == TuiInit => TablesInv
<1> SUFFICES ASSUME TuiInit PROVE TablesInv
  OBVIOUS
<1> DEFINE t == [areas |-> Area, gen |-> [a \in Area |-> 1], got |-> <<>>]
<1>1. /\ remote \in Versions /\ shown \in Versions /\ gen \in Versions /\ own \in Versions
      /\ \A a \in Area : own[a] = 0 /\ remote[a] = 0 /\ shown[a] = 0 /\ gen[a] = 1
  BY DEF TuiInit, Versions
<1>2. tasks = {t}
  BY DEF TuiInit
<1>3. /\ DOMAIN t = {"areas", "gen", "got"} /\ t.areas = Area /\ DOMAIN t.got = {}
      /\ \A a \in Area : t.gen[a] = 1
  OBVIOUS
<1> HIDE DEF t
<1>4. TaskOf(t)
  BY <1>1, <1>3 DEF TaskOf
<1>5. DOMAIN ops = Group /\ \A g \in Group : OpOf(g)
  BY DEF TuiInit, OpOf, NoOp
<1> QED
  BY <1>1, <1>2, <1>4, <1>5 DEF TablesInv, Awaited

\* New refreshes: what is told of an area has them read it again.
LEMMA ReloadKeeps ==
    ASSUME TablesInv, NEW refreshes \in SUBSET (SUBSET Area), NEW owned \in Versions,
           Reload(refreshes, owned), UNCHANGED <<remote, shown>>,
           \A a \in Area : owned[a] <= remote[a] /\ (a \notin UNION refreshes => owned[a] = own[a]),
           DOMAIN ops' = Group, \A g \in Group : OpOf(g)'
    PROVE  TablesInv'
<1> DEFINE begun(areas) == [areas |-> areas, gen |-> [a \in areas |-> gen[a] + 1], got |-> <<>>]
           news == {begun(areas) : areas \in refreshes}
           all == UNION refreshes
<1>1. /\ gen' = [a \in Area |-> gen[a] + (IF a \in all THEN 1 ELSE 0)]
      /\ tasks' = tasks \union news /\ own' = owned
      /\ missed' = missed \ all /\ hushed' = hushed \ all
  BY DEF Reload
<1>2. ASSUME NEW areas \in refreshes
      PROVE  LET t == begun(areas) IN
             /\ DOMAIN t = {"areas", "gen", "got"} /\ t.areas = areas /\ DOMAIN t.got = {}
             /\ \A a \in areas : t.gen[a] = gen[a] + 1
             /\ t \in news /\ areas \subseteq Area /\ areas \subseteq all
  OBVIOUS
<1>n. \A t \in news : \E areas \in refreshes : t = begun(areas)
  OBVIOUS
<1>o. \A a \in Area : a \notin all => owned[a] = own[a]
  OBVIOUS
<1>u. \A a \in all : \E areas \in refreshes : a \in areas
  OBVIOUS
<1> HIDE DEF begun, news, all
<1>3. /\ gen' \in Versions
      /\ \A a \in Area : gen'[a] = IF a \in all THEN gen[a] + 1 ELSE gen[a]
  BY <1>1, VersionsAre DEF Versions
<1>4. ASSUME NEW t \in news PROVE TaskOf(t)'
  <2>1. PICK areas \in refreshes : t = begun(areas)
    BY <1>n
  <2> QED
    BY <2>1, <1>2, <1>3, VersionsAre DEF TaskOf
<1>5. ASSUME NEW u \in tasks PROVE TaskOf(u)'
  <2>1. TaskOf(u)
    BY DEF TablesInv
  <2> QED
    BY <1>1, <1>3, <1>o, <2>1, VersionsAre DEF TaskOf
<1>6. ASSUME NEW a \in Area PROVE Awaited(a)'
  <2>1. CASE a \in all
    <3>1. PICK areas \in refreshes : a \in areas
      BY <1>u, <2>1
    <3>2. PICK t : t = begun(areas)
      OBVIOUS
    <3>3. t \in tasks' /\ t.areas = areas /\ t.gen[a] = gen[a] + 1
      BY <1>1, <1>2, <3>1, <3>2
    <3>4. GenerationIsCurrent(t, a)'
      BY <1>3, <2>1, <3>1, <3>3 DEF GenerationIsCurrent
    <3> QED
      BY <3>3, <3>4 DEF Awaited
  <2>2. CASE a \notin all
    <3>1. Awaited(a)
      BY DEF TablesInv
    <3>2. \A t \in tasks : GenerationIsCurrent(t, a) => GenerationIsCurrent(t, a)'
      BY <1>3, <2>2 DEF GenerationIsCurrent
    <3>3. /\ own[a]' = own[a] /\ shown[a]' = shown[a] /\ tasks \subseteq tasks'
          /\ (a \in missed => a \in missed') /\ (a \in hushed => a \in hushed')
      BY <1>1, <2>2 DEF all
    <3> QED
      BY <3>1, <3>2, <3>3 DEF Awaited
  <2> QED
    BY <2>1, <2>2
<1> QED
  BY <1>1, <1>3, <1>4, <1>5, <1>6 DEF TablesInv

\* A refresh goes on: it stays the refresh of its areas.
LEMMA ReadsKeep ==
    ASSUME TablesInv, NEW t \in tasks, TaskReads(t)
    PROVE  TablesInv'
<1>t. TaskOf(t)
  BY DEF TablesInv
<1>a. PICK a : a = FirstUnread(t)
  OBVIOUS
<1>g. PICK got : got = [b \in DOMAIN t.got \union {a} |-> IF b = a THEN remote[a] ELSE t.got[b]]
  OBVIOUS
<1>u. PICK u : u = [t EXCEPT !.got = got]
  OBVIOUS
<1>1. tasks' = (tasks \ {t}) \union {u} /\ DOMAIN t.got # t.areas
      /\ UNCHANGED <<remote, shown, gen, ops, own, missed, hushed>>
  BY <1>a, <1>g, <1>u DEF TaskReads
<1>2. a \in t.areas \ DOMAIN t.got
  BY <1>1, <1>t, <1>a DEF FirstUnread, TaskOf, Area
<1>3. /\ DOMAIN u = {"areas", "gen", "got"} /\ u.areas = t.areas /\ u.gen = t.gen
      /\ DOMAIN u.got = DOMAIN t.got \union {a}
      /\ \A b \in DOMAIN u.got : u.got[b] = IF b = a THEN remote[a] ELSE t.got[b]
  BY <1>t, <1>g, <1>u DEF TaskOf
<1>4. TaskOf(u)'
  BY <1>1, <1>2, <1>3, <1>t, VersionsAre DEF TaskOf
<1>5. ASSUME NEW v \in tasks PROVE TaskOf(v)'
  BY <1>1 DEF TablesInv, TaskOf
<1>6. ASSUME NEW b \in Area PROVE Awaited(b)'
  <2>1. Awaited(b)
    BY DEF TablesInv
  <2>2. GenerationIsCurrent(t, b) => GenerationIsCurrent(u, b)'
    BY <1>1, <1>3 DEF GenerationIsCurrent
  <2>3. \A v \in tasks : GenerationIsCurrent(v, b) => GenerationIsCurrent(v, b)'
    BY <1>1 DEF GenerationIsCurrent
  <2> QED
    BY <1>1, <2>1, <2>2, <2>3 DEF Awaited
<1> QED
  BY <1>1, <1>4, <1>5, <1>6 DEF TablesInv, OpOf

\* A refresh ends: it has shown what it read, or it failed, or it was not
\* the current one any more.
LEMMA EndsOfTask ==
    ASSUME TablesInv, NEW t \in tasks, TaskShows(t) \/ TaskFails(t) \/ TaskDropped(t)
    PROVE  TablesInv'
<1>t. TaskOf(t)
  BY DEF TablesInv
<1>1. tasks' = tasks \ {t} /\ UNCHANGED <<remote, gen, ops, own>>
  BY DEF TaskShows, TaskFails, TaskDropped
<1>2. \A v \in tasks' : TaskOf(v)'
  BY <1>1 DEF TablesInv, TaskOf
<1>3. shown' \in Versions
  <2>1. CASE TaskShows(t)
    BY <2>1, <1>t, VersionsAre DEF TaskShows, GenerationIsCurrent, TaskOf, Versions
  <2>2. CASE TaskFails(t) \/ TaskDropped(t)
    BY <2>2 DEF TaskFails, TaskDropped, TablesInv
  <2> QED
    BY <2>1, <2>2
<1>4. ASSUME NEW a \in Area PROVE Awaited(a)'
  <2>1. Awaited(a)
    BY DEF TablesInv
  <2>2. \A v \in tasks : v # t /\ GenerationIsCurrent(v, a) =>
            v \in tasks' /\ GenerationIsCurrent(v, a)'
    BY <1>1 DEF GenerationIsCurrent
  <2>3. CASE TaskShows(t)
    <3>1. GenerationIsCurrent(t, a) => shown'[a] >= own'[a]
      BY <2>3, <1>1, <1>t DEF TaskShows, GenerationIsCurrent, TaskOf
    <3>2. ~GenerationIsCurrent(t, a) => shown'[a] = shown[a]
      BY <2>3 DEF TaskShows
    <3>3. missed' = missed /\ hushed' = hushed
      BY <2>3 DEF TaskShows
    <3> QED
      BY <1>1, <2>1, <2>2, <3>1, <3>2, <3>3 DEF Awaited
  <2>4. CASE TaskFails(t)
    <3>1. shown' = shown /\ missed \subseteq missed' /\ hushed \subseteq hushed'
      BY <2>4 DEF TaskFails
    <3>2. GenerationIsCurrent(t, a) => IF Tells(t) THEN a \in missed' ELSE a \in hushed'
      BY <2>4 DEF TaskFails
    <3>3. GenerationIsCurrent(t, a) /\ ~Tells(t) => a # "listings"
      BY DEF Tells, GenerationIsCurrent
    <3> QED
      BY <1>1, <2>1, <2>2, <3>1, <3>2, <3>3 DEF Awaited
  <2>5. CASE TaskDropped(t)
    <3>1. PICK u \in tasks : u.areas = t.areas /\ \A b \in t.areas : u.gen[b] > t.gen[b]
      BY <2>5 DEF TaskDropped
    <3>2. TaskOf(u)
      BY DEF TablesInv
    <3>3. ~GenerationIsCurrent(t, a)
      BY <3>1, <3>2, <1>t, VersionsAre DEF GenerationIsCurrent, TaskOf
    <3>4. shown' = shown /\ missed' = missed /\ hushed' = hushed
      BY <2>5 DEF TaskDropped
    <3> QED
      BY <1>1, <2>1, <2>2, <3>3, <3>4 DEF Awaited
  <2> QED
    BY <2>3, <2>4, <2>5
<1> QED
  BY <1>1, <1>2, <1>3, <1>4 DEF TablesInv, OpOf

\* A change on the server, by an operation of the user or by others.
LEMMA RemoteKeeps ==
    ASSUME TablesInv, NEW a \in Area, remote' = [remote EXCEPT ![a] = @ + 1],
           UNCHANGED viewVars, DOMAIN ops' = Group,
           \A g \in Group : ops'[g] = ops[g] \/ OpOf(g)'
    PROVE  TablesInv'
<1>1. /\ remote' \in Versions
      /\ \A b \in Area : remote[b] \in Nat /\ remote'[b] >= remote[b] /\ remote'[b] \in Nat
  BY VersionsAre DEF TablesInv, Versions
<1>2. \A b \in Area : own'[b] <= remote'[b] /\ Awaited(b)'
  BY <1>1, VersionsAre DEF TablesInv, viewVars, Awaited, GenerationIsCurrent
<1>3. \A t \in tasks' : TaskOf(t)'
  BY DEF TablesInv, viewVars, TaskOf
<1>4. ASSUME NEW g \in Group PROVE OpOf(g)'
  <2>1. AreaOf(g) \in Area
    BY DEF AreaOf, Area
  <2> QED
    BY <1>1, <2>1 DEF TablesInv, OpOf
<1> QED
  BY <1>1, <1>2, <1>3, <1>4 DEF TablesInv, viewVars

LEMMA ViewRests ==
    ASSUME TablesInv, UNCHANGED <<remote, shown, gen, tasks, own, missed, hushed>>,
           DOMAIN ops' = Group, \A g \in Group : OpOf(g)'
    PROVE  TablesInv'
  BY DEF TablesInv, Awaited, GenerationIsCurrent, TaskOf

LEMMA OpKeeps ==
    ASSUME TablesInv, NEW g \in Group,
           StartOp(g) \/ OpLands(g) \/ OpFails(g) \/ OpFinishes(g)
    PROVE  TablesInv'
<1>t. DOMAIN ops = Group /\ OpOf(g) /\ \A h \in Group : OpOf(h)
  BY DEF TablesInv
<1>a. AreaOf(g) \in Area
  BY DEF AreaOf, Area
<1>n. NoOp.at # "answered"
  BY DEF NoOp
<1>1. CASE StartOp(g) \/ OpFails(g)
  <2>1. /\ UNCHANGED <<remote, shown, gen, tasks, own, missed, hushed>> /\ DOMAIN ops' = Group
        /\ ops'[g].at # "answered" /\ \A h \in Group : h # g => ops'[h] = ops[h]
    BY <1>1, <1>t, <1>n DEF StartOp, OpFails, viewVars
  <2>2. \A h \in Group : OpOf(h)'
    BY <2>1, <1>t DEF OpOf
  <2> QED
    BY <2>1, <2>2, ViewRests
<1>2. CASE OpLands(g)
  <2>1. /\ remote' = [remote EXCEPT ![AreaOf(g)] = @ + 1] /\ UNCHANGED viewVars
        /\ ops'[g] = [at |-> "answered", version |-> remote[AreaOf(g)] + 1]
        /\ DOMAIN ops' = Group /\ \A h \in Group : h # g => ops'[h] = ops[h]
    BY <1>2, <1>t DEF OpLands
  <2>2. remote'[AreaOf(g)] = remote[AreaOf(g)] + 1 /\ remote[AreaOf(g)] \in Nat
    BY <2>1, <1>a, VersionsAre DEF TablesInv, Versions
  <2>3. OpOf(g)'
    BY <2>1, <2>2 DEF OpOf
  <2> QED
    BY <2>1, <2>3, <1>a, RemoteKeeps
<1>3. CASE OpFinishes(g)
  <2> DEFINE a == AreaOf(g)
             refreshes == RefreshesOf(g)
             owned == [own EXCEPT ![a] = Max({@, ops[g].version})]
  <2>1. /\ ops[g].at = "answered" /\ ops' = [ops EXCEPT ![g] = NoOp]
        /\ Reload(refreshes, owned) /\ UNCHANGED <<remote, shown>>
    BY <1>3 DEF OpFinishes
  <2>2. ops[g].version \in 0..remote[a] /\ remote[a] \in Nat /\ own[a] \in Nat /\ own[a] <= remote[a]
    BY <2>1, <1>t, <1>a, VersionsAre DEF OpOf
  <2>3. Max({own[a], ops[g].version}) \in {own[a], ops[g].version}
    BY <2>2, LargerOfTwo
  <2>4. /\ owned \in Versions
        /\ \A b \in Area : owned[b] <= remote[b] /\ (b # a => owned[b] = own[b])
    <3>1. owned = [own EXCEPT ![a] = Max({own[a], ops[g].version})]
      OBVIOUS
    <3>2. own \in Versions
      BY DEF TablesInv
    <3> HIDE DEF owned
    <3> QED
      BY <2>2, <2>3, <3>1, <3>2, <1>a, VersionsAre DEF Versions
  <2>5. refreshes \in SUBSET (SUBSET Area) /\ a \in UNION refreshes
    BY <1>a, TuiTablesAssumption DEF RefreshesOf, AreaOf, Area, Group
  <2>6. DOMAIN ops' = Group /\ \A h \in Group : OpOf(h)'
    BY <2>1, <1>t, <1>n DEF OpOf
  <2> HIDE DEF a, refreshes, owned
  <2> QED
    BY <2>1, <2>4, <2>5, <2>6, ReloadKeeps
<1> QED
  BY <1>1, <1>2, <1>3

\* TablesInv is an invariant of the terminal interface's tables.
THEOREM TablesInvariance == TuiSpec => []TablesInv
<1>1. TuiInit => TablesInv
  BY TablesBegin
<1>2. TablesInv /\ [TuiNext]_tuiVars => TablesInv'
  <2> SUFFICES ASSUME TablesInv, [TuiNext]_tuiVars PROVE TablesInv'
    OBVIOUS
  <2>t. DOMAIN ops = Group /\ own \in Versions /\ \A g \in Group : OpOf(g)
    BY DEF TablesInv
  <2>1. ASSUME NEW areas \in {Area, Listings, {"watches"}, {"events"}}, UserReloads(areas)
        PROVE  TablesInv'
    <3>1. Reload({areas}, own) /\ UNCHANGED <<remote, shown, ops>>
          /\ {areas} \in SUBSET (SUBSET Area)
      BY <2>1 DEF UserReloads, Listings, Area
    <3>2. \A g \in Group : OpOf(g)'
      BY <2>t, <3>1 DEF OpOf
    <3> QED
      BY <2>t, <3>1, <3>2, VersionsAre, ReloadKeeps
  <2>2. ASSUME NEW a \in Area, ServerChanges(a) PROVE TablesInv'
    BY <2>2, <2>t, RemoteKeeps DEF ServerChanges
  <2>3. CASE SettingsShown \/ UNCHANGED tuiVars
    BY <2>3, <2>t, ViewRests DEF tuiVars, SettingsShown, OpOf
  <2> QED
    BY <2>1, <2>2, <2>3, ReadsKeep, EndsOfTask, OpKeeps DEF TuiNext
<1> QED
  BY <1>1, <1>2, PTL DEF TuiSpec

\* A change the user was told of is in its table once no refresh of that
\* table is on its way, unless that refresh failed: of which the user is told,
\* but for a refresh of everything that another refresh of the listings has
\* overtaken.  For any operations and changes (_next_generation,
\* _generation_is_current, reload_all's finish).
THEOREM OwnEditsAreShown == TuiSpec => []OwnEditShown
<1>1. TablesInv => OwnEditShown
  BY VersionsAre DEF TablesInv, Awaited, OwnEditShown
<1> QED
  BY <1>1, TablesInvariance, PTL
=============================================================================
