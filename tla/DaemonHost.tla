----------------------------- MODULE DaemonHost -----------------------------
(***************************************************************************)
(* The processes of one data directory: `serve', the desktop window with   *)
(* its embedded server, and commands that start, stop or look for a        *)
(* daemon (daemon.py, embedded.py, paths.py, cli.py, client.py, desktop.py *)
(* and the life cycle in web/app.py).  They meet in two files:             *)
(* daemon.lock, a file lock that ends with its process, and daemon.json,   *)
(* which says who serves where and outlives a crash.                       *)
(*                                                                         *)
(* A process is known by its pid, which a later process may get again.     *)
(* Each read, check, write and signal is a step.  A wait with a time-out   *)
(* may end whenever what it waits for is not there yet, and an answer to a *)
(* request may come too late.                                              *)
(*                                                                         *)
(* An operator whose comment starts with "Mutant" is no part of the        *)
(* specification: it is the definition below it with a plausible bug.      *)
(***************************************************************************)
EXTENDS Integers, FiniteSets

CONSTANTS
    Pid,           \* process ids
    NoPid,         \* no process
    MaxStarts,     \* bound: processes started
    MaxCrashes     \* bound: processes that die without cleaning up

ASSUME DaemonHostAssumption ==
    /\ NoPid \notin Pid
    /\ MaxStarts \in Nat
    /\ MaxCrashes \in Nat

Port == {"std", "other"}             \* bind_port of the settings, and --port
Ours == {"serve", "desktop", "cli"}
NoRuntime == [pid |-> NoPid, port |-> "std"]

VARIABLES
    proc,          \* what runs under each pid: "none", "foreign" or one of Ours
    srv,           \* the server of a process: program counter, port, should_exit
    task,          \* what else the process is doing: program counter and locals
    lock,          \* owner of daemon.lock
    runtime,       \* daemon.json
    starts, crashes,
    (* observation only *)
    disowned,      \* daemon.json was left to another live process, or a
                   \* server was left running by stop()
    died           \* a server ended without its own shutdown

hostVars == <<proc, srv, task, lock, runtime, starts, crashes, disowned, died>>

NoServer == [pc |-> "no", port |-> "std", quit |-> FALSE]
NoTask == [pc |-> "none"]

Server(p) == srv[p].pc
Doing(p, pc) == task[p].pc = pc

(* pid_is_our_process, by the command line of the process. *)
IsOurs(p) == p \in Pid /\ proc[p] \in Ours

RuntimeAlive == IsOurs(runtime.pid)

(* default_base: daemon.json while its process lives, else the settings.   *)
Base == IF RuntimeAlive THEN runtime.port ELSE "std"

(* A server answers, and holds its port, from the end of its start to the  *)
(* beginning of its shutdown.                                              *)
Answers(base) == \E p \in Pid : Server(p) = "up" /\ srv[p].port = base

(* ApiClient.health: an answer, one that does not come within the client's *)
(* time-out, or a refused connection.                                      *)
Reply(base) == IF Answers(base) THEN {"ok", "late"} ELSE {"refused"}

Serving == {p \in Pid : Server(p) \notin {"no", "lock", "ended"}}

(* The process ends: its locks and threads end with it. *)
Gone(p) ==
    /\ proc' = [proc EXCEPT ![p] = "none"]
    /\ srv' = [srv EXCEPT ![p] = NoServer]
    /\ task' = [task EXCEPT ![p] = NoTask]
    /\ lock' = IF lock = p THEN NoPid ELSE lock

Goto(p, pc) == task' = [task EXCEPT ![p] = [pc |-> pc]]
ServerTo(p, pc) == srv' = [srv EXCEPT ![p].pc = pc]

-----------------------------------------------------------------------------
(* A server: `serve' in a process of its own, or embedded in the desktop.  *)

Spawn(p, port) ==
    /\ proc[p] = "none"
    /\ starts < MaxStarts
    /\ starts' = starts + 1
    /\ proc' = [proc EXCEPT ![p] = "serve"]
    /\ srv' = [srv EXCEPT ![p] = [pc |-> "lock", port |-> port, quit |-> FALSE]]

StartServe(p, port) ==
    /\ Spawn(p, port)
    /\ UNCHANGED <<task, lock, runtime, crashes, disowned, died>>

(* Mutant: the lock of an owner that does not answer is taken over. *)
LockFreeOrSilent == lock # NoPid => Server(lock) # "up"

LockFree == lock = NoPid

TakeLock(p) ==
    /\ Server(p) = "lock"
    /\ LockFree
    /\ lock' = p
    /\ ServerTo(p, "open")
    /\ UNCHANGED <<proc, task, runtime, starts, crashes, disowned, died>>

(* `serve' gives up at once, the desktop after some attempts. *)
LockBusy(p) ==
    /\ Server(p) = "lock"
    /\ lock # NoPid
    /\ IF proc[p] = "serve" THEN Gone(p)
       ELSE /\ srv' = [srv EXCEPT ![p] = NoServer]
            /\ Goto(p, "window")
            /\ UNCHANGED <<proc, lock>>
    /\ UNCHANGED <<runtime, starts, crashes, disowned, died>>

Opened(p) ==
    /\ Server(p) = "open"
    /\ ServerTo(p, "claim")
    /\ UNCHANGED <<proc, task, lock, runtime, starts, crashes, disowned, died>>

(* The database does not open, or the address is refused. *)
OpenFails(p) ==
    /\ Server(p) = "open"
    /\ IF proc[p] = "serve" THEN Gone(p)
       ELSE /\ srv' = [srv EXCEPT ![p] = NoServer]
            /\ lock' = NoPid
            /\ Goto(p, "window")
            /\ UNCHANGED proc
    /\ UNCHANGED <<runtime, starts, crashes, disowned, died>>

(* Mutant: whatever daemon.json says is left alone. *)
LeftToAny(p) == runtime # NoRuntime /\ runtime.pid # p

(* write_runtime leaves the file to another live owner. *)
LeftToOther(p) == RuntimeAlive /\ runtime.pid # p

Claim(p) ==
    /\ Server(p) = "claim"
    /\ ServerTo(p, IF LeftToOther(p) THEN "bind" ELSE "publish")
    /\ disowned' = (disowned \/ (RuntimeAlive /\ runtime.pid # p))
    /\ UNCHANGED <<proc, task, lock, runtime, starts, crashes, died>>

Publish(p) ==
    /\ Server(p) = "publish"
    /\ runtime' = [pid |-> p, port |-> srv[p].port]
    /\ ServerTo(p, "bind")
    /\ UNCHANGED <<proc, task, lock, starts, crashes, disowned, died>>

(* The socket is opened after the life cycle has begun; if it is taken, or *)
(* should_exit is set already, the life cycle ends again.                  *)
Bind(p) ==
    /\ Server(p) = "bind"
    /\ ServerTo(p, IF srv[p].quit \/ Answers(srv[p].port) THEN "stopping" ELSE "up")
    /\ UNCHANGED <<proc, task, lock, runtime, starts, crashes, disowned, died>>

Quits(p) ==
    /\ Server(p) = "up"
    /\ srv[p].quit
    /\ ServerTo(p, "stopping")
    /\ UNCHANGED <<proc, task, lock, runtime, starts, crashes, disowned, died>>

(* Workers stopped, the running scan awaited, the database closed. *)
Closed(p) ==
    /\ Server(p) = "stopping"
    /\ ServerTo(p, "clear")
    /\ UNCHANGED <<proc, task, lock, runtime, starts, crashes, disowned, died>>

(* clear_runtime(pid): looks whether the file is its own, then unlinks it. *)
ClearLook(p) ==
    /\ Server(p) = "clear"
    /\ ServerTo(p, IF runtime.pid = p THEN "unlink" ELSE "ended")
    /\ UNCHANGED <<proc, task, lock, runtime, starts, crashes, disowned, died>>

Unlink(p) ==
    /\ Server(p) = "unlink"
    /\ runtime' = NoRuntime
    /\ ServerTo(p, "ended")
    /\ UNCHANGED <<proc, task, lock, starts, crashes, disowned, died>>

(* The end of `serve': the lock is closed after uvicorn has returned. *)
ServeEnds(p) ==
    /\ proc[p] = "serve"
    /\ Server(p) = "ended"
    /\ Gone(p)
    /\ UNCHANGED <<runtime, starts, crashes, disowned, died>>

ServerStep(p) ==
    \/ TakeLock(p) \/ LockBusy(p) \/ Opened(p) \/ OpenFails(p) \/ Claim(p) \/ Publish(p)
    \/ Bind(p) \/ Quits(p) \/ Closed(p) \/ ClearLook(p) \/ Unlink(p) \/ ServeEnds(p)

-----------------------------------------------------------------------------
(* The desktop: attach to a daemon that answers twice, or embed one.       *)

Launch(p, kind, pc) ==
    /\ proc[p] = "none"
    /\ starts < MaxStarts
    /\ starts' = starts + 1
    /\ proc' = [proc EXCEPT ![p] = kind]
    /\ Goto(p, pc)
    /\ UNCHANGED <<srv, lock, runtime, crashes, disowned, died>>

(* ping_daemon(stable=True), twice, for attach_runtime and ensure_daemon.  *)
Ping(p) ==
    /\ task[p].pc \in {"attach", "attach2", "ensure", "ensure2"}
    /\ \E reply \in Reply(Base) :
          Goto(p, CASE reply # "ok" /\ task[p].pc \in {"attach", "attach2"} -> "embed"
                    [] reply # "ok" /\ task[p].pc \in {"ensure", "ensure2"} -> "spawn"
                    [] reply = "ok" /\ task[p].pc = "attach" -> "attach2"
                    [] reply = "ok" /\ task[p].pc = "ensure" -> "ensure2"
                    [] OTHER -> "window")
    /\ UNCHANGED <<proc, srv, lock, runtime, starts, crashes, disowned, died>>

(* attach_runtime found an older daemon: stop_daemon, then embed. *)
Outdated(p) ==
    /\ Doing(p, "attach2")
    /\ Answers(Base)
    /\ task' = [task EXCEPT ![p] = [pc |-> "stop", then |-> "embed"]]
    /\ UNCHANGED <<proc, srv, lock, runtime, starts, crashes, disowned, died>>

Embed(p) ==
    /\ Doing(p, "embed")
    /\ srv' = [srv EXCEPT ![p] = [pc |-> "lock", port |-> "std", quit |-> FALSE]]
    /\ Goto(p, "starting")
    /\ UNCHANGED <<proc, lock, runtime, starts, crashes, disowned, died>>

(* EmbeddedServer.start sees its server answer. *)
Owned(p) ==
    /\ Doing(p, "starting")
    /\ Server(p) = "up"
    /\ Goto(p, "owned")
    /\ UNCHANGED <<proc, srv, lock, runtime, starts, crashes, disowned, died>>

(* EmbeddedServer.stop: after a failed or late start, at the end, or to    *)
(* hand over to a daemon when the window cannot be shown.                  *)
EmbeddedStop(p, then) ==
    /\ \/ Doing(p, "starting") /\ then = "window"
          /\ Server(p) \notin {"lock", "open"}
       \/ Doing(p, "owned") /\ then \in {"exit", "ensure"}
    /\ srv' = [srv EXCEPT ![p].quit = TRUE]
    /\ task' = [task EXCEPT ![p] = [pc |-> "join", then |-> then]]
    /\ UNCHANGED <<proc, lock, runtime, starts, crashes, disowned, died>>

(* The thread is joined, then the lock is closed. *)
Joined(p) ==
    /\ Doing(p, "join")
    /\ Server(p) = "ended"
    /\ srv' = [srv EXCEPT ![p] = NoServer]
    /\ lock' = IF lock = p THEN NoPid ELSE lock
    /\ Goto(p, task[p].then)
    /\ UNCHANGED <<proc, runtime, starts, crashes, disowned, died>>

(* The join times out: the lock is closed although the thread still runs.  *)
JoinTimesOut(p) ==
    /\ Doing(p, "join")
    /\ Server(p) # "ended"
    /\ lock' = IF lock = p THEN NoPid ELSE lock
    /\ disowned' = TRUE
    /\ Goto(p, task[p].then)
    /\ UNCHANGED <<proc, srv, runtime, starts, crashes, died>>

-----------------------------------------------------------------------------
(* Commands.                                                               *)

(* ensure_daemon starts a child and waits for an answer or the time-out.   *)
SpawnChild(p, q) ==
    /\ Doing(p, "spawn")
    /\ Spawn(q, "std")
    /\ Goto(p, "wait")
    /\ UNCHANGED <<lock, runtime, crashes, disowned, died>>

WaitEnds(p) ==
    /\ Doing(p, "wait")
    /\ Goto(p, "window")
    /\ UNCHANGED <<proc, srv, lock, runtime, starts, crashes, disowned, died>>

(* stop_daemon reads daemon.json and looks at the process; then it kills.  *)
StopLook(p) ==
    /\ Doing(p, "stop")
    /\ task' = [task EXCEPT ![p] =
          IF RuntimeAlive THEN [pc |-> "kill", who |-> runtime.pid, then |-> task[p].then]
                          ELSE [pc |-> task[p].then]]
    /\ UNCHANGED <<proc, srv, lock, runtime, starts, crashes, disowned, died>>

(* SIGTERM: uvicorn shuts a `serve' down that is past its start; any other *)
(* process of ours just ends.                                              *)
Kill(p) ==
    /\ Doing(p, "kill")
    /\ LET q == task[p].who
           graceful == proc[q] = "serve" /\ Server(q) \notin {"lock", "open"}
           dies == IsOurs(q) /\ ~graceful
           left == [task EXCEPT ![p] = [pc |-> task[p].then]]
       IN /\ proc' = IF dies THEN [proc EXCEPT ![q] = "none"] ELSE proc
          /\ srv' = CASE graceful -> [srv EXCEPT ![q].quit = TRUE]
                      [] dies -> [srv EXCEPT ![q] = NoServer]
                      [] OTHER -> srv
          /\ task' = IF dies THEN [left EXCEPT ![q] = NoTask] ELSE left
          /\ lock' = IF dies /\ lock = q THEN NoPid ELSE lock
          /\ died' = (died \/ (dies /\ q \in Serving))
    /\ UNCHANGED <<runtime, starts, crashes, disowned>>

(* Mutant: only the settings' port is asked. *)
RunningReplyOnStd == Reply("std")

(* is_running asks whoever default_base names: only "ok" is a yes. *)
RunningReply == Reply(Base)

(* _require_local_maintenance(stop_required=True) before restore, import   *)
(* and compact.  The reply and who answered are remembered for the         *)
(* property.                                                               *)
MaintenanceGuard(p) ==
    /\ Doing(p, "guard")
    /\ \E reply \in RunningReply :
          task' = [task EXCEPT ![p] =
             IF reply = "ok" THEN [pc |-> "exit"]
             ELSE [pc |-> "replace", reply |-> reply, up |-> {q \in Pid : Server(q) = "up"}]]
    /\ UNCHANGED <<proc, srv, lock, runtime, starts, crashes, disowned, died>>

Maintain(p) ==
    /\ Doing(p, "replace")
    /\ Goto(p, "exit")
    /\ UNCHANGED <<proc, srv, lock, runtime, starts, crashes, disowned, died>>

(* A command, and a window without a server of its own, may end; a process *)
(* that ends takes its threads along.                                      *)
Exit(p) ==
    /\ \/ task[p].pc \in {"exit", "window"}
       \/ proc[p] = "foreign"
    /\ Gone(p)
    /\ UNCHANGED <<runtime, starts, crashes, disowned, died>>

Crash(p) ==
    /\ crashes < MaxCrashes
    /\ IsOurs(p)
    /\ crashes' = crashes + 1
    /\ died' = (died \/ p \in Serving)
    /\ Gone(p)
    /\ UNCHANGED <<runtime, starts, disowned>>

Start(p) ==
    \/ \E port \in Port : StartServe(p, port)
    \/ Launch(p, "desktop", "attach")
    \/ \E pc \in {"ensure", "guard"} : Launch(p, "cli", pc)
    \/ /\ proc[p] = "none" /\ starts < MaxStarts
       /\ starts' = starts + 1
       /\ proc' = [proc EXCEPT ![p] = "cli"]
       /\ task' = [task EXCEPT ![p] = [pc |-> "stop", then |-> "exit"]]
       /\ UNCHANGED <<srv, lock, runtime, crashes, disowned, died>>
    \/ Launch(p, "foreign", "none")

TaskStep(p) ==
    \/ Ping(p) \/ Outdated(p) \/ Embed(p) \/ Owned(p)
    \/ \E then \in {"window", "exit", "ensure"} : EmbeddedStop(p, then)
    \/ Joined(p) \/ JoinTimesOut(p)
    \/ \E q \in Pid : SpawnChild(p, q)
    \/ WaitEnds(p) \/ StopLook(p) \/ Kill(p)
    \/ MaintenanceGuard(p) \/ Maintain(p)

HostInit ==
    /\ proc = [p \in Pid |-> "none"]
    /\ srv = [p \in Pid |-> NoServer]
    /\ task = [p \in Pid |-> NoTask]
    /\ lock = NoPid
    /\ runtime = NoRuntime
    /\ starts = 0
    /\ crashes = 0
    /\ disowned = FALSE
    /\ died = FALSE

HostNext ==
    \E p \in Pid : Start(p) \/ ServerStep(p) \/ TaskStep(p) \/ Exit(p) \/ Crash(p)

HostSpec == HostInit /\ [][HostNext]_hostVars

-----------------------------------------------------------------------------
(* Properties.                                                             *)

(* Two servers never work on one database, unless a desktop stopped        *)
(* waiting for its own server (embedded.py 115-131) or a server found in   *)
(* daemon.json another live process of ours, left the file to it and so    *)
(* runs without being named there (paths.py 68-81); in both cases nobody   *)
(* can be sure to find it any more, and from then on nothing is claimed.   *)
OneServer == disowned \/ Cardinality(Serving) <= 1

(* daemon.json names the server that answers, and where; and if every      *)
(* server could shut down it is gone when none is left.  Exceptions: a     *)
(* live process that has the pid of a crashed one, an abandoned server.    *)
RuntimeNamesServer ==
    \/ disowned
    \/ /\ \A p \in Pid : Server(p) = "up" => runtime = [pid |-> p, port |-> srv[p].port]
       /\ Serving = {} /\ ~died => runtime = NoRuntime

(* Whoever is let through to replace the database had no server that       *)
(* answers beside it at that moment, on whatever port, unless its answer   *)
(* was too late for the client (cli.py 77-86 through client.py 87).  A     *)
(* server that does not answer is missed: one that is about to, and one    *)
(* that `stop' has signalled, which closes its port first and then awaits  *)
(* its scan with the database open (daemon.py 228, web/app.py 139-154).    *)
GuardSeesServer ==
    \A p \in Pid :
        Doing(p, "replace") => disowned \/ task[p].reply = "late" \/ task[p].up = {}
=============================================================================
