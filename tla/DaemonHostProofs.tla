-------------------------- MODULE DaemonHostProofs --------------------------
(***************************************************************************)
(* Who serves a data directory, for any processes, starts and crashes: the *)
(* lock, the place of every server in its process, and what daemon.json    *)
(* says.  IInv is inductive; its parts are void once a server has been     *)
(* disowned, as the properties are.                                        *)
(***************************************************************************)
EXTENDS DaemonHost, FiniteSetTheorems, TLAPS

\* A server whose life cycle has claimed daemon.json and not given it back.
Working == {"bind", "up", "stopping", "clear", "unlink"}
ServerPc == {"no", "lock", "open", "claim", "publish", "ended"} \cup Working

After == {"window", "exit", "ensure", "embed"}
TaskPc == {"none", "attach", "attach2", "ensure", "ensure2", "embed", "starting",
           "owned", "spawn", "wait", "guard", "exit", "window"}
Task ==
    [pc : TaskPc] \cup [pc : {"stop", "join"}, then : After]
    \cup [pc : {"kill"}, who : Pid, then : After]
    \cup [pc : {"replace"}, reply : {"late", "refused"}, up : SUBSET Pid]

TypeInv ==
    /\ proc \in [Pid -> {"none", "foreign", "serve", "desktop", "cli"}]
    /\ srv \in [Pid -> [pc : ServerPc, port : Port, quit : BOOLEAN]]
    /\ task \in [Pid -> Task]
    /\ lock \in Pid \cup {NoPid}
    /\ runtime \in [pid : Pid \cup {NoPid}, port : Port]
    /\ starts \in 0..MaxStarts
    /\ crashes \in 0..MaxCrashes
    /\ disowned \in BOOLEAN
    /\ died \in BOOLEAN

\* Whoever is past taking daemon.lock has it.
LockInv == \A p \in Pid : Server(p) \notin {"no", "lock"} => lock = p

\* A server lives in `serve', or in a desktop that starts, owns or joins it.
PlaceInv ==
    \A p \in Pid : Server(p) # "no" =>
        \/ proc[p] = "serve" /\ task[p].pc = "none"
        \/ proc[p] = "desktop" /\ task[p].pc \in {"starting", "owned", "join"}

\* daemon.json names the server at work, and was left by none that could
\* shut down.
NameInv ==
    \A p \in Pid : Server(p) \in Working => runtime = [pid |-> p, port |-> srv[p].port]
OrphanInv ==
    died \/ runtime = NoRuntime
         \/ \E p \in Pid : runtime.pid = p /\ Server(p) \in Working

\* Only the desktop and commands have tasks, and only the desktop some.
DesktopOnly(t) ==
    \/ t.pc \in {"attach", "attach2", "embed", "starting", "owned", "join"}
    \/ t.pc \in {"stop", "kill"} /\ t.then = "embed"
KindOf(p) ==
    /\ task[p].pc # "none" => proc[p] \in {"desktop", "cli"}
    /\ DesktopOnly(task[p]) => proc[p] = "desktop"
KindInv == \A p \in Pid : KindOf(p)

HostInv == LockInv /\ PlaceInv /\ NameInv /\ OrphanInv /\ KindInv

IInv == TypeInv /\ (disowned \/ HostInv) /\ GuardSeesServer

-----------------------------------------------------------------------------
(* What the building blocks of the actions do.                             *)

LEMMA Tasks ==
    /\ \A t \in Task : t.pc \in {"stop", "join", "kill"} => t.then \in After
    /\ \A t \in Task : t.pc = "kill" => t.who \in Pid
    /\ \A pc \in TaskPc : [pc |-> pc] \in Task
    /\ \A then \in After : /\ then \in TaskPc
                           /\ [pc |-> "stop", then |-> then] \in Task
                           /\ [pc |-> "join", then |-> then] \in Task
                           /\ \A q \in Pid : [pc |-> "kill", who |-> q, then |-> then] \in Task
    /\ \A up \in SUBSET Pid, reply \in {"late", "refused"} :
          [pc |-> "replace", reply |-> reply, up |-> up] \in Task
    /\ NoTask \in Task /\ NoTask.pc = "none"
BY DEF Task, TaskPc, After, NoTask

LEMMA Servers ==
    /\ NoServer \in [pc : ServerPc, port : Port, quit : BOOLEAN]
    /\ NoServer.pc = "no"
    /\ NoRuntime \in [pid : Pid \cup {NoPid}, port : Port]
    /\ NoPid \notin Pid
BY DaemonHostAssumption DEF NoServer, ServerPc, Port, NoRuntime

\* The task of p becomes t.
Turns(p, t) == /\ task' \in [Pid -> Task] /\ task'[p] = t
               /\ \A q \in Pid \ {p} : task'[q] = task[q]

\* The server of p becomes s.
Serves(p, s) == /\ srv' \in [Pid -> [pc : ServerPc, port : Port, quit : BOOLEAN]]
                /\ srv'[p] = s
                /\ \A q \in Pid \ {p} : srv'[q] = srv[q]

LEMMA Turning ==
    ASSUME TypeInv, NEW p \in Pid, NEW t \in Task, task' = [task EXCEPT ![p] = t]
    PROVE  Turns(p, t)
BY DEF TypeInv, Turns

LEMMA Going ==
    ASSUME TypeInv, NEW p \in Pid, NEW pc \in TaskPc, Goto(p, pc)
    PROVE  Turns(p, [pc |-> pc])
<1>1. [pc |-> pc] \in Task
  BY Tasks
<1>2. QED BY <1>1, Turning DEF Goto

LEMMA Serving1 ==
    ASSUME TypeInv, NEW p \in Pid, srv' = [srv EXCEPT ![p] = NoServer]
    PROVE  Serves(p, NoServer)
BY Servers DEF TypeInv, Serves

LEMMA Advancing ==
    ASSUME TypeInv, NEW p \in Pid, NEW pc \in ServerPc, ServerTo(p, pc)
    PROVE  Serves(p, [srv[p] EXCEPT !.pc = pc])
           /\ srv'[p].pc = pc /\ srv'[p].port = srv[p].port
BY DEF TypeInv, Serves, ServerTo

LEMMA Ending ==
    ASSUME TypeInv, NEW p \in Pid, Gone(p)
    PROVE  /\ proc' \in [Pid -> {"none", "foreign", "serve", "desktop", "cli"}]
           /\ proc'[p] = "none" /\ \A q \in Pid \ {p} : proc'[q] = proc[q]
           /\ Serves(p, NoServer) /\ Turns(p, NoTask)
           /\ lock' = IF lock = p THEN NoPid ELSE lock
           /\ lock' \in Pid \cup {NoPid}
<1>1. Serves(p, NoServer) /\ Turns(p, NoTask)
  BY Serving1, Turning, Tasks DEF Gone
<1>2. QED BY <1>1 DEF Gone, TypeInv

LEMMA Numbers ==
    TypeInv => /\ starts \in Int /\ crashes \in Int
               /\ (starts < MaxStarts => starts + 1 \in 0..MaxStarts)
               /\ (crashes < MaxCrashes => crashes + 1 \in 0..MaxCrashes)
BY DaemonHostAssumption DEF TypeInv

-----------------------------------------------------------------------------
(* The kinds of steps.                                                     *)

\* A server goes on: it has the lock, claims daemon.json or gives it back.
LEMMA ServerGoesOn ==
    ASSUME IInv, NEW p \in Pid, NEW pc \in ServerPc \ {"no", "lock"}, ServerTo(p, pc),
           UNCHANGED <<proc, task, starts, crashes, died>>,
           Server(p) # "no",
           IF Server(p) = "lock" THEN lock = NoPid /\ lock' = p ELSE lock' = lock,
           disowned' \in BOOLEAN, disowned => disowned',
           runtime' \in [pid : Pid \cup {NoPid}, port : Port],
           \/ disowned'
           \/ pc \in Working /\ runtime' = [pid |-> p, port |-> srv[p].port]
           \/ pc \notin Working /\ runtime' = NoRuntime
           \/ pc \notin Working /\ Server(p) \notin Working /\ runtime' = runtime
    PROVE  IInv'
<1>1. /\ TypeInv /\ pc \in ServerPc
      /\ Serves(p, [srv[p] EXCEPT !.pc = pc])
      /\ srv'[p].pc = pc /\ srv'[p].port = srv[p].port
  BY Advancing DEF IInv
<1>2. TypeInv'
  BY <1>1 DEF TypeInv, Serves
<1>3. GuardSeesServer'
  BY DEF IInv, GuardSeesServer, Doing
<1>4. ASSUME ~disowned' PROVE HostInv'
  <2>1. HostInv /\ NoPid \notin Pid
    BY <1>4, Servers DEF IInv
  <2>2. lock' = p /\ \A q \in Pid \ {p} : Server(q) \in {"no", "lock"}
    BY <2>1 DEF HostInv, LockInv
  <2>3. \A q \in Pid \ {p} : srv'[q] = srv[q]
    BY <1>1 DEF Serves
  <2>4. LockInv' /\ PlaceInv'
    BY <1>1, <2>1, <2>2, <2>3 DEF HostInv, LockInv, PlaceInv, Server
  <2>8. KindInv'
    BY <2>1 DEF HostInv, KindInv, KindOf
  <2>5. NameInv'
    BY <1>1, <1>4, <2>2, <2>3 DEF NameInv, Server, Working
  <2>6. OrphanInv'
    BY <1>1, <1>4, <2>1, <2>2, <2>3 DEF HostInv, OrphanInv, Server, Working
  <2>7. QED BY <2>4, <2>5, <2>6, <2>8 DEF HostInv
<1>5. QED BY <1>2, <1>3, <1>4 DEF IInv

\* A process, or its server only, ends.
LEMMA ServerIsGone ==
    ASSUME IInv, NEW p \in Pid, Serves(p, NoServer),
           proc' \in [Pid -> {"none", "foreign", "serve", "desktop", "cli"}],
           task' \in [Pid -> Task],
           \A q \in Pid \ {p} :
               /\ proc'[q] = proc[q]
               /\ disowned \/ Server(q) = "no" \/ task'[q].pc = task[q].pc,
           \A q \in Pid : task'[q].pc = "replace" => task'[q] = task[q],
           lock' \in {lock, NoPid}, lock' = lock \/ lock = p \/ disowned,
           crashes' \in 0..MaxCrashes, died' \in BOOLEAN,
           died => died', disowned \/ Server(p) \notin Working \/ died',
           UNCHANGED <<runtime, starts, disowned>>, disowned \/ KindInv'
    PROVE  IInv'
<1>1. TypeInv'
  BY DEF IInv, TypeInv, Serves
<1>2. GuardSeesServer'
  BY DEF IInv, GuardSeesServer, Doing
<1>3. ASSUME ~disowned' PROVE HostInv'
  <2>1. HostInv
    BY <1>3 DEF IInv
  <2>2. Server(p)' = "no" /\ \A q \in Pid \ {p} : srv'[q] = srv[q]
    BY Servers DEF Serves, Server
  <2>3. LockInv'
    BY <1>3, <2>1, <2>2 DEF HostInv, LockInv, Server
  <2>4. PlaceInv'
    BY <1>3, <2>1, <2>2 DEF HostInv, PlaceInv, Server
  <2>5. NameInv'
    BY <2>1, <2>2 DEF HostInv, NameInv, Server, Working
  <2>6. OrphanInv'
    BY <1>3, <2>1, <2>2 DEF HostInv, OrphanInv, Server, Working
  <2>7. QED BY <1>3, <2>3, <2>4, <2>5, <2>6 DEF HostInv
<1>4. QED BY <1>1, <1>2, <1>3 DEF IInv

\* The task of a process goes on; a server in it stays where it may be.
LEMMA TaskGoesOn ==
    ASSUME IInv, NEW p \in Pid, NEW t \in Task, Turns(p, t),
           proc' \in [Pid -> {"none", "foreign", "serve", "desktop", "cli"}],
           \A q \in Pid \ {p} : proc'[q] = proc[q],
           proc'[p] = proc[p] \/ disowned \/ Server(p) = "no",
           starts' \in 0..MaxStarts,
           UNCHANGED <<srv, lock, runtime, crashes, disowned, died>>,
           \/ disowned
           \/ Server(p) = "no"
           \/ proc[p] = "desktop" /\ t.pc \in {"starting", "owned", "join"},
           t.pc = "replace" => disowned \/ t.reply = "late" \/ t.up = {}, disowned \/ KindInv'
    PROVE  IInv'
<1>1. TypeInv'
  BY DEF IInv, TypeInv, Turns
<1>2. GuardSeesServer'
  BY DEF IInv, GuardSeesServer, Doing, Turns
<1>3. ASSUME ~disowned' PROVE HostInv'
  <2>1. HostInv /\ KindInv'
    BY <1>3 DEF IInv
  <2>2. QED BY <1>3, <2>1 DEF HostInv, LockInv, PlaceInv, NameInv, OrphanInv, Server, Turns
<1>4. QED BY <1>1, <1>2, <1>3 DEF IInv

\* A new server waits for the lock, in a process that had none.
LEMMA ServerBegins ==
    ASSUME IInv, NEW p \in Pid, NEW port \in Port,
           Serves(p, [pc |-> "lock", port |-> port, quit |-> FALSE]),
           disowned \/ Server(p) = "no",
           proc' \in [Pid -> {"none", "foreign", "serve", "desktop", "cli"}],
           task' \in [Pid -> Task],
           \A q \in Pid \ {p} :
               /\ proc'[q] = proc[q]
               /\ disowned \/ Server(q) = "no" \/ task'[q].pc = task[q].pc,
           \A q \in Pid : task'[q].pc = "replace" => task'[q] = task[q],
           \/ disowned
           \/ proc'[p] = "serve" /\ task'[p].pc = "none"
           \/ proc'[p] = "desktop" /\ task'[p].pc = "starting",
           starts' \in 0..MaxStarts,
           UNCHANGED <<lock, runtime, crashes, disowned, died>>, disowned \/ KindInv'
    PROVE  IInv'
<1>1. TypeInv'
  BY DEF IInv, TypeInv, Serves
<1>2. GuardSeesServer'
  BY DEF IInv, GuardSeesServer, Doing
<1>3. ASSUME ~disowned' PROVE HostInv'
  <2>1. HostInv /\ Server(p) = "no"
    BY <1>3 DEF IInv
  <2>2. Server(p)' = "lock" /\ \A q \in Pid \ {p} : srv'[q] = srv[q]
    BY DEF Serves, Server
  <2>3. LockInv'
    BY <2>1, <2>2 DEF HostInv, LockInv, Server
  <2>4. PlaceInv'
    BY <1>3, <2>1, <2>2 DEF HostInv, PlaceInv, Server
  <2>5. NameInv'
    BY <2>1, <2>2 DEF HostInv, NameInv, Server, Working
  <2>6. OrphanInv'
    BY <2>1, <2>2 DEF HostInv, OrphanInv, Server, Working
  <2>7. QED BY <1>3, <2>3, <2>4, <2>5, <2>6 DEF HostInv
<1>4. QED BY <1>1, <1>2, <1>3 DEF IInv

\* A server is asked to shut down: its place and its port stay.
LEMMA ServerIsAsked ==
    ASSUME IInv, NEW p \in Pid, NEW q \in Pid, NEW t \in Task, Turns(p, t),
           srv' = [srv EXCEPT ![q].quit = TRUE],
           UNCHANGED <<proc, lock, runtime, starts, crashes, disowned, died>>,
           \/ disowned
           \/ Server(p) = "no"
           \/ proc[p] = "desktop" /\ t.pc \in {"starting", "owned", "join"},
           t.pc # "replace", disowned \/ KindInv'
    PROVE  IInv'
<1>1. /\ srv' \in [Pid -> [pc : ServerPc, port : Port, quit : BOOLEAN]]
      /\ \A o \in Pid : srv'[o].pc = srv[o].pc /\ srv'[o].port = srv[o].port
  BY DEF IInv, TypeInv
<1>2. TypeInv'
  BY <1>1 DEF IInv, TypeInv, Turns
<1>3. GuardSeesServer'
  BY DEF IInv, GuardSeesServer, Doing, Turns
<1>4. ASSUME ~disowned' PROVE HostInv'
  <2>1. HostInv
    BY <1>4 DEF IInv
  <2>2. LockInv' /\ NameInv' /\ OrphanInv'
    BY <1>1, <2>1 DEF HostInv, LockInv, NameInv, OrphanInv, Server
  <2>3. PlaceInv'
    BY <1>1, <1>4, <2>1 DEF HostInv, PlaceInv, Server, Turns
  <2>4. QED BY <1>4, <2>2, <2>3 DEF HostInv
<1>5. QED BY <1>2, <1>3, <1>4 DEF IInv

-----------------------------------------------------------------------------
(* The steps of a server.                                                  *)

LEMMA ServerInv ==
    ASSUME IInv, NEW p \in Pid, ServerStep(p)
    PROVE  IInv'
<1> USE DEF Server
<1>1. /\ TypeInv /\ disowned \in BOOLEAN /\ lock \in Pid \cup {NoPid} /\ NoPid \notin Pid
      /\ runtime \in [pid : Pid \cup {NoPid}, port : Port] /\ srv[p].port \in Port
      /\ crashes \in 0..MaxCrashes /\ died \in BOOLEAN
      /\ NoRuntime \in [pid : Pid \cup {NoPid}, port : Port]
      /\ \A q \in Pid : task[q] \in Task
  BY Servers DEF IInv, TypeInv
<1>2. ~disowned => HostInv /\ KindInv
  BY DEF IInv, HostInv
<1>3. /\ {"open", "claim", "publish", "ended"} \subseteq ServerPc \ ({"no", "lock"} \cup Working)
      /\ Working \subseteq ServerPc \ {"no", "lock"}
  BY DEF ServerPc, Working
<1>4. ASSUME Gone(p), disowned \/ srv[p].pc \notin Working,
             UNCHANGED <<runtime, starts, crashes, disowned, died>>
      PROVE  IInv'
  <2>1. /\ proc' \in [Pid -> {"none", "foreign", "serve", "desktop", "cli"}]
        /\ \A q \in Pid \ {p} : proc'[q] = proc[q]
        /\ Serves(p, NoServer) /\ Turns(p, NoTask) /\ NoTask.pc = "none"
        /\ lock' \in {lock, NoPid} /\ (lock' = lock \/ lock = p)
    BY <1>1, <1>4, Ending, Tasks
  <2>2. /\ task' \in [Pid -> Task] /\ \A q \in Pid \ {p} : task'[q] = task[q]
        /\ task'[p].pc = "none"
    BY <2>1 DEF Turns
  <2>3. disowned \/ KindInv'
    BY <1>2, <2>1, <2>2 DEF KindInv, KindOf, DesktopOnly
  <2>4. QED BY <1>1, <1>4, <2>1, <2>2, <2>3, ServerIsGone
<1>5. ASSUME NEW pc \in {"window"}, srv' = [srv EXCEPT ![p] = NoServer], Goto(p, pc),
             proc' = proc, lock' \in {lock, NoPid}, lock' = lock \/ lock = p \/ disowned,
             srv[p].pc \in {"lock", "open"}, proc[p] # "serve",
             UNCHANGED <<runtime, starts, crashes, disowned, died>>
      PROVE  IInv'
  <2>1. Serves(p, NoServer) /\ Turns(p, [pc |-> pc]) /\ srv[p].pc \notin Working
    BY <1>1, <1>5, Serving1, Going DEF TaskPc, Working
  <2>2. /\ task' \in [Pid -> Task] /\ \A q \in Pid \ {p} : task'[q] = task[q]
        /\ task'[p].pc # "replace"
    BY <2>1 DEF Turns, TaskPc
  <2>3. proc' \in [Pid -> {"none", "foreign", "serve", "desktop", "cli"}]
    BY <1>1, <1>5 DEF TypeInv
  <2>4. disowned \/ KindInv'
    BY <1>2, <1>5, <2>1, <2>2 DEF KindInv, KindOf, DesktopOnly, HostInv, PlaceInv, Turns
  <2>5. QED BY <1>1, <1>5, <2>1, <2>2, <2>3, <2>4, ServerIsGone
<1>6. CASE TakeLock(p)
  BY <1>1, <1>3, <1>6, ServerGoesOn DEF TakeLock, LockFree
<1>7. CASE LockBusy(p)
  <2>1. "window" \in TaskPc /\ "lock" \notin Working
    BY DEF TaskPc, Working
  <2>2. QED BY <1>4, <1>5, <1>7, <2>1 DEF LockBusy
<1>8. CASE Opened(p)
  BY <1>1, <1>3, <1>8, ServerGoesOn DEF Opened
<1>9. CASE OpenFails(p)
  <2>1. "window" \in TaskPc /\ "open" \notin Working
    BY DEF TaskPc, Working
  <2>2. disowned \/ lock = p
    BY <1>2, <1>9 DEF OpenFails, HostInv, LockInv
  <2>3. QED BY <1>4, <1>5, <1>9, <2>1, <2>2 DEF OpenFails
<1>10. CASE Claim(p)
  <2>1. CASE LeftToOther(p)
    BY <1>1, <1>3, <1>10, <2>1, ServerGoesOn DEF Claim, LeftToOther, Working
  <2>2. CASE ~LeftToOther(p)
    BY <1>1, <1>3, <1>10, <2>2, ServerGoesOn DEF Claim, LeftToOther, Working
  <2>3. QED BY <2>1, <2>2
<1>11. CASE Publish(p)
  <2>1. "bind" \in Working
    BY DEF Working
  <2>2. runtime' = [pid |-> p, port |-> srv[p].port]
    BY <1>11 DEF Publish
  <2>3. QED BY <1>1, <1>3, <1>11, <2>1, <2>2, ServerGoesOn DEF Publish
<1>12. srv[p].pc \in Working /\ ~disowned => runtime = [pid |-> p, port |-> srv[p].port]
  BY <1>2 DEF HostInv, NameInv
<1>13. CASE Bind(p)
  <2>1. "bind" \in Working /\ "up" \in Working /\ "stopping" \in Working
    BY DEF Working
  <2>2. PICK pc \in {"up", "stopping"} : ServerTo(p, pc)
    BY <1>13 DEF Bind
  <2>3. QED BY <1>1, <1>3, <1>12, <1>13, <2>1, <2>2, ServerGoesOn DEF Bind
<1>14. CASE Quits(p)
  <2>1. "up" \in Working /\ "stopping" \in Working
    BY DEF Working
  <2>2. QED BY <1>1, <1>3, <1>12, <1>14, <2>1, ServerGoesOn DEF Quits
<1>15. CASE Closed(p)
  <2>1. "stopping" \in Working /\ "clear" \in Working
    BY DEF Working
  <2>2. QED BY <1>1, <1>3, <1>12, <1>15, <2>1, ServerGoesOn DEF Closed
<1>16. CASE ClearLook(p)
  <2>1. "clear" \in Working /\ "unlink" \in Working
    BY DEF Working
  <2>2. disowned \/ runtime.pid = p
    BY <1>12, <1>16, <2>1 DEF ClearLook
  <2>3. CASE runtime.pid = p
    BY <1>1, <1>3, <1>12, <1>16, <2>1, <2>3, ServerGoesOn DEF ClearLook
  <2>4. CASE disowned /\ runtime.pid # p
    BY <1>1, <1>3, <1>16, <2>4, ServerGoesOn DEF ClearLook
  <2>5. QED BY <2>2, <2>3, <2>4
<1>17. CASE Unlink(p)
  BY <1>1, <1>3, <1>17, ServerGoesOn DEF Unlink
<1>18. CASE ServeEnds(p)
  <2>1. "ended" \notin Working
    BY DEF Working
  <2>2. QED BY <1>4, <1>18, <2>1 DEF ServeEnds
<1>19. QED BY <1>6, <1>7, <1>8, <1>9, <1>10, <1>11, <1>13, <1>14, <1>15, <1>16, <1>17,
              <1>18 DEF ServerStep

-----------------------------------------------------------------------------
(* The other steps of a process.                                           *)

\* The task turns to one that is no maintenance, while no server is at stake.
LEMMA JustTurns ==
    ASSUME IInv, NEW p \in Pid, NEW t \in Task, task' = [task EXCEPT ![p] = t],
           UNCHANGED <<proc, srv, lock, runtime, starts, crashes, disowned, died>>,
           \/ task[p].pc \notin {"none", "starting", "owned", "join"}
           \/ task[p].pc \in {"starting", "owned"} /\ t.pc \in {"owned", "join"},
           t.pc = "replace" => disowned \/ t.reply = "late" \/ t.up = {},
           DesktopOnly(t) => DesktopOnly(task[p])
    PROVE  IInv'
<1>1. TypeInv /\ Turns(p, t)
  BY Turning DEF IInv
<1>5. disowned \/ KindInv'
  BY <1>1 DEF IInv, HostInv, KindInv, KindOf, Turns
<1>2. \/ disowned \/ Server(p) = "no"
      \/ proc[p] = "desktop" /\ t.pc \in {"starting", "owned", "join"}
  BY DEF IInv, HostInv, PlaceInv
<1>3. /\ proc' \in [Pid -> {"none", "foreign", "serve", "desktop", "cli"}]
      /\ starts' \in 0..MaxStarts
  BY <1>1 DEF TypeInv
<1>4. QED BY <1>1, <1>2, <1>3, <1>5, TaskGoesOn

LEMMA TaskInv ==
    ASSUME IInv, NEW p \in Pid, TaskStep(p)
    PROVE  IInv'
<1>1. /\ TypeInv /\ \A q \in Pid : task[q] \in Task
      /\ starts \in 0..MaxStarts /\ crashes \in 0..MaxCrashes /\ died \in BOOLEAN
      /\ lock \in Pid \cup {NoPid}
      /\ proc \in [Pid -> {"none", "foreign", "serve", "desktop", "cli"}]
  BY DEF IInv, TypeInv
<1>2. ~disowned => HostInv /\ KindInv
  BY DEF IInv, HostInv
<1>3. /\ \A pc \in TaskPc : [pc |-> pc] \in Task /\ [pc |-> pc].pc = pc
      /\ task[p].pc \in {"stop", "join", "kill"} => task[p].then \in After
      /\ After \subseteq TaskPc /\ "replace" \notin TaskPc
      /\ {"embed", "spawn", "attach2", "ensure2", "window", "owned", "exit", "starting",
          "wait"} \subseteq TaskPc
  BY <1>1, Tasks DEF TaskPc, After
<1>4. CASE Ping(p)
  <2>1. PICK pc \in {"embed", "spawn", "attach2", "ensure2", "window"} :
          Goto(p, pc) /\ (pc \in {"embed", "attach2"} => DesktopOnly(task[p]))
    BY <1>4 DEF Ping, DesktopOnly
  <2>2. DesktopOnly([pc |-> pc]) => DesktopOnly(task[p])
    BY <2>1 DEF DesktopOnly
  <2>3. [pc |-> pc] \in Task /\ [pc |-> pc].pc # "replace"
    BY <1>3
  <2>4. QED BY <1>4, <2>1, <2>2, <2>3, JustTurns DEF Ping, Goto
<1>5. CASE Outdated(p)
  <2> DEFINE t == [pc |-> "stop", then |-> "embed"]
  <2>1. t \in Task /\ t.pc = "stop"
    BY Tasks DEF After
  <2> HIDE DEF t
  <2>2. task' = [task EXCEPT ![p] = t]
    BY <1>5 DEF Outdated, t
  <2>3. task[p].pc = "attach2" /\ DesktopOnly(task[p])
    BY <1>5 DEF Outdated, Doing, DesktopOnly
  <2>4. QED BY <1>5, <2>1, <2>2, <2>3, JustTurns DEF Outdated
<1>6. CASE Embed(p)
  <2>1. /\ Serves(p, [pc |-> "lock", port |-> "std", quit |-> FALSE])
        /\ "std" \in Port
    BY <1>1, <1>6 DEF Embed, TypeInv, Serves, ServerPc, Port
  <2>2. Turns(p, [pc |-> "starting"]) /\ task[p].pc = "embed"
    BY <1>1, <1>3, <1>6, Going DEF Embed, Doing
  <2>3. disowned \/ (Server(p) = "no" /\ proc[p] = "desktop" /\ KindInv')
    BY <1>2, <1>6, <2>2
       DEF Embed, HostInv, PlaceInv, KindInv, KindOf, DesktopOnly, Turns
  <2>4. /\ task' \in [Pid -> Task] /\ task'[p].pc = "starting"
        /\ \A q \in Pid \ {p} : task'[q] = task[q]
    BY <2>2 DEF Turns
  <2>5. QED BY <1>1, <1>6, <2>1, <2>3, <2>4, ServerBegins DEF Embed
<1>7. CASE Owned(p)
  <2>1. DesktopOnly(task[p]) /\ task[p].pc = "starting"
    BY <1>7 DEF Owned, Doing, DesktopOnly
  <2>2. [pc |-> "owned"] \in Task /\ [pc |-> "owned"].pc = "owned"
    BY <1>3
  <2>3. QED BY <1>7, <2>1, <2>2, JustTurns DEF Owned, Goto
<1>8. ASSUME NEW then \in {"window", "exit", "ensure"}, EmbeddedStop(p, then)
      PROVE  IInv'
  <2> DEFINE t == [pc |-> "join", then |-> then]
  <2>1. t \in Task /\ t.pc = "join"
    BY Tasks DEF After
  <2> HIDE DEF t
  <2>2. Turns(p, t) /\ task[p].pc \in {"starting", "owned"}
    BY <1>1, <1>8, <2>1, Turning DEF EmbeddedStop, t, Doing
  <2>3. disowned \/ (proc[p] = "desktop" /\ KindInv')
    BY <1>2, <1>8, <2>1, <2>2 DEF EmbeddedStop, KindInv, KindOf, DesktopOnly, Turns
  <2>4. QED BY <1>8, <2>1, <2>2, <2>3, ServerIsAsked DEF EmbeddedStop
<1>9. ASSUME task[p].pc = "join", Goto(p, task[p].then)
      PROVE  /\ Turns(p, [pc |-> task[p].then]) /\ task'[p].pc \in After
             /\ disowned \/ (proc' = proc => KindInv')
  <2>1. Turns(p, [pc |-> task[p].then]) /\ task[p].then \in After
    BY <1>1, <1>3, <1>9, Going
  <2>2. task'[p].pc = task[p].then
    BY <2>1 DEF Turns
  <2>3. ~disowned => proc[p] = "desktop"
    BY <1>2, <1>9 DEF KindInv, KindOf, DesktopOnly
  <2>4. QED BY <1>2, <2>1, <2>2, <2>3 DEF KindInv, KindOf, Turns
<1>10. CASE Joined(p)
  <2>1. Serves(p, NoServer)
    BY <1>1, <1>10, Serving1 DEF Joined
  <2>2. /\ task' \in [Pid -> Task] /\ task'[p].pc # "replace"
        /\ \A q \in Pid \ {p} : task'[q] = task[q]
        /\ disowned \/ KindInv'
    BY <1>9, <1>10 DEF Joined, Doing, Turns, After
  <2>3. Server(p) \notin Working
    BY <1>10 DEF Joined, Working
  <2>4. QED BY <1>1, <1>10, <2>1, <2>2, <2>3, ServerIsGone DEF Joined
<1>11. CASE JoinTimesOut(p)
  <2>1. /\ task' \in [Pid -> Task] /\ task'[p].pc # "replace"
        /\ \A q \in Pid \ {p} : task'[q] = task[q]
    BY <1>9, <1>11 DEF JoinTimesOut, Doing, Turns, After
  <2>2. disowned' = TRUE /\ lock' \in {lock, NoPid}
    BY <1>11 DEF JoinTimesOut
  <2>3. TypeInv'
    BY <1>1, <1>11, <2>1, <2>2 DEF JoinTimesOut, TypeInv
  <2>4. QED BY <2>2, <2>3 DEF IInv, GuardSeesServer
<1>12. ASSUME NEW q \in Pid, SpawnChild(p, q)
       PROVE  IInv'
  <2>1. /\ task[p].pc = "spawn" /\ proc[q] = "none"
        /\ proc' = [proc EXCEPT ![q] = "serve"] /\ starts < MaxStarts /\ starts' = starts + 1
        /\ UNCHANGED <<lock, runtime, crashes, disowned, died>>
    BY <1>12 DEF SpawnChild, Spawn, Doing
  <2>2. /\ Turns(p, [pc |-> "wait"])
        /\ Serves(q, [pc |-> "lock", port |-> "std", quit |-> FALSE]) /\ "std" \in Port
    BY <1>1, <1>3, <1>12, Going DEF SpawnChild, Spawn, TypeInv, Serves, ServerPc, Port
  <2>3. /\ task' \in [Pid -> Task] /\ task'[p].pc = "wait"
        /\ \A r \in Pid \ {p} : task'[r] = task[r]
    BY <2>2 DEF Turns
  <2>4. ~disowned => /\ p # q /\ task[q].pc = "none" /\ Server(p) = "no" /\ Server(q) = "no"
                     /\ KindInv'
    <3>1. SUFFICES ASSUME ~disowned
                   PROVE  /\ p # q /\ task[q].pc = "none"
                          /\ Server(p) = "no" /\ Server(q) = "no" /\ KindInv'
      OBVIOUS
    <3>2. p # q /\ task[q].pc = "none" /\ Server(p) = "no" /\ Server(q) = "no"
      BY <1>2, <2>1, <3>1 DEF HostInv, PlaceInv, KindInv, KindOf
    <3>3. /\ \A r \in Pid \ {q} : proc'[r] = proc[r]
          /\ task'[q] = task[q] /\ proc'[q] = "serve"
      BY <1>1, <2>1, <2>3, <3>2
    <3>4. KindInv'
      BY <1>2, <2>1, <2>3, <3>1, <3>2, <3>3 DEF KindInv, KindOf, DesktopOnly
    <3>5. QED BY <3>2, <3>4
  <2>5. /\ proc' \in [Pid -> {"none", "foreign", "serve", "desktop", "cli"}]
        /\ proc'[q] = "serve" /\ \A r \in Pid \ {q} : proc'[r] = proc[r]
        /\ starts' \in 0..MaxStarts
    BY <1>1, <2>1, Numbers
  <2>6. QED BY <2>1, <2>2, <2>3, <2>4, <2>5, ServerBegins
<1>13. CASE WaitEnds(p)
  <2>1. [pc |-> "window"] \in Task /\ ~DesktopOnly([pc |-> "window"])
    BY <1>3 DEF DesktopOnly
  <2>2. QED BY <1>13, <2>1, JustTurns DEF WaitEnds, Goto, Doing
<1>14. CASE StopLook(p)
  <2>1. task[p].pc = "stop" /\ task[p].then \in After
    BY <1>3, <1>14 DEF StopLook, Doing
  <2>2. CASE RuntimeAlive
    <3> DEFINE t == [pc |-> "kill", who |-> runtime.pid, then |-> task[p].then]
    <3>1. t \in Task /\ t.pc = "kill" /\ t.then = task[p].then
      BY <2>1, <2>2, Tasks DEF RuntimeAlive, IsOurs
    <3> HIDE DEF t
    <3>2. task' = [task EXCEPT ![p] = t]
      BY <1>14, <2>2 DEF StopLook, t
    <3>3. DesktopOnly(t) => DesktopOnly(task[p])
      BY <2>1, <3>1 DEF DesktopOnly
    <3>4. QED BY <1>14, <2>1, <3>1, <3>2, <3>3, JustTurns DEF StopLook
  <2>3. CASE ~RuntimeAlive
    <3> DEFINE t == [pc |-> task[p].then]
    <3>1. t \in Task /\ t.pc = task[p].then
      BY <1>3, <2>1
    <3> HIDE DEF t
    <3>2. task' = [task EXCEPT ![p] = t]
      BY <1>14, <2>3 DEF StopLook, t
    <3>3. t.pc # "replace" /\ (DesktopOnly(t) => DesktopOnly(task[p]))
      BY <2>1, <3>1 DEF DesktopOnly, After
    <3>4. QED BY <1>14, <2>1, <3>1, <3>2, <3>3, JustTurns DEF StopLook
  <2>4. QED BY <2>2, <2>3
<1>15. CASE Kill(p)
  <2> DEFINE q == task[p].who
             t == [pc |-> task[p].then]
             graceful == proc[q] = "serve" /\ Server(q) \notin {"lock", "open"}
             dies == IsOurs(q) /\ ~graceful
  <2>1. /\ task[p].pc = "kill" /\ task[p].then \in After /\ q \in Pid
        /\ t \in Task /\ t.pc = task[p].then
    BY <1>1, <1>3, <1>15, Tasks DEF Kill, Doing
  <2>2. t.pc # "replace" /\ (DesktopOnly(t) => DesktopOnly(task[p]))
    BY <2>1 DEF DesktopOnly, After
  <2>3. ~disowned => Server(p) = "no" /\ KindOf(p)
    BY <1>2, <2>1 DEF HostInv, PlaceInv, KindInv
  <2> HIDE DEF t
  <2>4. CASE graceful
    <3>1. /\ task' = [task EXCEPT ![p] = t] /\ srv' = [srv EXCEPT ![q].quit = TRUE]
          /\ UNCHANGED <<proc, lock, runtime, starts, crashes, disowned, died>>
      BY <1>1, <1>15, <2>4 DEF Kill, t
    <3>2. Turns(p, t)
      BY <1>1, <2>1, <3>1, Turning
    <3>3. disowned \/ KindInv'
      BY <1>2, <2>1, <2>2, <3>1, <3>2 DEF KindInv, KindOf, Turns
    <3>4. QED BY <2>1, <2>2, <2>3, <3>1, <3>2, <3>3, ServerIsAsked
  <2>5. CASE dies
    <3>1. /\ task' = [[task EXCEPT ![p] = t] EXCEPT ![q] = NoTask]
          /\ srv' = [srv EXCEPT ![q] = NoServer] /\ proc' = [proc EXCEPT ![q] = "none"]
          /\ lock' = (IF lock = q THEN NoPid ELSE lock)
          /\ died' = (died \/ q \in Serving)
          /\ UNCHANGED <<runtime, starts, crashes, disowned>>
      BY <1>15, <2>5 DEF Kill, t
    <3>2. Serves(q, NoServer)
      BY <1>1, <2>1, <3>1, Serving1
    <3>3. /\ task' \in [Pid -> Task] /\ task'[q].pc = "none"
          /\ \A r \in Pid \ {p, q} : task'[r] = task[r]
          /\ p # q => task'[p] = t
      <4>1. task \in [Pid -> Task] /\ NoTask \in Task /\ NoTask.pc = "none"
        BY <1>1, Tasks DEF TypeInv
      <4>2. QED BY <2>1, <3>1, <4>1
    <3>4. /\ proc' \in [Pid -> {"none", "foreign", "serve", "desktop", "cli"}]
          /\ \A r \in Pid \ {q} : proc'[r] = proc[r]
      BY <1>1, <3>1
    <3>5. disowned \/ KindInv'
      BY <1>2, <2>1, <2>2, <3>3, <3>4 DEF KindInv, KindOf, DesktopOnly
    <3>6. Server(q) \in Working => q \in Serving
      BY <2>1 DEF Serving, Working
    <3>7. \A r \in Pid : task'[r].pc = "replace" => task'[r] = task[r]
      BY <2>2, <3>3
    <3>8. \A r \in Pid \ {q} :
             /\ proc'[r] = proc[r]
             /\ disowned \/ Server(r) = "no" \/ task'[r].pc = task[r].pc
      BY <2>3, <3>3, <3>4
    <3>9. died' \in BOOLEAN /\ lock' \in {lock, NoPid} /\ crashes' \in 0..MaxCrashes
      BY <1>1, <3>1
    <3>10. QED BY <2>1, <3>1, <3>2, <3>3, <3>4, <3>5, <3>6, <3>7, <3>8, <3>9, ServerIsGone
  <2>6. CASE ~graceful /\ ~dies
    <3>1. /\ task' = [task EXCEPT ![p] = t]
          /\ UNCHANGED <<proc, srv, lock, runtime, starts, crashes, disowned, died>>
      BY <1>1, <1>15, <2>6 DEF Kill, t
    <3>2. QED BY <2>1, <2>2, <3>1, JustTurns
  <2>7. QED BY <2>4, <2>5, <2>6
<1>16. CASE MaintenanceGuard(p)
  <2>1. task[p].pc = "guard"
    BY <1>16 DEF MaintenanceGuard, Doing
  <2> PICK reply \in RunningReply :
          task' = [task EXCEPT ![p] =
             IF reply = "ok" THEN [pc |-> "exit"]
             ELSE [pc |-> "replace", reply |-> reply, up |-> {q \in Pid : Server(q) = "up"}]]
    BY <1>16 DEF MaintenanceGuard
  <2>2. CASE reply = "ok"
    <3>1. [pc |-> "exit"] \in Task /\ ~DesktopOnly([pc |-> "exit"])
      BY <1>3 DEF DesktopOnly
    <3>2. QED BY <1>16, <2>1, <2>2, <3>1, JustTurns DEF MaintenanceGuard
  <2>3. CASE reply # "ok"
    <3> DEFINE ups == {q \in Pid : Server(q) = "up"}
               t == [pc |-> "replace", reply |-> reply, up |-> ups]
    <3>0. reply \in {"late", "refused"} /\ (reply = "refused" => ~Answers(Base))
      BY <2>3 DEF RunningReply, Reply
    <3>1. t \in Task /\ t.pc = "replace" /\ t.up = ups /\ t.reply = reply
      BY <3>0, Tasks
    <3>2. ~disowned /\ reply = "refused" => ups = {}
      <4>1. SUFFICES ASSUME ~disowned, reply = "refused", NEW q \in Pid, Server(q) = "up"
                     PROVE  FALSE
        OBVIOUS
      <4>2. runtime = [pid |-> q, port |-> srv[q].port]
        BY <1>2, <4>1 DEF HostInv, NameInv, Working
      <4>3. proc[q] \in Ours
        BY <1>2, <4>1 DEF HostInv, PlaceInv, Ours
      <4>4. Base = srv[q].port
        BY <4>2, <4>3 DEF Base, RuntimeAlive, IsOurs
      <4>5. QED BY <3>0, <4>1, <4>4 DEF Answers
    <3>3. task' = [task EXCEPT ![p] = t]
      BY <2>3
    <3> HIDE DEF t
    <3>4. ~DesktopOnly(t)
      BY <3>1 DEF DesktopOnly
    <3>5. QED BY <1>16, <2>1, <3>0, <3>1, <3>2, <3>3, <3>4, JustTurns DEF MaintenanceGuard
  <2>4. QED BY <2>2, <2>3
<1>17. CASE Maintain(p)
  <2>1. [pc |-> "exit"] \in Task /\ ~DesktopOnly([pc |-> "exit"])
    BY <1>3 DEF DesktopOnly
  <2>2. QED BY <1>17, <2>1, JustTurns DEF Maintain, Goto, Doing
<1>18. QED BY <1>4, <1>5, <1>6, <1>7, <1>8, <1>10, <1>11, <1>12, <1>13, <1>14, <1>15,
              <1>16, <1>17 DEF TaskStep

LEMMA StartInv ==
    ASSUME IInv, NEW p \in Pid, Start(p)
    PROVE  IInv'
<1>1. /\ TypeInv /\ proc \in [Pid -> {"none", "foreign", "serve", "desktop", "cli"}]
      /\ (~disowned => HostInv /\ KindInv) /\ \A q \in Pid : task[q] \in Task
  BY DEF IInv, TypeInv, HostInv
<1>2. /\ proc[p] = "none" /\ starts' \in 0..MaxStarts
      /\ UNCHANGED <<lock, runtime, crashes, disowned, died>>
  BY <1>1, Numbers DEF Start, StartServe, Spawn, Launch
<1>3. ~disowned => Server(p) = "no" /\ task[p].pc = "none"
  BY <1>1, <1>2 DEF HostInv, PlaceInv, KindInv, KindOf
<1>4. ASSUME NEW kind \in {"desktop", "cli", "foreign"}, NEW t \in Task,
             proc' = [proc EXCEPT ![p] = kind], task' = [task EXCEPT ![p] = t],
             srv' = srv, t.pc # "replace", DesktopOnly(t) => kind = "desktop",
             t.pc \notin {"starting", "owned", "join"},
             kind = "foreign" => t.pc = "none"
      PROVE  IInv'
  <2>1. Turns(p, t)
    BY <1>1, <1>4, Turning
  <2>2. /\ proc' \in [Pid -> {"none", "foreign", "serve", "desktop", "cli"}]
        /\ proc'[p] = kind /\ \A q \in Pid \ {p} : proc'[q] = proc[q]
    BY <1>1, <1>4
  <2>3. disowned \/ KindInv'
    BY <1>1, <1>4, <2>1, <2>2 DEF KindInv, KindOf, Turns
  <2>4. QED BY <1>2, <1>3, <1>4, <2>1, <2>2, <2>3, TaskGoesOn
<1>5. ASSUME NEW port \in Port, StartServe(p, port)
      PROVE  IInv'
  <2>1. Serves(p, [pc |-> "lock", port |-> port, quit |-> FALSE])
    BY <1>1, <1>5 DEF StartServe, Spawn, TypeInv, Serves, ServerPc
  <2>2. /\ proc' \in [Pid -> {"none", "foreign", "serve", "desktop", "cli"}]
        /\ proc'[p] = "serve" /\ \A q \in Pid \ {p} : proc'[q] = proc[q]
        /\ task' = task /\ task \in [Pid -> Task]
    BY <1>1, <1>5 DEF StartServe, Spawn, TypeInv
  <2>3. disowned \/ KindInv'
    BY <1>1, <1>3, <2>2 DEF KindInv, KindOf, DesktopOnly
  <2>4. QED BY <1>2, <1>3, <2>1, <2>2, <2>3, ServerBegins
<1>6. ASSUME NEW kind \in {"desktop", "cli", "foreign"},
             NEW pc \in {"attach", "ensure", "guard", "none"}, Launch(p, kind, pc),
             pc = "attach" => kind = "desktop", kind = "foreign" => pc = "none"
      PROVE  IInv'
  <2>1. [pc |-> pc] \in Task /\ [pc |-> pc].pc = pc
    BY Tasks DEF TaskPc
  <2>2. DesktopOnly([pc |-> pc]) => kind = "desktop"
    BY <1>6 DEF DesktopOnly
  <2>3. QED BY <1>4, <1>6, <2>1, <2>2 DEF Launch, Goto
<1>7. ASSUME proc' = [proc EXCEPT ![p] = "cli"],
             task' = [task EXCEPT ![p] = [pc |-> "stop", then |-> "exit"]], srv' = srv
      PROVE  IInv'
  <2> DEFINE t == [pc |-> "stop", then |-> "exit"]
  <2>1. t \in Task /\ t.pc = "stop" /\ t.then = "exit"
    BY Tasks DEF After
  <2> HIDE DEF t
  <2>2. task' = [task EXCEPT ![p] = t] /\ ~DesktopOnly(t)
    BY <1>7, <2>1 DEF t, DesktopOnly
  <2>3. QED BY <1>4, <1>7, <2>1, <2>2
<1>8. QED BY <1>5, <1>6, <1>7 DEF Start

LEMMA EndInv ==
    ASSUME IInv, NEW p \in Pid, Exit(p) \/ Crash(p)
    PROVE  IInv'
<1>1. /\ TypeInv /\ (~disowned => HostInv /\ KindInv)
      /\ crashes \in 0..MaxCrashes /\ died \in BOOLEAN
  BY DEF IInv, TypeInv, HostInv
<1>2. /\ Gone(p) /\ UNCHANGED <<runtime, starts, disowned>>
      /\ crashes' \in 0..MaxCrashes /\ died' \in BOOLEAN /\ (died => died')
  BY <1>1, Numbers DEF Exit, Crash
<1>3. disowned \/ Server(p) \notin Working \/ died'
  <2>1. CASE Crash(p)
    BY <2>1 DEF Crash, Serving, Working
  <2>2. CASE Exit(p)
    BY <1>1, <2>2 DEF Exit, HostInv, PlaceInv, Working
  <2>3. QED BY <2>1, <2>2
<1>4. /\ proc' \in [Pid -> {"none", "foreign", "serve", "desktop", "cli"}]
      /\ \A q \in Pid \ {p} : proc'[q] = proc[q]
      /\ Serves(p, NoServer) /\ Turns(p, NoTask) /\ NoTask.pc = "none"
      /\ lock' \in {lock, NoPid} /\ (lock' = lock \/ lock = p)
  BY <1>1, <1>2, Ending, Tasks
<1>5. /\ task' \in [Pid -> Task] /\ \A q \in Pid \ {p} : task'[q] = task[q]
      /\ task'[p].pc = "none"
  BY <1>4 DEF Turns
<1>6. disowned \/ KindInv'
  BY <1>1, <1>4, <1>5 DEF KindInv, KindOf, DesktopOnly
<1>7. QED BY <1>2, <1>3, <1>4, <1>5, <1>6, ServerIsGone

-----------------------------------------------------------------------------
(* The theorems.                                                           *)

LEMMA InitInv == HostInit => IInv
<1> SUFFICES ASSUME HostInit PROVE IInv
  OBVIOUS
<1>1. TypeInv
  <2>1. NoTask \in Task /\ NoServer \in [pc : ServerPc, port : Port, quit : BOOLEAN]
        /\ NoRuntime \in [pid : Pid \cup {NoPid}, port : Port]
    BY Tasks, Servers
  <2>2. 0 \in 0..MaxStarts /\ 0 \in 0..MaxCrashes
    BY DaemonHostAssumption
  <2>3. QED BY <2>1, <2>2 DEF HostInit, TypeInv
<1>2. \A p \in Pid : Server(p) = "no" /\ task[p].pc = "none"
  BY Tasks, Servers DEF HostInit, Server
<1>3. HostInv
  BY <1>2 DEF HostInit, HostInv, LockInv, PlaceInv, NameInv, OrphanInv, KindInv, KindOf,
              DesktopOnly, Working
<1>4. GuardSeesServer
  BY <1>2 DEF GuardSeesServer, Doing
<1>5. QED BY <1>1, <1>3, <1>4 DEF IInv

\* IInv is an invariant of the processes: one lock, servers in their places,
\* and a daemon.json that names none of them wrongly, until one is disowned.
THEOREM Invariance == HostSpec => []IInv
<1>1. ASSUME IInv, [HostNext]_hostVars
      PROVE  IInv'
  <2>1. CASE UNCHANGED hostVars
    BY <1>1, <2>1 DEF hostVars, IInv, TypeInv, HostInv, LockInv, PlaceInv, NameInv, OrphanInv,
                      KindInv, KindOf, DesktopOnly, GuardSeesServer, Doing, Server
  <2>2. QED BY <1>1, <2>1, StartInv, ServerInv, TaskInv, EndInv DEF HostNext
<1>2. QED BY <1>1, InitInv, PTL DEF HostSpec

\* Two servers never work on one database, unless one has been disowned: the
\* one at work has the lock.
THEOREM ServersAreAlone == HostSpec => []OneServer
<1>1. IInv => OneServer
  <2> SUFFICES ASSUME IInv, ~disowned
               PROVE  Cardinality(Serving) <= 1
    BY DEF OneServer
  <2>1. Serving \in SUBSET {lock}
    BY DEF IInv, HostInv, LockInv, Serving
  <2>2. IsFiniteSet({lock}) /\ Cardinality({lock}) = 1
    BY FS_Singleton
  <2>3. QED BY <2>1, <2>2, FS_Subset
<1>2. QED BY <1>1, Invariance, PTL

\* daemon.json names the server that answers, and is gone when every server
\* has shut down.
THEOREM RuntimeIsTrue == HostSpec => []RuntimeNamesServer
<1>1. IInv => RuntimeNamesServer
  <2> SUFFICES ASSUME IInv, ~disowned
               PROVE  /\ \A p \in Pid : Server(p) = "up" =>
                            runtime = [pid |-> p, port |-> srv[p].port]
                      /\ Serving = {} /\ ~died => runtime = NoRuntime
    BY DEF RuntimeNamesServer
  <2>1. HostInv
    BY DEF IInv
  <2>2. \A p \in Pid : Server(p) \in Working => p \in Serving
    BY DEF Serving, Working
  <2>3. QED BY <2>1, <2>2 DEF HostInv, NameInv, OrphanInv, Working
<1>2. QED BY <1>1, Invariance, PTL

\* Whoever is let through to replace the database had no server that answers
\* beside it, unless the answer was too late.
THEOREM GuardsSeeServers == HostSpec => []GuardSeesServer
<1>1. IInv => GuardSeesServer
  BY DEF IInv
<1>2. QED BY <1>1, Invariance, PTL
=============================================================================
