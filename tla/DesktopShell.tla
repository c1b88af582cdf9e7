---------------------------- MODULE DesktopShell ----------------------------
(***************************************************************************)
(* Desktop windows (desktop.py): a second start kills an older window or   *)
(* asks the running one to show itself; and the end of a window, which the *)
(* main thread, the thread that starts a new window after a change of      *)
(* server, and the thread that forces the exit all clean up.               *)
(*                                                                         *)
(* desktop.lock is a file lock with the owner's pid and version as text;   *)
(* taking it, writing the pid and writing the version are three steps.     *)
(* desktop.signal is modelled by its modification time.  The embedded      *)
(* server is up, gone, or left running when stop() no longer waits.        *)
(*                                                                         *)
(* An operator whose comment starts with "Mutant" is no part of the        *)
(* specification: it is the definition below it with a plausible bug.      *)
(***************************************************************************)
EXTENDS Integers, FiniteSets

CONSTANTS
    Window,        \* desktop processes, each of which runs once
    Newer,         \* those of them that are of the newer package
    Nobody         \* no process

ASSUME DesktopShellAssumption == Newer \subseteq Window /\ Nobody \notin Window

Version(p) == IF p \in Newer THEN 2 ELSE 1
NoSignal == 0

VARIABLES
    stage,            \* main thread of each window
    victim,        \* the pid read from desktop.lock
    deskLock,      \* owner of desktop.lock
    meta,          \* text of desktop.lock: pid, and version or 0
    signal,        \* modification time of desktop.signal
    now,           \* clock: counts starts and signals
    started, last, \* process_started, and watch_signal's last mtime
    ui,            \* hidden, hide, exiting of the session
    server,        \* the embedded server: "no", "up", "left"
    helper,        \* the relaunching or forcing thread: its purpose and place
    tidy           \* cleanup: who runs it and what is next

shellVars == <<stage, victim, deskLock, meta, signal, now, started, last, ui,
               server, helper, tidy>>

startVars == <<victim, deskLock, meta, signal, now, started, last>>
endVars == <<ui, server, helper, tidy>>

Off == {"off", "done"}
Untidied == [by |-> "nobody", next |-> "server"]
NoHelper == [for |-> "none", at |-> "none"]

Go(p, to) == stage' = [stage EXCEPT ![p] = to]

-----------------------------------------------------------------------------
(* take_desktop_lock.                                                      *)

WindowStarts(p) ==
    /\ stage[p] = "off"
    /\ Go(p, "try")
    /\ now' = now + 1
    /\ started' = [started EXCEPT ![p] = now + 1]
    /\ UNCHANGED <<victim, deskLock, meta, signal, last>>

OpenWindow(p) == WindowStarts(p) /\ UNCHANGED endVars

(* acquire_lock: taken, or on to what a busy lock means at this point.     *)
Acquire(p) ==
    /\ stage[p] \in {"try", "again", "retry"}
    /\ \/ /\ deskLock = Nobody
          /\ deskLock' = p
          /\ Go(p, "write")
       \/ /\ deskLock # Nobody
          /\ UNCHANGED deskLock
          /\ Go(p, CASE stage[p] = "try" -> "look" [] stage[p] = "again" -> "done"
                     [] OTHER -> "signal")
    /\ UNCHANGED <<victim, meta, signal, now, started, last>> /\ UNCHANGED endVars

(* acquire_lock writes the pid, stamp_desktop_lock pid and version. *)
WriteMeta(p) ==
    /\ stage[p] \in {"write", "stamp"}
    /\ meta' = [pid |-> p, ver |-> IF stage[p] = "write" THEN 0 ELSE Version(p)]
    /\ Go(p, IF stage[p] = "write" THEN "stamp" ELSE "attach")
    /\ UNCHANGED <<victim, deskLock, signal, now, started, last>> /\ UNCHANGED endVars

(* An owner without or with an older version is to be stopped. *)
ReadMeta(p) ==
    /\ stage[p] = "look"
    /\ LET older == meta.ver < Version(p) /\ meta.pid \in Window \ {p}
       IN /\ Go(p, IF older THEN "kill" ELSE "retry")
          /\ victim' = [victim EXCEPT ![p] = IF older THEN meta.pid ELSE Nobody]
    /\ UNCHANGED <<deskLock, meta, signal, now, started, last>> /\ UNCHANGED endVars

Ended(q) ==
    /\ server' = [server EXCEPT ![q] = "no"]
    /\ helper' = [helper EXCEPT ![q] = NoHelper]
    /\ tidy' = [tidy EXCEPT ![q] = Untidied]
    /\ deskLock' = IF deskLock = q THEN Nobody ELSE deskLock

KillOwner(p) ==
    /\ stage[p] = "kill"
    /\ LET q == victim[p] IN
       IF stage[q] \in Off
       THEN Go(p, "again") /\ UNCHANGED <<deskLock, server, helper, tidy>>
       ELSE stage' = [stage EXCEPT ![p] = "again", ![q] = "done"] /\ Ended(q)
    /\ UNCHANGED <<victim, meta, signal, now, started, last, ui>>

SignalWindow(p) ==
    /\ stage[p] = "signal"
    /\ now' = now + 1
    /\ signal' = now + 1
    /\ Go(p, "done")
    /\ UNCHANGED <<victim, deskLock, meta, started, last>> /\ UNCHANGED endVars

-----------------------------------------------------------------------------
(* run_desktop.                                                            *)

(* Mutant: watch_signal counts from the time at which it begins to look.   *)
LastWhenReady(p) == now

FirstLast(p) == started[p]

(* attach_runtime: connected or not, with an embedded server or without;   *)
(* without connection, and if the settings say so, closing means leaving.  *)
Attach(p) ==
    /\ stage[p] = "attach"
    /\ \E owned, hide, hidden \in BOOLEAN :
          /\ server' = [server EXCEPT ![p] = IF owned THEN "up" ELSE "no"]
          /\ ui' = [ui EXCEPT ![p] = [@ EXCEPT !.hide = hide, !.hidden = hidden]]
    /\ Go(p, "loop")
    /\ last' = [last EXCEPT ![p] = FirstLast(p)]
    /\ UNCHANGED <<victim, deskLock, meta, signal, now, started, helper, tidy>>

(* attach_runtime raised: clean up and leave. *)
AttachFails(p) ==
    /\ stage[p] = "attach"
    /\ Go(p, "tidy")
    /\ UNCHANGED startVars /\ UNCHANGED endVars

(* No webview: the server is stopped for an independent daemon, the page   *)
(* opens in the browser, and the process leaves.                           *)
Fallback(p) ==
    /\ stage[p] = "loop"
    /\ Go(p, "tidy")
    /\ \E after \in {"no", "left"} :
          server' = [server EXCEPT ![p] = IF @ = "up" THEN after ELSE @]
    /\ UNCHANGED startVars /\ UNCHANGED <<ui, helper, tidy>>

(* consume_desktop_signal: a file from before the start is removed, a      *)
(* newer one is removed and the window shown.                              *)
PollSignal(p) ==
    /\ stage[p] = "loop"
    /\ tidy[p].by = "nobody"
    /\ signal # NoSignal
    /\ signal <= started[p] \/ signal > last[p]
    /\ signal' = NoSignal
    /\ last' = [last EXCEPT ![p] = IF signal <= started[p] THEN @ ELSE signal]
    /\ ui' = [ui EXCEPT ![p].hidden = @ /\ signal <= started[p]]
    /\ UNCHANGED <<stage, victim, deskLock, meta, now, started, server, helper, tidy>>

(* handle_window_closing: to the tray, or clean up and leave. *)
Close(p) ==
    /\ stage[p] = "loop"
    /\ IF ui[p].hide /\ ~ui[p].exiting
       THEN ui' = [ui EXCEPT ![p].hidden = TRUE] /\ UNCHANGED stage
       ELSE Go(p, "tidy") /\ UNCHANGED ui
    /\ UNCHANGED startVars /\ UNCHANGED <<server, helper, tidy>>

(* quit_app and schedule_relaunch start a thread; both destroy the window, *)
(* which ends the main thread's loop.                                      *)
Depart(p, for) ==
    /\ stage[p] = "loop"
    /\ helper[p] = NoHelper
    /\ helper' = [helper EXCEPT ![p] = [for |-> for, at |-> "destroy"]]
    /\ UNCHANGED startVars /\ UNCHANGED <<stage, ui, server, tidy>>

Destroy(p) ==
    /\ helper[p].at = "destroy"
    /\ helper' = [helper EXCEPT ![p].at = "tidy"]
    /\ ui' = [ui EXCEPT ![p] = [@ EXCEPT !.exiting = TRUE, !.hide = FALSE]]
    /\ IF stage[p] = "loop" THEN Go(p, "tidy") ELSE UNCHANGED stage
    /\ UNCHANGED startVars /\ UNCHANGED <<server, tidy>>

-----------------------------------------------------------------------------
(* cleanup.                                                                *)

(* `if self.cleaned: return': whoever comes first does the work. *)
TidyMain(p) ==
    /\ stage[p] = "tidy"
    /\ IF tidy[p].by = "nobody"
       THEN tidy' = [tidy EXCEPT ![p].by = "main"] /\ Go(p, "tidying")
       ELSE Go(p, "leave") /\ UNCHANGED tidy
    /\ UNCHANGED startVars /\ UNCHANGED <<ui, server, helper>>

TidyHelper(p) ==
    /\ helper[p].at = "tidy"
    /\ IF tidy[p].by = "nobody"
       THEN /\ tidy' = [tidy EXCEPT ![p].by = "helper"]
            /\ helper' = [helper EXCEPT ![p].at = "tidying"]
       ELSE helper' = [helper EXCEPT ![p].at = "go"] /\ UNCHANGED tidy
    /\ UNCHANGED startVars /\ UNCHANGED <<stage, ui, server>>

(* Mutant: the lock is released before the server is stopped. *)
LockFirst(p) == IF tidy[p].next = "server" THEN "lock" ELSE "server"

NextTidy(p) == tidy[p].next

Working(p) == stage[p] = "tidying" \/ helper[p].at = "tidying"

StopServer(p) ==
    /\ \E after \in {"no", "left"} :
          server' = [server EXCEPT ![p] = IF @ = "up" THEN after ELSE @]
    /\ UNCHANGED deskLock

ReleaseLock(p) ==
    /\ deskLock' = IF deskLock = p THEN Nobody ELSE deskLock
    /\ UNCHANGED server

TidyStep(p) ==
    /\ Working(p)
    /\ IF NextTidy(p) = "server" THEN StopServer(p) ELSE ReleaseLock(p)
    /\ IF tidy[p].next = "server"
       THEN tidy' = [tidy EXCEPT ![p].next = "lock"] /\ UNCHANGED <<stage, helper>>
       ELSE /\ tidy' = [tidy EXCEPT ![p].next = "end"]
            /\ IF tidy[p].by = "main" THEN Go(p, "leave") /\ UNCHANGED helper
               ELSE helper' = [helper EXCEPT ![p].at = "go"] /\ UNCHANGED stage
    /\ UNCHANGED <<victim, meta, signal, now, started, last, ui>>

(* The main thread returns and takes its daemon threads along. *)
MainReturns(p) ==
    /\ stage[p] = "leave"
    /\ Go(p, "done")
    /\ Ended(p)
    /\ UNCHANGED <<victim, meta, signal, now, started, last, ui>>

(* relaunch_desktop, or os._exit. *)
Relaunch(p, q) ==
    /\ helper[p] = [for |-> "relaunch", at |-> "go"]
    /\ WindowStarts(q)
    /\ helper' = [helper EXCEPT ![p].at = "none"]
    /\ UNCHANGED <<ui, server, tidy>>

ForceExit(p) ==
    /\ helper[p] = [for |-> "force", at |-> "go"]
    /\ Go(p, "done")
    /\ Ended(p)
    /\ UNCHANGED <<victim, meta, signal, now, started, last, ui>>

-----------------------------------------------------------------------------

ShellInit ==
    /\ stage = [p \in Window |-> "off"]
    /\ victim = [p \in Window |-> Nobody]
    /\ deskLock = Nobody
    /\ meta = [pid |-> Nobody, ver |-> 0]
    /\ signal = NoSignal
    /\ now = 0
    /\ started = [p \in Window |-> 0]
    /\ last = [p \in Window |-> 0]
    /\ ui = [p \in Window |-> [hidden |-> FALSE, hide |-> TRUE, exiting |-> FALSE]]
    /\ server = [p \in Window |-> "no"]
    /\ helper = [p \in Window |-> NoHelper]
    /\ tidy = [p \in Window |-> Untidied]

WindowStep(p) ==
    \/ Acquire(p) \/ WriteMeta(p) \/ ReadMeta(p) \/ KillOwner(p) \/ SignalWindow(p)
    \/ Attach(p) \/ AttachFails(p) \/ Fallback(p) \/ Close(p)
    \/ \E for \in {"relaunch", "force"} : Depart(p, for)
    \/ Destroy(p) \/ TidyMain(p) \/ TidyHelper(p) \/ TidyStep(p) \/ MainReturns(p)
    \/ \E q \in Window : Relaunch(p, q)
    \/ ForceExit(p)

ShellNext == \E p \in Window : OpenWindow(p) \/ WindowStep(p) \/ PollSignal(p)

(* watch_signal looks once a second as long as the session lives. *)
ShellFairness == \A p \in Window : WF_shellVars(PollSignal(p))

ShellSpec == ShellInit /\ [][ShellNext]_shellVars /\ ShellFairness

-----------------------------------------------------------------------------
(* Properties.                                                             *)

(* A window gets desktop.lock only when no other window has a server that  *)
(* nobody is stopping: whichever thread cleans up, the server is stopped,  *)
(* or its stop has timed out, before the lock is free (desktop.py 709).    *)
ServerEndsBeforeLock ==
    \A p, q \in Window : p # q /\ deskLock = p => server[q] # "up"

(* A window that was started hidden or sent to the tray is shown after     *)
(* another start has asked for it, also when it was still starting then    *)
(* (desktop.py 380), unless it leaves.                                     *)
SignalShows ==
    \A p \in Window :
        (stage[p] = "loop" /\ deskLock = p /\ signal > started[p])
        ~> (~ui[p].hidden \/ stage[p] # "loop" \/ tidy[p].by # "nobody")
=============================================================================
