----------------------------- MODULE MCService -----------------------------
(***************************************************************************)
(* Small instances of the parts of the service that share no state:        *)
(* DaemonHost, DataFile, LiveSettings and StatusView.  One run checks them *)
(* all.  The scene, chosen at the start, is the part that moves; the       *)
(* others stay in one initial state.  So the run has the sum of the state  *)
(* spaces, and each property its part's own.  The settings move in two     *)
(* scenes: forms and calls that overlap, and calls under the access check. *)
(***************************************************************************)
EXTENDS DaemonHost, DataFile, LiveSettings, StatusView, TLC

VARIABLE scene

Scenes == {"daemon", "file", "forms", "access", "status"}

serviceVars == <<hostVars, dataVars, settingsVars, statusVars, scene>>

Rest ==
    /\ scene # "file" => file = NewFile /\ copy = NoFile
    /\ scene \notin {"forms", "access"} => store.token = "none" /\ ~store.lan
    /\ scene # "status" => listings = {}

ServiceInit ==
    /\ HostInit /\ DataInit /\ SettingsInit /\ StatusInit
    /\ scene \in Scenes
    /\ Rest

SettingsMove ==
    /\ SettingsNext
    /\ scene = "forms" => UNCHANGED visitor
    /\ scene = "access" => \A w \in Writer : writer'[w].pc # "page"

ServiceNext ==
    \/ /\ scene = "daemon" /\ HostNext
       /\ UNCHANGED <<dataVars, settingsVars, statusVars, scene>>
    \/ /\ scene = "file" /\ DataNext
       /\ UNCHANGED <<hostVars, settingsVars, statusVars, scene>>
    \/ /\ scene \in {"forms", "access"} /\ SettingsMove
       /\ UNCHANGED <<hostVars, dataVars, statusVars, scene>>
    \/ /\ scene = "status" /\ StatusNext
       /\ UNCHANGED <<hostVars, dataVars, settingsVars, scene>>

ServiceSpec == ServiceInit /\ [][ServiceNext]_serviceVars

\* Requests that change settings, threads that answer, and the channels, of
\* which no definition picks one, are interchangeable.
ServiceSymmetry ==
    Permutations(Writer) \union Permutations(Reader) \union Permutations(Channel)
=============================================================================
