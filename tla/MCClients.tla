----------------------------- MODULE MCClients -----------------------------
(***************************************************************************)
(* Small instances of the user's side, whose parts share no state: the     *)
(* desktop windows (DesktopShell), the desktop's notifications             *)
(* (EventFeed), the terminal interface (TuiConnect, TuiTables) and the     *)
(* page of the products (ShopPage).  One run checks them all: the scene,   *)
(* chosen at the start, is the part that moves, while the others stay in   *)
(* one initial state, in which none of their fair steps is enabled.        *)
(***************************************************************************)
EXTENDS DesktopShell, EventFeed, TuiConnect, TuiTables, ShopPage

VARIABLE scene

Scenes == {"windows", "feed", "connect", "tables", "shop"}

clientVars == <<shellVars, feedVars, connectVars, tuiVars, shopVars, scene>>

(* Every product of the shop page differs in what decides where it shows:  *)
(* listed under one family and titled like another, named by a label or by *)
(* the shop's data, with a material for a colour, without a price.         *)
MCFacts ==
    LET Sample(shelf, title, model, color, label, raw, ram, price) ==
          [shelf |-> shelf, title |-> title, model |-> model, color |-> color,
           label |-> label, raw |-> raw, ram |-> ram, price |-> price]
    IN <<Sample("mac", {"Mac", "MacBook Pro"}, "macbookpro", "silver", "none", <<>>, "16gb", 3),
         Sample("mac", {"Mac"}, "macbookair", "none", "yellowLabel", <<>>, "none", 2),
         Sample("ipad", {"iPad"}, "ipadair", "aluminum", "grayLabel",
                [color |-> "spacegray"], "none", 2),
         Sample("ipad", {"iPad"}, "ipadair", "yellow", "none", <<>>, "none", 0),
         Sample("accessories", {"Studio Display"}, "display", "none", "none", <<>>, "none", 1)>>

\* The feed of the other scenes: its thread has ended.
FeedAtRest ==
    /\ appeared = {} /\ others = {} /\ lastId = 0
    /\ poller = "stopped" /\ cursor = 0 /\ rows = <<>>
    /\ notifyOn = FALSE /\ stopPoll = TRUE /\ told = <<>>

ClientsInit ==
    /\ scene \in Scenes
    /\ ShellInit /\ ConnectInit /\ TuiInit /\ ShopInit
    /\ scene # "shop" => inStock = {} /\ wanted = {"mac"}
    /\ IF scene = "feed" THEN FeedInit ELSE FeedAtRest

ClientsNext ==
    \/ /\ scene = "windows" /\ ShellNext
       /\ UNCHANGED <<feedVars, connectVars, tuiVars, shopVars, scene>>
    \/ /\ scene = "feed" /\ FeedNext
       /\ UNCHANGED <<shellVars, connectVars, tuiVars, shopVars, scene>>
    \/ /\ scene = "connect" /\ ConnectNext
       /\ UNCHANGED <<shellVars, feedVars, tuiVars, shopVars, scene>>
    \/ /\ scene = "tables" /\ TuiNext
       /\ UNCHANGED <<shellVars, feedVars, connectVars, shopVars, scene>>
    \/ /\ scene = "shop" /\ ShopNext
       /\ UNCHANGED <<shellVars, feedVars, connectVars, tuiVars, scene>>

ClientsSpec ==
    ClientsInit /\ [][ClientsNext]_clientVars /\ ShellFairness /\ FeedFairness
=============================================================================
