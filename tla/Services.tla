-------------------------------- MODULE Services --------------------------------
(***************************************************************************)
(* The network manager and a feed in the firmware: setup (src/main.cpp)    *)
(* starts the network, waits until it is up, opens the admin panel, starts *)
(* the feeds and constructs their views.  An answer of a server needs the  *)
(* station to be online.                                                   *)
(*                                                                         *)
(* The panel's page can be opened while setup still connects the mail      *)
(* notifiers: it then reads a cache whose semaphore does not exist, which  *)
(* is an assertion of FreeRTOS, and the firmware restarts.                 *)
(***************************************************************************)
EXTENDS Naturals, Sequences

CONSTANTS Room, Changes, Versions,
          Restarts      \* bound: restarts

ASSUME ServicesAssumption ==
    Room \in Nat \ {0} /\ Changes \in Nat /\ Versions \in Nat \ {0} /\ Restarts \in Nat

VARIABLES
    credentials, inRange, changes, mode, link, events, handler, status, ap_started,
    has_ip, initial_connection_succeeded, initial_connection_ongoing,
    feed, latest, task, answer, sem, first, second, fresh, view, shown,
    setup,          \* where setup is: "network", "wait", "panel", "views", "loop"
    restarts

Net == INSTANCE NetworkManager
Feed == INSTANCE Feeds

radio == <<mode, link, events, handler, status, ap_started>>
flags == <<has_ip, initial_connection_succeeded, initial_connection_ongoing>>
netVars == <<radio, flags, credentials, inRange, changes>>
feedVars == <<feed, latest, task, answer, sem, first, second, fresh, view, shown>>
vars == <<netVars, feedVars, setup, restarts>>

TypeOK ==
    /\ Net!TypeOK /\ Feed!TypeOK
    /\ setup \in {"network", "wait", "panel", "views", "loop"}
    /\ restarts \in 0 .. Restarts
    \* The network is up before anything asks for it.
    /\ setup \in {"network", "wait"} => task = "none"

Init == Net!Init /\ Feed!Init /\ setup = "network" /\ restarts = 0

\* Where setup goes, and what it leaves alone.
SetupAt(from, to) == setup = from /\ setup' = to /\ UNCHANGED restarts

Startup == SetupAt("network", "wait") /\ Net!startup /\ UNCHANGED feedVars
Proceed == SetupAt("wait", "panel") /\ Net!is_up /\ UNCHANGED <<netVars, feedVars>>
StartFeeds == SetupAt("panel", "views") /\ Feed!start /\ UNCHANGED netVars
ConstructViews == SetupAt("views", "loop") /\ Feed!Construct /\ UNCHANGED netVars

Setup == Startup \/ Proceed \/ StartFeeds \/ ConstructViews

\* The radio is off and RAM is empty; the preferences are as they were saved.
Restart ==
    /\ restarts < Restarts
    /\ restarts' = restarts + 1
    /\ setup' = "network"
    /\ mode' = "off" /\ link' = "idle" /\ events' = <<>> /\ handler' = "idle"
    /\ status' = FALSE /\ ap_started' = FALSE /\ has_ip' = FALSE
    /\ initial_connection_succeeded' = FALSE /\ initial_connection_ongoing' = FALSE
    /\ UNCHANGED <<inRange, changes>>
    /\ Feed!Reset

PanelIsUp == setup \in {"panel", "views", "loop"}

\* The page of the panel reads the cache.
OpenPage == PanelIsUp /\ sem = "none" /\ Restart /\ UNCHANGED credentials

\* A network is entered into the panel: the name is saved, then the password;
\* the reboot button is another request, and the power may fail at any time.
SaveName ==
    /\ PanelIsUp /\ credentials = "none"
    /\ credentials' = "ssid"
    /\ UNCHANGED <<radio, flags, inRange, changes, feedVars, setup, restarts>>
SavePassword ==
    /\ PanelIsUp /\ credentials = "ssid"
    /\ credentials' = "both"
    /\ UNCHANGED <<radio, flags, inRange, changes, feedVars, setup, restarts>>
Reboot == setup # "network" /\ Restart /\ UNCHANGED credentials

Radio == Net!NetNext /\ UNCHANGED <<feedVars, setup, restarts>>

FeedTask == Feed!TaskNext /\ (task = "get" /\ task' = "take" => Net!Online)
FeedStep ==
    /\ FeedTask \/ Feed!ViewNext \/ Feed!NewVersion
    /\ UNCHANGED <<netVars, setup, restarts>>

Next == Setup \/ OpenPage \/ SaveName \/ SavePassword \/ Reboot \/ Radio \/ FeedStep

\* setup polls is_up for ever.  Of the answers of the server it is assumed that
\* they do not fail for ever while the station is online.
Answered == Feed!Fetch(TRUE) /\ Net!Online /\ UNCHANGED <<netVars, setup, restarts>>
Fairness ==
    /\ WF_vars(Setup) /\ Net!NetFairness
    /\ WF_vars(FeedTask /\ UNCHANGED <<netVars, setup, restarts>>)
    /\ SF_vars(Feed!ViewNext /\ UNCHANGED <<netVars, setup, restarts>>)
    /\ SF_vars(Answered)

Spec == Init /\ [][Next]_vars /\ Fairness
-------------------------------------------------------------------------------
\* No order of events leaves the station alone: see NetworkManager.
SomeoneRetries == Net!SomeoneRetries

\* The board never shows parts of two answers of the server: see Feeds.
ShownWhole == Feed!ShownWhole

\* A view that sees no reason to draw has drawn what is in the cache: see Feeds.
ShownCurrent == Feed!ShownCurrent

\* Intervals are slept as entered, up to 71 minutes, and never longer: see Feeds.
IntervalsKept == Feed!IntervalsKept

(***************************************************************************)
(* setup gets past its wait for the network again and again, whatever the  *)
(* preferences hold and however the initial attempt ends: in the saved     *)
(* network or in the access point.  The one exception is a network that    *)
(* gave an address and stays away: then the firmware neither waits for the *)
(* access point nor gives up.                                              *)
(***************************************************************************)
SetupGoesOn == []<>PanelIsUp \/ <>[](initial_connection_succeeded /\ ~inRange)

(***************************************************************************)
(* If the firmware was ever let into the network, and this is in range     *)
(* from some time on, the board comes to show the server's last answer and *)
(* keeps showing it: losses and failed requests are made up for.           *)
(***************************************************************************)
Refreshed ==
    <>[](initial_connection_succeeded /\ inRange) => <>[](shown = <<latest, latest>>)
===============================================================================
