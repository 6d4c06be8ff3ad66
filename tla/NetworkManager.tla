----------------------------- MODULE NetworkManager -----------------------------
(***************************************************************************)
(* The network manager (src/network/netmgr.cpp): the attempt at boot to    *)
(* join the saved network, the access point it falls back to, and the      *)
(* attempts to join again after a loss.                                    *)
(*                                                                         *)
(* wifi_event runs in the event task of the WiFi library, one event after  *)
(* the other, and sleeps there for five seconds before it joins again.     *)
(* The library is external: it queues an event for what happens to the     *)
(* station, which waits while the queue is full; it sets WiFi.status() when *)
(* it takes the event from the queue, and may then try again itself, by a   *)
(* disconnect and a begin.  WiFi.begin for the network the station is       *)
(* joining or in does nothing.  connect() is called by nobody.              *)
(***************************************************************************)
EXTENDS Naturals, Sequences

CONSTANTS
    Room,       \* events the queue holds
    Changes     \* bound: how often the network comes into or out of range

VARIABLES
    credentials,    \* what the preferences hold: "none", "ssid" (no password), "both"
    inRange,        \* whether the saved network can be joined (external)
    changes,        \* how often that has changed
    mode,           \* WiFi.getMode(): "off", "sta" or "ap"
    link,           \* the station, as the driver has it
    events,         \* events the event task has not handled; "lost" and "left" are
                    \* both STA_DISCONNECTED, the second at the firmware's own wish
    handler,        \* whether wifi_event sleeps
    status,         \* WiFi.status() is WL_CONNECTED
    ap_started,     \* AP_STARTED_BIT
    has_ip, initial_connection_succeeded, initial_connection_ongoing

radio == <<mode, link, events, handler, status, ap_started>>
flags == <<has_ip, initial_connection_succeeded, initial_connection_ongoing>>
world == <<credentials, inRange, changes>>
netVars == <<radio, flags, world>>

TypeOK ==
    /\ credentials \in {"none", "ssid", "both"}
    /\ inRange \in BOOLEAN /\ changes \in 0 .. Changes
    /\ mode \in {"off", "sta", "ap"}
    /\ link \in {"idle", "joining", "joined", "addressed"}
    /\ events \in Seq({"lost", "left", "got_ip", "ap_start"})
    /\ handler \in {"idle", "delay"}
    /\ {status, ap_started, has_ip, initial_connection_succeeded,
        initial_connection_ongoing} \subseteq BOOLEAN
    \* The station is used in its mode only, and the queue is short.
    /\ link # "idle" => mode = "sta"
    /\ Len(events) <= Room + 2

PowerOn ==
    /\ mode = "off" /\ link = "idle" /\ events = <<>> /\ handler = "idle"
    /\ status = FALSE /\ ap_started = FALSE
    /\ has_ip = FALSE /\ initial_connection_succeeded = FALSE
    /\ initial_connection_ongoing = FALSE

Init ==
    /\ credentials \in {"none", "ssid", "both"}
    /\ inRange \in BOOLEAN /\ changes = 0
    /\ PowerOn

\* Mutated form: an access point does not count.
is_up_station == mode = "sta" /\ status /\ has_ip

is_up == \/ mode = "sta" /\ status /\ has_ip
         \/ mode = "ap" /\ ap_started

Online == link = "addressed"

\* Mutated form: the station is not disconnected.
ap_fallback_joined(queue, l) ==
    /\ mode' = "ap" /\ link' = l
    /\ events' = queue \o (IF mode # "ap" THEN <<"ap_start">> ELSE <<>>)

\* ap_fallback, called with what is left of the queue and the link at the call.
ap_fallback(queue, l) ==
    /\ mode' = "ap" /\ link' = "idle"
    /\ events' = queue \o (IF l # "idle" THEN <<"left">> ELSE <<>>)
                       \o (IF mode # "ap" THEN <<"ap_start">> ELSE <<>>)

startup ==
    /\ initial_connection_succeeded' = FALSE
    /\ IF credentials # "none"
       THEN /\ initial_connection_ongoing' = TRUE
            /\ mode' = "sta" /\ link' = "joining"
            /\ UNCHANGED events
       ELSE /\ ap_fallback(events, link)
            /\ UNCHANGED initial_connection_ongoing
    /\ UNCHANGED <<handler, status, ap_started, has_ip, world>>
-------------------------------------------------------------------------------
(* The station and its surroundings (external). *)

Move(l, queued) ==
    /\ Len(events) + Len(queued) <= Room
    /\ link' = l
    /\ events' = events \o queued
    /\ UNCHANGED <<mode, handler, status, ap_started, flags, world>>

Reachable == inRange /\ credentials = "both"

Join == link = "joining" /\ Reachable /\ Move("joined", <<>>)
JoinFails == link = "joining" /\ ~Reachable /\ Move("idle", <<"lost">>)
GetAddress == link = "joined" /\ inRange /\ Move("addressed", <<"got_ip">>)
Lose == link \in {"joined", "addressed"} /\ ~inRange /\ Move("idle", <<"lost">>)

RangeChanges ==
    /\ changes < Changes
    /\ changes' = changes + 1 /\ inRange' = ~inRange
    /\ UNCHANGED <<credentials, radio, flags>>
-------------------------------------------------------------------------------
(* wifi_event. *)

GotIp ==
    /\ handler = "idle" /\ events # <<>> /\ Head(events) = "got_ip"
    /\ events' = Tail(events)
    /\ status' = TRUE /\ has_ip' = TRUE
    /\ IF initial_connection_ongoing
       THEN /\ initial_connection_succeeded' = TRUE
            /\ UNCHANGED credentials
       ELSE /\ credentials' = "both"            \* save_current_network
            /\ UNCHANGED initial_connection_succeeded
    /\ UNCHANGED <<initial_connection_ongoing, mode, link, handler, ap_started, inRange, changes>>

\* Mutated form: an attempt that fails is no connection that is lost.
DisconnectedOnce ==
    /\ handler = "idle" /\ events # <<>> /\ Head(events) \in {"lost", "left"}
    /\ status' = FALSE
    /\ IF initial_connection_succeeded
       THEN /\ handler' = IF status THEN "delay" ELSE handler
            /\ events' = Tail(events)
            /\ UNCHANGED <<mode, link>>
       ELSE /\ ap_fallback(Tail(events), link)
            /\ UNCHANGED handler
    /\ UNCHANGED <<ap_started, flags, world>>

\* The library's own attempt, if it makes one, comes before the handler.
Disconnected ==
    /\ handler = "idle" /\ events # <<>> /\ Head(events) \in {"lost", "left"}
    /\ status' = FALSE
    /\ \E retry \in {FALSE, Head(events) = "lost" /\ mode = "sta"} :
          LET l == IF retry THEN "joining" ELSE link
              queue == Tail(events) \o (IF retry /\ link # "idle" THEN <<"left">> ELSE <<>>)
          IN  IF initial_connection_succeeded
              THEN /\ handler' = "delay"
                   /\ link' = l /\ events' = queue
                   /\ UNCHANGED mode
              ELSE /\ ap_fallback(queue, l)
                   /\ UNCHANGED handler
    /\ UNCHANGED <<ap_started, flags, world>>

\* The five seconds are over.
AfterDelay ==
    /\ handler = "delay"
    /\ handler' = "idle"
    /\ mode' = "sta"
    /\ link' = IF link = "idle" THEN "joining" ELSE link
    /\ UNCHANGED <<events, status, ap_started, flags, world>>

\* Any other event changes nothing but the library's status bits.
Unhandled ==
    /\ handler = "idle" /\ events # <<>> /\ Head(events) = "ap_start"
    /\ events' = Tail(events)
    /\ ap_started' = TRUE
    /\ UNCHANGED <<mode, link, handler, status, flags, world>>

wifi_event == GotIp \/ Disconnected \/ AfterDelay \/ Unhandled

NetNext == Join \/ JoinFails \/ GetAddress \/ Lose \/ RangeChanges \/ wifi_event

\* The event task goes on, an attempt ends, a network the station is in gives it
\* an address, and one that has gone is noticed.
NetFairness ==
    /\ WF_netVars(wifi_event)
    /\ WF_netVars(Join) /\ WF_netVars(JoinFails)
    /\ WF_netVars(GetAddress) /\ WF_netVars(Lose)
-------------------------------------------------------------------------------
(***************************************************************************)
(* Only wifi_event joins again.  Once an initial connection has succeeded, *)
(* a station that is not even trying has an event queued, or a handler at  *)
(* work, that will: no order of events leaves it alone.  And none makes it *)
(* try after ap_fallback, which has replaced the name of the network by    *)
(* that of the access point.                                               *)
(***************************************************************************)
SomeoneRetries ==
    initial_connection_succeeded =>
        /\ mode = "sta"
        /\ link = "idle" =>
            \/ handler = "delay"
            \/ \E i \in DOMAIN events : events[i] \in {"lost", "left"}
===============================================================================
