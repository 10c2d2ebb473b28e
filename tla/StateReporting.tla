---------------------------- MODULE StateReporting ----------------------------
(***************************************************************************)
(* Who is told of the relay's state: multicast listeners                   *)
(* (src/src/discovery/udp_discovery.cpp), ESP-NOW neighbours               *)
(* (loop() of src/src/discovery/espnow_discovery_bridge.cpp) and the       *)
(* Unified Server (src/src/UnifiedServerClient.cpp), served one after the  *)
(* other by loop() of src/src/main.cpp.                                    *)
(*                                                                         *)
(* Wi-Fi may come and go between any two of the places where the loop asks *)
(* for it. Intervals are abstracted: a "due" flag is raised some time after *)
(* it was lowered. initTransport() of the ESP-NOW bridge has succeeded.    *)
(***************************************************************************)
EXTENDS Naturals

CONSTANTS
    Servers,       \* WebSocket URLs a device may be pointed to
    JoinMayFail    \* may beginMulticast() fail?

ASSUME ReportingAssumption == JoinMayFail \in BOOLEAN

VARIABLES
    pc,        \* where loop() is
    wifi,      \* WiFi.status() == WL_CONNECTED
    relay,     \* the state that is reported
    wasUp,     \* lastDiscoveryWifiConnected of loop()
    udp,       \* UdpDiscovery; told: the state last advertised
    esp,       \* EspNowDiscoveryBridge
    uni,       \* UnifiedServerClient
    socket,    \* the TCP session of the WebSocket library
    told       \* the state the server was last sent over this session

vars == <<pc, wifi, relay, wasUp, udp, esp, uni, socket, told>>

RelayStates == {"on", "off"}
Nothing == "nothing"

Other(state) == CHOOSE x \in RelayStates : x # state

Reaches(value) == IF socket = "open" THEN value ELSE told

-----------------------------------------------------------------------------
(* Relay changes and the server's address. *)

\* Mutant: only the discovery protocols are told.
Announce_NotPublished(on) ==
    /\ relay' = on
    /\ udp' = [udp EXCEPT !.pending = TRUE]
    /\ esp' = [esp EXCEPT !.pending = TRUE]
    /\ told' = told

\* onRelayStateChanged() with publishState().
Announce(on) ==
    /\ relay' = on
    /\ udp' = [udp EXCEPT !.pending = TRUE]
    /\ esp' = [esp EXCEPT !.pending = TRUE]
    /\ told' = IF uni.connected THEN Reaches(on) ELSE told

\* Buttons, serial, web, schedule and the auto-off timer come first in loop().
RelayChange ==
    /\ pc = "head"
    /\ Announce(Other(relay))
    /\ UNCHANGED <<pc, wifi, wasUp, uni, socket>>

\* Mutant: the flag of the old session stays.
Configure_StaysConnected(s) ==
    IF s = uni.server
      THEN UNCHANGED <<uni, socket, told>>
      ELSE /\ uni' = [uni EXCEPT !.server = s]
           /\ socket' = "closed" /\ told' = Nothing

\* configureFromWebSocketUrl(): a new address ends the session with the old one.
Configure(s) ==
    IF s = uni.server
      THEN UNCHANGED <<uni, socket, told>>
      ELSE /\ uni' = [uni EXCEPT !.server = s, !.connected = FALSE]
           /\ socket' = "closed" /\ told' = Nothing

\* GET /unified/hello
Hello(s) ==
    /\ pc = "head" /\ wifi
    /\ Configure(s)
    /\ UNCHANGED <<pc, wifi, relay, wasUp, udp, esp>>

StartPass ==
    /\ pc = "head" /\ pc' = "udp"
    /\ UNCHANGED <<wifi, relay, wasUp, udp, esp, uni, socket, told>>

-----------------------------------------------------------------------------
(* UdpDiscovery::loop() *)

\* Mutant: the end of the connection is not remembered.
UdpOffline_Forgotten == udp' = [udp EXCEPT !.ready = FALSE]

UdpOffline == udp' = [udp EXCEPT !.ready = FALSE, !.wasUp = FALSE]

\* beginMulticast() is tried once per connection.
Joins == IF udp.wasUp THEN {udp.ready} ELSE {TRUE} \cup {~JoinMayFail}

\* Mutant: the request is dropped whether or not the packet went out.
UdpAdvertise_ClearsAnyway(u, sent) ==
    IF u.pending \/ u.due
      THEN [u EXCEPT !.pending = FALSE, !.due = FALSE, !.told = IF sent THEN relay ELSE @]
      ELSE u

UdpAdvertise(u, sent) ==
    IF sent /\ (u.pending \/ u.due)
      THEN [u EXCEPT !.pending = FALSE, !.due = FALSE, !.told = relay]
      ELSE u

\* A server_hello among the received packets may bring a server's address.
UdpOnline(sent) ==
    \E ready \in Joins :
      LET u == [udp EXCEPT !.ready = ready, !.wasUp = TRUE, !.pending = @ \/ ~udp.wasUp]
      IN  IF ready
            THEN /\ \E s \in Servers \cup {uni.server} : Configure(s)
                 /\ udp' = UdpAdvertise(u, sent)
            ELSE udp' = u /\ UNCHANGED <<uni, socket, told>>

UdpLoop(sent) ==
    /\ pc = "udp" /\ pc' = "esp"
    /\ IF wifi THEN UdpOnline(sent) ELSE UdpOffline /\ UNCHANGED <<uni, socket, told>>
    /\ UNCHANGED <<wifi, relay, wasUp, esp>>

-----------------------------------------------------------------------------
(* EspNowDiscoveryBridge::loop() *)

Advertise(sent) ==
    /\ pc = "esp" /\ pc' = "socket"
    /\ esp.pending \/ esp.due
    /\ esp' = IF sent
                THEN [pending |-> FALSE, due |-> FALSE, told |-> relay]
                ELSE [esp EXCEPT !.due = FALSE]
    /\ UNCHANGED <<wifi, relay, wasUp, udp, uni, socket, told>>

NoAdvertise ==
    /\ pc = "esp" /\ pc' = "socket"
    /\ ~esp.pending /\ ~esp.due
    /\ UNCHANGED <<wifi, relay, wasUp, udp, esp, uni, socket, told>>

-----------------------------------------------------------------------------
(* UnifiedServerClient::maintain(): socket.loop(), then the heartbeat. *)

Offline ==
    /\ pc = "socket" /\ ~wifi
    /\ uni' = [uni EXCEPT !.connected = FALSE]
    /\ pc' = "edge"
    /\ UNCHANGED <<wifi, relay, wasUp, udp, esp, socket, told>>

NotStarted ==
    /\ pc = "socket" /\ wifi /\ uni.server = Nothing
    /\ pc' = "edge"
    /\ UNCHANGED <<wifi, relay, wasUp, udp, esp, uni, socket, told>>

SocketLoop == pc = "socket" /\ wifi /\ uni.server # Nothing /\ pc' = "beat"

NoEvent ==
    /\ SocketLoop
    /\ UNCHANGED <<wifi, relay, wasUp, udp, esp, uni, socket, told>>

\* WStype_CONNECTED: the registration carries the state.
Connected ==
    /\ SocketLoop /\ socket = "closed"
    /\ socket' = "open"
    /\ uni' = [uni EXCEPT !.connected = TRUE, !.due = FALSE]
    /\ told' = relay
    /\ UNCHANGED <<wifi, relay, wasUp, udp, esp>>

\* WStype_DISCONNECTED: a write, a ping or a read showed that the session is dead.
Disconnected ==
    /\ SocketLoop /\ socket = "broken"
    /\ socket' = "closed" /\ told' = Nothing
    /\ uni' = [uni EXCEPT !.connected = FALSE]
    /\ UNCHANGED <<wifi, relay, wasUp, udp, esp>>

\* WStype_TEXT with a command that changes the relay.
Command ==
    /\ SocketLoop /\ socket = "open"
    /\ Announce(Other(relay))
    /\ UNCHANGED <<wifi, wasUp, uni, socket>>

Heartbeat ==
    /\ pc = "beat" /\ pc' = "edge"
    /\ IF uni.connected /\ uni.due
         THEN uni' = [uni EXCEPT !.due = FALSE] /\ told' = Reaches(relay)
         ELSE UNCHANGED <<uni, told>>
    /\ UNCHANGED <<wifi, relay, wasUp, udp, esp, socket>>

-----------------------------------------------------------------------------
(* The end of loop(): it asks for Wi-Fi twice. *)

EdgeCheck ==
    /\ pc = "edge" /\ pc' = "store"
    /\ IF wifi /\ ~wasUp
         THEN /\ udp' = [udp EXCEPT !.pending = TRUE]
              /\ esp' = [esp EXCEPT !.pending = TRUE]
         ELSE UNCHANGED <<udp, esp>>
    /\ UNCHANGED <<wifi, relay, wasUp, uni, socket, told>>

EdgeStore ==
    /\ pc = "store" /\ pc' = "head"
    /\ wasUp' = wifi
    /\ UNCHANGED <<wifi, relay, udp, esp, uni, socket, told>>

-----------------------------------------------------------------------------
(* The environment. *)

\* A TCP session may outlive a gap of Wi-Fi.
WifiChange ==
    /\ wifi' = ~wifi
    /\ socket' \in {socket} \cup (IF socket = "open" THEN {"broken"} ELSE {})
    /\ UNCHANGED <<pc, relay, wasUp, udp, esp, uni, told>>

SessionBreaks ==
    /\ socket = "open" /\ socket' = "broken"
    /\ UNCHANGED <<pc, wifi, relay, wasUp, udp, esp, uni, told>>

UdpIntervalPasses == ~udp.due /\ udp' = [udp EXCEPT !.due = TRUE] /\ UNCHANGED <<esp, uni>>
EspIntervalPasses == ~esp.due /\ esp' = [esp EXCEPT !.due = TRUE] /\ UNCHANGED <<udp, uni>>
HeartbeatDue == ~uni.due /\ uni' = [uni EXCEPT !.due = TRUE] /\ UNCHANGED <<udp, esp>>

IntervalPasses ==
    /\ UdpIntervalPasses \/ EspIntervalPasses \/ HeartbeatDue
    /\ UNCHANGED <<pc, wifi, relay, wasUp, socket, told>>

-----------------------------------------------------------------------------

Init ==
    /\ pc = "head" /\ wifi = FALSE /\ wasUp = FALSE
    /\ relay \in RelayStates
    /\ udp = [ready |-> FALSE, wasUp |-> FALSE, pending |-> TRUE, due |-> FALSE, told |-> Nothing]
    /\ esp = [pending |-> TRUE, due |-> FALSE, told |-> Nothing]
    /\ uni = [server |-> Nothing, connected |-> FALSE, due |-> FALSE]
    /\ socket = "closed" /\ told = Nothing

Maintain == Offline \/ NotStarted \/ NoEvent \/ Connected \/ Disconnected \/ Command

Loop ==
    \/ RelayChange \/ StartPass
    \/ \E s \in Servers : Hello(s)
    \/ \E sent \in BOOLEAN : UdpLoop(sent) \/ Advertise(sent)
    \/ NoAdvertise \/ Maintain \/ Heartbeat \/ EdgeCheck \/ EdgeStore

Next == Loop \/ WifiChange \/ SessionBreaks \/ IntervalPasses

Spec == Init /\ [][Next]_vars

\* loop() goes round; a multicast packet gets out now and then; a broken session is
\* noticed and a closed one opened again.
Fairness ==
    /\ WF_vars(StartPass) /\ WF_vars(\E sent \in BOOLEAN : UdpLoop(sent) \/ Advertise(sent))
    /\ WF_vars(NoAdvertise) /\ WF_vars(Maintain)
    /\ WF_vars(Heartbeat) /\ WF_vars(EdgeCheck) /\ WF_vars(EdgeStore)
    /\ SF_vars(UdpLoop(TRUE)) /\ SF_vars(Connected) /\ SF_vars(Disconnected)

FairSpec == Spec /\ Fairness

-----------------------------------------------------------------------------

Reported == RelayStates \cup {Nothing}

UdpRecord == [ready : BOOLEAN, wasUp : BOOLEAN, pending : BOOLEAN, due : BOOLEAN, told : Reported]
EspRecord == [pending : BOOLEAN, due : BOOLEAN, told : Reported]
UniRecord == [server : Servers \cup {Nothing}, connected : BOOLEAN, due : BOOLEAN]

\* No session without a server, none that counts as connected once it is closed
\* (configureFromWebSocketUrl(), handleEvent()).
TypeOK ==
    /\ pc \in {"head", "udp", "esp", "socket", "beat", "edge", "store"}
    /\ wifi \in BOOLEAN /\ relay \in RelayStates /\ wasUp \in BOOLEAN
    /\ udp \in UdpRecord /\ esp \in EspRecord /\ uni \in UniRecord
    /\ socket \in {"closed", "open", "broken"} /\ told \in Reported
    /\ socket # "closed" => uni.server # Nothing
    /\ uni.connected => socket # "closed"

\* A change of the relay is never lost to the discovery protocols: whatever sends fail
\* and whenever Wi-Fi goes, what they advertised last is the relay's state or an
\* advertisement is pending (advertiseNow(), loop()).
NothingUntold ==
    /\ udp.pending \/ udp.told = relay
    /\ esp.pending \/ esp.told = relay

\* While the client counts as connected over a session that works, the server's view is
\* the relay's state: registration, published changes and heartbeats leave no gap
\* (handleEvent(), publishState()).
ServerInSync == uni.connected /\ socket = "open" => told = relay

\* Once Wi-Fi stays, multicast listeners keep being told the state, however often it
\* was lost before, provided the multicast group can be joined (UdpDiscovery::loop()).
ListenersAreTold == <>[]wifi => []<>(udp.told = relay)

\* README.md:189 promises heartbeats and state over the WebSocket: with Wi-Fi up and a
\* session open for good, the client uses the session.
OpenSessionIsUsed == <>[](wifi /\ socket = "open") => <>[](uni.connected)
=============================================================================
