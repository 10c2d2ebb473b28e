------------------------ MODULE StateReporting_proofs ------------------------
(***************************************************************************)
(* Types, NothingUntold and ServerInSync hold for any set of servers and   *)
(* whether or not the multicast group can be joined. The three together    *)
(* are inductive as they stand.                                            *)
(***************************************************************************)
EXTENDS StateReporting, TLAPS

IInv == TypeOK /\ NothingUntold /\ ServerInSync

\* The other state of the relay is a state.
LEMMA OtherState == ASSUME NEW s \in RelayStates PROVE Other(s) \in RelayStates
  BY DEF Other, RelayStates

\* Initially everything is pending and no server is known.
LEMMA InitIInv == Init => IInv
  <1> SUFFICES ASSUME Init PROVE IInv
    OBVIOUS
  <1>1. Nothing \in Reported
    BY DEF Reported
  <1>2. TypeOK
    BY <1>1 DEF Init, TypeOK, UdpRecord, EspRecord, UniRecord
  <1>3. NothingUntold /\ ServerInSync
    BY DEF Init, NothingUntold, ServerInSync
  <1> QED BY <1>2, <1>3 DEF IInv

\* A change of the relay raises both flags and reaches a connected server.
LEMMA AnnounceIInv ==
  ASSUME IInv, Announce(Other(relay)), UNCHANGED <<wifi, wasUp, uni, socket>>,
         pc' \in {"head", "beat"}
  PROVE  IInv'
  <1>1. Other(relay) \in RelayStates
    BY OtherState DEF IInv, TypeOK
  <1>2. TypeOK'
    BY <1>1 DEF IInv, TypeOK, Announce, Reaches, Reported, UdpRecord, EspRecord
  <1>3. NothingUntold'
    BY DEF IInv, TypeOK, Announce, NothingUntold, UdpRecord, EspRecord
  <1>4. ServerInSync'
    BY DEF IInv, TypeOK, Announce, Reaches, ServerInSync
  <1> QED BY <1>2, <1>3, <1>4 DEF IInv

\* A new address closes the session before it counts as disconnected.
LEMMA ConfigureIInv ==
  ASSUME IInv, NEW s \in Servers \cup {Nothing, uni.server}, Configure(s), relay' = relay
  PROVE  /\ uni' \in UniRecord
         /\ socket' \in {"closed", "open", "broken"} /\ told' \in Reported
         /\ socket' # "closed" => uni'.server # Nothing
         /\ uni'.connected => socket' # "closed"
         /\ ServerInSync'
  <1>1. CASE s = uni.server
    BY <1>1 DEF IInv, TypeOK, Configure, ServerInSync
  <1>2. CASE s # uni.server
    BY <1>2 DEF IInv, TypeOK, Configure, ServerInSync, Reported, UniRecord
  <1> QED BY <1>1, <1>2

\* One pass of UdpDiscovery::loop().
LEMMA UdpLoopIInv ==
  ASSUME IInv, NEW sent \in BOOLEAN, UdpLoop(sent)
  PROVE  IInv'
  <1>1. CASE ~wifi
    <2>1. TypeOK'
      BY <1>1 DEF IInv, TypeOK, UdpLoop, UdpOffline, UdpRecord
    <2>2. NothingUntold'
      BY <1>1 DEF IInv, TypeOK, UdpLoop, UdpOffline, NothingUntold, UdpRecord
    <2>3. ServerInSync'
      BY <1>1 DEF IInv, TypeOK, UdpLoop, UdpOffline, ServerInSync
    <2> QED BY <2>1, <2>2, <2>3 DEF IInv
  <1>2. CASE wifi
    <2> DEFINE At(ready) == [udp EXCEPT !.ready = ready, !.wasUp = TRUE, !.pending = @ \/ ~udp.wasUp]
    <2>1. PICK ready \in Joins :
            IF ready
              THEN /\ \E s \in Servers \cup {uni.server} : Configure(s)
                   /\ udp' = UdpAdvertise(At(ready), sent)
              ELSE udp' = At(ready) /\ UNCHANGED <<uni, socket, told>>
      BY <1>2 DEF UdpLoop, UdpOnline
    <2>2. ready \in BOOLEAN
      BY DEF Joins, IInv, TypeOK, UdpRecord
    <2>3. /\ At(ready) \in UdpRecord
          /\ At(ready).pending \/ At(ready).told = relay
      BY <2>2 DEF IInv, TypeOK, NothingUntold, UdpRecord
    <2>4. /\ udp' \in UdpRecord
          /\ udp'.pending \/ udp'.told = relay
      <3> HIDE DEF At
      <3>1. CASE udp' = At(ready)
        BY <3>1, <2>3
      <3>2. CASE udp' = UdpAdvertise(At(ready), sent)
        BY <3>2, <2>3 DEF UdpAdvertise, IInv, TypeOK, Reported, UdpRecord
      <3> QED BY <2>1, <3>1, <3>2
    <2>5. /\ uni' \in UniRecord
          /\ socket' \in {"closed", "open", "broken"} /\ told' \in Reported
          /\ socket' # "closed" => uni'.server # Nothing
          /\ uni'.connected => socket' # "closed"
          /\ ServerInSync'
      <3>0. relay' = relay
        BY DEF UdpLoop
      <3>1. CASE UNCHANGED <<uni, socket, told>>
        BY <3>0, <3>1 DEF IInv, TypeOK, ServerInSync
      <3>2. CASE \E s \in Servers \cup {uni.server} : Configure(s)
        BY <3>0, <3>2, ConfigureIInv
      <3> QED BY <2>1, <3>1, <3>2
    <2> HIDE DEF At
    <2>6. TypeOK'
      BY <2>4, <2>5 DEF IInv, TypeOK, UdpLoop
    <2>7. NothingUntold'
      BY <2>4 DEF IInv, NothingUntold, UdpLoop
    <2> QED BY <2>5, <2>6, <2>7 DEF IInv
  <1> QED BY <1>1, <1>2

\* Every step of the loop and of its environment keeps the invariant.
LEMMA NextIInv == IInv /\ [Next]_vars => IInv'
  <1> SUFFICES ASSUME IInv, [Next]_vars PROVE IInv'
    OBVIOUS
  <1> USE DEF IInv, TypeOK, NothingUntold, ServerInSync, Reported
  <1>1. CASE RelayChange
    <2>1. pc' \in {"head", "beat"} /\ UNCHANGED <<wifi, wasUp, uni, socket>> /\ Announce(Other(relay))
      BY <1>1 DEF RelayChange
    <2> QED BY ONLY IInv, <2>1, AnnounceIInv
  <1>2. ASSUME NEW s \in Servers, Hello(s) PROVE IInv'
    <2>1. Configure(s) /\ relay' = relay
      BY <1>2 DEF Hello
    <2>2. /\ uni' \in UniRecord
          /\ socket' \in {"closed", "open", "broken"} /\ told' \in Reported
          /\ socket' # "closed" => uni'.server # Nothing
          /\ uni'.connected => socket' # "closed"
          /\ ServerInSync'
      BY ONLY IInv, s \in Servers, <2>1, ConfigureIInv
    <2> QED BY <1>2, <2>2 DEF Hello
  <1>3. CASE StartPass \/ NoAdvertise
    BY <1>3 DEF StartPass, NoAdvertise
  <1>4. ASSUME NEW sent \in BOOLEAN, UdpLoop(sent) PROVE IInv'
    BY ONLY IInv, <1>4, UdpLoopIInv
  <1>5. ASSUME NEW sent \in BOOLEAN, Advertise(sent) PROVE IInv'
    <2>1. esp' \in EspRecord /\ (esp'.pending \/ esp'.told = relay)
      BY <1>5 DEF Advertise, EspRecord
    <2> QED BY <1>5, <2>1 DEF Advertise
  <1>6. CASE Offline
    <2>1. uni' \in UniRecord /\ ~uni'.connected /\ uni'.server = uni.server
      BY <1>6 DEF Offline, UniRecord
    <2> QED BY <1>6, <2>1 DEF Offline
  <1>7. CASE NotStarted \/ NoEvent
    BY <1>7 DEF NotStarted, NoEvent, SocketLoop
  <1>8. CASE Connected
    <2>1. uni' \in UniRecord /\ uni'.server # Nothing
      BY <1>8 DEF Connected, SocketLoop, UniRecord
    <2> QED BY <1>8, <2>1 DEF Connected, SocketLoop
  <1>9. CASE Disconnected
    <2>1. uni' \in UniRecord /\ ~uni'.connected
      BY <1>9 DEF Disconnected, UniRecord
    <2> QED BY <1>9, <2>1 DEF Disconnected, SocketLoop
  <1>10. CASE Command
    <2>1. pc' \in {"head", "beat"} /\ UNCHANGED <<wifi, wasUp, uni, socket>> /\ Announce(Other(relay))
      BY <1>10 DEF Command, SocketLoop
    <2> QED BY ONLY IInv, <2>1, AnnounceIInv
  <1>11. CASE Heartbeat
    <2>1. uni' \in UniRecord /\ uni'.connected = uni.connected /\ uni'.server = uni.server
      BY <1>11 DEF Heartbeat, UniRecord
    <2>2. told' \in Reported /\ (uni.connected /\ socket = "open" => told' = relay)
      BY <1>11 DEF Heartbeat, Reaches
    <2> QED BY <1>11, <2>1, <2>2 DEF Heartbeat
  <1>12. CASE EdgeCheck \/ EdgeStore
    <2>1. /\ udp' \in UdpRecord /\ (udp'.pending \/ udp'.told = relay)
          /\ esp' \in EspRecord /\ (esp'.pending \/ esp'.told = relay)
      BY <1>12 DEF EdgeCheck, EdgeStore, UdpRecord, EspRecord
    <2> QED BY <1>12, <2>1 DEF EdgeCheck, EdgeStore
  <1>13. CASE WifiChange \/ SessionBreaks
    BY <1>13 DEF WifiChange, SessionBreaks
  <1>14. CASE IntervalPasses
    <2>0. UNCHANGED <<pc, wifi, relay, wasUp, socket, told>>
      BY <1>14 DEF IntervalPasses
    <2>1. CASE UdpIntervalPasses
      <3>1. udp' \in UdpRecord /\ udp'.pending = udp.pending /\ udp'.told = udp.told
        BY <2>1 DEF UdpIntervalPasses, UdpRecord
      <3> QED BY <2>0, <2>1, <3>1 DEF UdpIntervalPasses
    <2>2. CASE EspIntervalPasses
      <3>1. esp' \in EspRecord /\ esp'.pending = esp.pending /\ esp'.told = esp.told
        BY <2>2 DEF EspIntervalPasses, EspRecord
      <3> QED BY <2>0, <2>2, <3>1 DEF EspIntervalPasses
    <2>3. CASE HeartbeatDue
      <3>1. uni' \in UniRecord /\ uni'.connected = uni.connected /\ uni'.server = uni.server
        BY <2>3 DEF HeartbeatDue, UniRecord
      <3> QED BY <2>0, <2>3, <3>1 DEF HeartbeatDue
    <2> QED BY <1>14, <2>1, <2>2, <2>3 DEF IntervalPasses
  <1>15. CASE UNCHANGED vars
    BY <1>15 DEF vars
  <1> QED
    BY <1>1, <1>2, <1>3, <1>4, <1>5, <1>6, <1>7, <1>8, <1>9, <1>10, <1>11, <1>12, <1>13, <1>14, <1>15
       DEF Next, Loop, Maintain

\* The invariant holds throughout.
LEMMA Invariance == Spec => []IInv
  BY InitIInv, NextIInv, PTL DEF Spec

\* Sessions are consistent in every reachable state (configureFromWebSocketUrl(),
\* handleEvent()).
THEOREM TypeCorrect == Spec => []TypeOK
  <1>1. IInv => TypeOK
    BY DEF IInv
  <1> QED BY <1>1, Invariance, PTL

\* No change of the relay is lost to the discovery protocols (advertiseNow(), loop()).
THEOREM AdvertisedOrPending == Spec => []NothingUntold
  <1>1. IInv => NothingUntold
    BY DEF IInv
  <1> QED BY <1>1, Invariance, PTL

\* A connected server knows the relay's state (handleEvent(), publishState()).
THEOREM ServerKnows == Spec => []ServerInSync
  <1>1. IInv => ServerInSync
    BY DEF IInv
  <1> QED BY <1>1, Invariance, PTL
=============================================================================
