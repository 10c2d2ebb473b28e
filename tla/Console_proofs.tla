--------------------------- MODULE Console_proofs ---------------------------
(* Theorems about the two ends of the console: NetworkSettings, the device's *)
(* handlers and stores, for all sets of networks, passwords, servers and     *)
(* zones and any number of resets and refusals, and WebConsole, the page,    *)
(* for any number of functions in flight.  The two modules share no          *)
(* variable.                                                                 *)
EXTENDS NetworkSettings, WebConsole, SequenceTheorems, FiniteSetTheorems, TLAPS

(***************************************************************************)
(* NetworkSettings: jobs.                                                  *)
(***************************************************************************)

SetStep(f, v) == [do |-> "set", field |-> f, value |-> v]

SetSteps == {SetStep("enabled", v) : v \in BOOLEAN} \cup {SetStep("server", v) : v \in Servers}
                \cup {SetStep("zone", v) : v \in Zones}

Settings  == [do |-> "settings"]
RestartIt == [do |-> "restart"]
ApplyIt   == [do |-> "apply"]
Steps     == {Settings, RestartIt, ApplyIt} \cup SetSteps

\* Setters for different fields; what follows one of them may come first.
SetterJob(j) ==
    /\ \A i \in 1..Len(j) : j[i] \in SetSteps \/ (i = 1 /\ j[1] = ApplyIt)
    /\ \A i, k \in 1..Len(j) : j[i] \in SetSteps /\ j[k] \in SetSteps /\ i # k
                                   => j[i].field # j[k].field

\* A job is a step of POST /config, the restart, or setters.
JobShape ==
    /\ job \in Seq(Steps) /\ Len(job) =< 3
    /\ \/ job = <<Settings>>
       \/ job = <<RestartIt>>
       \/ SetterJob(job)

LEMMA StepKinds ==
    /\ Settings.do = "settings" /\ RestartIt.do = "restart" /\ ApplyIt.do = "apply"
    /\ \A s \in SetSteps : /\ s.do = "set" /\ s.field \in Fields
                           /\ s = SetStep(s.field, s.value)
                           /\ s.field = "enabled" => s.value \in BOOLEAN
                           /\ s.field = "server" => s.value \in Servers
                           /\ s.field = "zone" => s.value \in Zones
  BY DEF Settings, RestartIt, ApplyIt, SetSteps, SetStep, Fields

\* The setters of a request: one for each of the fields F.
Lists(g, change, F) ==
    /\ g \in Seq(Steps)
    /\ \A i \in 1..Len(g) : \E f \in F : g[i] = SetStep(f, change[f])
    /\ \A i, k \in 1..Len(g) : i # k => g[i].field # g[k].field
    /\ \A f \in F : \E i \in 1..Len(g) : g[i] = SetStep(f, change[f])

LEMMA ListsFields ==
    ASSUME NEW g, NEW change, NEW F, Lists(g, change, F)
    PROVE  /\ Len(g) \in Nat
           /\ \A i \in 1..Len(g) : g[i].field \in F /\ g[i] = SetStep(g[i].field, change[g[i].field])
<1>1. \A f, v : SetStep(f, v).field = f
  BY DEF SetStep
<1>2. Len(g) \in Nat
  BY DEF Lists
<1>3. ASSUME NEW i \in 1..Len(g)
      PROVE  g[i].field \in F /\ g[i] = SetStep(g[i].field, change[g[i].field])
  <2>1. PICK f \in F : g[i] = SetStep(f, change[f])
    BY DEF Lists
  <2>2. g[i].field = f
    BY <1>1, <2>1
  <2> QED
    BY <2>1, <2>2
<1> QED
  BY <1>2, <1>3

LEMMA ListsJoin ==
    ASSUME NEW a, NEW b, NEW change, NEW F, NEW G, F \cap G = {},
           Lists(a, change, F), Lists(b, change, G)
    PROVE  Lists(a \o b, change, F \cup G)
<1> DEFINE g == a \o b
<1>1. /\ a \in Seq(Steps) /\ b \in Seq(Steps)
  BY DEF Lists
<1>2. /\ g \in Seq(Steps) /\ Len(g) = Len(a) + Len(b) /\ Len(a) \in Nat /\ Len(b) \in Nat
      /\ \A i \in 1..Len(a) : i \in 1..Len(g) /\ g[i] = a[i]
      /\ \A i \in 1..Len(b) : (i + Len(a)) \in 1..Len(g) /\ g[i + Len(a)] = b[i]
      /\ \A i \in 1..Len(g) : \/ i \in 1..Len(a) /\ g[i] = a[i]
                              \/ (i - Len(a)) \in 1..Len(b) /\ g[i] = b[i - Len(a)]
  <2>1. g \in Seq(Steps)
    BY <1>1, ConcatProperties
  <2>2. Len(g) = Len(a) + Len(b)
    BY <1>1, ConcatProperties
  <2>3. \A i \in 1..Len(a) + Len(b) : g[i] = IF i =< Len(a) THEN a[i] ELSE b[i - Len(a)]
    BY <1>1, ConcatProperties
  <2>4. Len(a) \in Nat /\ Len(b) \in Nat
    BY <1>1, LenProperties
  <2> HIDE DEF g
  <2> QED
    BY <2>1, <2>2, <2>3, <2>4
<1> HIDE DEF g
<1>3. /\ \A i \in 1..Len(a) : a[i].field \in F
      /\ \A i \in 1..Len(b) : b[i].field \in G
  BY ListsFields
<1>4. ASSUME NEW i \in 1..Len(g) PROVE \E f \in F \cup G : g[i] = SetStep(f, change[f])
  <2>1. CASE i \in 1..Len(a) /\ g[i] = a[i]
    <3>1. PICK f \in F : a[i] = SetStep(f, change[f])
      BY <2>1 DEF Lists
    <3> QED
      BY <2>1, <3>1
  <2>2. CASE (i - Len(a)) \in 1..Len(b) /\ g[i] = b[i - Len(a)]
    <3>1. PICK f \in G : b[i - Len(a)] = SetStep(f, change[f])
      BY <2>2 DEF Lists
    <3> QED
      BY <2>2, <3>1
  <2> QED
    BY <1>2, <2>1, <2>2
<1>5. \A f \in F \cup G : \E i \in 1..Len(g) : g[i] = SetStep(f, change[f])
  <2> SUFFICES ASSUME NEW f \in F \cup G PROVE \E i \in 1..Len(g) : g[i] = SetStep(f, change[f])
    OBVIOUS
  <2>1. CASE f \in F
    BY <1>2, <2>1 DEF Lists
  <2>2. CASE f \in G
    <3>1. PICK i \in 1..Len(b) : b[i] = SetStep(f, change[f])
      BY <2>2 DEF Lists
    <3> QED
      BY <1>2, <3>1
  <2> QED
    BY <2>1, <2>2
<1>6. ASSUME NEW i \in 1..Len(g), NEW k \in 1..Len(g), i # k PROVE g[i].field # g[k].field
  <2>1. i \in Int /\ k \in Int
    OBVIOUS
  <2>2. CASE i \in 1..Len(a) /\ g[i] = a[i]
    <3>1. CASE k \in 1..Len(a) /\ g[k] = a[k]
      BY <1>6, <2>2, <3>1 DEF Lists
    <3>2. CASE (k - Len(a)) \in 1..Len(b) /\ g[k] = b[k - Len(a)]
      <4>1. g[i].field \in F /\ g[k].field \in G
        BY <1>3, <2>2, <3>2
      <4> QED
        BY <4>1
    <3> QED
      BY <1>2, <3>1, <3>2
  <2>3. CASE (i - Len(a)) \in 1..Len(b) /\ g[i] = b[i - Len(a)]
    <3>1. CASE k \in 1..Len(a) /\ g[k] = a[k]
      <4>1. g[i].field \in G /\ g[k].field \in F
        BY <1>3, <2>3, <3>1
      <4> QED
        BY <4>1
    <3>2. CASE (k - Len(a)) \in 1..Len(b) /\ g[k] = b[k - Len(a)]
      <4>1. i - Len(a) # k - Len(a)
        BY <1>2, <1>6, <2>1
      <4> QED
        BY <2>3, <3>2, <4>1 DEF Lists
    <3> QED
      BY <1>2, <3>1, <3>2
  <2> QED
    BY <1>2, <2>2, <2>3
<1>7. Lists(g, change, F \cup G)
  BY <1>2, <1>4, <1>5, <1>6 DEF Lists
<1> QED
  BY <1>7 DEF g

Typed(change) == \A f \in DOMAIN change \cap Fields : SetStep(f, change[f]) \in SetSteps

LEMMA ListsOne ==
    ASSUME NEW change, Typed(change), NEW f \in Fields
    PROVE  Lists(Setter(change, f), change, {f} \cap DOMAIN change)
<1>1. CASE f \in DOMAIN change
  <2> DEFINE s == SetStep(f, change[f])
  <2>1. Setter(change, f) = <<s>>
    BY <1>1 DEF Setter, SetStep
  <2>2. s \in Steps
    BY <1>1 DEF Typed, Steps
  <2> HIDE DEF s
  <2>3. <<s>> \in Seq(Steps) /\ Len(<<s>>) = 1 /\ <<s>>[1] = s /\ 1..1 = {1}
    BY <2>2
  <2>4. {f} \cap DOMAIN change = {f}
    BY <1>1
  <2> QED
    BY <2>1, <2>3, <2>4 DEF Lists, s
<1>2. CASE f \notin DOMAIN change
  <2>1. Setter(change, f) = <<>> /\ {f} \cap DOMAIN change = {}
    BY <1>2 DEF Setter
  <2>2. <<>> \in Seq(Steps) /\ Len(<<>>) = 0 /\ 1..0 = {}
    OBVIOUS
  <2> QED
    BY <2>1, <2>2 DEF Lists
<1> QED
  BY <1>1, <1>2

LEMMA SettersList ==
    ASSUME NEW change, Typed(change)
    PROVE  Lists(Setters(change), change, Fields \cap DOMAIN change)
<1> DEFINE E == {"enabled"} \cap DOMAIN change
           S == {"server"} \cap DOMAIN change
           Z == {"zone"} \cap DOMAIN change
<1>1. /\ Lists(Setter(change, "enabled"), change, E)
      /\ Lists(Setter(change, "server"), change, S)
      /\ Lists(Setter(change, "zone"), change, Z)
  BY ListsOne DEF Fields
<1>2. E \cap S = {} /\ (E \cup S) \cap Z = {}
  OBVIOUS
<1>3. E \cup S \cup Z = Fields \cap DOMAIN change
  BY DEF Fields
<1> HIDE DEF E, S, Z
<1>4. Lists(Setter(change, "enabled") \o Setter(change, "server"), change, E \cup S)
  BY <1>1, <1>2, ListsJoin
<1>5. Lists(Setter(change, "enabled") \o Setter(change, "server") \o Setter(change, "zone"),
            change, (E \cup S) \cup Z)
  BY <1>1, <1>2, <1>4, ListsJoin
<1> QED
  BY <1>3, <1>5 DEF Setters

\* There are no more setters than fields.
LEMMA ListsShort ==
    ASSUME NEW g, NEW change, NEW F, F \subseteq Fields, Lists(g, change, F)
    PROVE  Len(g) =< 3
<1>1. Len(g) \in Nat
  BY DEF Lists
<1>2. \A i \in 1..Len(g) : g[i].field \in {"enabled", "server", "zone"}
  BY ListsFields DEF Fields
<1>3. SUFFICES ASSUME Len(g) >= 4 PROVE FALSE
  BY <1>1
<1>4. 1 \in 1..Len(g) /\ 2 \in 1..Len(g) /\ 3 \in 1..Len(g) /\ 4 \in 1..Len(g)
  BY <1>1, <1>3
<1>5. /\ g[1].field # g[2].field /\ g[1].field # g[3].field /\ g[1].field # g[4].field
      /\ g[2].field # g[3].field /\ g[2].field # g[4].field /\ g[3].field # g[4].field
  BY <1>4 DEF Lists
<1> QED
  BY <1>2, <1>4, <1>5

(***************************************************************************)
(* Flash writes.                                                           *)
(***************************************************************************)

\* What is left of the writes of the credentials, or of the time settings.
WifiTail ==
    \/ puts = WifiPuts(wifi)
    \/ puts = <<<<"pass", wifi.pass>>, <<"profile", Current>>>>
    \/ puts = <<<<"profile", Current>>>>

TimeTail ==
    \/ puts = TimePuts(timeSync)
    \/ puts = <<<<"zone", timeSync.zone>>, <<"enabled", timeSync.enabled>>>>
    \/ puts = <<<<"enabled", timeSync.enabled>>>>

PutsShape ==
    \/ puts = <<>>
    \/ WifiTail
    \/ TimeTail /\ job # <<>> /\ Head(job) = ApplyIt

Types ==
    /\ wifi \in Credentials /\ target \in Credentials
    /\ link \in Networks \cup {None} /\ aps \subseteq Networks
    /\ timeSync \in TimeSettings /\ sntp \in [server : Servers, zone : Zones] \cup {None}
    /\ retryDue \in BOOLEAN /\ syncDue \in BOOLEAN
    /\ flash \in FlashTypes
    /\ entered \in [wifi : Credentials, time : TimeSettings]
    /\ unsaved \in [wifi : BOOLEAN, time : BOOLEAN]

Ahead(f) == \E i \in 1..Len(puts) : puts[i][1] = f

LEMMA NotAhead ==
    /\ puts = <<>> => \A f \in Fields : ~Ahead(f)
    /\ WifiTail => \A f \in Fields : ~Ahead(f)
<1>1. CASE puts = <<>>
  BY <1>1 DEF Ahead, WifiTail, WifiPuts
<1>2. CASE puts = WifiPuts(wifi)
  BY <1>2 DEF Ahead, WifiPuts, Fields
<1>3. CASE puts = <<<<"pass", wifi.pass>>, <<"profile", Current>>>>
  BY <1>3 DEF Ahead, Fields
<1>4. CASE puts = <<<<"profile", Current>>>>
  BY <1>4 DEF Ahead, Fields
<1> QED
  BY <1>1, <1>2, <1>3, <1>4 DEF WifiTail

LEMMA AllAhead ==
    puts = TimePuts(timeSync) => \A f \in Fields : Ahead(f)
  BY DEF Ahead, TimePuts, Fields

LEMMA HeadsAndTails ==
    ASSUME NEW a, NEW b, NEW c
    PROVE  /\ Head(<<a, b, c>>) = a /\ Tail(<<a, b, c>>) = <<b, c>>
           /\ Head(<<a, b>>) = a /\ Tail(<<a, b>>) = <<b>>
           /\ Head(<<a>>) = a /\ Tail(<<a>>) = <<>>
  OBVIOUS

Landed == [flash EXCEPT ![Head(puts)[1]] = Head(puts)[2]]

\* One write: it types, it leaves the rest of the writes, and it writes what RAM has.
LEMMA PutStep ==
    ASSUME Types, PutsShape, PutNext
    PROVE  /\ Landed \in FlashTypes
           /\ PutsShape'
           /\ \A f \in Fields : ~Ahead(f)' =>
                  \/ ~Ahead(f) /\ Landed[f] = flash[f]
                  \/ TimeTail /\ job # <<>> /\ Head(job) = ApplyIt /\ Landed[f] = timeSync[f]
<1>0. /\ Landed = [flash EXCEPT ![Head(puts)[1]] = Head(puts)[2]]
      /\ puts' = Tail(puts)
      /\ wifi' = wifi /\ timeSync' = timeSync /\ job' = job
  BY DEF PutNext, clock, Landed
<1>1. CASE WifiTail
  <2>1. CASE puts = WifiPuts(wifi)
    <3>1. /\ Landed = [flash EXCEPT !["ssid"] = wifi.ssid]
          /\ puts' = <<<<"pass", wifi.pass>>, <<"profile", Current>>>>
      <4>1. Head(puts) = <<"ssid", wifi.ssid>>
        BY <2>1, HeadsAndTails DEF WifiPuts
      <4>2. Tail(puts) = <<<<"pass", wifi.pass>>, <<"profile", Current>>>>
        BY <2>1, HeadsAndTails DEF WifiPuts
      <4>3. Head(puts)[1] = "ssid" /\ Head(puts)[2] = wifi.ssid
        BY <4>1
      <4> QED
        BY <1>0, <4>2, <4>3
    <3>2. \A f \in Fields : Landed[f] = flash[f]
      BY <3>1 DEF Fields, Types, FlashTypes
    <3>3. WifiTail'
      BY <1>0, <3>1 DEF WifiTail
    <3>4. Landed \in FlashTypes
      BY <3>1 DEF Types, FlashTypes, Optional, Credentials, TimeSettings
    <3> QED
      BY <1>0, <1>1, <3>2, <3>3, <3>4, NotAhead DEF PutsShape
  <2>2. CASE puts = <<<<"pass", wifi.pass>>, <<"profile", Current>>>>
    <3>1. /\ Landed = [flash EXCEPT !["pass"] = wifi.pass]
          /\ puts' = <<<<"profile", Current>>>>
      <4>1. Head(puts) = <<"pass", wifi.pass>>
        BY <2>2, HeadsAndTails
      <4>2. Tail(puts) = <<<<"profile", Current>>>>
        BY <2>2, HeadsAndTails
      <4>3. Head(puts)[1] = "pass" /\ Head(puts)[2] = wifi.pass
        BY <4>1
      <4> QED
        BY <1>0, <4>2, <4>3
    <3>2. \A f \in Fields : Landed[f] = flash[f]
      BY <3>1 DEF Fields, Types, FlashTypes
    <3>3. WifiTail'
      BY <1>0, <3>1 DEF WifiTail
    <3>4. Landed \in FlashTypes
      BY <3>1 DEF Types, FlashTypes, Optional, Credentials, TimeSettings
    <3> QED
      BY <1>0, <1>1, <3>2, <3>3, <3>4, NotAhead DEF PutsShape
  <2>3. CASE puts = <<<<"profile", Current>>>>
    <3>1. Landed = [flash EXCEPT !["profile"] = Current] /\ puts' = <<>>
      <4>1. Head(puts) = <<"profile", Current>>
        BY <2>3, HeadsAndTails
      <4>2. Tail(puts) = <<>>
        BY <2>3, HeadsAndTails
      <4>3. Head(puts)[1] = "profile" /\ Head(puts)[2] = Current
        BY <4>1
      <4> QED
        BY <1>0, <4>2, <4>3
    <3>2. \A f \in Fields : Landed[f] = flash[f]
      BY <3>1 DEF Fields, Types, FlashTypes
    <3>3. Landed \in FlashTypes
      BY <3>1 DEF Types, FlashTypes, Optional, Credentials, TimeSettings
    <3> QED
      BY <1>0, <1>1, <3>1, <3>2, <3>3, NotAhead DEF PutsShape
  <2> QED
    BY <1>1, <2>1, <2>2, <2>3 DEF WifiTail
<1>2. CASE TimeTail /\ job # <<>> /\ Head(job) = ApplyIt
  <2>1. CASE puts = TimePuts(timeSync)
    <3>1. /\ Landed = [flash EXCEPT !["server"] = timeSync.server]
          /\ puts' = <<<<"zone", timeSync.zone>>, <<"enabled", timeSync.enabled>>>>
      <4>1. Head(puts) = <<"server", timeSync.server>>
        BY <2>1, HeadsAndTails DEF TimePuts
      <4>2. Tail(puts) = <<<<"zone", timeSync.zone>>, <<"enabled", timeSync.enabled>>>>
        BY <2>1, HeadsAndTails DEF TimePuts
      <4>3. Head(puts)[1] = "server" /\ Head(puts)[2] = timeSync.server
        BY <4>1
      <4> QED
        BY <1>0, <4>2, <4>3
    <3>2. TimeTail'
      BY <1>0, <3>1 DEF TimeTail
    <3>3. Landed \in FlashTypes
      BY <3>1 DEF Types, FlashTypes, Optional, Credentials, TimeSettings
    <3>4. Landed["server"] = timeSync["server"]
      BY <3>1 DEF Types, FlashTypes, TimeSettings
    <3>5. Ahead("zone")' /\ Ahead("enabled")'
      BY <3>1 DEF Ahead
    <3> QED
      BY <1>0, <1>2, <3>2, <3>3, <3>4, <3>5 DEF PutsShape, Fields
  <2>2. CASE puts = <<<<"zone", timeSync.zone>>, <<"enabled", timeSync.enabled>>>>
    <3>1. /\ Landed = [flash EXCEPT !["zone"] = timeSync.zone]
          /\ puts' = <<<<"enabled", timeSync.enabled>>>>
      <4>1. Head(puts) = <<"zone", timeSync.zone>>
        BY <2>2, HeadsAndTails
      <4>2. Tail(puts) = <<<<"enabled", timeSync.enabled>>>>
        BY <2>2, HeadsAndTails
      <4>3. Head(puts)[1] = "zone" /\ Head(puts)[2] = timeSync.zone
        BY <4>1
      <4> QED
        BY <1>0, <4>2, <4>3
    <3>2. TimeTail'
      BY <1>0, <3>1 DEF TimeTail
    <3>3. Landed \in FlashTypes
      BY <3>1 DEF Types, FlashTypes, Optional, Credentials, TimeSettings
    <3>4. Landed["zone"] = timeSync["zone"] /\ Landed["server"] = flash["server"]
      BY <3>1 DEF Types, FlashTypes, TimeSettings
    <3>5. Ahead("enabled")'
      BY <3>1 DEF Ahead
    <3>6. ~Ahead("server")
      BY <2>2 DEF Ahead
    <3> QED
      BY <1>0, <1>2, <3>2, <3>3, <3>4, <3>5, <3>6 DEF PutsShape, Fields
  <2>3. CASE puts = <<<<"enabled", timeSync.enabled>>>>
    <3>1. /\ Landed = [flash EXCEPT !["enabled"] = timeSync.enabled]
          /\ puts' = <<>>
      <4>1. Head(puts) = <<"enabled", timeSync.enabled>>
        BY <2>3, HeadsAndTails
      <4>2. Tail(puts) = <<>>
        BY <2>3, HeadsAndTails
      <4>3. Head(puts)[1] = "enabled" /\ Head(puts)[2] = timeSync.enabled
        BY <4>1
      <4> QED
        BY <1>0, <4>2, <4>3
    <3>2. Landed \in FlashTypes
      BY <3>1 DEF Types, FlashTypes, Optional, Credentials, TimeSettings
    <3>3. /\ Landed["enabled"] = timeSync["enabled"]
          /\ Landed["zone"] = flash["zone"] /\ Landed["server"] = flash["server"]
      BY <3>1 DEF Types, FlashTypes, TimeSettings
    <3>4. ~Ahead("server") /\ ~Ahead("zone")
      BY <2>3 DEF Ahead
    <3> QED
      BY <1>0, <1>2, <3>1, <3>2, <3>3, <3>4 DEF PutsShape, Fields
  <2> QED
    BY <1>2, <2>1, <2>2, <2>3 DEF TimeTail
<1>3. puts # <<>>
  BY DEF PutNext
<1> QED
  BY <1>1, <1>2, <1>3 DEF PutsShape

\* A write that is lost leaves flash as it was; of the time settings, it is noted.
LEMMA PutLost ==
    ASSUME Types, PutsShape, PutNext
    PROVE  /\ unsaved' \in [wifi : BOOLEAN, time : BOOLEAN]
           /\ ~unsaved'.time => ~unsaved.time
           /\ flash' # Landed => flash' = flash
           /\ flash' # Landed /\ TimeTail => unsaved'.time
<1>1. CASE flash' = Landed /\ unsaved' = unsaved
  BY <1>1 DEF Types
<1>2. CASE flash' = flash /\ Unsave(Head(puts)[1])
  <2>1. CASE Head(puts)[1] \in WifiKeys
    <3>1. unsaved' = [unsaved EXCEPT !.wifi = TRUE]
      BY <1>2, <2>1 DEF Unsave
    <3>2. unsaved' \in [wifi : BOOLEAN, time : BOOLEAN] /\ unsaved'.time = unsaved.time
      BY <3>1 DEF Types
    <3>3. ~TimeTail
      <4>1. CASE puts = TimePuts(timeSync)
        <5>1. Head(puts) = <<"server", timeSync.server>>
          BY <4>1, HeadsAndTails DEF TimePuts
        <5> QED
          BY <5>1, <2>1 DEF WifiKeys
      <4>2. CASE puts = <<<<"zone", timeSync.zone>>, <<"enabled", timeSync.enabled>>>>
        <5>1. Head(puts) = <<"zone", timeSync.zone>>
          BY <4>2, HeadsAndTails
        <5> QED
          BY <5>1, <2>1 DEF WifiKeys
      <4>3. CASE puts = <<<<"enabled", timeSync.enabled>>>>
        <5>1. Head(puts) = <<"enabled", timeSync.enabled>>
          BY <4>3, HeadsAndTails
        <5> QED
          BY <5>1, <2>1 DEF WifiKeys
      <4> QED
        BY <4>1, <4>2, <4>3 DEF TimeTail
    <3> QED
      BY <1>2, <3>2, <3>3
  <2>2. CASE Head(puts)[1] \notin WifiKeys
    <3>1. unsaved' = [unsaved EXCEPT !.time = TRUE]
      BY <1>2, <2>2 DEF Unsave
    <3>2. unsaved' \in [wifi : BOOLEAN, time : BOOLEAN] /\ unsaved'.time
      BY <3>1 DEF Types
    <3> QED
      BY <1>2, <3>2
  <2> QED
    BY <2>1, <2>2
<1> QED
  BY <1>1, <1>2 DEF PutNext, Landed

(***************************************************************************)
(* The invariant.                                                          *)
(***************************************************************************)

\* A setter for the field waits.
Pend(f) == \E i \in 1..Len(job) : job[i] \in SetSteps /\ job[i].field = f

\* Flash has, or will have, what the user entered.
FlashAgrees ==
    ~unsaved.time => \A f \in Fields :
        Ahead(f) \/ Pend(f) \/ Stored(f, DefaultTime[f]) = entered.time[f]

\* So does RAM; a factory reset leaves it as it is until the restart.
RamAgrees ==
    ~unsaved.time /\ job # <<RestartIt>> => \A f \in Fields :
        Pend(f) \/ timeSync[f] = entered.time[f]

SettersAgree ==
    ~unsaved.time => \A i \in 1..Len(job) :
        job[i] \in SetSteps => job[i].value = entered.time[job[i].field]

SntpAgrees ==
    job = <<>> \/ Head(job) # ApplyIt => (timeSync.enabled => sntp = Rule(timeSync))

ClockInv == PutsShape /\ JobShape /\ FlashAgrees /\ RamAgrees /\ SettersAgree /\ SntpAgrees

LEMMA ClockUntouched ==
    ASSUME ClockInv, wifi' = wifi, timeSync' = timeSync, sntp' = sntp, flash' = flash,
           puts' = puts, job' = job, entered' = entered, unsaved' = unsaved
    PROVE  ClockInv'
<1>1. PutsShape'
  BY DEF ClockInv, PutsShape, WifiTail, TimeTail
<1>2. JobShape'
  BY DEF ClockInv, JobShape
<1>3. FlashAgrees'
  BY DEF ClockInv, FlashAgrees, Ahead, Pend, Stored
<1>4. RamAgrees'
  BY DEF ClockInv, RamAgrees, Pend
<1>5. SettersAgree'
  BY DEF ClockInv, SettersAgree
<1>6. SntpAgrees'
  BY DEF ClockInv, SntpAgrees
<1> QED
  BY <1>1, <1>2, <1>3, <1>4, <1>5, <1>6 DEF ClockInv

LEMMA OneStepJobs ==
    /\ <<>> \in Seq(Steps) /\ <<Settings>> \in Seq(Steps) /\ <<RestartIt>> \in Seq(Steps)
    /\ Settings # RestartIt /\ Settings # ApplyIt /\ RestartIt # ApplyIt
    /\ Settings \notin SetSteps /\ RestartIt \notin SetSteps /\ ApplyIt \notin SetSteps
<1>1. Settings \in Steps /\ RestartIt \in Steps
  BY DEF Steps
<1>2. Settings # RestartIt /\ Settings # ApplyIt /\ RestartIt # ApplyIt
  BY StepKinds
<1>3. Settings \notin SetSteps /\ RestartIt \notin SetSteps /\ ApplyIt \notin SetSteps
  BY StepKinds
<1> QED
  BY <1>1, <1>2, <1>3

LEMMA NoSetter ==
    job = <<>> \/ job = <<Settings>> \/ job = <<RestartIt>> => \A f : ~Pend(f)
  BY OneStepJobs DEF Pend

\* What loadSettings() finds.
LEMMA LoadedTime ==
    ASSUME Types
    PROVE  /\ DefaultTime \in TimeSettings
           /\ [f \in Fields |-> Stored(f, DefaultTime[f])] \in TimeSettings
<1>1. DefaultTime \in TimeSettings
  BY NetworkAssumption DEF DefaultTime, TimeSettings
<1>2. /\ Stored("enabled", DefaultTime["enabled"]) \in BOOLEAN
      /\ Stored("server", DefaultTime["server"]) \in Servers
      /\ Stored("zone", DefaultTime["zone"]) \in Zones
  BY <1>1 DEF Types, FlashTypes, Optional, Stored, TimeSettings
<1> QED
  BY <1>1, <1>2 DEF TimeSettings, Fields

LEMMA LoadedWifi ==
    ASSUME Types
    PROVE  /\ DefaultWifi \in Credentials
           /\ [ssid |-> Stored("ssid", DefaultWifi.ssid), pass |-> Stored("pass", DefaultWifi.pass)]
                  \in Credentials
  BY NetworkAssumption DEF Types, FlashTypes, Optional, Stored, Credentials

\* A boot reads what flash has, or works on the defaults.
LEMMA Booted ==
    ASSUME Types, NEW w \in BOOLEAN, NEW t \in BOOLEAN, Boot(w, t)
    PROVE  /\ wifi' \in Credentials /\ target' \in Credentials
           /\ timeSync' \in TimeSettings /\ sntp' \in [server : Servers, zone : Zones] \cup {None}
           /\ t => timeSync' = [f \in Fields |-> Stored(f, DefaultTime[f])]
           /\ PutsShape' /\ JobShape' /\ SntpAgrees'
           /\ link' = None /\ retryDue' \in BOOLEAN /\ syncDue' \in BOOLEAN
           /\ job' = <<>> /\ aps' = aps /\ flash' = flash
<1>1. /\ link' = None /\ retryDue' \in BOOLEAN /\ syncDue' \in BOOLEAN
      /\ job' = <<>> /\ aps' = aps /\ flash' = flash
      /\ LoadWifi(w) /\ LoadTime(t)
  BY DEF Boot
<1>2. /\ wifi' \in Credentials /\ target' \in Credentials
      /\ puts' = WifiPuts(wifi') \/ puts' = <<>>
  BY <1>1, LoadedWifi DEF LoadWifi
<1>3. PutsShape'
  BY <1>2 DEF PutsShape, WifiTail
<1>4. JobShape'
  BY <1>1, OneStepJobs DEF JobShape, SetterJob
<1>5. timeSync' = IF t THEN [f \in Fields |-> Stored(f, DefaultTime[f])] ELSE DefaultTime
  BY <1>1 DEF LoadTime
<1>6. timeSync' \in TimeSettings
  BY <1>5, LoadedTime
<1>7. sntp' = IF timeSync'.enabled THEN Rule(timeSync') ELSE None
  BY <1>1 DEF LoadTime
<1>8. Rule(timeSync') \in [server : Servers, zone : Zones]
  BY <1>6 DEF Rule, TimeSettings
<1>9. sntp' \in [server : Servers, zone : Zones] \cup {None}
  BY <1>7, <1>8
<1>10. timeSync'.enabled => sntp' = Rule(timeSync)'
  BY <1>7 DEF Rule
<1>11. SntpAgrees'
  BY <1>10 DEF SntpAgrees
<1> QED
  BY <1>1, <1>2, <1>3, <1>4, <1>5, <1>6, <1>9, <1>11

(***************************************************************************)
(* Types.                                                                  *)
(***************************************************************************)

LEMMA NextStep ==
    ASSUME JobShape, NEW kind, Step(kind)
    PROVE  /\ puts = <<>> /\ job # <<>> /\ job \in Seq(Steps)
           /\ Head(job) = job[1] /\ Head(job) \in Steps /\ Head(job).do = kind
           /\ 1 \in 1..Len(job)
           /\ kind = "set" => Head(job) \in SetSteps
           /\ kind = "apply" => Head(job) = ApplyIt
           /\ kind = "restart" => Head(job) = RestartIt
           /\ kind = "settings" => Head(job) = Settings
<1>1. puts = <<>> /\ job # <<>> /\ job \in Seq(Steps) /\ Head(job).do = kind
  BY DEF Step, JobShape
<1>2. Head(job) = job[1] /\ Head(job) \in Steps /\ 1 \in 1..Len(job)
  BY <1>1
<1> QED
  BY <1>1, <1>2, StepKinds DEF Steps

LEMMA FieldSet ==
    ASSUME Types, NEW s \in SetSteps
    PROVE  [timeSync EXCEPT ![s.field] = s.value] \in TimeSettings
<1>1. CASE s.field = "enabled"
  BY <1>1, StepKinds DEF Types, TimeSettings
<1>2. CASE s.field = "server"
  BY <1>2, StepKinds DEF Types, TimeSettings
<1>3. CASE s.field = "zone"
  BY <1>3, StepKinds DEF Types, TimeSettings
<1>4. s.field \in {"enabled", "server", "zone"}
  BY StepKinds DEF Fields
<1> QED
  BY <1>1, <1>2, <1>3, <1>4

LEMMA SntpTyped ==
    ASSUME Types, ForceSync
    PROVE  sntp' \in [server : Servers, zone : Zones] \cup {None} /\ syncDue' \in BOOLEAN
<1>1. Rule(timeSync) \in [server : Servers, zone : Zones]
  BY DEF Types, TimeSettings, Rule
<1>2. CASE timeSync.enabled
  BY <1>1, <1>2 DEF ForceSync
<1>3. CASE ~timeSync.enabled
  BY <1>3 DEF ForceSync, Types
<1> QED
  BY <1>2, <1>3

\* The settings a request would leave.
LEMMA ChangedTime ==
    ASSUME Types, NEW given \in SUBSET Fields, NEW new \in TimeSettings
    PROVE  LET change == [f \in given |-> new[f]]
           IN  /\ DOMAIN change = given /\ Typed(change)
               /\ [f \in Fields |-> IF f \in DOMAIN change THEN change[f] ELSE timeSync[f]]
                      \in TimeSettings
<1> DEFINE change == [f \in given |-> new[f]]
<1>1. DOMAIN change = given /\ \A f \in given : change[f] = new[f]
  OBVIOUS
<1>2. new["enabled"] \in BOOLEAN /\ new["server"] \in Servers /\ new["zone"] \in Zones
  BY DEF TimeSettings
<1>3. timeSync["enabled"] \in BOOLEAN /\ timeSync["server"] \in Servers /\ timeSync["zone"] \in Zones
  BY DEF TimeSettings, Types
<1> HIDE DEF change
<1>4. Typed(change)
  BY <1>1, <1>2 DEF Typed, SetSteps, Fields
<1>5. [f \in Fields |-> IF f \in DOMAIN change THEN change[f] ELSE timeSync[f]] \in TimeSettings
  BY <1>1, <1>2, <1>3 DEF TimeSettings, Fields
<1> QED
  BY <1>1, <1>4, <1>5 DEF change

LEMMA TypesStep ==
    ASSUME Types, PutsShape, JobShape, [NetNext]_netVars
    PROVE  Types'
<1> USE DEF radio, clock, record, netVars
<1>1. CASE PutNext
  <2>1. flash' \in FlashTypes
    BY <1>1, PutStep, PutLost DEF Types
  <2>2. unsaved' \in [wifi : BOOLEAN, time : BOOLEAN]
    BY <1>1, PutLost
  <2> QED
    BY <1>1, <2>1, <2>2 DEF PutNext, Types
<1>2. CASE Join
  BY <1>2 DEF Join, Types
<1>3. CASE Restart
  <2>1. Boot(TRUE, TRUE) /\ UNCHANGED record
    BY <1>3 DEF Restart
  <2> QED
    BY <2>1, Booted DEF Types
<1>4. ASSUME NEW w \in BOOLEAN, NEW t \in BOOLEAN, Reset(w, t) PROVE Types'
  <2>1. /\ Boot(w, t) /\ entered' = entered
        /\ unsaved' \in [wifi : BOOLEAN, time : BOOLEAN]
    BY <1>4 DEF Reset, Types
  <2> QED
    BY <2>1, Booted DEF Types
<1>5. ASSUME NEW w \in BOOLEAN, NEW t \in BOOLEAN, FactoryReset(w, t) PROVE Types'
  <2>1. entered' \in [wifi : Credentials, time : TimeSettings]
    BY <1>5, LoadedTime, LoadedWifi DEF FactoryReset, Types
  <2>2. unsaved' \in [wifi : BOOLEAN, time : BOOLEAN]
    BY <1>5 DEF FactoryReset, Types
  <2>3. flash' \in FlashTypes
    BY <1>5 DEF FactoryReset, Types, FlashTypes, Optional, Keys, WifiKeys, Fields
  <2> QED
    BY <1>5, <2>1, <2>2, <2>3 DEF FactoryReset, Types
<1>6. ASSUME NEW now \in SUBSET Networks, LinkLost(now) PROVE Types'
  BY <1>6 DEF LinkLost, Types
<1>7. ASSUME NEW now \in SUBSET Networks, NetworksChange(now) PROVE Types'
  BY <1>7 DEF NetworksChange, Types
<1>8. CASE RetryTime
  BY <1>8 DEF RetryTime, Types
<1>9. CASE MaintainWifi
  BY <1>9 DEF MaintainWifi, Types
<1>10. CASE Reconnect
  BY <1>10 DEF Reconnect, ForceReconnect, Types
<1>11. ASSUME NEW ssid \in Networks, NEW pass \in Passwords \cup {Blank}, ConfigSave(ssid, pass)
       PROVE  Types'
  <2>1. wifi' \in Credentials /\ entered' = [entered EXCEPT !.wifi = wifi']
    BY <1>11 DEF ConfigSave, Types, Credentials
  <2>2. unsaved' \in [wifi : BOOLEAN, time : BOOLEAN]
    BY <1>11 DEF ConfigSave, Types
  <2>3. entered' \in [wifi : Credentials, time : TimeSettings]
    BY <2>1 DEF Types
  <2> QED
    BY <1>11, <2>1, <2>2, <2>3 DEF ConfigSave, Types
<1>12. CASE ConfigRefused
  BY <1>12 DEF ConfigRefused, Types
<1>13. CASE ConfigAccepted
  BY <1>13 DEF ConfigAccepted, ForceReconnect, Types
<1>14. ASSUME NEW given \in SUBSET Fields \ {{}}, NEW new \in TimeSettings,
              TimeConfigSave([f \in given |-> new[f]])
       PROVE  Types'
  <2> DEFINE change == [f \in given |-> new[f]]
  <2>1. [f \in Fields |-> IF f \in DOMAIN change THEN change[f] ELSE timeSync[f]] \in TimeSettings
    BY ChangedTime
  <2> HIDE DEF change
  <2>2. TimeConfigSave(change)
    BY <1>14 DEF change
  <2>3. entered' \in [wifi : Credentials, time : TimeSettings]
    BY <2>1, <2>2 DEF TimeConfigSave, Types
  <2>4. unsaved' \in [wifi : BOOLEAN, time : BOOLEAN]
    BY <2>2, Zenon DEF TimeConfigSave, Types
  <2> QED
    BY <2>2, <2>3, <2>4 DEF TimeConfigSave, Types
<1>15. CASE SetField
  <2>1. timeSync' \in TimeSettings
    BY <1>15, NextStep, FieldSet DEF SetField
  <2>2. unsaved' \in [wifi : BOOLEAN, time : BOOLEAN]
    BY <1>15 DEF SetField, Types
  <2> QED
    BY <1>15, <2>1, <2>2 DEF SetField, Types
<1>16. CASE Apply
  BY <1>16, SntpTyped DEF Apply, Types
<1>17. CASE SyncNow
  BY <1>17, SntpTyped DEF SyncNow, Types
<1>18. CASE MaintainTime
  BY <1>18, SntpTyped DEF MaintainTime, Types
<1>19. CASE SyncTime
  BY <1>19 DEF SyncTime, Types
<1>20. CASE UNCHANGED netVars
  BY <1>20 DEF Types
<1> QED
  BY <1>1, <1>2, <1>3, <1>4, <1>5, <1>6, <1>7, <1>8, <1>9, <1>10, <1>11, <1>12, <1>13, <1>14,
     <1>15, <1>16, <1>17, <1>18, <1>19, <1>20 DEF NetNext, DeviceNext, WifiNext, TimeNext

(***************************************************************************)
(* The clock.                                                              *)
(***************************************************************************)

LEMMA ClockInvInit ==
    ASSUME NetInit
    PROVE  Types /\ ClockInv
<1> USE NetworkAssumption
<1>1. Types
  <2>1. DefaultTime \in TimeSettings /\ DefaultWifi \in Credentials
    BY DEF DefaultTime, TimeSettings, Credentials
  <2>2. flash \in FlashTypes
    BY DEF NetInit, FlashTypes, Optional, Keys, WifiKeys, Fields
  <2>3. sntp \in [server : Servers, zone : Zones]
    BY <2>1 DEF NetInit, Rule, TimeSettings
  <2> QED
    BY <2>1, <2>2, <2>3 DEF NetInit, Types
<1>2. PutsShape
  BY DEF NetInit, PutsShape, WifiTail
<1>3. JobShape
  BY OneStepJobs DEF NetInit, JobShape, SetterJob
<1>4. \A f \in Fields : Stored(f, DefaultTime[f]) = entered.time[f]
  BY DEF NetInit, Stored, Fields, Keys
<1>5. RamAgrees /\ SettersAgree
  BY DEF NetInit, RamAgrees, SettersAgree
<1>6. SntpAgrees
  BY DEF NetInit, SntpAgrees
<1> QED
  BY <1>1, <1>2, <1>3, <1>4, <1>5, <1>6 DEF ClockInv, FlashAgrees

LEMMA PutClock ==
    ASSUME Types, ClockInv, PutNext
    PROVE  ClockInv'
<1>1. timeSync' = timeSync /\ sntp' = sntp /\ job' = job /\ entered' = entered
  BY DEF PutNext, clock
<1>2. PutsShape'
  BY PutStep DEF ClockInv
<1>3. ~unsaved'.time => ~unsaved.time
  BY PutLost DEF ClockInv
<1>4. FlashAgrees'
  <2> SUFFICES ASSUME ~unsaved'.time, NEW f \in Fields, ~Ahead(f)', ~Pend(f)'
               PROVE  Stored(f, DefaultTime[f])' = entered.time[f]
    BY <1>1 DEF FlashAgrees
  <2>1. ~Pend(f)
    BY <1>1 DEF Pend
  <2>2. CASE ~Ahead(f) /\ Landed[f] = flash[f]
    <3>1. flash'[f] = flash[f]
      BY <2>2, PutLost DEF ClockInv
    <3> QED
      BY <1>3, <2>1, <2>2, <3>1 DEF ClockInv, FlashAgrees, Stored
  <2>3. CASE TimeTail /\ job # <<>> /\ Head(job) = ApplyIt /\ Landed[f] = timeSync[f]
    <3>1. job # <<RestartIt>>
      BY <2>3, OneStepJobs
    <3>2. timeSync[f] = entered.time[f]
      BY <1>3, <2>1, <3>1 DEF ClockInv, RamAgrees
    <3>3. timeSync[f] # None
      BY NetworkAssumption DEF Types, TimeSettings, Fields
    <3>4. flash'[f] = timeSync[f]
      BY <2>3, PutLost DEF ClockInv
    <3> QED
      BY <3>2, <3>3, <3>4 DEF Stored
  <2> QED
    BY <2>2, <2>3, PutStep DEF ClockInv
<1> QED
  BY <1>1, <1>2, <1>3, <1>4 DEF ClockInv, JobShape, RamAgrees, SettersAgree, SntpAgrees, Pend

LEMMA RestartClock ==
    ASSUME Types, ClockInv, Restart
    PROVE  ClockInv'
<1>1. puts = <<>> /\ job = <<RestartIt>>
  BY NextStep, StepKinds DEF Restart, ClockInv, JobShape, SetterJob
<1>2. Boot(TRUE, TRUE) /\ entered' = entered /\ unsaved' = unsaved
  BY DEF Restart, record
<1>3. /\ PutsShape' /\ JobShape' /\ SntpAgrees' /\ job' = <<>> /\ flash' = flash
      /\ timeSync' = [f \in Fields |-> Stored(f, DefaultTime[f])]
  BY <1>2, Booted
<1>4. ~unsaved.time => \A f \in Fields : Stored(f, DefaultTime[f]) = entered.time[f]
  BY <1>1, NotAhead, NoSetter DEF ClockInv, FlashAgrees
<1>5. FlashAgrees'
  BY <1>2, <1>3, <1>4 DEF FlashAgrees, Stored
<1>6. RamAgrees'
  BY <1>2, <1>3, <1>4 DEF RamAgrees
<1>7. SettersAgree'
  BY <1>3 DEF SettersAgree
<1> QED
  BY <1>3, <1>5, <1>6, <1>7 DEF ClockInv

\* The history notes what a reset cut off.
LEMMA CutOff ==
    ASSUME ClockInv, ~Pending(Fields), ~ \E i \in DOMAIN job : job[i].do = "set"
    PROVE  \A f \in Fields : ~Ahead(f) /\ ~Pend(f)
<1> SUFFICES ASSUME NEW f \in Fields PROVE ~Ahead(f) /\ ~Pend(f)
  OBVIOUS
<1>1. DOMAIN job = 1..Len(job)
  BY DEF ClockInv, JobShape
<1>2. ~Pend(f)
  BY <1>1, StepKinds DEF Pend
<1>3. CASE puts = <<>> \/ WifiTail
  BY <1>2, <1>3, NotAhead
<1>4. CASE TimeTail /\ job # <<>> /\ Head(job) = ApplyIt
  <2>1. DOMAIN puts = 1..Len(puts)
    BY <1>4 DEF TimeTail, TimePuts
  <2> QED
    BY <1>2, <1>4, <2>1 DEF Pending, Ahead
<1> QED
  BY <1>3, <1>4 DEF ClockInv, PutsShape

LEMMA ResetClock ==
    ASSUME Types, ClockInv, NEW w \in BOOLEAN, NEW t \in BOOLEAN, Reset(w, t)
    PROVE  ClockInv'
<1>1. /\ Boot(w, t) /\ entered' = entered
      /\ unsaved' = [wifi |-> unsaved.wifi \/ ~w \/ Pending(WifiKeys),
                     time |-> \/ unsaved.time \/ ~t \/ Pending(Fields)
                              \/ \E i \in DOMAIN job : job[i].do = "set"]
  BY DEF Reset
<1>2. /\ PutsShape' /\ JobShape' /\ SntpAgrees' /\ job' = <<>> /\ flash' = flash
      /\ t => timeSync' = [f \in Fields |-> Stored(f, DefaultTime[f])]
  BY <1>1, Booted
<1>3. ASSUME ~unsaved'.time
      PROVE  t /\ \A f \in Fields : Stored(f, DefaultTime[f]) = entered.time[f]
  <2>1. ~(\/ unsaved.time \/ ~t \/ Pending(Fields)
          \/ \E i \in DOMAIN job : job[i].do = "set")
    BY <1>1, <1>3
  <2> QED
    BY <2>1, CutOff DEF ClockInv, FlashAgrees
<1>4. FlashAgrees'
  BY <1>1, <1>2, <1>3 DEF FlashAgrees, Stored
<1>5. RamAgrees'
  BY <1>1, <1>2, <1>3 DEF RamAgrees
<1>6. SettersAgree'
  BY <1>2 DEF SettersAgree
<1> QED
  BY <1>2, <1>4, <1>5, <1>6 DEF ClockInv

LEMMA FactoryResetClock ==
    ASSUME Types, ClockInv, NEW w \in BOOLEAN, NEW t \in BOOLEAN, FactoryReset(w, t)
    PROVE  ClockInv'
<1>1. /\ puts = <<>> /\ job = <<>> /\ puts' = <<>> /\ job' = <<RestartIt>>
      /\ wifi' = wifi /\ timeSync' = timeSync /\ sntp' = sntp
  BY DEF FactoryReset, Idle, RestartIt, clock
<1>2. PutsShape' /\ JobShape'
  BY <1>1, OneStepJobs DEF PutsShape, JobShape
<1>3. /\ \A f \in Fields : flash'[f] = IF t THEN None ELSE flash[f]
      /\ entered'.time = IF t THEN DefaultTime ELSE entered.time
      /\ unsaved'.time = (unsaved.time /\ ~t)
  BY DEF FactoryReset, Keys, WifiKeys, Fields
<1>4. ~unsaved'.time => \A f \in Fields : Stored(f, DefaultTime[f])' = entered'.time[f]
  <2>1. CASE t
    BY <1>3, <2>1 DEF Stored
  <2>2. CASE ~t
    BY <1>1, <1>3, <2>2, NotAhead, NoSetter DEF ClockInv, FlashAgrees, Stored
  <2> QED
    BY <2>1, <2>2
<1>5. FlashAgrees'
  BY <1>4 DEF FlashAgrees
<1>6. RamAgrees' /\ SettersAgree'
  BY <1>1, OneStepJobs DEF RamAgrees, SettersAgree
<1>7. SntpAgrees'
  BY <1>1 DEF ClockInv, SntpAgrees, Rule
<1> QED
  BY <1>2, <1>5, <1>6, <1>7 DEF ClockInv

\* The steps of POST /config leave the clock alone.
LEMMA ConfigClock ==
    ASSUME ClockInv, puts = <<>>, job = <<>> \/ job = <<Settings>>,
           job' = <<>> \/ job' = <<Settings>> \/ job' = <<RestartIt>>,
           puts' = <<>> \/ WifiTail',
           timeSync' = timeSync, sntp' = sntp, flash' = flash,
           entered'.time = entered.time, unsaved'.time = unsaved.time
    PROVE  ClockInv'
<1>1. PutsShape'
  BY DEF PutsShape
<1>2. JobShape'
  <2>1. CASE job' = <<>>
    BY <2>1, OneStepJobs DEF JobShape, SetterJob
  <2>2. CASE job' = <<Settings>>
    BY <2>2, OneStepJobs DEF JobShape
  <2>3. CASE job' = <<RestartIt>>
    BY <2>3, OneStepJobs DEF JobShape
  <2> QED
    BY <2>1, <2>2, <2>3
<1>3. ~unsaved.time => \A f \in Fields : Stored(f, DefaultTime[f]) = entered.time[f]
  BY NotAhead, NoSetter DEF ClockInv, FlashAgrees
<1>4. FlashAgrees'
  BY <1>3 DEF FlashAgrees, Stored
<1>5. job # <<RestartIt>>
  BY OneStepJobs
<1>6. RamAgrees'
  BY <1>5, NoSetter DEF ClockInv, RamAgrees
<1>7. SettersAgree'
  BY OneStepJobs DEF SettersAgree
<1>8. timeSync.enabled => sntp = Rule(timeSync)
  BY OneStepJobs DEF ClockInv, SntpAgrees
<1>9. SntpAgrees'
  BY <1>8 DEF SntpAgrees, Rule
<1> QED
  BY <1>1, <1>2, <1>4, <1>6, <1>7, <1>9 DEF ClockInv

LEMMA SettingsClock ==
    ASSUME Types, ClockInv, Step("settings"), wifi' = wifi, puts' = puts,
           timeSync' = timeSync, sntp' = sntp, flash' = flash, entered' = entered,
           unsaved' = unsaved, job' = <<>> \/ job' = <<RestartIt>>
    PROVE  ClockInv'
<1>1. puts = <<>> /\ job # <<>> /\ Head(job) = Settings
  BY NextStep DEF ClockInv
<1>2. job = <<Settings>>
  BY <1>1, NextStep, OneStepJobs DEF ClockInv, JobShape, SetterJob
<1> QED
  BY <1>1, <1>2, ConfigClock

LEMMA SaveClock ==
    ASSUME Types, ClockInv, NEW given \in SUBSET Fields, NEW new \in TimeSettings,
           TimeConfigSave([f \in given |-> new[f]])
    PROVE  ClockInv'
<1> DEFINE change == [f \in given |-> new[f]]
<1>1. DOMAIN change = given /\ Typed(change)
  BY ChangedTime
<1>2. TimeConfigSave(change)
  OBVIOUS
<1> HIDE DEF change
<1>3. /\ puts = <<>> /\ job = <<>> /\ job' = Setters(change)
      /\ entered' = [entered EXCEPT !.time =
                        [f \in Fields |-> IF f \in DOMAIN change THEN change[f] ELSE timeSync[f]]]
      /\ unsaved' = [unsaved EXCEPT !.time = (unsaved.time /\ DOMAIN change # Fields)]
      /\ wifi' = wifi /\ timeSync' = timeSync /\ sntp' = sntp /\ flash' = flash /\ puts' = puts
  BY <1>2 DEF TimeConfigSave, Idle, clock
<1>4. /\ \A f \in Fields : entered'.time[f] = IF f \in given THEN change[f] ELSE timeSync[f]
      /\ unsaved'.time = (unsaved.time /\ given # Fields)
  BY <1>1, <1>3 DEF Types
<1>5. Fields \cap DOMAIN change = given
  BY <1>1
<1>6. Lists(job', change, given)
  BY <1>1, <1>3, <1>5, SettersList
<1>7. /\ job' \in Seq(Steps) /\ Len(job') \in Nat /\ Len(job') =< 3
      /\ \A i \in 1..Len(job') : /\ job'[i].field \in given
                                 /\ job'[i] = SetStep(job'[i].field, change[job'[i].field])
      /\ \A i, k \in 1..Len(job') : i # k => job'[i].field # job'[k].field
  <2>1. job' \in Seq(Steps) /\ \A i, k \in 1..Len(job') : i # k => job'[i].field # job'[k].field
    BY <1>6 DEF Lists
  <2>2. Len(job') =< 3
    BY <1>6, ListsShort
  <2>3. /\ Len(job') \in Nat
        /\ \A i \in 1..Len(job') : /\ job'[i].field \in given
                                   /\ job'[i] = SetStep(job'[i].field, change[job'[i].field])
    BY <1>6, ListsFields
  <2> QED
    BY <2>1, <2>2, <2>3
<1>8. \A i \in 1..Len(job') : job'[i] \in SetSteps /\ job'[i].value = change[job'[i].field]
  <2> SUFFICES ASSUME NEW i \in 1..Len(job')
               PROVE  job'[i] \in SetSteps /\ job'[i].value = change[job'[i].field]
    OBVIOUS
  <2> DEFINE f == job'[i].field
  <2>1. f \in given /\ job'[i] = SetStep(f, change[f])
    BY <1>7
  <2> HIDE DEF f
  <2>2. job'[i] \in SetSteps /\ job'[i].value = change[f]
    BY <1>1, <2>1 DEF Typed, SetStep
  <2> QED
    BY <2>2 DEF f
<1>9. PutsShape' /\ puts' = <<>>
  BY <1>3 DEF PutsShape
<1>10. SetterJob(job')
  BY <1>7, <1>8 DEF SetterJob
<1>11. JobShape'
  BY <1>7, <1>10 DEF JobShape
<1>12. \A f \in given : Pend(f)'
  <2> SUFFICES ASSUME NEW f \in given PROVE Pend(f)'
    OBVIOUS
  <2>1. PICK i \in 1..Len(job') : job'[i] = SetStep(f, change[f])
    BY <1>6 DEF Lists
  <2>2. job'[i].field = f
    BY <2>1 DEF SetStep
  <2> QED
    BY <1>8, <2>2 DEF Pend
<1>13. ASSUME ~unsaved'.time, NEW f \in Fields, f \notin given
       PROVE  entered'.time[f] = timeSync[f] /\ Stored(f, DefaultTime[f]) = timeSync[f]
  <2>1. ~unsaved.time /\ entered'.time[f] = timeSync[f]
    BY <1>4, <1>13
  <2>2. job # <<RestartIt>>
    BY <1>3, OneStepJobs
  <2>3. timeSync[f] = entered.time[f]
    BY <1>3, <2>1, <2>2, NoSetter DEF ClockInv, RamAgrees
  <2>4. Stored(f, DefaultTime[f]) = entered.time[f]
    BY <1>3, <2>1, NoSetter, NotAhead DEF ClockInv, FlashAgrees
  <2> QED
    BY <2>1, <2>3, <2>4
<1>14. FlashAgrees'
  BY <1>3, <1>12, <1>13 DEF FlashAgrees, Stored
<1>15. RamAgrees'
  BY <1>3, <1>12, <1>13 DEF RamAgrees
<1>16. SettersAgree'
  BY <1>4, <1>7, <1>8 DEF SettersAgree
<1>17. timeSync.enabled => sntp = Rule(timeSync)
  BY <1>3 DEF ClockInv, SntpAgrees
<1>18. SntpAgrees'
  BY <1>3, <1>17 DEF SntpAgrees, Rule
<1> QED
  BY <1>9, <1>11, <1>14, <1>15, <1>16, <1>18 DEF ClockInv

\* A setter or what follows it is the first step only of a list of setters.
LEMMA InSetters ==
    ASSUME JobShape, job # <<>>, Head(job) \in SetSteps \/ Head(job) = ApplyIt
    PROVE  SetterJob(job) /\ job # <<RestartIt>>
  BY OneStepJobs DEF JobShape

LEMMA SetFieldClock ==
    ASSUME Types, ClockInv, SetField
    PROVE  ClockInv'
<1> DEFINE s == Head(job)
<1>1. /\ puts = <<>> /\ job # <<>> /\ job \in Seq(Steps) /\ s = job[1] /\ s \in SetSteps
      /\ 1 \in 1..Len(job) /\ Len(job) =< 3
  BY NextStep DEF SetField, ClockInv, JobShape
<1>2. SetterJob(job) /\ job # <<RestartIt>>
  BY <1>1, InSetters DEF ClockInv
<1>3. /\ timeSync' = [timeSync EXCEPT ![s.field] = s.value]
      /\ job' = <<ApplyIt>> \o Tail(job)
      /\ flash' = flash /\ entered' = entered
      /\ \/ puts' = TimePuts(timeSync') /\ unsaved' = unsaved
         \/ puts' = <<>> /\ unsaved' = [unsaved EXCEPT !.time = TRUE]
  BY <1>1 DEF SetField, ApplyIt
<1>4. /\ job' \in Seq(Steps) /\ Len(job') = Len(job) /\ Len(job) \in Nat
      /\ job'[1] = ApplyIt /\ job' # <<>> /\ Head(job') = ApplyIt
      /\ \A i \in 2..Len(job) : job'[i] = job[i]
  <2>1. Tail(job) \in Seq(Steps) /\ Len(Tail(job)) = Len(job) - 1 /\ Len(job) \in Nat
    BY <1>1
  <2>2. \A i \in 1..Len(Tail(job)) : Tail(job)[i] = job[i + 1]
    BY <1>1
  <2>3. <<ApplyIt>> \in Seq(Steps) /\ Len(<<ApplyIt>>) = 1 /\ <<ApplyIt>>[1] = ApplyIt
    BY DEF Steps
  <2>4. /\ job' \in Seq(Steps) /\ Len(job') = 1 + Len(Tail(job))
        /\ \A i \in 1..1 + Len(Tail(job)) :
               job'[i] = IF i =< 1 THEN <<ApplyIt>>[i] ELSE Tail(job)[i - 1]
    BY <1>3, <2>1, <2>3, ConcatProperties
  <2>5. Len(job') = Len(job) /\ job'[1] = ApplyIt
    BY <1>1, <2>1, <2>3, <2>4
  <2>6. \A i \in 2..Len(job) : job'[i] = job[i]
    BY <2>1, <2>2, <2>4
  <2>7. job' # <<>> /\ Head(job') = ApplyIt
    BY <1>1, <2>4, <2>5
  <2> QED
    BY <2>1, <2>4, <2>5, <2>6, <2>7
<1> HIDE DEF s
<1>5. \A i \in 2..Len(job) : job'[i] \in SetSteps /\ job[i] \in SetSteps /\ job'[i] = job[i]
  BY <1>2, <1>4 DEF SetterJob
<1>6. SetterJob(job')
  <2>1. \A i \in 1..Len(job') : job'[i] \in SetSteps \/ (i = 1 /\ job'[1] = ApplyIt)
    BY <1>4, <1>5
  <2>2. \A i, k \in 1..Len(job') : job'[i] \in SetSteps /\ job'[k] \in SetSteps /\ i # k
                                       => job'[i].field # job'[k].field
    <3> SUFFICES ASSUME NEW i \in 1..Len(job'), NEW k \in 1..Len(job'), job'[i] \in SetSteps,
                        job'[k] \in SetSteps, i # k
                 PROVE  job'[i].field # job'[k].field
      OBVIOUS
    <3>1. i \in 2..Len(job) /\ k \in 2..Len(job)
      BY <1>4, OneStepJobs
    <3> QED
      BY <1>2, <1>5, <3>1 DEF SetterJob
  <2> QED
    BY <2>1, <2>2 DEF SetterJob
<1>7. JobShape'
  BY <1>1, <1>4, <1>6 DEF JobShape
<1>8. \A f \in Fields : f # s.field /\ Pend(f) => Pend(f)'
  <2> SUFFICES ASSUME NEW f \in Fields, f # s.field, NEW i \in 1..Len(job),
                      job[i] \in SetSteps, job[i].field = f
               PROVE  Pend(f)'
    BY DEF Pend
  <2>1. i \in 2..Len(job)
    BY <1>1, <1>4
  <2> QED
    BY <1>4, <1>5, <2>1 DEF Pend
<1>9. PutsShape'
  BY <1>3, <1>4 DEF PutsShape, TimeTail
<1>10. ASSUME ~unsaved'.time PROVE puts' = TimePuts(timeSync') /\ ~unsaved.time
  BY <1>3, <1>10 DEF Types
<1>11. FlashAgrees'
  <2> SUFFICES ASSUME ~unsaved'.time PROVE \A f \in Fields : Ahead(f)'
    BY DEF FlashAgrees
  <2>1. puts' = TimePuts(timeSync)'
    BY <1>10 DEF TimePuts
  <2> QED
    BY <2>1 DEF Ahead, TimePuts, Fields
<1>12. RamAgrees'
  <2> SUFFICES ASSUME ~unsaved'.time, NEW f \in Fields, ~Pend(f)'
               PROVE  timeSync'[f] = entered.time[f]
    BY <1>3 DEF RamAgrees
  <2>1. CASE f = s.field
    <3>1. timeSync'[f] = s.value
      BY <1>3, <2>1 DEF Types, TimeSettings, Fields
    <3>2. s.value = entered.time[s.field]
      BY <1>1, <1>10 DEF ClockInv, SettersAgree
    <3> QED
      BY <2>1, <3>1, <3>2
  <2>2. CASE f # s.field
    <3>1. timeSync[f] = entered.time[f]
      BY <1>2, <1>8, <1>10, <2>2 DEF ClockInv, RamAgrees
    <3>2. timeSync'[f] = timeSync[f]
      BY <1>3, <2>2 DEF Types, TimeSettings, Fields
    <3> QED
      BY <3>1, <3>2
  <2> QED
    BY <2>1, <2>2
<1>13. SettersAgree'
  <2> SUFFICES ASSUME ~unsaved'.time, NEW i \in 1..Len(job'), job'[i] \in SetSteps
               PROVE  job'[i].value = entered.time[job'[i].field]
    BY <1>3 DEF SettersAgree
  <2>1. i \in 2..Len(job)
    BY <1>4, OneStepJobs
  <2> QED
    BY <1>5, <1>10, <2>1 DEF ClockInv, SettersAgree
<1>14. SntpAgrees'
  BY <1>4 DEF SntpAgrees
<1> QED
  BY <1>7, <1>9, <1>11, <1>12, <1>13, <1>14 DEF ClockInv

LEMMA ApplyClock ==
    ASSUME Types, ClockInv, Apply
    PROVE  ClockInv'
<1>1. /\ puts = <<>> /\ job # <<>> /\ job \in Seq(Steps) /\ job[1] = ApplyIt /\ Head(job) = ApplyIt
      /\ 1 \in 1..Len(job) /\ Len(job) =< 3
  BY NextStep DEF Apply, ClockInv, JobShape
<1>2. SetterJob(job) /\ job # <<RestartIt>>
  BY <1>1, InSetters DEF ClockInv
<1>3. /\ ForceSync /\ job' = Tail(job) /\ wifi' = wifi /\ timeSync' = timeSync
      /\ flash' = flash /\ puts' = puts /\ entered' = entered /\ unsaved' = unsaved
  BY DEF Apply, record
<1>4. /\ job' \in Seq(Steps) /\ Len(job') = Len(job) - 1 /\ Len(job) \in Nat
      /\ \A i \in 1..Len(job') : job'[i] = job[i + 1]
  BY <1>1, <1>3
<1>5. \A i \in 1..Len(job') : /\ i + 1 \in 1..Len(job) /\ job'[i] = job[i + 1]
                              /\ job'[i] \in SetSteps
  <2> SUFFICES ASSUME NEW i \in 1..Len(job')
               PROVE  i + 1 \in 1..Len(job) /\ job'[i] = job[i + 1] /\ job'[i] \in SetSteps
    OBVIOUS
  <2>1. i + 1 \in 1..Len(job) /\ i + 1 # 1 /\ job'[i] = job[i + 1]
    BY <1>4
  <2> QED
    BY <1>2, <2>1 DEF SetterJob
<1>6. \A i, k \in 1..Len(job') : i # k => job'[i].field # job'[k].field
  <2> SUFFICES ASSUME NEW i \in 1..Len(job'), NEW k \in 1..Len(job'), i # k
               PROVE  job'[i].field # job'[k].field
    OBVIOUS
  <2>1. i + 1 # k + 1
    BY <1>4
  <2> QED
    BY <1>2, <1>5, <2>1 DEF SetterJob
<1>7. JobShape'
  BY <1>1, <1>4, <1>5, <1>6 DEF JobShape, SetterJob
<1>8. \A f \in Fields : Pend(f) => Pend(f)'
  <2> SUFFICES ASSUME NEW f \in Fields, NEW i \in 1..Len(job), job[i] \in SetSteps,
                      job[i].field = f
               PROVE  Pend(f)'
    BY DEF Pend
  <2>1. i # 1
    BY <1>1, OneStepJobs
  <2>2. i - 1 \in 1..Len(job') /\ job'[i - 1] = job[i]
    BY <1>4, <2>1
  <2> QED
    BY <2>2 DEF Pend
<1>9. PutsShape'
  BY <1>1, <1>3 DEF PutsShape
<1>10. FlashAgrees'
  <2> SUFFICES ASSUME ~unsaved.time, NEW f \in Fields, ~Pend(f)'
               PROVE  Stored(f, DefaultTime[f]) = entered.time[f]
    BY <1>3 DEF FlashAgrees, Stored
  <2> QED
    BY <1>1, <1>8, NotAhead DEF ClockInv, FlashAgrees
<1>11. RamAgrees'
  BY <1>2, <1>3, <1>8 DEF ClockInv, RamAgrees
<1>12. SettersAgree'
  BY <1>3, <1>5 DEF ClockInv, SettersAgree
<1>13. timeSync'.enabled => sntp' = Rule(timeSync)'
  BY <1>3 DEF ForceSync, Rule
<1>14. SntpAgrees'
  BY <1>13 DEF SntpAgrees
<1> QED
  BY <1>7, <1>9, <1>10, <1>11, <1>12, <1>14 DEF ClockInv

\* POST /time/sync and the synchronisation of the loop.
LEMMA SyncClock ==
    ASSUME ClockInv, ForceSync, wifi' = wifi, timeSync' = timeSync, flash' = flash,
           puts' = puts, job' = job, entered' = entered, unsaved' = unsaved
    PROVE  ClockInv'
<1>1. PutsShape'
  BY DEF ClockInv, PutsShape, WifiTail, TimeTail
<1>2. JobShape'
  BY DEF ClockInv, JobShape
<1>3. FlashAgrees'
  BY DEF ClockInv, FlashAgrees, Ahead, Pend, Stored
<1>4. RamAgrees' /\ SettersAgree'
  BY DEF ClockInv, RamAgrees, SettersAgree, Pend
<1>5. SntpAgrees'
  BY DEF ClockInv, SntpAgrees, ForceSync, Rule
<1> QED
  BY <1>1, <1>2, <1>3, <1>4, <1>5 DEF ClockInv

LEMMA ClockStep ==
    ASSUME Types, ClockInv, [NetNext]_netVars
    PROVE  ClockInv'
<1> USE DEF radio, clock, record, netVars
<1>1. CASE PutNext
  BY <1>1, PutClock
<1>2. CASE Join
  BY <1>2, ClockUntouched DEF Join
<1>3. CASE Restart
  BY <1>3, RestartClock
<1>4. ASSUME NEW w \in BOOLEAN, NEW t \in BOOLEAN, Reset(w, t) PROVE ClockInv'
  BY <1>4, ResetClock
<1>5. ASSUME NEW w \in BOOLEAN, NEW t \in BOOLEAN, FactoryReset(w, t) PROVE ClockInv'
  BY <1>5, FactoryResetClock
<1>6. ASSUME NEW now \in SUBSET Networks, LinkLost(now) PROVE ClockInv'
  BY <1>6, ClockUntouched DEF LinkLost
<1>7. ASSUME NEW now \in SUBSET Networks, NetworksChange(now) PROVE ClockInv'
  BY <1>7, ClockUntouched DEF NetworksChange
<1>8. CASE RetryTime
  BY <1>8, ClockUntouched DEF RetryTime
<1>9. CASE MaintainWifi
  BY <1>9, ClockUntouched DEF MaintainWifi
<1>10. CASE Reconnect
  BY <1>10, ClockUntouched DEF Reconnect
<1>11. ASSUME NEW ssid \in Networks, NEW pass \in Passwords \cup {Blank}, ConfigSave(ssid, pass)
       PROVE  ClockInv'
  <2>1. /\ puts = <<>> /\ job = <<>> /\ job' = <<Settings>>
        /\ timeSync' = timeSync /\ sntp' = sntp /\ flash' = flash
    BY <1>11 DEF ConfigSave, Idle, Settings
  <2>2. entered'.time = entered.time /\ unsaved'.time = unsaved.time
    BY <1>11 DEF ConfigSave, Types
  <2>3. puts' = <<>> \/ WifiTail'
    BY <1>11 DEF ConfigSave, WifiTail
  <2> QED
    BY <2>1, <2>2, <2>3, ConfigClock
<1>12. CASE ConfigRefused
  BY <1>12, SettingsClock DEF ConfigRefused
<1>13. CASE ConfigAccepted
  BY <1>13, SettingsClock DEF ConfigAccepted, RestartIt
<1>14. ASSUME NEW given \in SUBSET Fields \ {{}}, NEW new \in TimeSettings,
              TimeConfigSave([f \in given |-> new[f]])
       PROVE  ClockInv'
  BY <1>14, SaveClock
<1>15. CASE SetField
  BY <1>15, SetFieldClock
<1>16. CASE Apply
  BY <1>16, ApplyClock
<1>17. CASE SyncNow
  BY <1>17, SyncClock DEF SyncNow
<1>18. CASE MaintainTime
  BY <1>18, SyncClock DEF MaintainTime
<1>19. CASE SyncTime
  BY <1>19, ClockUntouched DEF SyncTime
<1>20. CASE UNCHANGED netVars
  BY <1>20, ClockUntouched
<1> QED
  BY <1>1, <1>2, <1>3, <1>4, <1>5, <1>6, <1>7, <1>8, <1>9, <1>10, <1>11, <1>12, <1>13, <1>14,
     <1>15, <1>16, <1>17, <1>18, <1>19, <1>20 DEF NetNext, DeviceNext, WifiNext, TimeNext

\* Both together are inductive.
LEMMA Inductive == NetSpec => [](Types /\ ClockInv)
<1>1. NetInit => Types /\ ClockInv
  BY ClockInvInit
<1>2. Types /\ ClockInv /\ [NetNext]_netVars => (Types /\ ClockInv)'
  BY TypesStep, ClockStep DEF ClockInv
<1> QED
  BY <1>1, <1>2, PTL DEF NetSpec

LEMMA FewPuts == PutsShape => Len(puts) =< 3
<1>1. \A a, b, c : /\ Len(<<a, b, c>>) = 3 /\ Len(<<a, b>>) = 2 /\ Len(<<a>>) = 1
                   /\ Len(<<>>) = 0
  OBVIOUS
<1>2. WifiTail => Len(puts) \in {1, 2, 3}
  BY <1>1 DEF WifiTail, WifiPuts
<1>3. TimeTail => Len(puts) \in {1, 2, 3}
  BY <1>1 DEF TimeTail, TimePuts
<1> QED
  BY <1>2, <1>3, Len(<<>>) = 0, 0 =< 3, 1 =< 3, 2 =< 3, 3 =< 3 DEF PutsShape

(***************************************************************************)
(* NetworkSettings: theorems.                                              *)
(***************************************************************************)

\* Whatever a torn save or a refusal left in flash, loadCredentials() and loadSettings() give
\* the device credentials, a server and a zone it can use.
THEOREM NetTypes == NetSpec => []NetTypeOK
<1>1. Types /\ ClockInv => NetTypeOK
  BY FewPuts DEF Types, ClockInv, JobShape, NetTypeOK
<1> QED
  BY <1>1, Inductive, PTL

\* Whatever mix of settings, saves cut off between two puts, refusals, factory resets and
\* restarts came before: between handlers the time settings are those the user gave last, and
\* an enabled clock follows their server and zone.
THEOREM ClockFollows == NetSpec => []ClockFollowsSettings
<1>1. Types /\ ClockInv => ClockFollowsSettings
  <2> SUFFICES ASSUME Types, ClockInv, Idle, ~unsaved.time
               PROVE  timeSync = entered.time /\ (timeSync.enabled => sntp = Rule(timeSync))
    BY DEF ClockFollowsSettings
  <2>1. job = <<>>
    BY DEF Idle
  <2>2. job # <<RestartIt>>
    BY <2>1, OneStepJobs
  <2>3. \A f \in Fields : timeSync[f] = entered.time[f]
    BY <2>1, <2>2, NoSetter DEF ClockInv, RamAgrees
  <2>4. timeSync = entered.time
    BY <2>3 DEF Types, TimeSettings, Fields
  <2>5. timeSync.enabled => sntp = Rule(timeSync)
    BY <2>1 DEF ClockInv, SntpAgrees
  <2> QED
    BY <2>4, <2>5
<1> QED
  BY <1>1, Inductive, PTL

(***************************************************************************)
(* WebConsole: the inductive invariant.                                    *)
(***************************************************************************)

\* A request that changes the trim answers with it at once.
Requests ==
    {r \in [reads : SUBSET Panels, writes : SUBSET Panels, atOnce : BOOLEAN, value : Nat,
            restarts : BOOLEAN] :
        "trim" \in r.writes => r.atOnce /\ "trim" \in r.reads /\ ~r.restarts}

\* A trim that is held back is not shown with an answer that has none of its own.
HidesOldTrim(request) == ~request.atOnce \/ "trim" \in request.reads

\* Only the first request of a function changes the trim.
Scripts ==
    {s \in Seq(Requests) :
        /\ \A k \in 1..Len(s) : \A n \in 1..Len(s) :
               n = k + 1 /\ ~s[k].atOnce => HidesOldTrim(s[n])
        /\ \A n \in 1..Len(s) : "trim" \in s[n].writes => n = 1}

Data == UNION {[S -> Nat] : S \in SUBSET Panels}

PageTypes ==
    /\ shown \in [Panels -> Nat] /\ busy \in BOOLEAN
    /\ left \in [Tasks -> Scripts] /\ held \in [Tasks -> Data]

Answers == [to : Tasks, ok : BOOLEAN, data : Data]

TransitTypes == queue \in Seq(Tasks) /\ answers \in Seq(Answers)

OtherTypes ==
    /\ device \in [Panels -> Nat] /\ up \in BOOLEAN
    /\ clicks \in 0..MaxClicks /\ others \in 0..MaxOthers /\ disturbed \in BOOLEAN

WebTypes == PageTypes /\ TransitTypes /\ OtherTypes

Distinct(s) == \A i, j \in 1..Len(s) : s[i] = s[j] => i = j

Asks(t)     == \E i \in 1..Len(queue) : queue[i] = t
Answered(t) == \E i \in 1..Len(answers) : answers[i].to = t

OneAnswerEach == \A i, j \in 1..Len(answers) : answers[i].to = answers[j].to => i = j

\* A function that runs waits at exactly one place.
Flight ==
    /\ Distinct(queue)
    /\ OneAnswerEach
    /\ \A t \in Tasks : ~(Asks(t) /\ Answered(t))
    /\ \A t \in Tasks : Runs(t) <=> Asks(t) \/ Answered(t)

\* What a function holds, and what its answer brings.
Content ==
    /\ \A t \in Tasks : held[t] # NoAnswer => Runs(t)
    /\ \A t \in Tasks : Runs(t) /\ "trim" \in DOMAIN held[t] => HidesOldTrim(Head(left[t]))
    /\ \A i \in 1..Len(answers) :
           DOMAIN answers[i].data =
               IF answers[i].ok THEN Head(left[answers[i].to]).reads ELSE {}
    /\ \A t \in Polls : \A k \in 1..Len(left[t]) : left[t][k].writes = {}

\* The answer of a click that puts a trim on the page.
Renews(a) == a.ok /\ a.to \in Clicks /\ "trim" \in DOMAIN a.data /\ Head(left[a.to]).atOnce

\* The page has been loaded and has not asked for a trim yet.
Unloaded == \E t \in Clicks : Asks(t) /\ Head(left[t]) = Status

OneClick ==
    /\ \A t, u \in Clicks : Runs(t) /\ Runs(u) => t = u
    /\ busy <=> \E t \in Clicks : Runs(t)

FreshAnswers ==
    \A i \in 1..Len(answers) :
        /\ "trim" \in DOMAIN answers[i].data
        /\ \A j \in (i + 1)..Len(answers) : ~Renews(answers[j])
        => answers[i].data["trim"] = device["trim"]

FreshPage ==
    (\A j \in 1..Len(answers) : ~Renews(answers[j])) =>
        shown["trim"] = device["trim"] \/ Unloaded

FreshRequest ==
    \A i \in 1..Len(queue) :
        "trim" \in Head(left[queue[i]]).writes =>
            Head(left[queue[i]]).value \in {0, device["trim"] + 1}

TrimInv == ~disturbed => OneClick /\ FreshAnswers /\ FreshPage /\ FreshRequest

WebInv == WebTypes /\ Flight /\ Content /\ TrimInv

(***************************************************************************)
(* Sequences and requests.                                                 *)
(***************************************************************************)

LEMMA Removed ==
    ASSUME NEW S, NEW s \in Seq(S), NEW i \in 1..Len(s)
    PROVE  /\ RemoveAt(s, i) \in Seq(S)
           /\ Len(RemoveAt(s, i)) = Len(s) - 1
           /\ \A k \in 1..(Len(s) - 1) :
                  RemoveAt(s, i)[k] = IF k < i THEN s[k] ELSE s[k + 1]
<1> DEFINE a == SubSeq(s, 1, i - 1)
           b == SubSeq(s, i + 1, Len(s))
<1>1. a \in Seq(S) /\ Len(a) = i - 1 /\ \A k \in 1..(i - 1) : a[k] = s[k]
  BY SubSeqProperties
<1>2. b \in Seq(S) /\ Len(b) = Len(s) - i /\ \A k \in 1..(Len(s) - i) : b[k] = s[i + k]
  BY SubSeqProperties
<1>3. /\ a \o b \in Seq(S)
      /\ Len(a \o b) = Len(s) - 1
      /\ \A k \in 1..(Len(s) - 1) :
             (a \o b)[k] = IF k =< i - 1 THEN a[k] ELSE b[k - (i - 1)]
  <2> HIDE DEF a, b
  <2>1. /\ a \o b \in Seq(S)
        /\ Len(a \o b) = Len(a) + Len(b)
        /\ \A k \in 1..(Len(a) + Len(b)) :
               (a \o b)[k] = IF k =< Len(a) THEN a[k] ELSE b[k - Len(a)]
    BY <1>1, <1>2, ConcatProperties
  <2>2. Len(a) + Len(b) = Len(s) - 1
    BY <1>1, <1>2
  <2> QED
    BY <1>1, <2>1, <2>2
<1>4. \A k \in 1..(Len(s) - 1) : (a \o b)[k] = IF k < i THEN s[k] ELSE s[k + 1]
  <2> HIDE DEF a, b
  <2> QED
    BY <1>1, <1>2, <1>3
<1> QED
  BY <1>3, <1>4 DEF RemoveAt

LEMMA NoAnswerIsData == NoAnswer \in Data /\ DOMAIN NoAnswer = {}
<1>1. NoAnswer \in [{} -> Nat]
  <2>1. NoAnswer \in Seq(Nat) /\ Len(NoAnswer) = 0
    BY EmptySeq DEF NoAnswer
  <2>2. NoAnswer \in [1..0 -> Nat]
    BY <2>1, LenProperties
  <2>3. 1..0 = {}
    OBVIOUS
  <2> QED
    BY <2>2, <2>3
<1> QED
  BY <1>1 DEF Data

LEMMA DataIs ==
    ASSUME NEW d \in Data
    PROVE  DOMAIN d \subseteq Panels /\ \A p \in DOMAIN d : d[p] \in Nat
BY DEF Data

LEMMA FilledIsData ==
    ASSUME NEW d \in Data, NEW e \in Data
    PROVE  /\ Filled(d, e) \in Data
           /\ DOMAIN Filled(d, e) = DOMAIN d \cup DOMAIN e
           /\ \A p \in DOMAIN d : Filled(d, e)[p] = d[p]
<1>1. Filled(d, e) \in [DOMAIN d \cup DOMAIN e -> Nat]
  BY DataIs DEF Filled
<1>2. DOMAIN d \cup DOMAIN e \in SUBSET Panels
  BY DataIs
<1>3. Filled(d, e) \in Data
  BY <1>1, <1>2 DEF Data
<1> QED
  BY <1>3 DEF Filled

LEMMA FilledPage ==
    ASSUME NEW d \in Data, NEW s \in [Panels -> Nat]
    PROVE  /\ Filled(d, s) \in [Panels -> Nat]
           /\ Filled(d, s)["trim"] = IF "trim" \in DOMAIN d THEN d["trim"] ELSE s["trim"]
<1>1. DOMAIN d \cup DOMAIN s = Panels
  BY DataIs
<1> QED
  BY <1>1, DataIs DEF Filled, Panels

LEMMA Shapes ==
    ASSUME NEW panels \in SUBSET Panels, NEW changed \in SUBSET Panels, NEW v \in Nat
    PROVE  /\ Get(panels) \in Requests
           /\ Held(Get(panels)) \in Requests
           /\ "trim" \notin changed => Post(panels, changed) \in Requests
           /\ Get(panels).reads = panels /\ Get(panels).writes = {} /\ Get(panels).atOnce
           /\ Held(Get(panels)).reads = panels /\ Held(Get(panels)).writes = {}
           /\ Post(panels, changed).writes = changed
           /\ SaveTrim(v) \in Requests /\ SaveTrim(v).value = v
BY DEF Get, Held, Post, SaveTrim, Requests, Panels

LEMMA Restarting ==
    ASSUME NEW r \in Requests, "trim" \notin r.writes
    PROVE  /\ [r EXCEPT !.restarts = TRUE] \in Requests
           /\ [r EXCEPT !.restarts = TRUE].writes = r.writes
BY DEF Requests

LEMMA SingleScript == ASSUME NEW r \in Requests PROVE <<r>> \in Scripts /\ <<r>> # <<>> /\ Head(<<r>>) = r
BY DEF Scripts

LEMMA DoubleScript ==
    ASSUME NEW r \in Requests, NEW s \in Requests, r.atOnce, "trim" \notin s.writes
    PROVE  <<r, s>> \in Scripts /\ <<r, s>> # <<>> /\ Head(<<r, s>>) = r
BY DEF Scripts

LEMMA PageRequests ==
    /\ Status \in Requests /\ Status.writes = {} /\ Status.atOnce /\ "trim" \in Status.reads
    /\ Config \in Requests /\ Config.writes = {} /\ "trim" \in Config.reads
    /\ Held(Config) \in Requests /\ Held(Config).writes = {}
    /\ Held(Status) \in Requests /\ Held(Status).writes = {} /\ "trim" \in Held(Status).reads
    /\ Time \in Requests /\ Time.writes = {}
    /\ Held(Time) \in Requests /\ Held(Time).writes = {} /\ ~Held(Time).atOnce
    /\ Temperature \in Requests /\ Temperature.writes = {} /\ "trim" \in Temperature.reads
    /\ Elsewhere \in Requests /\ Elsewhere.writes = {} /\ Elsewhere.atOnce
    /\ SaveTime \in Requests /\ "trim" \notin SaveTime.writes
    /\ Calibrate \in Requests /\ "trim" \notin Calibrate.writes
    /\ SaveSettings \in Requests /\ "trim" \notin SaveSettings.writes /\ SaveSettings.atOnce
BY DEF Get, Held, Post, Requests, Panels, Status, Config, Time, Temperature, Elsewhere, SaveTime,
       Calibrate, SaveSettings

LEMMA RefreshScript == RefreshStatus \in Scripts /\ RefreshStatus # <<>> /\ Head(RefreshStatus) = Status
<1>1. /\ RefreshStatus \in Seq(Requests) /\ Len(RefreshStatus) = 5
      /\ RefreshStatus[1] = Status /\ RefreshStatus[2] = Held(Config)
      /\ RefreshStatus[3] = Held(Time) /\ RefreshStatus[4] = Temperature
      /\ RefreshStatus[5] = Elsewhere
  BY PageRequests DEF RefreshStatus
<1>2. /\ ~Held(Time).atOnce /\ "trim" \in Temperature.reads /\ Status.atOnce
      /\ Temperature.atOnce
  BY PageRequests DEF Temperature, Get
<1> HIDE DEF Scripts
<1>3. ASSUME NEW k \in 1..5, NEW n \in 1..5, n = k + 1, ~RefreshStatus[k].atOnce
      PROVE  HidesOldTrim(RefreshStatus[n])
  <2>1. k = 1 \/ k = 2 \/ k = 3 \/ k = 4
    BY <1>3
  <2>2. k # 1 /\ k # 4
    BY <1>1, <1>2, <1>3
  <2>3. n = 3 \/ n = 4
    BY <1>3, <2>1, <2>2
  <2> QED
    BY <1>1, <1>2, <2>3 DEF HidesOldTrim
<1>4. \A n \in 1..5 : "trim" \notin RefreshStatus[n].writes
  <2>1. ASSUME NEW n \in 1..5 PROVE n = 1 \/ n = 2 \/ n = 3 \/ n = 4 \/ n = 5
    OBVIOUS
  <2> QED
    BY <1>1, <2>1, PageRequests
<1> QED
  BY <1>1, <1>3, <1>4 DEF RefreshStatus, Scripts

LEMMA ConfigScript == ApplyConfig \in Scripts /\ ApplyConfig # <<>> /\ Head(ApplyConfig) = SaveSettings
<1>1. /\ ApplyConfig \in Seq(Requests) /\ Len(ApplyConfig) = 3
      /\ ApplyConfig[1] = SaveSettings /\ ApplyConfig[2] = Held(Status) /\ ApplyConfig[3] = Config
  BY PageRequests DEF ApplyConfig
<1>2. ASSUME NEW k \in 1..3, NEW n \in 1..3, n = k + 1, ~ApplyConfig[k].atOnce
      PROVE  HidesOldTrim(ApplyConfig[n])
  <2>1. n = 2 \/ n = 3
    BY <1>2
  <2> QED
    BY <1>1, <2>1, PageRequests DEF HidesOldTrim
<1>3. \A n \in 1..3 : "trim" \notin ApplyConfig[n].writes
  <2>1. ASSUME NEW n \in 1..3 PROVE n = 1 \/ n = 2 \/ n = 3
    OBVIOUS
  <2> QED
    BY <1>1, <2>1, PageRequests
<1> QED
  BY <1>1, <1>2, <1>3 DEF ApplyConfig, Scripts

\* What a click starts is a script, and a trim that it sends was computed from the one shown.
LEMMA ClickScripts ==
    ASSUME NEW s \in Listed \cup Unlisted, shown \in [Panels -> Nat]
    PROVE  /\ s \in Scripts /\ s # <<>>
           /\ "trim" \in Head(s).writes => Head(s).value \in {0, shown["trim"] + 1}
<1>1. shown["trim"] + 1 \in Nat /\ 0 \in Nat
  BY DEF Panels
<1>2. \A v \in Nat : SaveTrim(v) \in Requests /\ SaveTrim(v).value = v
  BY DEF Get, Post, SaveTrim, Requests, Panels
<1>3. CASE s \in {RefreshStatus, ApplyConfig}
  BY <1>3, RefreshScript, ConfigScript, PageRequests
<1>4. CASE s = SendCommand
  BY <1>4, DoubleScript, PageRequests DEF SendCommand
<1>5. CASE s \in {<<Elsewhere>>, <<SaveTime>>, <<Calibrate>>}
  BY <1>5, SingleScript, PageRequests
<1>6. CASE s = InstallOtaUpdate
  <2> DEFINE r == [Elsewhere EXCEPT !.restarts = TRUE]
  <2>1. r \in Requests /\ r.writes = {}
    BY PageRequests, Restarting
  <2> HIDE DEF r
  <2>2. <<r>> \in Scripts /\ <<r>> # <<>> /\ Head(<<r>>) = r
    BY <2>1, SingleScript
  <2>3. s = <<r>>
    BY <1>6 DEF InstallOtaUpdate, r
  <2> QED
    BY <2>1, <2>2, <2>3
<1>7. CASE s \in {<<SaveTrim(shown["trim"] + 1)>>, <<SaveTrim(0)>>}
  BY <1>1, <1>2, <1>7, SingleScript
<1>8. \/ s \in {RefreshStatus, ApplyConfig} \/ s = SendCommand
      \/ s \in {<<Elsewhere>>, <<SaveTime>>, <<Calibrate>>}
      \/ s = InstallOtaUpdate
      \/ s \in {<<SaveTrim(shown["trim"] + 1)>>, <<SaveTrim(0)>>}
  BY Zenon DEF Listed, Unlisted, ScanWifi, CheckOtaUpdate, SaveTimeConfig, SyncTimeNow, SaveScheduleEvent,
         CaptureTemperaturePoint, ResetTemperatureCalibration, AdjustTemperatureTrim,
         SetTemperatureTrimOffset, SaveTemperatureMonitoring, DeleteEvent
<1> QED
  BY <1>3, <1>4, <1>5, <1>6, <1>7, <1>8

LEMMA PollScripts ==
    ASSUME NEW s \in {PollLiveTemperature, PollCurrentTime}
    PROVE  s \in Scripts /\ s # <<>> /\ \A k \in 1..Len(s) : s[k].writes = {}
BY SingleScript, PageRequests DEF PollLiveTemperature, PollCurrentTime

LEMMA ScriptGoesOn ==
    ASSUME NEW s \in Scripts, s # <<>>
    PROVE  /\ Head(s) \in Requests /\ Len(s) \in Nat \ {0} /\ Head(s) = s[1]
           /\ Len(s) # 1 =>
                 /\ "trim" \notin Head(Tail(s)).writes
                 /\ Tail(s) \in Scripts /\ Tail(s) # <<>> /\ Head(Tail(s)) \in Requests
                 /\ ~Head(s).atOnce => HidesOldTrim(Head(Tail(s)))
                 /\ \A k \in 1..Len(Tail(s)) : k + 1 \in 1..Len(s) /\ Tail(s)[k] = s[k + 1]
<1>1. s \in Seq(Requests) /\ Len(s) \in Nat \ {0} /\ Head(s) = s[1] /\ Head(s) \in Requests
  BY EmptySeq, HeadTailProperties DEF Scripts
<1>2. CASE Len(s) # 1
  <2>1. /\ Tail(s) \in Seq(Requests) /\ Len(Tail(s)) = Len(s) - 1
        /\ \A k \in 1..Len(Tail(s)) : Tail(s)[k] = s[k + 1]
    BY <1>1, HeadTailProperties
  <2>2. Tail(s) # <<>>
    BY <1>1, <1>2, <2>1, EmptySeq
  <2>3. Head(Tail(s)) = s[2] /\ Head(Tail(s)) \in Requests
    BY <1>1, <1>2, <2>1, <2>2, HeadTailProperties
  <2>4. Head(Tail(s)) = Tail(s)[1] /\ 1 \in 1..Len(Tail(s))
    BY <2>1, <2>2, EmptySeq, HeadTailProperties
  <2>5. \A k \in 1..Len(Tail(s)) : k + 1 \in 1..Len(s)
    BY <1>1, <2>1
  <2>6. ASSUME NEW k \in 1..Len(Tail(s)), NEW n \in 1..Len(Tail(s)), n = k + 1, ~Tail(s)[k].atOnce
        PROVE  HidesOldTrim(Tail(s)[n])
    <3>1. k + 1 \in 1..Len(s) /\ n + 1 \in 1..Len(s) /\ n + 1 = (k + 1) + 1
      BY <2>5, <2>6
    <3>2. Tail(s)[k] = s[k + 1] /\ Tail(s)[n] = s[n + 1]
      BY <2>1
    <3> QED
      BY <2>6, <3>1, <3>2 DEF Scripts
  <2>7. ASSUME NEW n \in 1..Len(Tail(s)) PROVE "trim" \notin Tail(s)[n].writes
    <3>1. n + 1 \in 1..Len(s) /\ n + 1 # 1 /\ Tail(s)[n] = s[n + 1]
      BY <2>1, <2>5
    <3> QED
      BY <3>1 DEF Scripts
  <2>8. Tail(s) \in Scripts
    BY <2>1, <2>6, <2>7 DEF Scripts
  <2>9. 1 \in 1..Len(s) /\ 2 \in 1..Len(s)
    <3>1. \A n \in Nat : n # 0 /\ n # 1 => 1 \in 1..n /\ 2 \in 1..n
      OBVIOUS
    <3> QED
      BY <1>1, <1>2, <3>1
  <2>10. ~Head(s).atOnce => HidesOldTrim(Head(Tail(s)))
    BY <1>1, <2>3, <2>9 DEF Scripts
  <2> QED
    BY <1>1, <2>1, <2>2, <2>3, <2>5, <2>10, <2>8, <2>7, <2>4
<1> QED
  BY <1>1, <1>2

(***************************************************************************)
(* A request is at one place.                                              *)
(***************************************************************************)

LEMMA QueueGrows ==
    ASSUME TransitTypes, NEW t \in Tasks, queue' = Append(queue, t)
    PROVE  /\ queue' \in Seq(Tasks)
           /\ \A u \in Tasks : Asks(u)' <=> Asks(u) \/ u = t
           /\ Distinct(queue) /\ ~Asks(t) => Distinct(queue')
<1>1. /\ queue' \in Seq(Tasks) /\ Len(queue') = Len(queue) + 1 /\ Len(queue) \in Nat
      /\ queue'[Len(queue) + 1] = t
      /\ \A i \in 1..Len(queue) : queue'[i] = queue[i]
  BY AppendProperties DEF TransitTypes
<1>2. \A i \in 1..Len(queue') : i \in 1..Len(queue) \/ i = Len(queue) + 1
  BY <1>1
<1>3. \A i \in 1..Len(queue) : i \in 1..Len(queue')
  BY <1>1
<1>4. Len(queue) + 1 \in 1..Len(queue')
  BY <1>1
<1>5. ASSUME NEW u \in Tasks PROVE Asks(u)' <=> Asks(u) \/ u = t
  BY <1>1, <1>2, <1>3, <1>4 DEF Asks
<1>6. ASSUME Distinct(queue), ~Asks(t) PROVE Distinct(queue')
  BY <1>1, <1>2, <1>6 DEF Asks, Distinct
<1> QED
  BY <1>1, <1>5, <1>6

LEMMA QueueShrinks ==
    ASSUME TransitTypes, NEW i \in 1..Len(queue), queue' = RemoveAt(queue, i), Distinct(queue)
    PROVE  /\ queue' \in Seq(Tasks) /\ queue[i] \in Tasks
           /\ \A u \in Tasks : Asks(u)' <=> Asks(u) /\ u # queue[i]
           /\ Distinct(queue')
<1>1. /\ queue' \in Seq(Tasks) /\ Len(queue') = Len(queue) - 1 /\ Len(queue) \in Nat
      /\ \A k \in 1..(Len(queue) - 1) : queue'[k] = IF k < i THEN queue[k] ELSE queue[k + 1]
  <2>1. queue \in Seq(Tasks) /\ Len(queue) \in Nat
    BY DEF TransitTypes
  <2>2. /\ RemoveAt(queue, i) \in Seq(Tasks) /\ Len(RemoveAt(queue, i)) = Len(queue) - 1
        /\ \A k \in 1..(Len(queue) - 1) :
               RemoveAt(queue, i)[k] = IF k < i THEN queue[k] ELSE queue[k + 1]
    BY <2>1, Removed
  <2> QED
    BY <2>1, <2>2
<1>2. \A k \in 1..Len(queue') : k \in 1..Len(queue) /\ k + 1 \in 1..Len(queue)
  BY <1>1
<1>3. \A k \in 1..Len(queue) : k < i => k \in 1..Len(queue') /\ queue'[k] = queue[k]
  BY <1>1
<1>4. \A k \in 1..Len(queue) : k > i => k - 1 \in 1..Len(queue') /\ queue'[k - 1] = queue[k]
  BY <1>1
<1>5. ASSUME NEW u \in Tasks, Asks(u)' PROVE Asks(u) /\ u # queue[i]
  <2>1. PICK k \in 1..Len(queue') : queue'[k] = u
    BY <1>5 DEF Asks
  <2>2. PICK n \in 1..Len(queue) : queue[n] = u /\ n # i
    BY <1>1, <1>2, <2>1
  <2> QED
    BY <2>2 DEF Asks, Distinct
<1>6. ASSUME NEW u \in Tasks, Asks(u), u # queue[i] PROVE Asks(u)'
  <2>1. PICK k \in 1..Len(queue) : queue[k] = u /\ k # i
    BY <1>6 DEF Asks
  <2>2. k < i \/ k > i
    BY <2>1
  <2> QED
    BY <1>3, <1>4, <2>1, <2>2 DEF Asks
<1>7. ASSUME NEW k \in 1..Len(queue'), NEW n \in 1..Len(queue'), queue'[k] = queue'[n]
      PROVE  k = n
  <2> DEFINE Old(m) == IF m < i THEN m ELSE m + 1
  <2>1. Old(k) \in 1..Len(queue) /\ Old(n) \in 1..Len(queue)
    BY <1>2
  <2>2. queue'[k] = queue[Old(k)] /\ queue'[n] = queue[Old(n)]
    BY <1>1
  <2>3. Old(k) = Old(n)
    BY <1>7, <2>1, <2>2 DEF Distinct
  <2> QED
    BY <1>1, <2>3
<1>8. queue[i] \in Tasks
  BY DEF TransitTypes
<1> QED
  BY <1>1, <1>5, <1>6, <1>7, <1>8 DEF Distinct

LEMMA AnswerIs ==
    ASSUME TransitTypes, NEW i \in 1..Len(answers)
    PROVE  /\ answers[i] \in Answers /\ answers[i].to \in Tasks
           /\ answers[i].ok \in BOOLEAN /\ answers[i].data \in Data
           /\ Answered(answers[i].to)
<1>1. answers[i] \in Answers
  BY DEF TransitTypes
<1> QED
  BY <1>1 DEF Answers, Answered

LEMMA AnswersGrow ==
    ASSUME TransitTypes, NEW a \in Answers, answers' = Append(answers, a)
    PROVE  /\ answers' \in Seq(Answers)
           /\ Len(answers') = Len(answers) + 1 /\ Len(answers) \in Nat
           /\ answers'[Len(answers) + 1] = a
           /\ \A i \in 1..Len(answers) : i \in 1..Len(answers') /\ answers'[i] = answers[i]
           /\ \A i \in 1..Len(answers') : i \in 1..Len(answers) \/ i = Len(answers) + 1
           /\ \A u \in Tasks : Answered(u)' <=> Answered(u) \/ u = a.to
           /\ OneAnswerEach /\ ~Answered(a.to) => OneAnswerEach'
<1>1. /\ answers' \in Seq(Answers) /\ Len(answers') = Len(answers) + 1 /\ Len(answers) \in Nat
      /\ answers'[Len(answers) + 1] = a
      /\ \A i \in 1..Len(answers) : answers'[i] = answers[i]
  BY AppendProperties DEF TransitTypes
<1>2. \A i \in 1..Len(answers') : i \in 1..Len(answers) \/ i = Len(answers) + 1
  BY <1>1
<1>3. \A i \in 1..Len(answers) : i \in 1..Len(answers')
  BY <1>1
<1>4. Len(answers) + 1 \in 1..Len(answers')
  BY <1>1
<1>5. ASSUME NEW u \in Tasks PROVE Answered(u)' <=> Answered(u) \/ u = a.to
  BY <1>1, <1>2, <1>3, <1>4 DEF Answered
<1>6. ASSUME OneAnswerEach, ~Answered(a.to) PROVE OneAnswerEach'
  BY <1>1, <1>2, <1>6 DEF Answered, OneAnswerEach
<1> QED
  BY <1>1, <1>2, <1>3, <1>5, <1>6

LEMMA AnswersShrink ==
    ASSUME TransitTypes, NEW i \in 1..Len(answers), answers' = RemoveAt(answers, i), OneAnswerEach
    PROVE  /\ answers' \in Seq(Answers) /\ answers[i] \in Answers
           /\ Len(answers') = Len(answers) - 1 /\ Len(answers) \in Nat
           /\ \A k \in 1..Len(answers') :
                  /\ k \in 1..Len(answers) /\ k + 1 \in 1..Len(answers)
                  /\ answers'[k] = IF k < i THEN answers[k] ELSE answers[k + 1]
           /\ \A u \in Tasks : Answered(u)' <=> Answered(u) /\ u # answers[i].to
           /\ OneAnswerEach'
<1>1. /\ answers' \in Seq(Answers) /\ Len(answers') = Len(answers) - 1 /\ Len(answers) \in Nat
      /\ \A k \in 1..(Len(answers) - 1) :
             answers'[k] = IF k < i THEN answers[k] ELSE answers[k + 1]
  <2>1. answers \in Seq(Answers) /\ Len(answers) \in Nat
    BY DEF TransitTypes
  <2>2. /\ RemoveAt(answers, i) \in Seq(Answers) /\ Len(RemoveAt(answers, i)) = Len(answers) - 1
        /\ \A k \in 1..(Len(answers) - 1) :
               RemoveAt(answers, i)[k] = IF k < i THEN answers[k] ELSE answers[k + 1]
    BY <2>1, Removed
  <2> QED
    BY <2>1, <2>2
<1>2. \A k \in 1..Len(answers') : k \in 1..Len(answers) /\ k + 1 \in 1..Len(answers)
  BY <1>1
<1>3. \A k \in 1..Len(answers) : k < i => k \in 1..Len(answers') /\ answers'[k] = answers[k]
  BY <1>1
<1>4. \A k \in 1..Len(answers) :
          k > i => k - 1 \in 1..Len(answers') /\ answers'[k - 1] = answers[k]
  BY <1>1
<1>5. ASSUME NEW u \in Tasks, Answered(u)' PROVE Answered(u) /\ u # answers[i].to
  <2>1. PICK k \in 1..Len(answers') : answers'[k].to = u
    BY <1>5 DEF Answered
  <2>2. PICK n \in 1..Len(answers) : answers[n].to = u /\ n # i
    <3>1. CASE k < i
      BY <1>1, <1>2, <2>1, <3>1
    <3>2. CASE ~(k < i)
      <4>1. answers'[k] = answers[k + 1] /\ k + 1 # i /\ k + 1 \in 1..Len(answers)
        BY <1>1, <1>2, <3>2
      <4> QED
        BY <2>1, <4>1
    <3> QED
      BY <3>1, <3>2
  <2> QED
    BY <2>2 DEF Answered, OneAnswerEach
<1>6. ASSUME NEW u \in Tasks, Answered(u), u # answers[i].to PROVE Answered(u)'
  <2>1. PICK k \in 1..Len(answers) : answers[k].to = u /\ k # i
    BY <1>6 DEF Answered
  <2>2. k < i \/ k > i
    BY <2>1
  <2> QED
    BY <1>3, <1>4, <2>1, <2>2 DEF Answered
<1>7. ASSUME NEW k \in 1..Len(answers'), NEW n \in 1..Len(answers'),
             answers'[k].to = answers'[n].to
      PROVE  k = n
  <2> DEFINE Old(m) == IF m < i THEN m ELSE m + 1
  <2>1. Old(k) \in 1..Len(answers) /\ Old(n) \in 1..Len(answers)
    BY <1>2
  <2>2. answers'[k] = answers[Old(k)] /\ answers'[n] = answers[Old(n)]
    BY <1>1
  <2>3. Old(k) = Old(n)
    BY <1>7, <2>1, <2>2 DEF OneAnswerEach
  <2> QED
    BY <1>1, <2>3
<1>8. answers[i] \in Answers
  BY DEF TransitTypes
<1>9. \A k \in 1..Len(answers') : answers'[k] = IF k < i THEN answers[k] ELSE answers[k + 1]
  BY <1>1
<1> QED
  BY <1>1, <1>2, <1>5, <1>6, <1>7, <1>8, <1>9 DEF OneAnswerEach

LEMMA NoScript == <<>> \in Scripts
BY EmptySeq DEF Scripts

LEMMA TaskKinds == Clicks \subseteq Tasks /\ Polls \subseteq Tasks /\ Clicks \cap Polls = {}
BY ConsoleAssumption DEF Tasks, Polls

LEMMA StartKeeps ==
    ASSUME WebTypes, Flight, Content, NEW t \in Tasks, ~Runs(t),
           NEW s \in Scripts, s # <<>>, t \in Polls => \A k \in 1..Len(s) : s[k].writes = {},
           Start(t, s), UNCHANGED answers
    PROVE  /\ left' \in [Tasks -> Scripts] /\ held' \in [Tasks -> Data] /\ TransitTypes'
           /\ Flight' /\ Content'
           /\ left'[t] = s /\ \A u \in Tasks \ {t} : left'[u] = left[u]
           /\ ~Asks(t) /\ ~Answered(t)
<1>1. /\ left \in [Tasks -> Scripts] /\ held \in [Tasks -> Data] /\ TransitTypes
      /\ left' = [left EXCEPT ![t] = s] /\ queue' = Append(queue, t) /\ held' = held
      /\ answers' = answers
  BY DEF WebTypes, PageTypes, Start
<1>2. left' \in [Tasks -> Scripts] /\ left'[t] = s /\ \A u \in Tasks \ {t} : left'[u] = left[u]
  BY <1>1
<1>3. ~Asks(t) /\ ~Answered(t)
  BY DEF Flight
<1>4. TransitTypes' /\ Distinct(queue') /\ \A u \in Tasks : Asks(u)' <=> Asks(u) \/ u = t
  BY <1>1, <1>3, QueueGrows DEF Flight, TransitTypes
<1>5. \A u \in Tasks : Answered(u)' <=> Answered(u)
  BY <1>1 DEF Answered
<1>6. \A u \in Tasks : Runs(u)' <=> Runs(u) \/ u = t
  BY <1>2 DEF Runs
<1>7. Flight'
  <2>1. OneAnswerEach'
    BY <1>1 DEF Flight, OneAnswerEach
  <2> QED
    BY <1>3, <1>4, <1>5, <1>6, <2>1 DEF Flight
<1>8. Content'
  <2>1. \A u \in Tasks : held'[u] # NoAnswer => Runs(u)'
    BY <1>1, <1>6 DEF Content
  <2>2. \A u \in Tasks : Runs(u)' /\ "trim" \in DOMAIN held'[u] => HidesOldTrim(Head(left'[u]))
    BY <1>1, <1>2, <1>6, NoAnswerIsData DEF Content, Runs
  <2>3. \A j \in 1..Len(answers) : answers[j].to \in Tasks /\ answers[j].to # t
    BY <1>1, <1>3, AnswerIs
  <2>4. \A j \in 1..Len(answers') : DOMAIN answers'[j].data =
               IF answers'[j].ok THEN Head(left'[answers'[j].to]).reads ELSE {}
    BY <1>1, <1>2, <2>3 DEF Content
  <2>5. \A u \in Polls : \A k \in 1..Len(left'[u]) : left'[u][k].writes = {}
    BY <1>2, TaskKinds DEF Content
  <2> QED
    BY <2>1, <2>2, <2>4, <2>5 DEF Content, HidesOldTrim
<1> QED
  BY <1>1, <1>2, <1>3, <1>4, <1>7, <1>8

LEMMA ServeKeeps ==
    ASSUME WebTypes, Flight, Content, NEW i \in 1..Len(queue), NEW ok \in BOOLEAN, NEW d \in Data,
           DOMAIN d = IF ok THEN Head(left[queue[i]]).reads ELSE {},
           queue' = RemoveAt(queue, i), Answer(queue[i], ok, d), UNCHANGED <<left, held>>
    PROVE  TransitTypes' /\ Flight' /\ Content'
<1> DEFINE t == queue[i]
           a == [to |-> t, ok |-> ok, data |-> d]
<1>1. TransitTypes /\ t \in Tasks /\ a \in Answers /\ answers' = Append(answers, a) /\ a.to = t
  BY DEF WebTypes, TransitTypes, Answers, Answer
<1>2. Asks(t) /\ ~Answered(t)
  BY <1>1 DEF Asks, Flight
<1>3. queue' \in Seq(Tasks) /\ Distinct(queue') /\ \A u \in Tasks : Asks(u)' <=> Asks(u) /\ u # t
  BY <1>1, QueueShrinks DEF Flight
<1> HIDE DEF a
<1>4. /\ answers' \in Seq(Answers)
      /\ answers'[Len(answers) + 1] = a
      /\ \A k \in 1..Len(answers) : k \in 1..Len(answers') /\ answers'[k] = answers[k]
      /\ \A k \in 1..Len(answers') : k \in 1..Len(answers) \/ k = Len(answers) + 1
      /\ \A u \in Tasks : Answered(u)' <=> Answered(u) \/ u = t
      /\ OneAnswerEach'
  BY <1>1, <1>2, AnswersGrow DEF Flight
<1>5. TransitTypes'
  BY <1>3, <1>4 DEF TransitTypes
<1>6. \A u \in Tasks : Runs(u)' <=> Runs(u)
  BY DEF Runs
<1>7. Flight'
  BY <1>2, <1>3, <1>4, <1>6 DEF Flight
<1>8. Content'
  <2>1. \A k \in 1..Len(answers') : DOMAIN answers'[k].data =
               IF answers'[k].ok THEN Head(left'[answers'[k].to]).reads ELSE {}
    <3>1. DOMAIN a.data = IF a.ok THEN Head(left[a.to]).reads ELSE {}
      BY DEF a
    <3> QED
      BY <1>4, <3>1 DEF Content
  <2> QED
    BY <1>6, <2>1 DEF Content, HidesOldTrim
<1> QED
  BY <1>5, <1>7, <1>8

LEMMA EndKeeps ==
    ASSUME WebTypes, Flight, Content, NEW t \in Tasks,
           left' = [left EXCEPT ![t] = <<>>], held' = [held EXCEPT ![t] = NoAnswer],
           \/ /\ UNCHANGED answers
              /\ \E i \in 1..Len(queue) : queue[i] = t /\ queue' = RemoveAt(queue, i)
           \/ /\ UNCHANGED queue
              /\ \E i \in 1..Len(answers) : answers[i].to = t /\ answers' = RemoveAt(answers, i)
    PROVE  /\ left' \in [Tasks -> Scripts] /\ held' \in [Tasks -> Data] /\ TransitTypes'
           /\ Flight' /\ Content'
           /\ left'[t] = <<>> /\ \A u \in Tasks \ {t} : left'[u] = left[u]
<1>1. /\ left \in [Tasks -> Scripts] /\ held \in [Tasks -> Data] /\ TransitTypes
      /\ Distinct(queue) /\ OneAnswerEach
  BY DEF WebTypes, PageTypes, Flight
<1>2. /\ left' \in [Tasks -> Scripts] /\ left'[t] = <<>>
      /\ \A u \in Tasks \ {t} : left'[u] = left[u]
  BY <1>1, NoScript
<1>3. held' \in [Tasks -> Data] /\ held'[t] = NoAnswer /\ \A u \in Tasks \ {t} : held'[u] = held[u]
  BY <1>1, NoAnswerIsData
<1>4. /\ TransitTypes' /\ Distinct(queue') /\ OneAnswerEach'
      /\ \A u \in Tasks : (Asks(u) \/ Answered(u))' <=> (Asks(u) \/ Answered(u)) /\ u # t
      /\ \A u \in Tasks : ~(Asks(u) /\ Answered(u))'
      /\ \A k \in 1..Len(answers') : \E n \in 1..Len(answers) : answers'[k] = answers[n]
  <2>1. CASE /\ UNCHANGED answers
             /\ \E i \in 1..Len(queue) : queue[i] = t /\ queue' = RemoveAt(queue, i)
    <3>1. PICK i \in 1..Len(queue) : queue[i] = t /\ queue' = RemoveAt(queue, i)
      BY <2>1
    <3>2. /\ queue' \in Seq(Tasks) /\ Distinct(queue')
          /\ \A u \in Tasks : Asks(u)' <=> Asks(u) /\ u # t
      BY <1>1, <3>1, QueueShrinks
    <3>3. \A u \in Tasks : Answered(u)' <=> Answered(u)
      BY <2>1 DEF Answered
    <3>4. Asks(t)
      BY <3>1 DEF Asks
    <3>5. TransitTypes' /\ OneAnswerEach'
      BY <1>1, <2>1, <3>2 DEF TransitTypes, OneAnswerEach
    <3> QED
      BY <2>1, <3>2, <3>3, <3>4, <3>5 DEF Flight
  <2>2. CASE /\ UNCHANGED queue
             /\ \E i \in 1..Len(answers) : answers[i].to = t /\ answers' = RemoveAt(answers, i)
    <3>1. PICK i \in 1..Len(answers) : answers[i].to = t /\ answers' = RemoveAt(answers, i)
      BY <2>2
    <3>2. /\ answers' \in Seq(Answers) /\ OneAnswerEach'
          /\ \A u \in Tasks : Answered(u)' <=> Answered(u) /\ u # t
          /\ \A k \in 1..Len(answers') : \E n \in 1..Len(answers) : answers'[k] = answers[n]
      BY <1>1, <3>1, AnswersShrink
    <3>3. \A u \in Tasks : Asks(u)' <=> Asks(u)
      BY <2>2 DEF Asks
    <3>4. Answered(t)
      BY <3>1 DEF Answered
    <3>5. TransitTypes' /\ Distinct(queue')
      BY <1>1, <2>2, <3>2 DEF TransitTypes, Distinct
    <3> QED
      BY <3>2, <3>3, <3>4, <3>5 DEF Flight
  <2> QED
    BY <2>1, <2>2
<1>5. \A u \in Tasks : Runs(u)' <=> Runs(u) /\ u # t
  BY <1>2 DEF Runs
<1>6. Flight'
  BY <1>4, <1>5 DEF Flight
<1>7. Content'
  <2>1. \A u \in Tasks : held'[u] # NoAnswer => Runs(u)'
    BY <1>3, <1>5 DEF Content
  <2>2. \A u \in Tasks : Runs(u)' /\ "trim" \in DOMAIN held'[u] => HidesOldTrim(Head(left'[u]))
    BY <1>2, <1>3, <1>5 DEF Content
  <2>3. \A k \in 1..Len(answers') : answers'[k].to \in Tasks /\ answers'[k].to # t
    <3>1. \A k \in 1..Len(answers') : answers'[k].to \in Tasks
      BY <1>1, <1>4, AnswerIs
    <3>2. ASSUME NEW u \in Tasks, NEW k \in 1..Len(answers'), answers'[k].to = u PROVE u # t
      <4>1. Answered(u)'
        BY <3>2 DEF Answered
      <4> QED
        BY <1>4, <4>1
    <3> QED
      BY <3>1, <3>2
  <2>4. \A k \in 1..Len(answers') : DOMAIN answers'[k].data =
               IF answers'[k].ok THEN Head(left'[answers'[k].to]).reads ELSE {}
    <3> SUFFICES ASSUME NEW k \in 1..Len(answers')
                 PROVE  DOMAIN answers'[k].data =
                            IF answers'[k].ok THEN Head(left'[answers'[k].to]).reads ELSE {}
      OBVIOUS
    <3>1. PICK n \in 1..Len(answers) : answers'[k] = answers[n]
      BY <1>4
    <3>2. left'[answers[n].to] = left[answers[n].to]
      BY <1>2, <2>3, <3>1
    <3> QED
      BY <3>1, <3>2 DEF Content
  <2>5. \A u \in Polls : \A k \in 1..Len(left'[u]) : left'[u][k].writes = {}
    <3>1. \A k \in 1..Len(<<>>) : FALSE
      BY EmptySeq
    <3> QED
      BY <1>2, <3>1, TaskKinds DEF Content
  <2> QED
    BY <2>1, <2>2, <2>4, <2>5 DEF Content, HidesOldTrim
<1> QED
  BY <1>2, <1>3, <1>4, <1>6, <1>7

LEMMA NextKeeps ==
    ASSUME WebTypes, Flight, Content, NEW t \in Tasks, NEW i \in 1..Len(answers), answers[i].to = t,
           answers' = RemoveAt(answers, i), queue' = Append(queue, t), Len(left[t]) # 1,
           left' = [left EXCEPT ![t] = Tail(left[t])],
           NEW h \in Data, held' = [held EXCEPT ![t] = h],
           "trim" \in DOMAIN h => ~Head(left[t]).atOnce
    PROVE  /\ left' \in [Tasks -> Scripts] /\ held' \in [Tasks -> Data] /\ TransitTypes'
           /\ Flight' /\ Content'
           /\ left'[t] # <<>> /\ \A u \in Tasks \ {t} : left'[u] = left[u]
           /\ "trim" \notin Head(left'[t]).writes
<1>1. /\ left \in [Tasks -> Scripts] /\ held \in [Tasks -> Data] /\ TransitTypes
      /\ Distinct(queue) /\ OneAnswerEach
  BY DEF WebTypes, PageTypes, Flight
<1>2. Answered(t) /\ ~Asks(t) /\ Runs(t)
  BY DEF Answered, Flight
<1>3. /\ Tail(left[t]) \in Scripts /\ Tail(left[t]) # <<>>
      /\ ~Head(left[t]).atOnce => HidesOldTrim(Head(Tail(left[t])))
      /\ "trim" \notin Head(Tail(left[t])).writes
      /\ \A k \in 1..Len(Tail(left[t])) :
             k + 1 \in 1..Len(left[t]) /\ Tail(left[t])[k] = left[t][k + 1]
  BY <1>1, <1>2, ScriptGoesOn DEF Runs
<1>4. /\ left' \in [Tasks -> Scripts] /\ left'[t] = Tail(left[t])
      /\ \A u \in Tasks \ {t} : left'[u] = left[u]
      /\ held' \in [Tasks -> Data] /\ held'[t] = h
      /\ \A u \in Tasks \ {t} : held'[u] = held[u]
  BY <1>1, <1>3
<1>5. /\ queue' \in Seq(Tasks) /\ Distinct(queue')
      /\ \A u \in Tasks : Asks(u)' <=> Asks(u) \/ u = t
  BY <1>1, <1>2, QueueGrows
<1>6. /\ answers' \in Seq(Answers) /\ OneAnswerEach'
      /\ \A u \in Tasks : Answered(u)' <=> Answered(u) /\ u # t
      /\ \A k \in 1..Len(answers') : \E n \in 1..Len(answers) : answers'[k] = answers[n]
  BY <1>1, AnswersShrink
<1>7. \A u \in Tasks : Runs(u)' <=> Runs(u)
  BY <1>2, <1>3, <1>4 DEF Runs
<1>8. TransitTypes' /\ Flight'
  BY <1>2, <1>5, <1>6, <1>7 DEF Flight, TransitTypes
<1>9. Content'
  <2>1. \A u \in Tasks : held'[u] # NoAnswer => Runs(u)'
    BY <1>2, <1>4, <1>7 DEF Content
  <2>2. \A u \in Tasks : Runs(u)' /\ "trim" \in DOMAIN held'[u] => HidesOldTrim(Head(left'[u]))
    BY <1>3, <1>4, <1>7 DEF Content
  <2>3. \A k \in 1..Len(answers') : answers'[k].to \in Tasks /\ answers'[k].to # t
    <3>1. \A k \in 1..Len(answers') : answers'[k].to \in Tasks
      BY <1>1, <1>6, AnswerIs
    <3>2. ASSUME NEW u \in Tasks, NEW k \in 1..Len(answers'), answers'[k].to = u PROVE u # t
      <4>1. Answered(u)'
        BY <3>2 DEF Answered
      <4> QED
        BY <1>6, <4>1
    <3> QED
      BY <3>1, <3>2
  <2>4. \A k \in 1..Len(answers') : DOMAIN answers'[k].data =
               IF answers'[k].ok THEN Head(left'[answers'[k].to]).reads ELSE {}
    <3> SUFFICES ASSUME NEW k \in 1..Len(answers')
                 PROVE  DOMAIN answers'[k].data =
                            IF answers'[k].ok THEN Head(left'[answers'[k].to]).reads ELSE {}
      OBVIOUS
    <3>1. PICK n \in 1..Len(answers) : answers'[k] = answers[n]
      BY <1>6
    <3>2. left'[answers[n].to] = left[answers[n].to]
      BY <1>4, <2>3, <3>1
    <3> QED
      BY <3>1, <3>2 DEF Content
  <2>5. \A u \in Polls : \A k \in 1..Len(left'[u]) : left'[u][k].writes = {}
    BY <1>3, <1>4, TaskKinds DEF Content
  <2> QED
    BY <2>1, <2>2, <2>4, <2>5 DEF Content, HidesOldTrim
<1> QED
  BY <1>3, <1>4, <1>8, <1>9

(***************************************************************************)
(* The actions.                                                            *)
(***************************************************************************)

LEMMA ClickKeeps ==
    ASSUME WebInv, NEW s \in Listed \cup Unlisted, Click(s)
    PROVE  WebInv'
<1>1. WebTypes /\ Flight /\ Content /\ TrimInv
  BY DEF WebInv
<1>2. /\ s \in Scripts /\ s # <<>>
      /\ "trim" \in Head(s).writes => Head(s).value \in {0, shown["trim"] + 1}
  BY <1>1, ClickScripts DEF WebTypes, PageTypes
<1>3. PICK t \in Clicks : ~Runs(t) /\ Start(t, s)
  BY DEF Click, FreeTask
<1>4. t \in Tasks /\ t \notin Polls /\ UNCHANGED answers
  BY TaskKinds DEF Click, Start
<1>5. /\ left' \in [Tasks -> Scripts] /\ held' \in [Tasks -> Data] /\ TransitTypes'
      /\ Flight' /\ Content'
      /\ left'[t] = s /\ \A u \in Tasks \ {t} : left'[u] = left[u]
      /\ ~Asks(t) /\ ~Answered(t)
  BY <1>1, <1>2, <1>3, <1>4, StartKeeps
<1>6. UNCHANGED <<device, up, shown, others>> /\ busy' = TRUE
      /\ clicks' \in 0..MaxClicks /\ disturbed' = (disturbed \/ busy)
  BY <1>1, <1>3, ConsoleAssumption DEF Click, Start, WebTypes, OtherTypes
<1>7. WebTypes'
  BY <1>1, <1>5, <1>6 DEF WebTypes, PageTypes, OtherTypes
<1>8. TrimInv'
  <2> SUFFICES ASSUME ~disturbed' PROVE OneClick' /\ FreshAnswers' /\ FreshPage' /\ FreshRequest'
    BY DEF TrimInv
  <2>1. OneClick /\ FreshAnswers /\ FreshPage /\ FreshRequest /\ ~busy
    BY <1>1, <1>6 DEF TrimInv, WebTypes, PageTypes, OtherTypes
  <2>2. \A u \in Clicks : ~Runs(u)
    BY <2>1 DEF OneClick
  <2>3. \A u \in Clicks : Runs(u)' <=> u = t
    BY <1>2, <1>5, <2>2, TaskKinds DEF Runs
  <2>4. OneClick'
    BY <1>6, <2>3 DEF OneClick
  <2>5. \A j \in 1..Len(answers) : ~Renews(answers[j]) /\ answers'[j] = answers[j]
    <3>1. ASSUME NEW j \in 1..Len(answers) PROVE answers[j].to \notin Clicks
      BY <1>1, <2>2, AnswerIs, TaskKinds DEF WebTypes, Flight
    <3> QED
      BY <1>4, <3>1 DEF Renews
  <2>6. shown["trim"] = device["trim"]
    <3>1. ~Unloaded
      BY <1>1, <2>2, TaskKinds DEF Unloaded, Flight
    <3> QED
      BY <2>1, <2>5, <3>1 DEF FreshPage
  <2>7. \A j \in 1..Len(answers) : "trim" \in DOMAIN answers[j].data =>
                                       answers[j].data["trim"] = device["trim"]
    <3>1. \A j \in 1..Len(answers) : \A k \in (j + 1)..Len(answers) : k \in 1..Len(answers)
      BY <1>1 DEF WebTypes, TransitTypes
    <3> QED
      BY <2>1, <2>5, <3>1 DEF FreshAnswers
  <2>8. FreshAnswers' /\ FreshPage'
    BY <1>4, <1>6, <2>6, <2>7 DEF FreshAnswers, FreshPage
  <2>9. FreshRequest'
    <3> SUFFICES ASSUME NEW k \in 1..Len(queue'), "trim" \in Head(left'[queue'[k]]).writes
                 PROVE  Head(left'[queue'[k]]).value \in {0, device'["trim"] + 1}
      BY DEF FreshRequest
    <3>1. queue'[k] \in Tasks
      BY <1>5 DEF TransitTypes
    <3>2. CASE queue'[k] = t
      BY <1>2, <1>5, <1>6, <2>6, <3>2
    <3>3. CASE queue'[k] # t
      <4>1. queue'[k] = queue[k] /\ k \in 1..Len(queue)
        BY <1>1, <1>3, <3>3, AppendProperties DEF Start, WebTypes, TransitTypes
      <4> QED
        BY <1>5, <1>6, <2>1, <3>1, <3>3, <4>1 DEF FreshRequest
    <3> QED
      BY <3>2, <3>3
  <2> QED
    BY <2>4, <2>8, <2>9
<1> QED
  BY <1>5, <1>7, <1>8 DEF WebInv

LEMMA PollKeepsWeb ==
    ASSUME WebInv, NEW t \in Polls, Poll(t)
    PROVE  WebInv'
<1>1. WebTypes /\ Flight /\ Content /\ TrimInv
  BY DEF WebInv
<1>2. PICK s \in {PollLiveTemperature, PollCurrentTime} : Start(t, s)
  BY DEF Poll
<1>3. s \in Scripts /\ s # <<>> /\ (\A k \in 1..Len(s) : s[k].writes = {}) /\ Head(s).writes = {}
  BY <1>2, PollScripts, ScriptGoesOn
<1>4. t \in Tasks /\ t \notin Clicks /\ ~Runs(t) /\ UNCHANGED answers
  BY <1>2, TaskKinds DEF Poll, Start
<1>5. /\ left' \in [Tasks -> Scripts] /\ held' \in [Tasks -> Data] /\ TransitTypes'
      /\ Flight' /\ Content'
      /\ left'[t] = s /\ \A u \in Tasks \ {t} : left'[u] = left[u]
      /\ ~Asks(t) /\ ~Answered(t)
  BY <1>1, <1>2, <1>3, <1>4, StartKeeps
<1>6. UNCHANGED <<device, up, shown, others, busy, clicks, disturbed>>
  BY <1>2 DEF Poll, Start
<1>7. WebTypes'
  BY <1>1, <1>5, <1>6 DEF WebTypes, PageTypes, OtherTypes
<1>8. TrimInv'
  <2> SUFFICES ASSUME ~disturbed' PROVE OneClick' /\ FreshAnswers' /\ FreshPage' /\ FreshRequest'
    BY DEF TrimInv
  <2>1. OneClick /\ FreshAnswers /\ FreshPage /\ FreshRequest
    BY <1>1, <1>6 DEF TrimInv
  <2>2. \A u \in Clicks : left'[u] = left[u]
    BY <1>4, <1>5, TaskKinds
  <2>3. OneClick'
    BY <1>6, <2>1, <2>2 DEF OneClick, Runs
  <2>4. \A j \in 1..Len(answers) : Renews(answers[j])' <=> Renews(answers[j])
    BY <1>4, <2>2 DEF Renews
  <2>5. FreshAnswers'
    <3>1. \A j \in 1..Len(answers) : \A k \in (j + 1)..Len(answers) : k \in 1..Len(answers)
      BY <1>1 DEF WebTypes, TransitTypes
    <3> QED
      BY <1>4, <1>6, <2>1, <2>4, <3>1 DEF FreshAnswers
  <2>6. Unloaded => Unloaded'
    <3>1. \A u \in Tasks : Asks(u) => Asks(u)'
      BY <1>1, <1>2, <1>4, QueueGrows DEF WebTypes, Start
    <3> QED
      BY <2>2, <3>1, TaskKinds DEF Unloaded
  <2>7. FreshPage'
    BY <1>4, <1>6, <2>1, <2>4, <2>6 DEF FreshPage
  <2>8. FreshRequest'
    <3> SUFFICES ASSUME NEW k \in 1..Len(queue'), "trim" \in Head(left'[queue'[k]]).writes
                 PROVE  Head(left'[queue'[k]]).value \in {0, device'["trim"] + 1}
      BY DEF FreshRequest
    <3>1. queue'[k] \in Tasks /\ queue'[k] # t
      BY <1>3, <1>5 DEF TransitTypes
    <3>2. queue'[k] = queue[k] /\ k \in 1..Len(queue)
      BY <1>1, <1>2, <3>1, AppendProperties DEF Start, WebTypes, TransitTypes
    <3> QED
      BY <1>5, <1>6, <2>1, <3>1, <3>2 DEF FreshRequest
  <2> QED
    BY <2>3, <2>5, <2>7, <2>8
<1> QED
  BY <1>5, <1>7, <1>8 DEF WebInv

\* What an answer of the device does to the trims in flight.
LEMMA ServeTrim ==
    ASSUME WebTypes, Flight, Content, TrimInv,
           NEW i \in 1..Len(queue), NEW ok \in BOOLEAN, NEW d \in Data,
           queue' = RemoveAt(queue, i), Answer(queue[i], ok, d), UNCHANGED page,
           DOMAIN d = IF ok THEN Head(left[queue[i]]).reads ELSE {},
           disturbed' = (disturbed \/ i # 1),
           "trim" \in DOMAIN d => d["trim"] = device'["trim"],
           ok \/ Head(left[queue[i]]) # Status,
           \/ device'["trim"] = device["trim"]
           \/ ok /\ "trim" \in Head(left[queue[i]]).writes
    PROVE  TrimInv'
<1> SUFFICES ASSUME ~disturbed' PROVE OneClick' /\ FreshAnswers' /\ FreshPage' /\ FreshRequest'
  BY DEF TrimInv
<1> DEFINE t == queue[i]
           a == [to |-> t, ok |-> ok, data |-> d]
<1>1. OneClick /\ FreshAnswers /\ FreshPage /\ FreshRequest
  BY DEF TrimInv
<1>2. /\ left' = left /\ shown' = shown /\ busy' = busy
      /\ TransitTypes /\ left \in [Tasks -> Scripts] /\ disturbed \in BOOLEAN
  BY DEF page, WebTypes, PageTypes, OtherTypes
<1>3. t \in Tasks /\ a \in Answers /\ answers' = Append(answers, a) /\ a.to = t
  BY <1>2 DEF TransitTypes, Answers, Answer
<1>4. Asks(t) /\ ~Answered(t) /\ Runs(t)
  BY <1>3 DEF Asks, Flight
<1>5. Distinct(queue) /\ \A u \in Tasks : Asks(u)' <=> Asks(u) /\ u # t
  BY <1>2, <1>3, QueueShrinks DEF Flight
<1>6. a.ok = ok /\ a.data = d
  OBVIOUS
<1> HIDE DEF a
<1>7. /\ answers'[Len(answers) + 1] = a /\ Len(answers) \in Nat
      /\ Len(answers') = Len(answers) + 1
      /\ \A k \in 1..Len(answers) : k \in 1..Len(answers') /\ answers'[k] = answers[k]
      /\ \A k \in 1..Len(answers') : k \in 1..Len(answers) \/ k = Len(answers) + 1
  BY <1>2, <1>3, <1>4, AnswersGrow DEF Flight
<1>8. \A b : Renews(b)' <=> Renews(b)
  BY <1>2 DEF Renews
<1>9. Head(left[t]) \in Requests
  BY <1>2, <1>3, <1>4, ScriptGoesOn DEF Runs
<1>10. ASSUME "trim" \in Head(left[t]).writes PROVE t \in Clicks
  <2>1. 1 \in 1..Len(left[t]) /\ Head(left[t]) = left[t][1]
    BY <1>2, <1>3, <1>4, ScriptGoesOn DEF Runs
  <2> QED
    BY <1>3, <1>10, <2>1 DEF Content, Tasks
<1>11. ASSUME ~Renews(a) PROVE device'["trim"] = device["trim"]
  <2>1. ~(ok /\ "trim" \in Head(left[t]).writes)
    BY <1>3, <1>6, <1>9, <1>10, <1>11 DEF Renews, Requests
  <2> QED
    BY <2>1
<1>12. OneClick'
  BY <1>1, <1>2 DEF OneClick, Runs
<1>13. FreshAnswers'
  <2> SUFFICES ASSUME NEW k \in 1..Len(answers'), "trim" \in DOMAIN answers'[k].data,
                      \A j \in (k + 1)..Len(answers') : ~Renews(answers'[j])
               PROVE  answers'[k].data["trim"] = device'["trim"]
    BY <1>2 DEF FreshAnswers, Renews
  <2>1. CASE k = Len(answers) + 1
    BY <1>6, <1>7, <2>1
  <2>2. CASE k \in 1..Len(answers)
    <3>1. Len(answers) + 1 \in (k + 1)..Len(answers')
      BY <1>7, <2>2
    <3>2. device'["trim"] = device["trim"]
      BY <1>7, <1>11, <3>1
    <3>3. \A j \in (k + 1)..Len(answers) :
              j \in 1..Len(answers) /\ j \in (k + 1)..Len(answers')
      BY <1>7, <2>2
    <3>4. \A j \in (k + 1)..Len(answers) : ~Renews(answers[j])
      BY <1>7, <3>3
    <3> QED
      BY <1>1, <1>7, <2>2, <3>2, <3>4 DEF FreshAnswers
  <2> QED
    BY <1>7, <2>1, <2>2
<1>14. FreshPage'
  <2> SUFFICES ASSUME \A j \in 1..Len(answers') : ~Renews(answers'[j])
               PROVE  shown["trim"] = device'["trim"] \/ Unloaded'
    BY <1>2 DEF FreshPage, Renews
  <2>1. Len(answers) + 1 \in 1..Len(answers')
    BY <1>7
  <2>2. ~Renews(a) /\ device'["trim"] = device["trim"]
    BY <1>7, <1>11, <2>1
  <2>3. shown["trim"] = device["trim"] \/ Unloaded
    BY <1>1, <1>7 DEF FreshPage
  <2>4. ASSUME Unloaded PROVE Unloaded'
    <3>1. PICK u \in Clicks : Asks(u) /\ Head(left[u]) = Status
      BY <2>4 DEF Unloaded
    <3>2. ASSUME u = t PROVE FALSE
      <4>1. ok /\ t \in Clicks /\ Head(left[t]).atOnce /\ "trim" \in DOMAIN d
        BY <3>1, <3>2, PageRequests
      <4> QED
        BY <1>3, <1>6, <2>2, <4>1 DEF Renews
    <3>3. Asks(u)'
      BY <1>5, <3>1, <3>2, TaskKinds
    <3> QED
      BY <1>2, <3>1, <3>3 DEF Unloaded
  <2> QED
    BY <2>2, <2>3, <2>4
<1>15. FreshRequest'
  <2> SUFFICES ASSUME NEW k \in 1..Len(queue'), "trim" \in Head(left[queue'[k]]).writes
               PROVE  Head(left[queue'[k]]).value \in {0, device'["trim"] + 1}
    BY <1>2 DEF FreshRequest
  <2>1. queue' \in Seq(Tasks)
    BY <1>2, <1>5, QueueShrinks
  <2>2. PICK u \in Tasks : u = queue'[k]
    BY <2>1
  <2>3. Asks(u)'
    BY <2>2 DEF Asks
  <2>4. u # t /\ Asks(u) /\ Runs(u)
    BY <1>5, <2>2, <2>3 DEF Flight
  <2>5. /\ left[u] \in Scripts /\ left[u] # <<>>
        /\ "trim" \in Head(left[u]).writes
    BY <1>2, <2>2, <2>4 DEF Runs
  <2>6. 1 \in 1..Len(left[u]) /\ Head(left[u]) = left[u][1]
    BY <2>5, ScriptGoesOn
  <2>7. u \in Clicks
    BY <2>2, <2>5, <2>6 DEF Content, Tasks
  <2>8. device'["trim"] = device["trim"]
    BY <1>1, <1>4, <1>10, <2>4, <2>7 DEF OneClick
  <2>9. PICK n \in 1..Len(queue) : queue[n] = u
    BY <2>4 DEF Asks
  <2> QED
    BY <1>1, <2>2, <2>8, <2>9 DEF FreshRequest
<1> QED
  BY <1>12, <1>13, <1>14, <1>15

LEMMA ServedTask ==
    ASSUME WebTypes, Flight, NEW i \in 1..Len(queue)
    PROVE  /\ queue[i] \in Tasks /\ Runs(queue[i])
           /\ Head(left[queue[i]]) \in Requests
<1>1. queue[i] \in Tasks /\ left \in [Tasks -> Scripts]
  BY DEF WebTypes, TransitTypes, PageTypes
<1>2. Runs(queue[i])
  BY <1>1 DEF Flight, Asks
<1> QED
  BY <1>1, <1>2, ScriptGoesOn DEF Runs

LEMMA ChangedDevice ==
    ASSUME OtherTypes, NEW r \in Requests, NEW changed, device' = Changed(r, changed)
    PROVE  /\ device' \in [Panels -> Nat]
           /\ device'["trim"] = IF "trim" \in changed THEN r.value ELSE device["trim"]
BY DEF Changed, OtherTypes, Requests, Panels

LEMMA HandleKeeps ==
    ASSUME WebInv, NEW i \in 1..Len(queue), Handle(i)
    PROVE  WebInv'
<1> DEFINE t == queue[i]
           request == Head(left[t])
           d == [p \in request.reads |-> device'[p]]
<1>1. WebTypes /\ Flight /\ Content /\ TrimInv
  BY DEF WebInv
<1>2. t \in Tasks /\ request \in Requests
  BY <1>1, ServedTask
<1>3. /\ queue' = RemoveAt(queue, i) /\ disturbed' = (disturbed \/ i # 1)
      /\ UNCHANGED page /\ clicks' = clicks /\ others' = others
      /\ device' = Changed(request, request.writes)
      /\ Answer(t, TRUE, d) /\ up' = ~request.restarts
  BY DEF Handle, Taken
<1>4. /\ device' \in [Panels -> Nat]
      /\ device'["trim"] = IF "trim" \in request.writes THEN request.value ELSE device["trim"]
  BY <1>1, <1>2, <1>3, ChangedDevice DEF WebTypes
<1>5. request.reads \in SUBSET Panels /\ request.restarts \in BOOLEAN
  BY <1>2 DEF Requests
<1>6. d \in Data /\ DOMAIN d = request.reads
  <2>1. d \in [request.reads -> Nat]
    BY <1>4, <1>5
  <2> QED
    BY <1>5, <2>1 DEF Data
<1>7. "trim" \in DOMAIN d => d["trim"] = device'["trim"]
  BY <1>6
<1> HIDE DEF d
<1>8. UNCHANGED <<left, held, shown, busy>>
  BY <1>3 DEF page
<1>9. TransitTypes' /\ Flight' /\ Content'
  BY <1>1, <1>3, <1>6, <1>8, ServeKeeps
<1>10. TrimInv'
  BY <1>1, <1>3, <1>4, <1>6, <1>7, ServeTrim
<1>11. WebTypes'
  BY <1>1, <1>3, <1>4, <1>5, <1>8, <1>9 DEF WebTypes, PageTypes, OtherTypes
<1> QED
  BY <1>9, <1>10, <1>11 DEF WebInv

LEMMA RefuseKeeps ==
    ASSUME WebInv, NEW i \in 1..Len(queue), Refuse(i)
    PROVE  WebInv' /\ device'["trim"] = device["trim"]
<1> DEFINE t == queue[i]
           request == Head(left[t])
<1>1. WebTypes /\ Flight /\ Content /\ TrimInv
  BY DEF WebInv
<1>2. t \in Tasks /\ request \in Requests
  BY <1>1, ServedTask
<1>3. /\ queue' = RemoveAt(queue, i) /\ disturbed' = (disturbed \/ i # 1)
      /\ UNCHANGED page /\ clicks' = clicks /\ others' = others
      /\ Answer(t, FALSE, NoAnswer) /\ up' = up
      /\ request.writes # {} \/ request.reads = {}
  BY DEF Refuse, Taken
<1>4. PICK changed \in SUBSET request.writes :
          (changed = {} \/ request.restarts) /\ device' = Changed(request, changed)
  BY DEF Refuse
<1>5. device' \in [Panels -> Nat] /\ device'["trim"] = device["trim"]
  <2>1. "trim" \notin changed
    BY <1>2, <1>4 DEF Requests
  <2> QED
    BY <1>1, <1>2, <1>4, <2>1, ChangedDevice DEF WebTypes
<1>6. request # Status
  BY <1>3, PageRequests
<1>7. UNCHANGED <<left, held, shown, busy>>
  BY <1>3 DEF page
<1>8. TransitTypes' /\ Flight' /\ Content'
  BY <1>1, <1>3, <1>7, ServeKeeps, NoAnswerIsData
<1>9. TrimInv'
  BY <1>1, <1>3, <1>5, <1>6, ServeTrim, NoAnswerIsData
<1>10. WebTypes'
  BY <1>1, <1>3, <1>5, <1>7, <1>8 DEF WebTypes, PageTypes, OtherTypes
<1> QED
  BY <1>5, <1>8, <1>9, <1>10 DEF WebInv

\* What an answer that arrives does to the trims in flight, and to the one shown.
LEMMA DeliverTrim ==
    ASSUME WebTypes, Flight, Content, TrimInv,
           NEW i \in 1..Len(answers), NEW t \in Tasks, t = answers[i].to,
           answers' = RemoveAt(answers, i), disturbed' = (disturbed \/ i # 1), UNCHANGED device,
           \A u \in Tasks \ {t} : left'[u] = left[u],
           \/ left'[t] = <<>> /\ busy' = (busy /\ t \in Polls) /\ UNCHANGED queue
           \/ /\ left'[t] # <<>> /\ "trim" \notin Head(left'[t]).writes /\ UNCHANGED busy
              /\ queue' = Append(queue, t),
           shown'["trim"] =
               IF /\ answers[i].ok /\ Head(left[t]).atOnce
                  /\ "trim" \in DOMAIN Filled(answers[i].data, held[t])
               THEN Filled(answers[i].data, held[t])["trim"] ELSE shown["trim"]
    PROVE  TrimInv'
<1> SUFFICES ASSUME ~disturbed' PROVE OneClick' /\ FreshAnswers' /\ FreshPage' /\ FreshRequest'
  BY DEF TrimInv
<1>1. OneClick /\ FreshAnswers /\ FreshPage /\ FreshRequest /\ i = 1
  BY DEF TrimInv, WebTypes, OtherTypes
<1>2. TransitTypes /\ left \in [Tasks -> Scripts] /\ held \in [Tasks -> Data] /\ OneAnswerEach
  BY DEF WebTypes, PageTypes, Flight
<1>3. Answered(t) /\ ~Asks(t) /\ Runs(t)
  BY DEF Answered, Flight
<1>4. /\ Len(answers') = Len(answers) - 1 /\ Len(answers) \in Nat
      /\ \A k \in 1..Len(answers') : k + 1 \in 1..Len(answers) /\ answers'[k] = answers[k + 1]
  BY <1>1, <1>2, AnswersShrink
<1>5. \A k \in 1..Len(answers') : answers[k + 1].to \in Tasks /\ answers[k + 1].to # t
  <2> SUFFICES ASSUME NEW k \in 1..Len(answers')
               PROVE  answers[k + 1].to \in Tasks /\ answers[k + 1].to # t
    OBVIOUS
  <2>1. k + 1 \in 1..Len(answers) /\ k + 1 # i
    BY <1>1, <1>4
  <2> QED
    BY <1>2, <2>1, AnswerIs DEF OneAnswerEach
<1>6. \A b \in Answers : b.to # t => (Renews(b)' <=> Renews(b))
  BY TaskKinds DEF Renews, Answers
<1>7. /\ \A k \in 1..Len(answers') : answers'[k] \in Answers
      /\ \A k \in 1..Len(answers') : Renews(answers[k])' <=> Renews(answers[k + 1])
  <2> SUFFICES ASSUME NEW k \in 1..Len(answers')
               PROVE  answers'[k] \in Answers /\ (Renews(answers[k])' <=> Renews(answers[k + 1]))
    OBVIOUS
  <2>1. PICK b \in Answers : b = answers[k + 1] /\ b = answers'[k] /\ b.to # t
    BY <1>2, <1>4, <1>5, AnswerIs
  <2>2. Renews(b)' <=> Renews(b)
    BY <1>6, <2>1
  <2> QED
    BY <2>1, <2>2 DEF Renews
<1>8. OneClick'
  <2>1. CASE left'[t] = <<>> /\ busy' = (busy /\ t \in Polls)
    BY <1>1, <1>3, <2>1, TaskKinds DEF OneClick, Runs, Tasks
  <2>2. CASE left'[t] # <<>> /\ UNCHANGED busy
    BY <1>1, <1>3, <2>2, TaskKinds DEF OneClick, Runs
  <2> QED
    BY <2>1, <2>2
<1>9. FreshAnswers'
  <2> SUFFICES ASSUME NEW k \in 1..Len(answers'), "trim" \in DOMAIN answers'[k].data,
                      \A j \in (k + 1)..Len(answers') : ~Renews(answers[j])'
               PROVE  answers'[k].data["trim"] = device["trim"]
    BY DEF FreshAnswers
  <2>1. ASSUME NEW j \in (k + 2)..Len(answers) PROVE ~Renews(answers[j])
    <3>1. j - 1 \in (k + 1)..Len(answers') /\ j - 1 \in 1..Len(answers') /\ (j - 1) + 1 = j
      BY <1>4
    <3> QED
      BY <1>7, <3>1
  <2>2. k + 1 \in 1..Len(answers) /\ answers'[k] = answers[k + 1] /\ (k + 1) + 1 = k + 2
    BY <1>4
  <2> QED
    BY <1>1, <2>1, <2>2 DEF FreshAnswers
<1>10. FreshPage'
  <2> SUFFICES ASSUME \A j \in 1..Len(answers') : ~Renews(answers[j])'
               PROVE  shown'["trim"] = device["trim"] \/ Unloaded'
    BY DEF FreshPage
  <2>1. ASSUME NEW j \in 2..Len(answers) PROVE ~Renews(answers[j])
    <3>1. j - 1 \in 1..Len(answers') /\ (j - 1) + 1 = j
      BY <1>4
    <3> QED
      BY <1>7, <3>1
  <2>2. /\ 1 \in 1..Len(answers) /\ answers[1].data \in Data /\ held[t] \in Data
        /\ DOMAIN answers[1].data =
               IF answers[1].ok THEN Head(left[t]).reads ELSE {}
    BY <1>1, <1>2, AnswerIs DEF Content
  <2>3. CASE "trim" \in DOMAIN answers[1].data /\ Head(left[t]).atOnce
    <3>1. answers[1].data["trim"] = device["trim"]
      BY <1>1, <2>1, <2>2, <2>3 DEF FreshAnswers
    <3>2. answers[1].ok
      BY <2>2, <2>3
    <3>3. /\ "trim" \in DOMAIN Filled(answers[1].data, held[t])
          /\ Filled(answers[1].data, held[t])["trim"] = answers[1].data["trim"]
      <4> DEFINE d == answers[1].data
                 e == held[t]
      <4>1. d \in Data /\ e \in Data /\ "trim" \in DOMAIN d
        BY <2>2, <2>3
      <4> HIDE DEF d, e
      <4>2. "trim" \in DOMAIN Filled(d, e) /\ Filled(d, e)["trim"] = d["trim"]
        BY <4>1, FilledIsData
      <4> QED
        BY <4>2 DEF d, e
    <3> QED
      BY <1>1, <2>3, <3>1, <3>2, <3>3
  <2>4. CASE ~("trim" \in DOMAIN answers[1].data /\ Head(left[t]).atOnce)
    <3>1. shown'["trim"] = shown["trim"]
      <4>1. ASSUME answers[1].ok, Head(left[t]).atOnce
            PROVE  "trim" \notin DOMAIN Filled(answers[1].data, held[t])
        <5>1. "trim" \notin Head(left[t]).reads
          BY <2>2, <2>4, <4>1
        <5>2. "trim" \notin DOMAIN held[t]
          BY <1>3, <4>1, <5>1 DEF Content, HidesOldTrim
        <5> DEFINE d == answers[1].data
                   e == held[t]
        <5>3. d \in Data /\ e \in Data /\ "trim" \notin DOMAIN d \cup DOMAIN e
          BY <2>2, <2>4, <4>1, <5>2
        <5> HIDE DEF d, e
        <5>4. "trim" \notin DOMAIN Filled(d, e)
          BY <5>3, FilledIsData
        <5> QED
          BY <5>4 DEF d, e
      <4> QED
        BY <1>1, <4>1
    <3>2. \A j \in 1..Len(answers) : ~Renews(answers[j])
      <4>1. ~Renews(answers[1])
        BY <1>1, <2>4 DEF Renews
      <4>2. \A j \in 1..Len(answers) : j = 1 \/ j \in 2..Len(answers)
        BY <1>4
      <4> QED
        BY <2>1, <4>1, <4>2
    <3>3. shown["trim"] = device["trim"] \/ Unloaded
      BY <1>1, <3>2 DEF FreshPage
    <3>4. ASSUME Unloaded PROVE Unloaded'
      <4>1. PICK u \in Clicks : Asks(u) /\ Head(left[u]) = Status
        BY <3>4 DEF Unloaded
      <4>2. Asks(u)' /\ u # t
        <5>1. CASE UNCHANGED queue
          BY <1>3, <4>1, <5>1 DEF Asks
        <5>2. CASE queue' = Append(queue, t)
          BY <1>2, <1>3, <4>1, <5>2, QueueGrows, TaskKinds
        <5> QED
          BY <5>1, <5>2
      <4> QED
        BY <4>1, <4>2, TaskKinds DEF Unloaded
    <3> QED
      BY <3>1, <3>3, <3>4
  <2> QED
    BY <2>3, <2>4
<1>11. FreshRequest'
  <2> SUFFICES ASSUME NEW k \in 1..Len(queue'), "trim" \in Head(left'[queue'[k]]).writes
               PROVE  Head(left'[queue'[k]]).value \in {0, device["trim"] + 1}
    BY DEF FreshRequest
  <2>1. \A n \in 1..Len(queue) : queue[n] \in Tasks /\ queue[n] # t
    BY <1>2, <1>3 DEF TransitTypes, Asks
  <2>2. CASE UNCHANGED queue
    BY <1>1, <2>1, <2>2 DEF FreshRequest
  <2>3. CASE queue' = Append(queue, t) /\ "trim" \notin Head(left'[t]).writes
    <3>1. k \in 1..Len(queue) /\ queue'[k] = queue[k]
      BY <1>2, <2>3, AppendProperties DEF TransitTypes
    <3> QED
      BY <1>1, <2>1, <3>1 DEF FreshRequest
  <2> QED
    BY <2>2, <2>3
<1> QED
  BY <1>8, <1>9, <1>10, <1>11

LEMMA DeliverKeeps ==
    ASSUME WebInv, NEW i \in 1..Len(answers), Deliver(i)
    PROVE  WebInv'
<1>1. WebTypes /\ Flight /\ Content /\ TrimInv
  BY DEF WebInv
<1>2. /\ TransitTypes /\ left \in [Tasks -> Scripts] /\ held \in [Tasks -> Data]
      /\ shown \in [Panels -> Nat] /\ busy \in BOOLEAN
  BY <1>1 DEF WebTypes, PageTypes
<1>3. PICK t \in Tasks : t = answers[i].to
  BY <1>2, AnswerIs
<1> DEFINE a == answers[i]
           got == Filled(a.data, held[t])
<1>4. a.data \in Data /\ held[t] \in Data /\ a.ok \in BOOLEAN
  BY <1>2, <1>3, AnswerIs
<1>5. Runs(t) /\ ~Asks(t)
  BY <1>1, <1>3 DEF Flight, Answered
<1>6. left[t] \in Scripts /\ Head(left[t]) \in Requests /\ Len(left[t]) \in Nat \ {0}
  BY <1>2, <1>5, ScriptGoesOn DEF Runs
<1>7. /\ answers' = RemoveAt(answers, i) /\ disturbed' = (disturbed \/ i # 1)
      /\ UNCHANGED <<device, up, clicks, others>>
      /\ IF a.ok
         THEN /\ NextRequest(t, got)
              /\ shown' = IF Head(left[t]).atOnce THEN Filled(got, shown) ELSE shown
         ELSE Finish(t) /\ UNCHANGED shown
  BY <1>3 DEF Deliver
<1>8. got \in Data
  BY <1>4, FilledIsData
<1> HIDE DEF got, a
<1>9. /\ shown' \in [Panels -> Nat]
      /\ shown'["trim"] = IF a.ok /\ Head(left[t]).atOnce /\ "trim" \in DOMAIN got
                          THEN got["trim"] ELSE shown["trim"]
  BY <1>2, <1>7, <1>8, FilledPage
<1>10. \/ Finish(t)
       \/ /\ Len(left[t]) # 1 /\ left' = [left EXCEPT ![t] = Tail(left[t])]
          /\ held' = [held EXCEPT ![t] = IF Head(left[t]).atOnce THEN NoAnswer ELSE got]
          /\ queue' = Append(queue, t) /\ UNCHANGED busy
  BY <1>7 DEF NextRequest
<1>11. /\ left' \in [Tasks -> Scripts] /\ held' \in [Tasks -> Data] /\ TransitTypes'
       /\ Flight' /\ Content' /\ busy' \in BOOLEAN
       /\ \A u \in Tasks \ {t} : left'[u] = left[u]
       /\ \/ left'[t] = <<>> /\ busy' = (busy /\ t \in Polls) /\ UNCHANGED queue
          \/ /\ left'[t] # <<>> /\ "trim" \notin Head(left'[t]).writes /\ UNCHANGED busy
             /\ queue' = Append(queue, t)
  <2>1. CASE Finish(t)
    <3>1. /\ left' = [left EXCEPT ![t] = <<>>] /\ held' = [held EXCEPT ![t] = NoAnswer]
          /\ busy' = (busy /\ t \in Polls) /\ UNCHANGED queue
      BY <2>1 DEF Finish
    <3>2. /\ left' \in [Tasks -> Scripts] /\ held' \in [Tasks -> Data] /\ TransitTypes'
          /\ Flight' /\ Content'
          /\ left'[t] = <<>> /\ \A u \in Tasks \ {t} : left'[u] = left[u]
      BY <1>1, <1>3, <1>7, <3>1, EndKeeps
    <3> QED
      BY <1>2, <3>1, <3>2
  <2>2. CASE /\ Len(left[t]) # 1 /\ left' = [left EXCEPT ![t] = Tail(left[t])]
             /\ held' = [held EXCEPT ![t] = IF Head(left[t]).atOnce THEN NoAnswer ELSE got]
             /\ queue' = Append(queue, t) /\ UNCHANGED busy
    <3> DEFINE h == IF Head(left[t]).atOnce THEN NoAnswer ELSE got
    <3>1. h \in Data /\ ("trim" \in DOMAIN h => ~Head(left[t]).atOnce)
      BY <1>8, NoAnswerIsData
    <3>2. held' = [held EXCEPT ![t] = h]
      BY <2>2
    <3> HIDE DEF h
    <3>3. /\ left' \in [Tasks -> Scripts] /\ held' \in [Tasks -> Data] /\ TransitTypes'
          /\ Flight' /\ Content'
          /\ left'[t] # <<>> /\ \A u \in Tasks \ {t} : left'[u] = left[u]
          /\ "trim" \notin Head(left'[t]).writes
      BY <1>1, <1>3, <1>7, <2>2, <3>1, <3>2, NextKeeps
    <3> QED
      BY <1>2, <2>2, <3>3
  <2> QED
    BY <1>10, <2>1, <2>2
<1>12. TrimInv'
  BY <1>1, <1>3, <1>7, <1>9, <1>11, DeliverTrim DEF got, a
<1>13. WebTypes'
  BY <1>1, <1>7, <1>9, <1>11 DEF WebTypes, PageTypes, OtherTypes
<1> QED
  BY <1>11, <1>12, <1>13 DEF WebInv

LEMMA FailKeeps ==
    ASSUME WebInv, NEW t \in Tasks, Fail(t)
    PROVE  WebInv'
<1>1. WebTypes /\ Flight /\ Content /\ busy \in BOOLEAN
  BY DEF WebInv, WebTypes, PageTypes
<1>2. /\ left' = [left EXCEPT ![t] = <<>>] /\ held' = [held EXCEPT ![t] = NoAnswer]
      /\ \/ /\ UNCHANGED answers
            /\ \E i \in 1..Len(queue) : queue[i] = t /\ queue' = RemoveAt(queue, i)
         \/ /\ UNCHANGED queue
            /\ \E i \in 1..Len(answers) : answers[i].to = t /\ answers' = RemoveAt(answers, i)
  BY DEF Fail
<1>3. /\ left' \in [Tasks -> Scripts] /\ held' \in [Tasks -> Data] /\ TransitTypes'
      /\ Flight' /\ Content'
  BY <1>1, <1>2, EndKeeps
<1>4. disturbed' = TRUE /\ busy' \in BOOLEAN /\ UNCHANGED <<device, up, shown, clicks, others>>
  BY <1>1 DEF Fail
<1>5. WebTypes'
  BY <1>1, <1>3, <1>4 DEF WebTypes, PageTypes, OtherTypes
<1> QED
  BY <1>3, <1>4, <1>5 DEF WebInv, TrimInv

\* Steps that leave the page and the network alone.
LEMMA DeviceKeeps ==
    ASSUME WebInv, UNCHANGED <<page, net>>, OtherTypes',
           disturbed' = TRUE \/ UNCHANGED <<disturbed, device>>
    PROVE  WebInv'
<1>1. UNCHANGED <<shown, busy, left, held, queue, answers>>
  BY DEF page, net
<1>2. WebTypes' /\ Flight' /\ Content'
  BY <1>1 DEF WebInv, WebTypes, PageTypes, TransitTypes, Flight, Content, OneAnswerEach, Distinct,
              Asks, Answered, Runs, HidesOldTrim
<1>3. TrimInv'
  BY <1>1 DEF WebInv, TrimInv, OneClick, FreshAnswers, FreshPage, FreshRequest, Renews, Unloaded,
              Asks, Runs
<1> QED
  BY <1>2, <1>3 DEF WebInv

LEMMA WebInit == ConsoleInit => WebInv
<1> SUFFICES ASSUME ConsoleInit PROVE WebInv
  OBVIOUS
<1>1. PICK t \in Clicks : /\ left = [x \in Tasks |-> IF x = t THEN RefreshStatus ELSE <<>>]
                          /\ queue = <<t>>
  BY ConsoleAssumption DEF ConsoleInit
<1>2. /\ device = [p \in Panels |-> 1] /\ shown = [p \in Panels |-> 0] /\ up = TRUE /\ busy = TRUE
      /\ held = [x \in Tasks |-> NoAnswer] /\ answers = <<>> /\ clicks = 0 /\ others = 0
      /\ disturbed = FALSE
  BY DEF ConsoleInit
<1>3. t \in Tasks /\ t \notin Polls
  BY TaskKinds
<1>4. left[t] = RefreshStatus /\ \A x \in Tasks \ {t} : left[x] = <<>>
  BY <1>1, <1>3
<1>5. WebTypes
  <2>1. left \in [Tasks -> Scripts]
    BY <1>1, RefreshScript, NoScript
  <2>2. held \in [Tasks -> Data]
    BY <1>2, NoAnswerIsData
  <2>3. queue \in Seq(Tasks) /\ answers \in Seq(Answers)
    BY <1>1, <1>2, <1>3, EmptySeq
  <2>4. device \in [Panels -> Nat] /\ shown \in [Panels -> Nat]
    BY <1>2
  <2>5. clicks \in 0..MaxClicks /\ others \in 0..MaxOthers
    BY <1>2, ConsoleAssumption
  <2> QED
    BY <1>2, <2>1, <2>2, <2>3, <2>4, <2>5 DEF WebTypes, PageTypes, TransitTypes, OtherTypes
<1>6. \A u \in Tasks : Runs(u) <=> u = t
  BY <1>3, <1>4, RefreshScript DEF Runs
<1>7. Len(queue) = 1 /\ queue[1] = t /\ Len(answers) = 0 /\ \A k \in 1..Len(answers) : FALSE
  BY <1>1, <1>2, EmptySeq
<1>8. \A u \in Tasks : (Asks(u) <=> u = t) /\ ~Answered(u)
  BY <1>7 DEF Asks, Answered
<1>9. Flight
  BY <1>6, <1>7, <1>8 DEF Flight, Distinct, OneAnswerEach
<1>10. Content
  <2>1. \A u \in Tasks : held[u] = NoAnswer
    BY <1>2
  <2>2. \A u \in Polls : \A k \in 1..Len(left[u]) : FALSE
    BY <1>3, <1>4, TaskKinds, EmptySeq
  <2> QED
    BY <1>7, <2>1, <2>2, NoAnswerIsData DEF Content
<1>11. TrimInv
  <2>1. OneClick
    BY <1>2, <1>6, TaskKinds DEF OneClick
  <2>2. Unloaded
    BY <1>3, <1>4, <1>8, RefreshScript DEF Unloaded
  <2>3. FreshAnswers /\ FreshPage
    BY <1>7, <2>2 DEF FreshAnswers, FreshPage
  <2>4. FreshRequest
    BY <1>4, <1>7, RefreshScript, PageRequests DEF FreshRequest
  <2> QED
    BY <2>1, <2>3, <2>4 DEF TrimInv
<1> QED
  BY <1>5, <1>9, <1>10, <1>11 DEF WebInv

LEMMA WebStep == WebInv /\ [ConsoleNext]_consoleVars => WebInv'
<1> SUFFICES ASSUME WebInv, [ConsoleNext]_consoleVars PROVE WebInv'
  OBVIOUS
<1>1. OtherTypes /\ WebTypes
  BY DEF WebInv, WebTypes
<1>2. CASE \E s \in Listed \cup Unlisted : Click(s)
  BY <1>2, ClickKeeps
<1>3. CASE \E t \in Polls : Poll(t)
  BY <1>3, PollKeepsWeb
<1>4. CASE \E i \in 1..Len(queue) : Handle(i) \/ Refuse(i)
  BY <1>4, HandleKeeps, RefuseKeeps
<1>5. CASE \E i \in 1..Len(answers) : Deliver(i)
  BY <1>5, DeliverKeeps
<1>6. CASE \E t \in Tasks : Fail(t)
  BY <1>6, FailKeeps
<1>7. CASE \E p \in Panels : Others(p)
  <2>1. /\ OtherTypes' /\ disturbed' = TRUE /\ UNCHANGED <<page, net>>
    BY <1>1, <1>7, ConsoleAssumption DEF Others, OtherTypes
  <2> QED
    BY <2>1, DeviceKeeps
<1>8. CASE GoesDown
  <2>1. others' \in 0..MaxOthers
    BY <1>1, <1>8, ConsoleAssumption DEF GoesDown, OtherTypes
  <2>2. UNCHANGED <<page, net, disturbed, device, clicks>> /\ up' = FALSE
    BY <1>8 DEF GoesDown
  <2>3. OtherTypes'
    BY <1>1, <2>1, <2>2 DEF OtherTypes
  <2> QED
    BY <2>2, <2>3, DeviceKeeps
<1>9. CASE ComesUp
  <2>1. OtherTypes' /\ UNCHANGED <<page, net, disturbed, device>>
    BY <1>1, <1>9 DEF ComesUp, OtherTypes
  <2> QED
    BY <2>1, DeviceKeeps
<1>10. CASE UNCHANGED consoleVars
  <2>1. OtherTypes' /\ UNCHANGED <<page, net, disturbed, device>>
    BY <1>1, <1>10 DEF consoleVars, OtherTypes
  <2> QED
    BY <2>1, DeviceKeeps
<1> QED
  BY <1>2, <1>3, <1>4, <1>5, <1>6, <1>7, <1>8, <1>9, <1>10 DEF ConsoleNext

LEMMA WebInvariant == ConsoleSpec => []WebInv
BY WebInit, WebStep, PTL DEF ConsoleSpec

\* Every value stays in its range, and a function of the page that runs waits for exactly one
\* answer: no request is forgotten and none is answered twice, whatever fails.
THEOREM ConsoleTypes == ConsoleSpec => []ConsoleTypeOK
<1>1. WebInv => ConsoleTypeOK
  <2> SUFFICES ASSUME WebInv PROVE ConsoleTypeOK
    OBVIOUS
  <2>1. WebTypes /\ Flight /\ Content /\ TransitTypes
    BY DEF WebInv, WebTypes
  <2>2. ASSUME NEW t \in Tasks PROVE Waiting(t) = IF Runs(t) THEN 1 ELSE 0
    <3> DEFINE Q == {i \in DOMAIN queue : queue[i] = t}
               A == {i \in DOMAIN answers : answers[i].to = t}
    <3>1. DOMAIN queue = 1..Len(queue) /\ DOMAIN answers = 1..Len(answers)
      BY <2>1, LenProperties DEF TransitTypes
    <3>2. ~Asks(t) => Q = {}
      BY <3>1 DEF Asks
    <3>3. Asks(t) => \E i : Q = {i}
      BY <2>1, <3>1 DEF Asks, Flight, Distinct
    <3>4. ~Answered(t) => A = {}
      BY <3>1 DEF Answered
    <3>5. Answered(t) => \E i : A = {i}
      <4> SUFFICES ASSUME Answered(t) PROVE \E i : A = {i}
        OBVIOUS
      <4>1. PICK i \in 1..Len(answers) : answers[i].to = t
        BY DEF Answered
      <4>2. \A j \in 1..Len(answers) : answers[j].to = t => j = i
        BY <2>1, <4>1 DEF Flight, OneAnswerEach
      <4>3. A = {i}
        BY <3>1, <4>1, <4>2
      <4> QED
        BY <4>3
    <3>6. Cardinality({}) = 0 /\ \A i : Cardinality({i}) = 1
      BY FS_EmptySet, FS_Singleton
    <3>7. ~(Asks(t) /\ Answered(t)) /\ (Runs(t) <=> Asks(t) \/ Answered(t))
      BY <2>1 DEF Flight
    <3>8. Waiting(t) = Cardinality(Q) + Cardinality(A)
      BY DEF Waiting
    <3> HIDE DEF Q, A
    <3>9. Cardinality(Q) = IF Asks(t) THEN 1 ELSE 0
      BY <3>2, <3>3, <3>6
    <3>10. Cardinality(A) = IF Answered(t) THEN 1 ELSE 0
      BY <3>4, <3>5, <3>6
    <3> QED
      BY <3>7, <3>8, <3>9, <3>10
  <2> QED
    BY <2>1, <2>2 DEF ConsoleTypeOK, WebTypes, PageTypes, OtherTypes, Content
<1> QED
  BY <1>1, WebInvariant, PTL

\* Clicks on the trim add up (TrimClicksAddUp): a request that changes the trim was computed from
\* the trim the device still holds when it handles it.
THEOREM ClicksAddUp == ConsoleSpec => TrimClicksAddUp
<1> DEFINE AddsUp == device'["trim"] # device["trim"] /\ ~disturbed' =>
                         device'["trim"] \in {0, device["trim"] + 1}
<1>1. WebInv /\ [ConsoleNext]_consoleVars => [AddsUp]_consoleVars
  <2> SUFFICES ASSUME WebInv, ConsoleNext, device'["trim"] # device["trim"], ~disturbed'
               PROVE  device'["trim"] \in {0, device["trim"] + 1}
    OBVIOUS
  <2>1. PICK i \in 1..Len(queue) : Handle(i)
    <3>1. ASSUME NEW p \in Panels, Others(p) PROVE FALSE
      BY <3>1 DEF Others
    <3> QED
      BY <3>1, RefuseKeeps DEF ConsoleNext, Click, Poll, Start, Deliver, Fail, GoesDown, ComesUp
  <2> DEFINE request == Head(left[queue[i]])
  <2>2. request \in Requests
    BY ServedTask DEF WebInv
  <2>3. device' = Changed(request, request.writes) /\ disturbed' = (disturbed \/ i # 1)
    BY <2>1 DEF Handle, Taken
  <2>4. device'["trim"] = IF "trim" \in request.writes THEN request.value ELSE device["trim"]
    BY <2>2, <2>3, ChangedDevice DEF WebInv, WebTypes
  <2>5. FreshRequest
    BY <2>3 DEF WebInv, TrimInv
  <2> QED
    BY <2>4, <2>5 DEF FreshRequest
<1> QED
  BY <1>1, WebInvariant, PTL DEF ConsoleSpec, TrimClicksAddUp
====
