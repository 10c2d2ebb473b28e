----------------------------- MODULE EspNowBridge -----------------------------
(***************************************************************************)
(* OTA commands relayed over ESP-NOW                                       *)
(* (src/src/discovery/espnow_discovery_bridge.cpp with its handlers in     *)
(* src/src/main.cpp), on a set of nodes.                                   *)
(*                                                                         *)
(* A node has two tasks: the loop task broadcasts commands, the Wi-Fi      *)
(* task runs onDataRecv() and, inside it, the check or update itself.      *)
(* Frames are broadcast without acknowledgement: each neighbour may get    *)
(* its copy late, after later ones, or never.                              *)
(***************************************************************************)
EXTENDS Integers, Sequences, SequencesExt

CONSTANTS
    Nodes,
    Hears,         \* for each node, the nodes its broadcasts reach
    Commands,      \* what may be asked for: [src, target, install]; "all" is a target
    MaxHops,       \* max_hops of triggerEspNowOta()
    SeenCapacity   \* SEEN_MESSAGE_CAPACITY

ASSUME EspNowAssumption ==
    /\ Hears \in [Nodes -> SUBSET Nodes] /\ \A n \in Nodes : n \notin Hears[n]
    /\ Commands \subseteq [src : Nodes, target : Nodes \cup {"all"}, install : BOOLEAN]
    /\ MaxHops \in Nat
    /\ SeenCapacity \in Nat \ {0}

VARIABLES
    todo,       \* bound: commands not issued yet, each of them once
    flight,     \* frames on the air: one copy per receiver
    seen,       \* seenMessageIds, oldest first
    sending,    \* loop task: the command sent and not recorded yet
    busy,       \* Wi-Fi task: the command frame it carries out
    running,    \* the firmware a node runs
    flashed,    \* a new firmware waits for the next restart
    carriedOut  \* history: commands a node carried out since its last restart

air    == <<todo, flight>>
tasks  == <<seen, sending, busy>>
image  == <<running, flashed>>
vars   == <<air, tasks, image, carriedOut>>

None == [none |-> TRUE]

Command(to, c, hop) == [to |-> to, type |-> "command", cmd |-> c, hop |-> hop]
Result(to, c) == [to |-> to, type |-> "result", cmd |-> c]

\* One copy for every neighbour of n; esp_now_send() may fail and send none.
CommandFrames(n, c, hop) == {Command(m, c, hop) : m \in Hears[n]}
\* Results of checks and of failed updates are only printed and are left out.
ResultFrames(n, c) == {Result(m, c) : m \in Hears[n]}

\* Mutant: a received command is not recorded.
Record_Nothing(s, c) == s

\* The ring of the last SeenCapacity ids.
Record(s, c) == IF Len(s) < SeenCapacity THEN Append(s, c) ELSE Append(Tail(s), c)

Seen(n, c) == Contains(seen[n], c)

TargetMatches(n, c) == c.target \in {"all", n}

-----------------------------------------------------------------------------
(* The loop task. *)

\* sendOtaCommand(): the frame goes out, or the send fails and nothing is recorded ...
SendCommand(n) ==
    /\ sending[n] = None
    /\ \E c \in todo, sent \in BOOLEAN :
         /\ c.src = n
         /\ todo' = todo \ {c}
         /\ flight' = flight \cup (IF sent THEN CommandFrames(n, c, 0) ELSE {})
         /\ sending' = [sending EXCEPT ![n] = IF sent THEN c ELSE None]
    /\ UNCHANGED <<seen, busy, image, carriedOut>>

\* ... and its id is recorded afterwards; the Wi-Fi task may run in between.
RecordOwn(n) ==
    /\ sending[n] # None
    /\ seen' = [seen EXCEPT ![n] = Record(@, sending[n])]
    /\ sending' = [sending EXCEPT ![n] = None]
    /\ UNCHANGED <<air, busy, image, carriedOut>>

-----------------------------------------------------------------------------
(* The Wi-Fi task: onDataRecv(), one frame at a time. *)

Restart(n) ==
    /\ seen' = [seen EXCEPT ![n] = <<>>]
    /\ sending' = [sending EXCEPT ![n] = None]
    /\ busy' = [busy EXCEPT ![n] = None]
    /\ running' = [running EXCEPT ![n] = IF flashed[n] THEN "new" ELSE @]
    /\ flashed' = [flashed EXCEPT ![n] = FALSE]
    /\ carriedOut' = [carriedOut EXCEPT ![n] = {}]

\* Mutant: the hop limit is off by one.
Forward_OnePast(n, f) ==
    IF f.hop <= MaxHops THEN CommandFrames(n, f.cmd, f.hop + 1) ELSE {}

\* Mutant: the hop count is passed on as it came.
Forward_SameHop(n, f) ==
    IF f.hop < MaxHops THEN CommandFrames(n, f.cmd, f.hop) ELSE {}

Forward(n, f) ==
    IF f.hop < MaxHops THEN CommandFrames(n, f.cmd, f.hop + 1) ELSE {}

IgnoreCommand(n, f) ==
    /\ f.type = "command" /\ busy[n] = None /\ Seen(n, f.cmd)
    /\ flight' = flight \ {f}
    /\ UNCHANGED <<todo, tasks, image, carriedOut>>

\* A command for another node is recorded and passed on.
RelayCommand(n, f) ==
    /\ f.type = "command" /\ busy[n] = None /\ ~Seen(n, f.cmd)
    /\ ~TargetMatches(n, f.cmd)
    /\ seen' = [seen EXCEPT ![n] = Record(@, f.cmd)]
    /\ \E sent \in BOOLEAN :
         flight' = (flight \ {f}) \cup (IF sent THEN Forward(n, f) ELSE {})
    /\ UNCHANGED <<todo, sending, busy, image, carriedOut>>

\* A command for this node is carried out inside the callback ...
StartCommand(n, f) ==
    /\ f.type = "command" /\ busy[n] = None /\ ~Seen(n, f.cmd)
    /\ TargetMatches(n, f.cmd)
    /\ seen' = [seen EXCEPT ![n] = Record(@, f.cmd)]
    /\ busy' = [busy EXCEPT ![n] = f]
    /\ flight' = flight \ {f}
    /\ carriedOut' = [carriedOut EXCEPT ![n] = @ \cup {f.cmd}]
    /\ UNCHANGED <<todo, sending, image>>

\* ... and its result broadcast, then the command itself. An update succeeds only
\* when a newer firmware than the running one was flashed; it does not restart.
FinishCommand(n) ==
    /\ busy[n] # None
    /\ \E updated, resultSent, forwarded \in BOOLEAN :
         /\ updated => busy[n].cmd.install /\ running[n] = "old"
         /\ resultSent => updated
         /\ flashed' = [flashed EXCEPT ![n] = @ \/ updated]
         /\ flight' = flight
              \cup (IF resultSent THEN ResultFrames(n, busy[n].cmd) ELSE {})
              \cup (IF forwarded THEN Forward(n, busy[n]) ELSE {})
    /\ busy' = [busy EXCEPT ![n] = None]
    /\ UNCHANGED <<todo, seen, sending, running, carriedOut>>

\* handleEspNowOtaResult(): whoever hears of a successful update restarts.
HandleResult(n, f) ==
    /\ f.type = "result" /\ busy[n] = None
    /\ flight' = flight \ {f}
    /\ Restart(n)
    /\ UNCHANGED todo

Deliver(n, f) ==
    \/ IgnoreCommand(n, f) \/ RelayCommand(n, f) \/ StartCommand(n, f) \/ HandleResult(n, f)

-----------------------------------------------------------------------------
(* The environment. *)

Lose(f) == flight' = flight \ {f} /\ UNCHANGED <<todo, tasks, image, carriedOut>>

Reset(n) ==
    /\ Restart(n)
    /\ UNCHANGED air

-----------------------------------------------------------------------------

Init ==
    /\ todo = Commands /\ flight = {}
    /\ seen = [n \in Nodes |-> <<>>]
    /\ sending = [n \in Nodes |-> None] /\ busy = [n \in Nodes |-> None]
    /\ running = [n \in Nodes |-> "old"] /\ flashed = [n \in Nodes |-> FALSE]
    /\ carriedOut = [n \in Nodes |-> {}]

LoopTask(n) == SendCommand(n) \/ RecordOwn(n)

Next == \/ \E n \in Nodes : LoopTask(n) \/ FinishCommand(n) \/ Reset(n)
        \/ \E f \in flight : Deliver(f.to, f) \/ Lose(f)

Spec == Init /\ [][Next]_vars

\* A frame on the air reaches its node or is lost; the two tasks go on.
Fairness ==
    /\ \A n \in Nodes : WF_vars(RecordOwn(n)) /\ WF_vars(FinishCommand(n))
    /\ WF_vars(\E f \in flight : Deliver(f.to, f) \/ Lose(f))

FairSpec == Spec /\ Fairness

-----------------------------------------------------------------------------

CommandsOnAir == [to : Nodes, type : {"command"}, cmd : Commands, hop : 0..MaxHops]
ResultsOnAir == [to : Nodes, type : {"result"}, cmd : Commands]

TypeOK ==
    /\ todo \subseteq Commands
    /\ flight \subseteq CommandsOnAir \cup ResultsOnAir
    /\ seen \in [Nodes -> BoundedSeq(Commands, SeenCapacity)]
    /\ sending \in [Nodes -> Commands \cup {None}]
    /\ busy \in [Nodes -> CommandsOnAir \cup {None}]
    /\ running \in [Nodes -> {"old", "new"}] /\ flashed \in [Nodes -> BOOLEAN]
    /\ carriedOut \in [Nodes -> SUBSET Commands]

\* Between two restarts a node carries out a command once, whatever copies of it are
\* relayed around and however late: as long as the ring is not outrun by newer ids
\* (seenMessageId(), recordMessageId()).
CarriedOutOnce ==
    [][\A f \in flight : StartCommand(f.to, f) => f.cmd \notin carriedOut[f.to]]_vars

\* The command a node works at, as its operator sees it.
Working == [n \in Nodes |-> IF busy[n] = None THEN None ELSE busy[n].cmd]

Service == INSTANCE OtaService WITH issued <- Commands \ todo, working <- Working

\* Whatever is relayed, delayed and lost, and whichever nodes restart, a node only works at
\* commands that were issued and are for it, one at a time and at none twice in a boot, and
\* only an install command changes its firmware (handleCommandFrame(), handleEspNowOtaUpdate()).
ImplementsOtaService == Service!Spec

\* Flooding ends: relayed copies die out, restarts notwithstanding (hop and max_hops
\* in handleCommandFrame()).
FloodEnds == []<>(flight = {})

\* src/src/main.cpp:972 prints "Update installed; rebooting device.": a node that a
\* result frame restarts has an update waiting for that restart.
RestartsOnOwnUpdate ==
    [][\A f \in flight : HandleResult(f.to, f) => flashed[f.to]]_vars
=============================================================================
