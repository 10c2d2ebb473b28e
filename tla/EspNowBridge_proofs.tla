------------------------- MODULE EspNowBridge_proofs -------------------------
(* Theorems about EspNowBridge, for all sets of nodes and commands, all ways  *)
(* they hear each other, and rings that outlast the commands.                 *)
EXTENDS EspNowBridge, FiniteSetTheorems, TLAPS

(***************************************************************************)
(* Types.                                                                  *)
(***************************************************************************)

LEMMA RecordTyped ==
    ASSUME NEW s \in BoundedSeq(Commands, SeenCapacity), NEW c \in Commands
    PROVE  Record(s, c) \in BoundedSeq(Commands, SeenCapacity)
<1>1. /\ s \in Seq(Commands) /\ Len(s) \in Nat /\ Len(s) =< SeenCapacity
  BY EspNowAssumption DEF BoundedSeq, SeqOf
<1>2. ASSUME NEW t \in Seq(Commands), Len(t) =< SeenCapacity
      PROVE  t \in BoundedSeq(Commands, SeenCapacity)
  <2>1. Len(t) \in 0..SeenCapacity /\ t \in [1..Len(t) -> Commands]
    BY <1>2, EspNowAssumption
  <2> QED
    BY <2>1 DEF BoundedSeq, SeqOf
<1>3. CASE Len(s) < SeenCapacity
  <2>1. Append(s, c) \in Seq(Commands) /\ Len(Append(s, c)) = Len(s) + 1
    BY <1>1
  <2>2. Len(Append(s, c)) =< SeenCapacity
    BY <1>1, <1>3, <2>1, EspNowAssumption
  <2>3. Append(s, c) \in BoundedSeq(Commands, SeenCapacity)
    BY <1>2, <2>1, <2>2
  <2> QED
    BY <1>3, <2>3 DEF Record
<1>4. CASE ~(Len(s) < SeenCapacity)
  <2>1. s # <<>>
    BY <1>1, <1>4, EspNowAssumption
  <2>2. Tail(s) \in Seq(Commands) /\ Len(Tail(s)) = Len(s) - 1
    BY <1>1, <2>1
  <2>3. Append(Tail(s), c) \in Seq(Commands) /\ Len(Append(Tail(s), c)) = Len(s)
    BY <1>1, <2>2
  <2> QED
    BY <1>1, <1>2, <1>4, <2>3 DEF Record
<1> QED
  BY <1>3, <1>4

LEMMA EmptyTyped == <<>> \in BoundedSeq(Commands, SeenCapacity)
<1>1. 0 \in 0..SeenCapacity /\ <<>> \in [1..0 -> Commands]
  BY EspNowAssumption
<1> QED
  BY <1>1 DEF BoundedSeq, SeqOf

LEMMA ForwardTyped ==
    ASSUME NEW n \in Nodes, NEW f \in CommandsOnAir
    PROVE  Forward(n, f) \subseteq CommandsOnAir
  BY EspNowAssumption DEF Forward, CommandFrames, Command, CommandsOnAir

LEMMA ResultTyped ==
    ASSUME NEW n \in Nodes, NEW c \in Commands
    PROVE  ResultFrames(n, c) \subseteq ResultsOnAir
  BY EspNowAssumption DEF ResultFrames, Result, ResultsOnAir

LEMMA SentTyped ==
    ASSUME NEW n \in Nodes, NEW c \in Commands
    PROVE  CommandFrames(n, c, 0) \subseteq CommandsOnAir
  BY EspNowAssumption DEF CommandFrames, Command, CommandsOnAir

\* A frame of type "command" is one, and goes to a node.
LEMMA FrameKinds ==
    ASSUME TypeOK, NEW f \in flight
    PROVE  /\ f.to \in Nodes /\ f.cmd \in Commands
           /\ f.type = "command" => f \in CommandsOnAir
  BY DEF TypeOK, CommandsOnAir, ResultsOnAir

THEOREM TypeCorrect == Spec => []TypeOK
<1>1. Init => TypeOK
  BY EmptyTyped DEF Init, TypeOK
<1>2. TypeOK /\ [Next]_vars => TypeOK'
  <2> SUFFICES ASSUME TypeOK, [Next]_vars PROVE TypeOK'
    OBVIOUS
  <2> USE DEF air, tasks, image, vars
  <2>1. ASSUME NEW n \in Nodes, SendCommand(n) PROVE TypeOK'
    <3>1. PICK c \in todo, sent \in BOOLEAN :
             /\ todo' = todo \ {c}
             /\ flight' = flight \cup (IF sent THEN CommandFrames(n, c, 0) ELSE {})
             /\ sending' = [sending EXCEPT ![n] = IF sent THEN c ELSE None]
      BY <2>1 DEF SendCommand
    <3>2. c \in Commands
      BY DEF TypeOK
    <3>3. flight' \subseteq CommandsOnAir \cup ResultsOnAir
      BY <3>1, <3>2, SentTyped DEF TypeOK
    <3>4. sending' \in [Nodes -> Commands \cup {None}]
      BY <3>1, <3>2 DEF TypeOK
    <3> QED
      BY <2>1, <3>1, <3>3, <3>4 DEF SendCommand, TypeOK
  <2>2. ASSUME NEW n \in Nodes, RecordOwn(n) PROVE TypeOK'
    <3>1. seen[n] \in BoundedSeq(Commands, SeenCapacity) /\ sending[n] \in Commands
      BY <2>2 DEF RecordOwn, TypeOK
    <3>2. seen' \in [Nodes -> BoundedSeq(Commands, SeenCapacity)]
      BY <2>2, <3>1, RecordTyped DEF RecordOwn, TypeOK
    <3> QED
      BY <2>2, <3>2 DEF RecordOwn, TypeOK
  <2>3. ASSUME NEW n \in Nodes, FinishCommand(n) PROVE TypeOK'
    <3>1. busy[n] \in CommandsOnAir /\ busy[n].cmd \in Commands
      BY <2>3 DEF FinishCommand, TypeOK, CommandsOnAir
    <3>2. PICK updated, resultSent, forwarded \in BOOLEAN :
             /\ flashed' = [flashed EXCEPT ![n] = @ \/ updated]
             /\ flight' = flight
                  \cup (IF resultSent THEN ResultFrames(n, busy[n].cmd) ELSE {})
                  \cup (IF forwarded THEN Forward(n, busy[n]) ELSE {})
      BY <2>3 DEF FinishCommand
    <3>3. flight' \subseteq CommandsOnAir \cup ResultsOnAir
      BY <3>1, <3>2, ForwardTyped, ResultTyped DEF TypeOK
    <3>4. flashed' \in [Nodes -> BOOLEAN]
      BY <3>2 DEF TypeOK
    <3> QED
      BY <2>3, <3>3, <3>4 DEF FinishCommand, TypeOK
  <2>4. ASSUME NEW n \in Nodes, Restart(n), todo' = todo, flight' \subseteq flight PROVE TypeOK'
    BY <2>4, EmptyTyped DEF Restart, TypeOK
  <2>5. ASSUME NEW n \in Nodes, Reset(n) PROVE TypeOK'
    BY <2>4, <2>5 DEF Reset
  <2>6. ASSUME NEW f \in flight, Deliver(f.to, f) PROVE TypeOK'
    <3> DEFINE n == f.to
    <3>1. n \in Nodes /\ f.cmd \in Commands /\ (f.type = "command" => f \in CommandsOnAir)
      BY FrameKinds
    <3> HIDE DEF n
    <3>2. Record(seen[n], f.cmd) \in BoundedSeq(Commands, SeenCapacity)
      BY <3>1, RecordTyped DEF TypeOK
    <3>3. CASE IgnoreCommand(n, f)
      BY <3>3 DEF IgnoreCommand, TypeOK
    <3>4. CASE RelayCommand(n, f)
      <4>1. flight' \subseteq CommandsOnAir \cup ResultsOnAir
        BY <3>1, <3>4, ForwardTyped DEF RelayCommand, TypeOK
      <4>2. seen' \in [Nodes -> BoundedSeq(Commands, SeenCapacity)]
        BY <3>2, <3>4 DEF RelayCommand, TypeOK
      <4> QED
        BY <3>4, <4>1, <4>2 DEF RelayCommand, TypeOK
    <3>5. CASE StartCommand(n, f)
      <4>1. seen' \in [Nodes -> BoundedSeq(Commands, SeenCapacity)]
        BY <3>2, <3>5 DEF StartCommand, TypeOK
      <4>2. busy' \in [Nodes -> CommandsOnAir \cup {None}]
        BY <3>1, <3>5 DEF StartCommand, TypeOK
      <4>3. carriedOut' \in [Nodes -> SUBSET Commands]
        BY <3>1, <3>5 DEF StartCommand, TypeOK
      <4> QED
        BY <3>5, <4>1, <4>2, <4>3 DEF StartCommand, TypeOK
    <3>6. CASE HandleResult(n, f)
      BY <2>4, <3>1, <3>6 DEF HandleResult
    <3> QED
      BY <2>6, <3>3, <3>4, <3>5, <3>6 DEF Deliver, n
  <2>7. ASSUME NEW f \in flight, Lose(f) PROVE TypeOK'
    BY <2>7 DEF Lose, TypeOK
  <2>8. CASE UNCHANGED vars
    BY <2>8 DEF TypeOK
  <2> QED
    BY <2>1, <2>2, <2>3, <2>5, <2>6, <2>7, <2>8 DEF Next, LoopTask
<1> QED
  BY <1>1, <1>2, PTL DEF Spec

(***************************************************************************)
(* The ring of seen ids.                                                   *)
(***************************************************************************)

Own(n)      == {c \in Commands : c.src = n}
Recorded(n) == {c \in Commands : Seen(n, c)}
Sent(n)     == {c \in Commands : c.src = n /\ c \notin todo /\ c # sending[n]}

\* A node meets each command once in what it receives, and once more for each it sends itself:
\* a relayed copy may be received before RecordOwn.
RingOutlasts ==
    /\ IsFiniteSet(Commands)
    /\ \A n \in Nodes : Cardinality(Commands) + Cardinality(Own(n)) =< SeenCapacity

\* The ids in the ring, each received or sent since the restart, fit in; so none of a command
\* that was carried out has left it.
RingInv(n) ==
    /\ Len(seen[n]) =< Cardinality(Recorded(n)) + Cardinality(Sent(n))
    /\ sending[n] # None => sending[n] \in Own(n) \ todo
    /\ carriedOut[n] \subseteq Recorded(n)

LEMMA Smaller ==
    ASSUME NEW S, IsFiniteSet(S), NEW T \in SUBSET S
    PROVE  /\ IsFiniteSet(T) /\ Cardinality(T) \in Nat /\ Cardinality(S) \in Nat
           /\ Cardinality(T) =< Cardinality(S)
           /\ \A x \in S \ T : Cardinality(T) < Cardinality(S)
<1>1. /\ IsFiniteSet(T) /\ Cardinality(T) =< Cardinality(S)
      /\ Cardinality(S) = Cardinality(T) => S = T
  BY FS_Subset
<1>2. Cardinality(T) \in Nat /\ Cardinality(S) \in Nat
  BY <1>1, FS_CardinalityType
<1> QED
  BY <1>1, <1>2

LEMMA Counts ==
    ASSUME RingOutlasts, NEW n \in Nodes
    PROVE  /\ IsFiniteSet(Recorded(n)) /\ IsFiniteSet(Sent(n))
           /\ Cardinality(Recorded(n)) \in Nat /\ Cardinality(Sent(n)) \in Nat
           /\ Cardinality(Recorded(n)) + Cardinality(Sent(n)) =< SeenCapacity
           /\ \A c \in Commands : ~Seen(n, c) \/ c \in Own(n) \ Sent(n) =>
                  Cardinality(Recorded(n)) + Cardinality(Sent(n)) < SeenCapacity
<1>1. /\ IsFiniteSet(Commands) /\ Cardinality(Commands) + Cardinality(Own(n)) =< SeenCapacity
      /\ SeenCapacity \in Nat
  BY EspNowAssumption DEF RingOutlasts
<1>2. Own(n) \subseteq Commands /\ Recorded(n) \subseteq Commands /\ Sent(n) \subseteq Own(n)
  BY DEF Own, Recorded, Sent
<1>3. IsFiniteSet(Own(n)) /\ Cardinality(Own(n)) \in Nat /\ Cardinality(Commands) \in Nat
  BY <1>1, <1>2, Smaller
<1>4. /\ IsFiniteSet(Recorded(n)) /\ Cardinality(Recorded(n)) \in Nat
      /\ Cardinality(Recorded(n)) =< Cardinality(Commands)
      /\ \A c \in Commands \ Recorded(n) : Cardinality(Recorded(n)) < Cardinality(Commands)
  BY <1>1, <1>2, Smaller
<1>5. /\ IsFiniteSet(Sent(n)) /\ Cardinality(Sent(n)) \in Nat
      /\ Cardinality(Sent(n)) =< Cardinality(Own(n))
      /\ \A c \in Own(n) \ Sent(n) : Cardinality(Sent(n)) < Cardinality(Own(n))
  BY <1>2, <1>3, Smaller
<1>6. \A c \in Commands : ~Seen(n, c) => c \in Commands \ Recorded(n)
  BY DEF Recorded
<1> QED
  BY <1>1, <1>3, <1>4, <1>5, <1>6

LEMMA NoneIsNoCommand == None \notin Commands
<1>1. ASSUME None \in Commands PROVE FALSE
  <2>1. None \in [src : Nodes, target : Nodes \cup {"all"}, install : BOOLEAN]
    BY <1>1, EspNowAssumption
  <2>2. DOMAIN None = {"src", "target", "install"}
    BY <2>1
  <2>3. DOMAIN None = {"none"}
    BY DEF None
  <2> QED
    BY <2>2, <2>3
<1> QED
  BY <1>1

\* A ring with room keeps what it had.
LEMMA Recording ==
    ASSUME TypeOK, NEW n \in Nodes, NEW c \in Commands, Len(seen[n]) < SeenCapacity,
           seen'[n] = Record(seen[n], c)
    PROVE  /\ Len(seen'[n]) = Len(seen[n]) + 1 /\ Len(seen[n]) \in Nat
           /\ Recorded(n)' = Recorded(n) \cup {c}
<1>1. seen[n] \in Seq(Commands) /\ Len(seen[n]) \in Nat
  BY EspNowAssumption DEF TypeOK, BoundedSeq, SeqOf
<1>2. seen'[n] = Append(seen[n], c)
  BY DEF Record
<1>3. /\ Len(seen'[n]) = Len(seen[n]) + 1 /\ seen'[n][Len(seen[n]) + 1] = c
      /\ \A i \in 1..Len(seen[n]) : seen'[n][i] = seen[n][i]
  BY <1>1, <1>2
<1>4. ASSUME NEW d PROVE Seen(n, d)' <=> Seen(n, d) \/ d = c
  <2>1. 1..Len(seen'[n]) = 1..Len(seen[n]) \cup {Len(seen[n]) + 1}
    BY <1>1, <1>3
  <2> QED
    BY <1>3, <2>1 DEF Seen, Contains
<1> QED
  BY <1>1, <1>3, <1>4 DEF Recorded

\* What other nodes do, and what does not concern the ring.
LEMMA RingKept ==
    ASSUME RingOutlasts, TypeOK, NEW n \in Nodes, RingInv(n), todo' \subseteq todo,
           seen'[n] = seen[n], carriedOut'[n] = carriedOut[n],
           \/ sending'[n] = sending[n]
           \/ /\ sending[n] = None
              /\ sending'[n] = None \/ sending'[n] \in (Own(n) \cap todo) \ todo'
    PROVE  RingInv(n)'
<1>1. Recorded(n)' = Recorded(n)
  BY DEF Recorded, Seen
<1>2. Sent(n) \subseteq Sent(n)'
  BY DEF Sent
<1>3. Sent(n)' \subseteq Own(n) /\ Own(n) \subseteq Commands
  BY DEF Sent, Own
<1>4. /\ Cardinality(Sent(n)) \in Nat /\ Cardinality(Sent(n)') \in Nat
      /\ Cardinality(Sent(n)) =< Cardinality(Sent(n)')
  <2>1. IsFiniteSet(Sent(n)')
    BY <1>3, Smaller DEF RingOutlasts
  <2> QED
    BY <1>2, <2>1, Smaller
<1>5. Cardinality(Recorded(n)) \in Nat
  BY Counts
<1>6. Len(seen[n]) \in Nat
  BY EspNowAssumption DEF TypeOK, BoundedSeq, SeqOf
<1>7. Len(seen[n])' =< Cardinality(Recorded(n))' + Cardinality(Sent(n))'
  BY <1>1, <1>4, <1>5, <1>6 DEF RingInv
<1>8. sending'[n] # None => sending'[n] \in Own(n) \ todo'
  BY DEF RingInv
<1> QED
  BY <1>1, <1>7, <1>8 DEF RingInv, Own

LEMMA RingEmptied ==
    ASSUME RingOutlasts, NEW n \in Nodes, seen'[n] = <<>>, sending'[n] = None,
           carriedOut'[n] = {}
    PROVE  RingInv(n)'
<1>1. Recorded(n)' \subseteq Commands /\ Sent(n)' \subseteq Commands
  BY DEF Recorded, Sent
<1>2. Cardinality(Recorded(n)') \in Nat /\ Cardinality(Sent(n)') \in Nat
  BY <1>1, Smaller DEF RingOutlasts
<1>3. Len(seen[n])' = 0
  OBVIOUS
<1> QED
  BY <1>2, <1>3 DEF RingInv

\* A command that arrives is not in the ring yet, so there is room for it.
LEMMA RingReceives ==
    ASSUME RingOutlasts, TypeOK, NEW n \in Nodes, RingInv(n), NEW c \in Commands, ~Seen(n, c),
           seen'[n] = Record(seen[n], c), todo' = todo, sending' = sending,
           carriedOut'[n] \subseteq carriedOut[n] \cup {c}
    PROVE  RingInv(n)'
<1>1. /\ IsFiniteSet(Recorded(n))
      /\ Cardinality(Recorded(n)) \in Nat /\ Cardinality(Sent(n)) \in Nat
      /\ Cardinality(Recorded(n)) + Cardinality(Sent(n)) < SeenCapacity
  BY Counts
<1>2. Len(seen[n]) \in Nat
  BY EspNowAssumption DEF TypeOK, BoundedSeq, SeqOf
<1>3. Len(seen[n]) < SeenCapacity
  BY <1>1, <1>2, EspNowAssumption DEF RingInv
<1>4. Len(seen'[n]) = Len(seen[n]) + 1 /\ Recorded(n)' = Recorded(n) \cup {c}
  BY <1>3, Recording
<1>5. c \notin Recorded(n)
  BY DEF Recorded
<1>6. Cardinality(Recorded(n)') = Cardinality(Recorded(n)) + 1
  BY <1>1, <1>4, <1>5, FS_AddElement
<1>7. Sent(n)' = Sent(n)
  BY DEF Sent
<1>8. Len(seen[n])' =< Cardinality(Recorded(n))' + Cardinality(Sent(n))'
  BY <1>1, <1>2, <1>4, <1>6, <1>7 DEF RingInv
<1>9. (sending[n] # None => sending[n] \in Own(n) \ todo)'
  BY DEF RingInv, Own
<1>10. carriedOut'[n] \subseteq Recorded(n)'
  BY <1>4 DEF RingInv
<1> QED
  BY <1>8, <1>9, <1>10 DEF RingInv

\* Its own command is recorded once, whether or not a copy of it came back before.
LEMMA RingRecordsOwn ==
    ASSUME RingOutlasts, TypeOK, NEW n \in Nodes, RingInv(n), RecordOwn(n)
    PROVE  RingInv(n)'
<1> DEFINE c == sending[n]
<1>1. c # None /\ c \in Commands /\ c \in Own(n) \ todo
  BY DEF RecordOwn, RingInv, TypeOK
<1>2. /\ seen'[n] = Record(seen[n], c) /\ sending'[n] = None
      /\ todo' = todo /\ carriedOut' = carriedOut
  BY DEF RecordOwn, TypeOK, air
<1>3. c \notin Sent(n)
  BY DEF Sent
<1> HIDE DEF c
<1>4. /\ IsFiniteSet(Recorded(n)) /\ IsFiniteSet(Sent(n))
      /\ Cardinality(Recorded(n)) \in Nat /\ Cardinality(Sent(n)) \in Nat
      /\ Cardinality(Recorded(n)) + Cardinality(Sent(n)) < SeenCapacity
  BY <1>1, <1>3, Counts
<1>5. Len(seen[n]) \in Nat
  BY EspNowAssumption DEF TypeOK, BoundedSeq, SeqOf
<1>6. Len(seen[n]) < SeenCapacity
  BY <1>4, <1>5, EspNowAssumption DEF RingInv
<1>7. Len(seen'[n]) = Len(seen[n]) + 1 /\ Recorded(n)' = Recorded(n) \cup {c}
  BY <1>1, <1>2, <1>6, Recording
<1>8. Recorded(n)' \subseteq Commands
  BY DEF Recorded
<1>9. Cardinality(Recorded(n)') \in Nat /\ Cardinality(Recorded(n)) =< Cardinality(Recorded(n)')
  BY <1>7, <1>8, Smaller DEF RingOutlasts
<1>10. Sent(n)' = Sent(n) \cup {c}
  BY <1>1, <1>2, NoneIsNoCommand DEF Sent, Own, c
<1>11. Cardinality(Sent(n)') = Cardinality(Sent(n)) + 1
  BY <1>3, <1>4, <1>10, FS_AddElement
<1>12. Len(seen[n])' =< Cardinality(Recorded(n))' + Cardinality(Sent(n))'
  BY <1>4, <1>5, <1>7, <1>9, <1>11 DEF RingInv
<1> QED
  BY <1>2, <1>7, <1>12 DEF RingInv

LEMMA RingStep ==
    ASSUME RingOutlasts, TypeOK, \A n \in Nodes : RingInv(n), [Next]_vars, NEW m \in Nodes
    PROVE  RingInv(m)'
<1> USE DEF air, tasks, image, vars
<1>1. ASSUME NEW n \in Nodes, SendCommand(n) PROVE RingInv(m)'
  <2>1. PICK c \in todo, sent \in BOOLEAN :
           /\ c.src = n /\ todo' = todo \ {c}
           /\ sending' = [sending EXCEPT ![n] = IF sent THEN c ELSE None]
    BY <1>1 DEF SendCommand
  <2>2. sending[n] = None /\ seen' = seen /\ carriedOut' = carriedOut
    BY <1>1 DEF SendCommand
  <2>3. c \in (Own(n) \cap todo) \ todo'
    BY <2>1 DEF TypeOK, Own
  <2>4. m # n => sending'[m] = sending[m]
    BY <2>1 DEF TypeOK
  <2>5. m = n => sending'[m] = None \/ sending'[m] \in (Own(m) \cap todo) \ todo'
    BY <2>1, <2>3 DEF TypeOK
  <2> QED
    BY <2>1, <2>2, <2>4, <2>5, RingKept
<1>2. ASSUME NEW n \in Nodes, RecordOwn(n) PROVE RingInv(m)'
  <2>1. CASE m = n
    BY <1>2, <2>1, RingRecordsOwn
  <2>2. CASE m # n
    BY <1>2, <2>2, RingKept DEF RecordOwn, TypeOK
  <2> QED
    BY <2>1, <2>2
<1>3. ASSUME NEW n \in Nodes, FinishCommand(n) PROVE RingInv(m)'
  BY <1>3, RingKept DEF FinishCommand
<1>4. ASSUME NEW n \in Nodes, Restart(n), todo' = todo PROVE RingInv(m)'
  <2>1. CASE m = n
    BY <1>4, <2>1, RingEmptied DEF Restart, TypeOK
  <2>2. CASE m # n
    BY <1>4, <2>2, RingKept DEF Restart, TypeOK
  <2> QED
    BY <2>1, <2>2
<1>5. ASSUME NEW n \in Nodes, Reset(n) PROVE RingInv(m)'
  BY <1>4, <1>5 DEF Reset
<1>6. ASSUME NEW f \in flight, Deliver(f.to, f) PROVE RingInv(m)'
  <2> DEFINE n == f.to
  <2>1. n \in Nodes /\ f.cmd \in Commands
    BY FrameKinds
  <2> HIDE DEF n
  <2>2. CASE IgnoreCommand(n, f)
    BY <2>2, RingKept DEF IgnoreCommand
  <2>3. CASE RelayCommand(n, f) \/ StartCommand(n, f)
    <3>1. /\ ~Seen(n, f.cmd) /\ todo' = todo /\ sending' = sending
          /\ seen' = [seen EXCEPT ![n] = Record(@, f.cmd)]
          /\ \/ carriedOut' = carriedOut
             \/ carriedOut' = [carriedOut EXCEPT ![n] = @ \cup {f.cmd}]
      BY <2>3 DEF RelayCommand, StartCommand
    <3>2. CASE m = n
      <4>1. /\ seen'[n] = Record(seen[n], f.cmd)
            /\ carriedOut'[n] \subseteq carriedOut[n] \cup {f.cmd}
        BY <2>1, <3>1 DEF TypeOK
      <4> QED
        BY <2>1, <3>1, <3>2, <4>1, RingReceives
    <3>3. CASE m # n
      BY <3>1, <3>3, RingKept DEF TypeOK
    <3> QED
      BY <3>2, <3>3
  <2>4. CASE HandleResult(n, f)
    BY <1>4, <2>1, <2>4 DEF HandleResult
  <2> QED
    BY <1>6, <2>2, <2>3, <2>4 DEF Deliver, n
<1>7. ASSUME NEW f \in flight, Lose(f) PROVE RingInv(m)'
  BY <1>7, RingKept DEF Lose
<1>8. CASE UNCHANGED vars
  BY <1>8, RingKept
<1> QED
  BY <1>1, <1>2, <1>3, <1>5, <1>6, <1>7, <1>8 DEF Next, LoopTask

(***************************************************************************)
(* Commands carried out once.                                              *)
(***************************************************************************)

\* Any number of nodes in any arrangement, any hop limit, copies reordered, late and lost, nodes
\* reset at any time: a node that keeps the ids it needs carries out no command twice between
\* two restarts, although it may record the id of its own command only after a copy came back.
THEOREM OnceOnly ==
    ASSUME RingOutlasts
    PROVE  Spec => CarriedOutOnce
<1> DEFINE RingsInv == \A n \in Nodes : RingInv(n)
           Once == \A f \in flight : StartCommand(f.to, f) => f.cmd \notin carriedOut[f.to]
<1>1. Init => RingsInv
  <2> SUFFICES ASSUME Init, NEW n \in Nodes PROVE RingInv(n)
    OBVIOUS
  <2>1. seen[n] = <<>> /\ sending[n] = None /\ carriedOut[n] = {}
    BY DEF Init
  <2>2. Cardinality(Recorded(n)) \in Nat /\ Cardinality(Sent(n)) \in Nat
    BY Counts
  <2> QED
    BY <2>1, <2>2 DEF RingInv
<1>2. TypeOK /\ RingsInv /\ [Next]_vars => RingsInv'
  BY RingStep
<1>3. TypeOK /\ RingsInv /\ [Next]_vars => [Once]_vars
  <2> SUFFICES ASSUME TypeOK, RingsInv, NEW f \in flight, StartCommand(f.to, f)
               PROVE  f.cmd \notin carriedOut[f.to]
    OBVIOUS
  <2>1. f.to \in Nodes /\ ~Seen(f.to, f.cmd)
    BY FrameKinds DEF StartCommand
  <2> QED
    BY <2>1 DEF RingInv, Recorded
<1>4. Spec => []RingsInv
  <2> HIDE DEF RingsInv
  <2> QED
    BY <1>1, <1>2, TypeCorrect, PTL DEF Spec
<1> HIDE DEF RingsInv
<1> QED
  BY <1>3, <1>4, TypeCorrect, PTL DEF Spec, CarriedOutOnce
(***************************************************************************)
(* The bridge implements OtaService.                                       *)
(***************************************************************************)

\* Whatever is on the air or worked at was issued.
Issued ==
    /\ \A f \in flight : f.cmd \notin todo
    /\ \A n \in Nodes : busy[n] # None => busy[n].cmd \notin todo

LEMMA FrameIsNotNone == ASSUME NEW f \in CommandsOnAir PROVE f # None
<1>1. DOMAIN f = {"to", "type", "cmd", "hop"} /\ DOMAIN None = {"none"}
  BY DEF CommandsOnAir, None
<1>2. "to" \notin {"none"}
  OBVIOUS
<1> QED
  BY <1>1, <1>2

LEMMA CopiesOf ==
    ASSUME NEW n \in Nodes, NEW c
    PROVE  /\ \A f \in CommandFrames(n, c, 0) : f.cmd = c
           /\ \A g \in CommandsOnAir : \A f \in Forward(n, g) : f.cmd = g.cmd
           /\ \A f \in ResultFrames(n, c) : f.cmd = c
  BY DEF CommandFrames, Command, Forward, ResultFrames, Result

\* Frames are added for commands that were issued; nothing else is worked at.
LEMMA IssuedKept ==
    ASSUME Issued, todo' \subseteq todo,
           \A f \in flight' : f \in flight \/ f.cmd \notin todo',
           \A n \in Nodes : busy'[n] \in {busy[n], None} \/ busy'[n] \in flight
    PROVE  Issued'
  BY DEF Issued

LEMMA IssuedStep ==
    ASSUME TypeOK, Issued, [Next]_vars
    PROVE  Issued'
<1> USE DEF air, tasks, image, vars
<1>1. ASSUME NEW n \in Nodes, SendCommand(n) PROVE Issued'
  <2>1. PICK c \in todo, sent \in BOOLEAN :
           /\ todo' = todo \ {c}
           /\ flight' = flight \cup (IF sent THEN CommandFrames(n, c, 0) ELSE {})
    BY <1>1 DEF SendCommand
  <2> QED
    BY <1>1, <2>1, CopiesOf, IssuedKept DEF SendCommand
<1>2. ASSUME NEW n \in Nodes, RecordOwn(n) PROVE Issued'
  BY <1>2, IssuedKept DEF RecordOwn
<1>3. ASSUME NEW n \in Nodes, FinishCommand(n) PROVE Issued'
  <2>1. busy[n] \in CommandsOnAir /\ busy[n].cmd \notin todo
    BY <1>3 DEF FinishCommand, TypeOK, Issued
  <2>2. PICK resultSent, forwarded \in BOOLEAN :
           flight' = flight \cup (IF resultSent THEN ResultFrames(n, busy[n].cmd) ELSE {})
                            \cup (IF forwarded THEN Forward(n, busy[n]) ELSE {})
    BY <1>3 DEF FinishCommand
  <2>3. \A f \in flight' : f \in flight \/ f.cmd = busy[n].cmd
    BY <2>1, <2>2, CopiesOf
  <2>4. todo' = todo /\ busy' = [busy EXCEPT ![n] = None]
    BY <1>3 DEF FinishCommand
  <2>5. \A m \in Nodes : busy'[m] \in {busy[m], None}
    BY <2>4 DEF TypeOK
  <2> QED
    BY <2>1, <2>3, <2>4, <2>5, IssuedKept
<1>4. ASSUME NEW n \in Nodes, Restart(n), todo' = todo, flight' \subseteq flight PROVE Issued'
  <2>1. \A m \in Nodes : busy'[m] \in {busy[m], None}
    BY <1>4 DEF Restart, TypeOK
  <2> QED
    BY <1>4, <2>1, IssuedKept
<1>5. ASSUME NEW n \in Nodes, Reset(n) PROVE Issued'
  BY <1>4, <1>5 DEF Reset
<1>6. ASSUME NEW f \in flight, Deliver(f.to, f) PROVE Issued'
  <2> DEFINE n == f.to
  <2>1. n \in Nodes /\ f.cmd \notin todo /\ (f.type = "command" => f \in CommandsOnAir)
    BY FrameKinds DEF Issued
  <2> HIDE DEF n
  <2>2. CASE IgnoreCommand(n, f)
    BY <2>2, IssuedKept DEF IgnoreCommand
  <2>3. CASE RelayCommand(n, f)
    <3>1. PICK sent \in BOOLEAN :
             flight' = (flight \ {f}) \cup (IF sent THEN Forward(n, f) ELSE {})
      BY <2>3 DEF RelayCommand
    <3>2. \A g \in flight' : g \in flight \/ g.cmd = f.cmd
      BY <2>1, <2>3, <3>1, CopiesOf DEF RelayCommand
    <3> QED
      BY <2>1, <2>3, <3>2, IssuedKept DEF RelayCommand
  <2>4. CASE StartCommand(n, f)
    <3>1. \A m \in Nodes : busy'[m] \in {busy[m], f}
      BY <2>4 DEF StartCommand, TypeOK
    <3> QED
      BY <2>4, <3>1, IssuedKept DEF StartCommand
  <2>5. CASE HandleResult(n, f)
    BY <1>4, <2>1, <2>5 DEF HandleResult
  <2> QED
    BY <1>6, <2>2, <2>3, <2>4, <2>5 DEF Deliver, n
<1>7. ASSUME NEW f \in flight, Lose(f) PROVE Issued'
  BY <1>7, IssuedKept DEF Lose
<1>8. CASE UNCHANGED vars
  BY <1>8 DEF Issued
<1> QED
  BY <1>1, <1>2, <1>3, <1>5, <1>6, <1>7, <1>8 DEF Next, LoopTask

ServiceVars == <<Commands \ todo, Working, carriedOut, running, flashed>>

\* What a step does to one node's work.
LEMMA WorkingChanges ==
    ASSUME TypeOK, NEW n \in Nodes, NEW b \in CommandsOnAir \cup {None},
           busy' = [busy EXCEPT ![n] = b]
    PROVE  /\ Working[n] = IF busy[n] = None THEN None ELSE busy[n].cmd
           /\ Working' = [Working EXCEPT ![n] = IF b = None THEN None ELSE b.cmd]
  BY DEF TypeOK, Working

LEMMA ServiceRestarts ==
    ASSUME TypeOK, NEW n \in Nodes, Restart(n), todo' = todo
    PROVE  Service!Restart(n)
  BY WorkingChanges DEF Restart, Service!Restart

LEMMA ServiceStep ==
    ASSUME TypeOK, Issued, [Next]_vars,
           \A f \in flight : StartCommand(f.to, f) => f.cmd \notin carriedOut[f.to]
    PROVE  [Service!Next]_ServiceVars
<1> USE DEF air, tasks, image, vars, ServiceVars
<1>1. busy' = busy => Working' = Working
  BY DEF Working
<1>2. ASSUME NEW n \in Nodes, SendCommand(n) PROVE Service!Next
  <2>1. PICK c \in todo : todo' = todo \ {c}
    BY <1>2 DEF SendCommand
  <2>2. c \in Commands /\ c \notin Commands \ todo
    BY <2>1 DEF TypeOK
  <2>3. Commands \ todo' = (Commands \ todo) \cup {c}
    BY <2>1, <2>2
  <2>4. Service!Issue(c)
    BY <1>1, <1>2, <2>2, <2>3 DEF SendCommand, Service!Issue
  <2> QED
    BY <2>2, <2>4 DEF Service!Next
<1>3. ASSUME NEW n \in Nodes, RecordOwn(n) PROVE UNCHANGED ServiceVars
  BY <1>1, <1>3 DEF RecordOwn
<1>4. ASSUME NEW n \in Nodes, FinishCommand(n) PROVE Service!Next
  <2>1. busy[n] \in CommandsOnAir /\ busy[n].cmd \in Commands /\ busy[n] # None
    BY <1>4 DEF FinishCommand, TypeOK, CommandsOnAir
  <2>2. /\ Working[n] = busy[n].cmd /\ Working[n] # None
        /\ Working' = [Working EXCEPT ![n] = None]
    BY <1>4, <2>1, WorkingChanges, NoneIsNoCommand DEF FinishCommand
  <2>3. PICK updated \in BOOLEAN :
           /\ updated => busy[n].cmd.install /\ running[n] = "old"
           /\ flashed' = [flashed EXCEPT ![n] = @ \/ updated]
    BY <1>4 DEF FinishCommand
  <2>4. todo' = todo /\ carriedOut' = carriedOut /\ running' = running
    BY <1>4 DEF FinishCommand
  <2>5. CASE updated
    <3>1. flashed' = [flashed EXCEPT ![n] = TRUE]
      BY <2>3, <2>5 DEF TypeOK
    <3>2. Service!EndUpdated(n)
      BY <2>2, <2>3, <2>4, <2>5, <3>1 DEF Service!EndUpdated
    <3> QED
      BY <3>2 DEF Service!Next
  <2>6. CASE ~updated
    <3>1. flashed' = flashed
      BY <2>3, <2>6 DEF TypeOK
    <3>2. Service!End(n)
      BY <2>2, <2>4, <3>1 DEF Service!End
    <3> QED
      BY <3>2 DEF Service!Next
  <2> QED
    BY <2>5, <2>6
<1>5. ASSUME NEW n \in Nodes, Reset(n) PROVE Service!Next
  BY <1>5, ServiceRestarts DEF Reset, Service!Next
<1>6. ASSUME NEW f \in flight, Deliver(f.to, f) PROVE Service!Next \/ UNCHANGED ServiceVars
  <2> DEFINE n == f.to
  <2>1. n \in Nodes /\ f.cmd \in Commands /\ (f.type = "command" => f \in CommandsOnAir)
    BY FrameKinds
  <2>2. StartCommand(n, f) => f.cmd \notin carriedOut[n]
    OBVIOUS
  <2> HIDE DEF n
  <2>3. CASE IgnoreCommand(n, f)
    BY <1>1, <2>3 DEF IgnoreCommand
  <2>4. CASE RelayCommand(n, f)
    BY <1>1, <2>4 DEF RelayCommand
  <2>5. CASE StartCommand(n, f)
    <3>1. f \in CommandsOnAir /\ f # None
      BY <2>1, <2>5, FrameIsNotNone DEF StartCommand
    <3>2. /\ Working[n] = None
          /\ Working' = [Working EXCEPT ![n] = f.cmd]
      BY <2>1, <2>5, <3>1, WorkingChanges DEF StartCommand
    <3>3. f.cmd \in Commands \ todo /\ f.cmd.target \in {"all", n}
      BY <2>1, <2>5 DEF Issued, StartCommand, TargetMatches
    <3>4. Service!Begin(n, f.cmd)
      BY <2>2, <2>5, <3>2, <3>3 DEF StartCommand, Service!Begin
    <3> QED
      BY <2>1, <3>4 DEF Service!Next
  <2>6. CASE HandleResult(n, f)
    BY <2>1, <2>6, ServiceRestarts DEF HandleResult, Service!Next
  <2> QED
    BY <1>6, <2>3, <2>4, <2>5, <2>6 DEF Deliver, n
<1>7. ASSUME NEW f \in flight, Lose(f) PROVE UNCHANGED ServiceVars
  BY <1>1, <1>7 DEF Lose
<1>8. CASE UNCHANGED vars
  BY <1>1, <1>8
<1> QED
  BY <1>2, <1>3, <1>4, <1>5, <1>6, <1>7, <1>8 DEF Next, LoopTask

LEMMA ServiceBegins == Init => Service!Init
  BY DEF Init, Working, Service!Init

\* Given rings that outlast the commands, the flood of copies looks like OtaService: commands
\* are worked at only where they were meant, after they were issued, once in a boot, and only
\* an install command replaces a firmware.
THEOREM Implements ==
    ASSUME RingOutlasts
    PROVE  Spec => ImplementsOtaService
<1> DEFINE Once == \A f \in flight : StartCommand(f.to, f) => f.cmd \notin carriedOut[f.to]
<1>1. Init => Issued
  BY DEF Init, Issued
<1>2. TypeOK /\ Issued /\ [Next]_vars => Issued'
  BY IssuedStep
<1>3. TypeOK /\ Issued /\ [Next]_vars /\ [Once]_vars => [Service!Next]_ServiceVars
  <2>1. CASE UNCHANGED vars
    BY <2>1 DEF vars, air, tasks, image, ServiceVars, Working
  <2>2. CASE Once
    BY <2>2, ServiceStep
  <2> QED
    BY <2>1, <2>2
<1>4. Spec => [][Once]_vars
  BY OnceOnly DEF CarriedOutOnce
<1>5. Service!Init /\ [][Service!Next]_ServiceVars => ImplementsOtaService
  BY PTL DEF ImplementsOtaService, Service!Spec, ServiceVars
<1> HIDE DEF Once
<1> QED
  BY <1>1, <1>2, <1>3, <1>4, <1>5, ServiceBegins, TypeCorrect, PTL DEF Spec
=============================================================================
