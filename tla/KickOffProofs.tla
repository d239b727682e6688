--------------------------- MODULE KickOffProofs ---------------------------
(***************************************************************************)
(* The containment of false starts, for a team of any size, any number of  *)
(* robots that start it and any loss of messages; and that the whistle     *)
(* spreads in a team of any size that is not disturbed.                    *)
(***************************************************************************)
EXTENDS KickOff, FiniteSetTheorems, WellFoundedInduction, TLAPS

(* The counts a robot takes of its team mates are numbers, at most the     *)
(* size of the team.                                                       *)
LEMMA Counts ==
  ASSUME NEW S \in SUBSET Robots
  PROVE  /\ IsFiniteSet(S)
         /\ Cardinality(S) \in Nat
         /\ Cardinality(S) <= Cardinality(Robots)
         /\ Cardinality(Robots) \in Nat
  BY KickOffConstants, FS_Subset, FS_CardinalityType

(* The states ParseState, PressState, ToldState and TeamState return.      *)
LEMMA StatesOK ==
  ASSUME NEW s \in GameStates, NEW t \in GameStates,
         NEW phase \in Phases, NEW b \in BOOLEAN, NEW near \in BOOLEAN,
         NEW n, NEW k
  PROVE  /\ ParseState(s, phase, b) \in GameStates
         /\ PressState(s) \in GameStates
         /\ ToldState(s, t, b) \in GameStates
         /\ TeamState(s, n, k, near) \in GameStates
  BY DEF GameStates, Phases, Penalised, ParseState, PressState, ToldState,
         TeamState

(* What the packets of a tick leave of a robot's state is a state.         *)
LEMMA PacketsOK ==
  ASSUME TypeOK, NEW r \in Robots, NEW p \in BOOLEAN,
         NEW s \in AfterPackets(r, p)
  PROVE  s \in GameStates
<1>1. gc \in Phases /\ Before[gc] \in Phases
  BY DEF TypeOK, Before, Phases
<1>2. state[r] \in GameStates
  BY DEF TypeOK
<1>3. \A q \in GameStates, phase \in Phases : ParseState(q, phase, p) \in GameStates
  BY StatesOK
<1> QED
  BY <1>1, <1>2, <1>3 DEF AfterPackets

(* Every way to end a tick keeps the types.                                *)
LEMMA ConcludeOK ==
  ASSUME TypeOK, NEW r \in Robots, NEW s \in GameStates,
         NEW whistle \in BOOLEAN, NEW near \in BOOLEAN,
         Conclude(r, s, whistle, near)
  PROVE  /\ state' \in [Robots -> GameStates]
         /\ told' \in [Robots -> GameStates]
         /\ behind' \in SUBSET Robots
         /\ fewest' \in 0..Cardinality(Robots)
<1> DEFINE said  == ToldState(s, told[r], whistle)
           plays == TeamState(s, Playing(r), Active(r), near)
<1>1. told[r] \in GameStates
  BY DEF TypeOK
<1>2. said \in GameStates /\ plays \in GameStates
  BY <1>1, StatesOK DEF GameStates, Phases, ToldState, TeamState
<1>3. state' \in [Robots -> GameStates]
  BY <1>2 DEF Conclude, TypeOK
<1>4. told' \in [Robots -> GameStates]
  BY <1>2 DEF Conclude, TypeOK
<1>5. behind' \in SUBSET Robots
  BY DEF Conclude, TypeOK
<1>6. Active(r) \in 0..Cardinality(Robots)
  BY Counts DEF Active
<1>7. fewest' \in 0..Cardinality(Robots)
  BY <1>6 DEF Conclude, TypeOK
<1> QED
  BY <1>3, <1>4, <1>5, <1>7

LEMMA TypeInit == Init => TypeOK
<1> SUFFICES ASSUME Init PROVE TypeOK
  OBVIOUS
<1>1. state \in [Robots -> GameStates] /\ told \in [Robots -> GameStates]
  BY DEF Init, GameStates, Phases
<1>2. mate \in [Robots -> [Robots -> Reports]]
  BY DEF Init, Reports
<1>3. fewest \in 0..Cardinality(Robots)
  BY Counts DEF Init
<1> QED
  BY <1>1, <1>2, <1>3 DEF Init, TypeOK

LEMMA TypeNext == TypeOK /\ [Next]_vars => TypeOK'
<1> SUFFICES ASSUME TypeOK, [Next]_vars PROVE TypeOK'
  OBVIOUS
<1>1. CASE RefereeReady
  BY <1>1 DEF RefereeReady, Referee, TypeOK
<1>2. CASE RefereeSet
  <2>1. Started \in SUBSET Robots
    BY DEF Started
  <2>2. Cardinality(Robots) \in 0..Cardinality(Robots)
    BY Counts
  <2> QED
    BY <1>2, <2>1, <2>2 DEF RefereeSet, Referee, TypeOK
<1>3. CASE RefereePlay
  <2>1. Cardinality(Robots) \in 0..Cardinality(Robots)
    BY Counts
  <2> QED
    BY <1>3, <2>1 DEF RefereePlay, Referee, TypeOK
<1>4. ASSUME NEW r \in Robots, Whistle(r) PROVE TypeOK'
  <2>1. PICK s \in AfterPackets(r, FALSE), near \in BOOLEAN :
           Conclude(r, s, TRUE, near)
    BY <1>4 DEF Whistle
  <2>2. s \in GameStates
    BY PacketsOK
  <2>3. /\ UNCHANGED <<gc, mate>>
        /\ origin' \in SUBSET Robots
    BY <1>4 DEF Whistle, Prompt, TypeOK
  <2>4. /\ state' \in [Robots -> GameStates]
        /\ told' \in [Robots -> GameStates]
        /\ behind' \in SUBSET Robots
        /\ fewest' \in 0..Cardinality(Robots)
    BY <2>1, <2>2, ConcludeOK
  <2> QED
    BY <2>3, <2>4 DEF TypeOK
<1>5. ASSUME NEW r \in Robots, Press(r) PROVE TypeOK'
  <2>1. PICK s \in AfterPackets(r, FALSE), near \in BOOLEAN :
           Conclude(r, PressState(s), FALSE, near)
    BY <1>5 DEF Press
  <2>2. PressState(s) \in GameStates
    BY DEF PressState, GameStates, Phases, Penalised
  <2>3. /\ UNCHANGED <<gc, mate>>
        /\ origin' \in SUBSET Robots
    BY <1>5 DEF Press, Prompt, TypeOK
  <2>4. /\ state' \in [Robots -> GameStates]
        /\ told' \in [Robots -> GameStates]
        /\ behind' \in SUBSET Robots
        /\ fewest' \in 0..Cardinality(Robots)
    BY <2>1, <2>2, ConcludeOK
  <2> QED
    BY <2>3, <2>4 DEF TypeOK
<1>6. ASSUME NEW r \in Robots, NEW near \in BOOLEAN, Tick(r, near)
      PROVE  TypeOK'
  <2>1. PICK p \in BOOLEAN : \E s \in AfterPackets(r, p) :
           Conclude(r, s, FALSE, near)
    BY <1>6 DEF Tick
  <2>2. PICK s \in AfterPackets(r, p) : Conclude(r, s, FALSE, near)
    BY <2>1
  <2>3. s \in GameStates
    BY PacketsOK
  <2>4. UNCHANGED <<gc, mate, origin>>
    BY <1>6 DEF Tick
  <2>5. /\ state' \in [Robots -> GameStates]
        /\ told' \in [Robots -> GameStates]
        /\ behind' \in SUBSET Robots
        /\ fewest' \in 0..Cardinality(Robots)
    BY <2>2, <2>3, ConcludeOK
  <2> QED
    BY <2>4, <2>5 DEF TypeOK
<1>7. ASSUME NEW r \in Robots, NEW s \in Robots, Receive(r, s)
      PROVE  TypeOK'
  BY <1>7 DEF Receive, Said, TypeOK, Reports
<1>8. ASSUME NEW r \in Robots, NEW s \in Robots, Incapacitate(r, s)
      PROVE  TypeOK'
  BY <1>8 DEF Incapacitate, TypeOK, Reports
<1>9. CASE UNCHANGED vars
  BY <1>9 DEF vars, TypeOK
<1> QED
  BY <1>1, <1>2, <1>3, <1>4, <1>5, <1>6, <1>7, <1>8, <1>9 DEF Next

(* The types of all variables, for every team.                             *)
THEOREM TypeCorrect == Spec => []TypeOK
BY TypeInit, TypeNext, PTL DEF Spec
-----------------------------------------------------------------------------
(* During SET a packet makes no robot play that did not: the phase a late  *)
(* packet carries is READY.                                                *)
LEMMA PacketsStartNobody ==
  ASSUME NEW r \in Robots, NEW p \in BOOLEAN, NEW s \in AfterPackets(r, p),
         gc = "SET", state[r] # "PLAYING"
  PROVE  s # "PLAYING"
<1>1. Before[gc] = "READY"
  BY DEF Before
<1>2. \A q : q # "PLAYING" => /\ ParseState(q, "SET", p) # "PLAYING"
                              /\ ParseState(q, "READY", p) # "PLAYING"
  BY DEF ParseState
<1> QED
  BY <1>1, <1>2 DEF AfterPackets

(* While few robots have started, no robot hears of enough of them.        *)
LEMMA TooFew ==
  ASSUME NEW r \in Robots, origin \in SUBSET Robots, Started \subseteq origin,
         NEW f \in Int, 10 * Cardinality(origin) < 3 * f,
         Active(r) > 0 => f <= Active(r)
  PROVE  ~Enough(Playing(r), Active(r))
<1> DEFINE T == {s \in Robots : mate[r][s] = "PLAYING"}
<1>1. T \subseteq origin
  BY DEF Started
<1>2. Cardinality(T) <= Cardinality(origin)
  BY <1>1, Counts, FS_Subset
<1>3. Cardinality(T) \in Nat /\ Cardinality(origin) \in Nat
  BY Counts
<1>4. Active(r) \in Nat
  BY Counts DEF Active
<1> HIDE DEF T
<1>5. Playing(r) = Cardinality(T)
  BY DEF Playing, T
<1>6. CASE Active(r) > 0
  BY <1>2, <1>3, <1>4, <1>5, <1>6 DEF Enough
<1>7. CASE ~(Active(r) > 0)
  BY <1>7 DEF Enough
<1> QED
  BY <1>6, <1>7

(* The end of a tick of a robot that its packets did not start and that    *)
(* heard no whistle starts nobody.                                         *)
LEMMA ConcludeStartsNobody ==
  ASSUME TypeOK, FalseStartContained,
         NEW r \in Robots, NEW s, NEW whistle \in BOOLEAN,
         NEW near \in BOOLEAN,
         Conclude(r, s, whistle, near),
         gc = "SET", UNCHANGED <<gc, mate>>,
         origin \subseteq origin', origin' \in SUBSET Robots,
         r \notin origin' => ~whistle /\ (state[r] # "PLAYING" => s # "PLAYING")
  PROVE  FalseStartContained'
<1> SUFFICES ASSUME 10 * Cardinality(origin') < 3 * fewest'
             PROVE  Started' \subseteq origin'
  BY DEF FalseStartContained
<1>1. /\ fewest \in Int /\ fewest' \in Int /\ fewest' <= fewest
      /\ s = "SET" /\ Active(r) > 0 => fewest' <= Active(r)
  <2>1. Active(r) \in Int /\ Cardinality(Robots) \in Int
    BY Counts DEF Active
  <2>2. fewest \in Int
    BY <2>1 DEF TypeOK
  <2> QED
    BY <2>1, <2>2 DEF Conclude
<1>2. Cardinality(origin) \in Nat /\ Cardinality(origin') \in Nat
      /\ Cardinality(origin) <= Cardinality(origin')
  BY Counts, FS_Subset
<1>3. 10 * Cardinality(origin) < 3 * fewest
  BY <1>1, <1>2
<1>4. Started \subseteq origin
  BY <1>3 DEF FalseStartContained
<1>5. \A q \in Robots \ {r} : state'[q] = state[q] /\ told'[q] = told[q]
  BY DEF Conclude, TypeOK
<1>6. r \notin origin' => state'[r] # "PLAYING" /\ told'[r] # "PLAYING"
  <2> SUFFICES ASSUME r \notin origin'
               PROVE  state'[r] # "PLAYING" /\ told'[r] # "PLAYING"
    OBVIOUS
  <2>1. r \notin Started
    BY <1>4
  <2>2. state[r] # "PLAYING" /\ told[r] # "PLAYING"
    BY <2>1 DEF Started
  <2>3. s # "PLAYING" /\ whistle = FALSE
    BY <2>2
  <2>4. s = "SET" => ~Enough(Playing(r), Active(r))
    <3> SUFFICES ASSUME s = "SET" PROVE ~Enough(Playing(r), Active(r))
      OBVIOUS
    <3>1. Active(r) > 0 => fewest' <= Active(r)
      BY <1>1
    <3>2. 10 * Cardinality(origin) < 3 * fewest'
      BY <1>1, <1>2
    <3>3. origin \in SUBSET Robots
      BY DEF TypeOK
    <3> HIDE DEF TypeOK, Conclude, FalseStartContained
    <3> QED
      BY <1>1, <1>4, <3>1, <3>2, <3>3, TooFew
  <2>5. TeamState(s, Playing(r), Active(r), near) # "PLAYING"
    BY <2>3, <2>4 DEF TeamState
  <2>6. ToldState(s, told[r], whistle) # "PLAYING"
    BY <2>2, <2>3 DEF ToldState
  <2> QED
    BY <2>5, <2>6 DEF Conclude, TypeOK
<1>7. \A q \in Robots : (\E t \in Robots : mate'[t][q] = "PLAYING")
                          => q \in origin
  BY <1>4 DEF Started
<1>8. \A q \in Robots : q \notin origin'
        => q \notin origin /\ state'[q] # "PLAYING" /\ told'[q] # "PLAYING"
  BY <1>4, <1>5, <1>6 DEF Started
<1> QED
  BY <1>7, <1>8 DEF Started

(* A few robots that started on their own do not start the team, for every *)
(* size of the team, every number of such robots and every loss.           *)
THEOREM FalseStart == Spec => []FalseStartContained
<1>1. Init => FalseStartContained
  BY DEF Init, FalseStartContained
<1>2. TypeOK /\ FalseStartContained /\ [Next]_vars => FalseStartContained'
  <2> SUFFICES ASSUME TypeOK, FalseStartContained, [Next]_vars
               PROVE  FalseStartContained'
    OBVIOUS
  <2>1. CASE RefereeReady
    BY <2>1 DEF RefereeReady, Referee, FalseStartContained
  <2>2. CASE RefereeSet
    <3>1. Started' = Started /\ origin' = Started
      BY <2>2 DEF RefereeSet, Started
    <3> QED
      BY <3>1 DEF FalseStartContained
  <2>3. CASE RefereePlay
    BY <2>3 DEF RefereePlay, Referee, FalseStartContained
  <2>4. ASSUME NEW r \in Robots, Whistle(r) PROVE FalseStartContained'
    <3>1. PICK s \in AfterPackets(r, FALSE), near \in BOOLEAN :
             Conclude(r, s, TRUE, near)
      BY <2>4 DEF Whistle
    <3>2. UNCHANGED <<gc, mate>>
      BY <2>4 DEF Whistle
    <3>3. CASE gc = "SET"
      <4>1. origin' = origin \cup {r}
        BY <2>4, <3>3 DEF Whistle, Prompt
      <4>2. origin \subseteq origin' /\ origin' \in SUBSET Robots /\ r \in origin'
        BY <4>1 DEF TypeOK
      <4> QED
        BY <3>1, <3>2, <3>3, <4>2, ConcludeStartsNobody
    <3>4. CASE gc # "SET"
      BY <3>2, <3>4 DEF FalseStartContained
    <3> QED
      BY <3>3, <3>4
  <2>5. ASSUME NEW r \in Robots, Press(r) PROVE FalseStartContained'
    <3>1. PICK s \in AfterPackets(r, FALSE), near \in BOOLEAN :
             Conclude(r, PressState(s), FALSE, near)
      BY <2>5 DEF Press
    <3>2. UNCHANGED <<gc, mate>>
      BY <2>5 DEF Press
    <3>3. CASE gc = "SET"
      <4>1. origin' = origin \cup {r}
        BY <2>5, <3>3 DEF Press, Prompt
      <4>2. origin \subseteq origin' /\ origin' \in SUBSET Robots /\ r \in origin'
        BY <4>1 DEF TypeOK
      <4> QED
        BY <3>1, <3>2, <3>3, <4>2, ConcludeStartsNobody
    <3>4. CASE gc # "SET"
      BY <3>2, <3>4 DEF FalseStartContained
    <3> QED
      BY <3>3, <3>4
  <2>6. ASSUME NEW r \in Robots, NEW near \in BOOLEAN, Tick(r, near)
        PROVE  FalseStartContained'
    <3>1. PICK p \in BOOLEAN : \E s \in AfterPackets(r, p) :
             Conclude(r, s, FALSE, near)
      BY <2>6 DEF Tick
    <3>2. PICK s \in AfterPackets(r, p) : Conclude(r, s, FALSE, near)
      BY <3>1
    <3>3. UNCHANGED <<gc, mate, origin>>
      BY <2>6 DEF Tick
    <3>4. CASE gc = "SET"
      <4>1. state[r] # "PLAYING" => s # "PLAYING"
        BY <3>4, PacketsStartNobody
      <4>2. origin \subseteq origin' /\ origin' \in SUBSET Robots
        BY <3>3 DEF TypeOK
      <4> QED
        BY <3>2, <3>3, <3>4, <4>1, <4>2, ConcludeStartsNobody
    <3>5. CASE gc # "SET"
      BY <3>3, <3>5 DEF FalseStartContained
    <3> QED
      BY <3>4, <3>5
  <2>7. ASSUME NEW r \in Robots, NEW s \in Robots, Receive(r, s)
        PROVE  FalseStartContained'
    <3>1. PICK said \in {told[s], state[s]} :
            mate' = [mate EXCEPT ![r][s] = IF said = "PLAYING" THEN said
                                                               ELSE "quiet"]
      BY <2>7 DEF Receive, Said
    <3>2. UNCHANGED <<gc, state, told, origin, fewest>>
      BY <2>7 DEF Receive
    <3>3. \A q, t \in Robots : mate'[q][t] = "PLAYING"
            => \/ mate[q][t] = "PLAYING"
               \/ t = s /\ said = "PLAYING"
      BY <3>1 DEF TypeOK
    <3>4. Started' \subseteq Started
      BY <3>1, <3>2, <3>3 DEF Started
    <3> QED
      BY <3>2, <3>4 DEF FalseStartContained
  <2>8. ASSUME NEW r \in Robots, NEW s \in Robots, Incapacitate(r, s)
        PROVE  FalseStartContained'
    <3>1. mate' = [mate EXCEPT ![r][s] = "out"]
      BY <2>8 DEF Incapacitate
    <3>2. UNCHANGED <<gc, state, told, origin, fewest>>
      BY <2>8 DEF Incapacitate
    <3>3. \A q, t \in Robots : mate'[q][t] = "PLAYING" => mate[q][t] = "PLAYING"
      BY <3>1 DEF TypeOK
    <3>4. Started' \subseteq Started
      BY <3>2, <3>3 DEF Started
    <3> QED
      BY <3>2, <3>4 DEF FalseStartContained
  <2>9. CASE UNCHANGED vars
    BY <2>9 DEF vars, FalseStartContained, Started
  <2> QED
    BY <2>1, <2>2, <2>3, <2>4, <2>5, <2>6, <2>7, <2>8, <2>9 DEF Next
<1> QED
  BY <1>1, <1>2, TypeCorrect, PTL DEF Spec
-----------------------------------------------------------------------------
(* The whistle spreads.  No robot loses its team mates, is penalised or    *)
(* pressed, or sends while it rewrites its blackboard.                     *)
Undisturbed == Faults = {} /\ MAX_OUT = 0

(* A robot in the game says of itself what it is, except in SET.           *)
Agree ==
  \A r \in Robots :
    /\ state[r] \in {"READY", "SET", "PLAYING"}
    /\ told[r] = state[r] \/ (state[r] = "SET" /\ told[r] = "PLAYING")

IInv == TypeOK /\ Agree

(* What a packet of one phase leaves.                                      *)
LEMMA PacketsPlain ==
  ASSUME TypeOK, NEW r \in Robots, NEW s \in AfterPackets(r, FALSE)
  PROVE  /\ state[r] \in {"READY", "SET", "PLAYING"}
              => s \in {"READY", "SET", "PLAYING"}
         /\ (gc = "SET" /\ r \notin behind)
              => s = state[r] \/ (s = "SET" /\ state[r] # "PLAYING")
<1>1. gc \in {"READY", "SET", "PLAYING"}
  BY DEF TypeOK
<1>2. \A q, phase : ParseState(q, phase, FALSE) \in {phase, "PLAYING"}
  BY DEF ParseState
<1>3. Before[gc] \in {"READY", "SET", "PLAYING"}
  BY <1>1 DEF Before
<1>4. \A q : q # "PLAYING" => ParseState(q, "SET", FALSE) = "SET"
  BY DEF ParseState
<1>5. ParseState("PLAYING", "SET", FALSE) = "PLAYING"
  BY DEF ParseState
<1>6. s = state[r] \/ \E q : \E phase \in {gc, Before[gc]} : s = ParseState(q, phase, FALSE)
  BY DEF AfterPackets
<1>7. (gc = "SET" /\ r \notin behind)
        => s = state[r] \/ s = ParseState(state[r], "SET", FALSE)
  BY DEF AfterPackets
<1>8. state[r] \in {"READY", "SET", "PLAYING"} => s \in {"READY", "SET", "PLAYING"}
  BY <1>1, <1>2, <1>3, <1>6
<1>9. (gc = "SET" /\ r \notin behind)
        => s = state[r] \/ (s = "SET" /\ state[r] # "PLAYING")
  BY <1>4, <1>5, <1>7
<1> QED
  BY <1>8, <1>9

(* What a tick of r ends with.                                             *)
LEMMA ConcludePlain ==
  ASSUME IInv, NEW r \in Robots, NEW s \in {"READY", "SET", "PLAYING"},
         NEW whistle \in BOOLEAN, NEW near \in BOOLEAN,
         Conclude(r, s, whistle, near)
  PROVE  /\ behind' = behind \ {r}
         /\ \A q \in Robots \ {r} : state'[q] = state[q] /\ told'[q] = told[q]
         /\ state'[r] = s \/ (s = "SET" /\ state'[r] = "PLAYING")
         /\ told'[r] = state'[r] \/ (state'[r] = "SET" /\ told'[r] = "PLAYING")
         /\ (s \in {"SET", "PLAYING"} /\ told[r] = "PLAYING") => told'[r] = "PLAYING"
         /\ (s = "SET" /\ near /\ Enough(Playing(r), Active(r)))
              => state'[r] = "PLAYING"
<1> DEFINE said  == ToldState(s, told[r], whistle)
           plays == TeamState(s, Playing(r), Active(r), near)
<1>1. state' = [state EXCEPT ![r] = plays] /\ behind' = behind \ {r}
  BY DEF Conclude
<1>2. told' = [told EXCEPT ![r] = IF said = "PLAYING" /\ plays = "SET"
                                    THEN said ELSE plays]
  BY DEF Conclude
<1>3. plays = s \/ (s = "SET" /\ plays = "PLAYING")
  BY DEF TeamState
<1>4. (s = "SET" /\ told[r] = "PLAYING") => said = "PLAYING"
  BY DEF ToldState
<1>5. (s = "SET" /\ near /\ Enough(Playing(r), Active(r))) => plays = "PLAYING"
  BY DEF TeamState
<1>6. /\ state \in [Robots -> GameStates] /\ told \in [Robots -> GameStates]
  BY DEF IInv, TypeOK
<1> HIDE DEF said, plays
<1>7. state'[r] = plays /\ \A q \in Robots \ {r} : state'[q] = state[q]
  BY <1>1, <1>6
<1>8. /\ told'[r] = IF said = "PLAYING" /\ plays = "SET" THEN said ELSE plays
      /\ \A q \in Robots \ {r} : told'[q] = told[q]
  BY <1>2, <1>6
<1> QED
  BY <1>1, <1>3, <1>4, <1>5, <1>7, <1>8

(* The kinds of step when nothing disturbs the team.                       *)
TickOf(r) ==
  /\ \E s \in AfterPackets(r, FALSE), whistle, near \in BOOLEAN :
       Conclude(r, s, whistle, near)
  /\ UNCHANGED <<gc, mate>>

Moved == gc' # gc /\ UNCHANGED <<state, told, mate>>

Heard(r, s) ==
  /\ mate' = [mate EXCEPT ![r][s] = IF told[s] = "PLAYING" THEN "PLAYING"
                                                          ELSE "quiet"]
  /\ UNCHANGED <<gc, state, told, behind>>

Stays == UNCHANGED <<gc, state, told, behind, mate>>

LEMMA TickPlain ==
  ASSUME Undisturbed, NEW r \in Robots
  PROVE  /\ \A near \in BOOLEAN : Tick(r, near) => TickOf(r)
         /\ Whistle(r) => TickOf(r)
         /\ ~Press(r)
<1>1. Faults = {}
  BY DEF Undisturbed
<1>2. ASSUME NEW near \in BOOLEAN, Tick(r, near) PROVE TickOf(r)
  <2>1. PICK p \in {b \in BOOLEAN : b => "penalty" \in Faults} :
           \E s \in AfterPackets(r, p) : Conclude(r, s, FALSE, near)
    BY <1>2 DEF Tick
  <2>2. p = FALSE /\ UNCHANGED <<gc, mate>>
    BY <1>1, <1>2 DEF Tick
  <2> QED
    BY <2>1, <2>2 DEF TickOf
<1>3. Whistle(r) => TickOf(r)
  BY DEF Whistle, TickOf
<1>4. ~Press(r)
  BY <1>1 DEF Press
<1> QED
  BY <1>2, <1>3, <1>4

LEMMA Plain ==
  ASSUME Undisturbed, TypeOK, [Next]_vars
  PROVE  \/ \E r \in Robots : TickOf(r)
         \/ Moved
         \/ \E r, s \in Robots : Heard(r, s)
         \/ Stays
<1>1. Faults = {} /\ MAX_OUT = 0
  BY DEF Undisturbed
<1>2. CASE RefereeReady \/ RefereeSet \/ RefereePlay
  BY <1>2 DEF RefereeReady, RefereeSet, RefereePlay, Referee, Moved
<1>3. ASSUME NEW r \in Robots, Whistle(r) \/ Press(r)
      PROVE  TickOf(r)
  BY <1>3, TickPlain
<1>4. ASSUME NEW r \in Robots, NEW near \in BOOLEAN, Tick(r, near)
      PROVE  TickOf(r)
  BY <1>4, TickPlain
<1>5. ASSUME NEW r \in Robots, NEW s \in Robots, Receive(r, s)
      PROVE  Heard(r, s)
  <2>1. Said(s) = {told[s]}
    BY <1>1 DEF Said
  <2> QED
    BY <1>5, <2>1 DEF Receive, Heard
<1>6. ASSUME NEW r \in Robots, NEW s \in Robots, Incapacitate(r, s)
      PROVE  FALSE
  <2>1. IsFiniteSet(Robots \X Robots)
    BY KickOffConstants, FS_Product
  <2>2. IsFiniteSet(Out)
    BY <2>1, FS_Subset DEF Out
  <2>3. Cardinality(Out) \in Nat
    BY <2>2, FS_CardinalityType
  <2> QED
    BY <1>1, <1>6, <2>3 DEF Incapacitate
<1>7. CASE UNCHANGED vars
  BY <1>7 DEF vars, Stays
<1> QED
  BY <1>2, <1>3, <1>4, <1>5, <1>6, <1>7 DEF Next

LEMMA AgreeInit == Init => Agree
BY DEF Init, Agree

LEMMA AgreeNext ==
  ASSUME Undisturbed
  PROVE  IInv /\ [Next]_vars => Agree'
<1> SUFFICES ASSUME IInv, [Next]_vars PROVE Agree'
  OBVIOUS
<1>1. TypeOK
  BY DEF IInv
<1>2. ASSUME NEW r \in Robots, TickOf(r) PROVE Agree'
  <2>1. PICK s \in AfterPackets(r, FALSE), whistle \in BOOLEAN, near \in BOOLEAN :
           Conclude(r, s, whistle, near)
    BY <1>2 DEF TickOf
  <2>2. s \in {"READY", "SET", "PLAYING"}
    BY <1>1, PacketsPlain DEF IInv, Agree
  <2>3. /\ \A q \in Robots \ {r} : state'[q] = state[q] /\ told'[q] = told[q]
        /\ state'[r] = s \/ (s = "SET" /\ state'[r] = "PLAYING")
        /\ told'[r] = state'[r] \/ (state'[r] = "SET" /\ told'[r] = "PLAYING")
    BY <2>1, <2>2, ConcludePlain
  <2> QED
    BY <2>2, <2>3 DEF IInv, Agree
<1>3. CASE Moved
  BY <1>3 DEF Moved, IInv, Agree
<1>4. ASSUME NEW r \in Robots, NEW s \in Robots, Heard(r, s) PROVE Agree'
  BY <1>4 DEF Heard, IInv, Agree
<1>5. CASE Stays
  BY <1>5 DEF Stays, IInv, Agree
<1> QED
  BY <1>1, <1>2, <1>3, <1>4, <1>5, Plain

LEMMA AgreeAlways ==
  ASSUME Undisturbed
  PROVE  Spec => []IInv
<1>1. TypeOK /\ Agree => IInv
  BY DEF IInv
<1>2. IInv /\ [Next]_vars => Agree'
  BY AgreeNext
<1>3. TypeOK /\ Agree /\ [Next]_vars => Agree'
  BY <1>1, <1>2
<1> QED
  BY <1>1, <1>3, AgreeInit, TypeCorrect, PTL DEF Spec

-----------------------------------------------------------------------------
(* The robots in T say PLAYING in SET, and will not be told of READY.      *)
Tellers(T) ==
  /\ gc = "SET"
  /\ \A r \in T : told[r] = "PLAYING" /\ r \notin behind

GoneOn == gc # "SET"

(* Who has not heard whom of them; and which robots do not play yet.       *)
Deaf(T) == {p \in Robots \X T : mate[p[1]][p[2]] # "PLAYING"}
Late == {r \in Robots : r \in behind \/ state[r] # "PLAYING"}

(* How far r is from playing.                                              *)
Rank(r) == IF r \in behind THEN 3
           ELSE CASE state[r] = "READY" -> 2
                  [] state[r] = "SET" -> 1
                  [] OTHER -> 0

LEMMA TickForward ==
  ASSUME IInv, NEW r \in Robots, TickOf(r), gc = "SET"
  PROVE  /\ Rank(r)' <= Rank(r)
         /\ \A q \in Robots \ {r} : Rank(q)' = Rank(q)
         /\ behind' = behind \ {r}
         /\ \A q \in Robots \ {r} : told'[q] = told[q] /\ state'[q] = state[q]
         /\ (r \notin behind /\ told[r] = "PLAYING") => told'[r] = "PLAYING"
         /\ state'[r] \in {"READY", "SET", "PLAYING"}
<1>1. PICK s \in AfterPackets(r, FALSE), whistle \in BOOLEAN, near \in BOOLEAN :
         Conclude(r, s, whistle, near)
  BY DEF TickOf
<1>2. state[r] \in {"READY", "SET", "PLAYING"} /\ TypeOK
  BY DEF IInv, Agree
<1>3. /\ s \in {"READY", "SET", "PLAYING"}
      /\ r \notin behind => s = state[r] \/ (s = "SET" /\ state[r] # "PLAYING")
  BY <1>2, PacketsPlain
<1>4. /\ behind' = behind \ {r}
      /\ \A q \in Robots \ {r} : state'[q] = state[q] /\ told'[q] = told[q]
      /\ state'[r] = s \/ (s = "SET" /\ state'[r] = "PLAYING")
      /\ told'[r] = state'[r] \/ (state'[r] = "SET" /\ told'[r] = "PLAYING")
      /\ (s \in {"SET", "PLAYING"} /\ told[r] = "PLAYING") => told'[r] = "PLAYING"
  BY <1>1, <1>3, ConcludePlain
<1>5. told[r] = "PLAYING" => state[r] \in {"SET", "PLAYING"}
  BY DEF IInv, Agree
<1>6. \A q \in Robots \ {r} : Rank(q)' = Rank(q)
  BY <1>4 DEF Rank
<1>7. Rank(r)' <= Rank(r)
  BY <1>2, <1>3, <1>4 DEF Rank
<1> QED
  BY <1>3, <1>4, <1>5, <1>6, <1>7

(* The tellers say so as long as the referee stays in SET; what is heard   *)
(* of them is not forgotten, and no robot gets further from playing.       *)
LEMMA NothingLost ==
  ASSUME Undisturbed, IInv, [Next]_vars, NEW T \in SUBSET Robots, Tellers(T)
  PROVE  \/ GoneOn'
         \/ /\ Tellers(T)'
            /\ \A r \in Robots, s \in T :
                 mate[r][s] = "PLAYING" => mate'[r][s] = "PLAYING"
            /\ \A r \in Robots : Rank(r)' <= Rank(r)
<1>1. \A r \in Robots : Rank(r) \in 0..3
  BY DEF Rank
<1>2. ASSUME NEW r \in Robots, TickOf(r)
      PROVE  /\ Tellers(T)' /\ mate' = mate
             /\ \A q \in Robots : Rank(q)' <= Rank(q)
  <2>1. /\ Rank(r)' <= Rank(r)
        /\ \A q \in Robots \ {r} : Rank(q)' = Rank(q)
        /\ behind' = behind \ {r}
        /\ \A q \in Robots \ {r} : told'[q] = told[q]
        /\ (r \notin behind /\ told[r] = "PLAYING") => told'[r] = "PLAYING"
    BY <1>2, TickForward DEF Tellers
  <2>2. gc' = gc /\ mate' = mate
    BY <1>2 DEF TickOf
  <2>3. \A q \in Robots : Rank(q)' <= Rank(q)
    BY <1>1, <2>1
  <2> QED
    BY <2>1, <2>2, <2>3 DEF Tellers
<1>3. Moved => GoneOn'
  BY DEF Moved, GoneOn, Tellers
<1>4. ASSUME NEW q \in Robots, NEW p \in Robots, Heard(q, p)
      PROVE  /\ Tellers(T)'
             /\ \A r \in Robots, s \in T :
                  mate[r][s] = "PLAYING" => mate'[r][s] = "PLAYING"
             /\ \A r \in Robots : Rank(r)' <= Rank(r)
  <2>1. Tellers(T)' /\ \A r \in Robots : Rank(r)' = Rank(r)
    BY <1>4 DEF Heard, Tellers, Rank
  <2>2. ASSUME NEW r \in Robots, NEW s \in T, mate[r][s] = "PLAYING"
        PROVE  mate'[r][s] = "PLAYING"
    <3>1. told[s] = "PLAYING"
      BY DEF Tellers
    <3>2. mate \in [Robots -> [Robots -> Reports]]
      BY DEF IInv, TypeOK
    <3> QED
      BY <1>4, <2>2, <3>1, <3>2 DEF Heard
  <2> QED
    BY <1>1, <2>1, <2>2
<1>5. Stays => /\ Tellers(T)' /\ mate' = mate
               /\ \A r \in Robots : Rank(r)' = Rank(r)
  BY DEF Stays, Tellers, Rank
<1>6. \A r \in Robots : Rank(r) <= Rank(r)
  BY <1>1
<1> QED
  BY <1>2, <1>3, <1>4, <1>5, <1>6, Plain DEF IInv

(* A broadcast of a teller that arrives is heard.                          *)
LEMMA ArrivalHeard ==
  ASSUME Undisturbed, IInv, NEW T \in SUBSET Robots, Tellers(T),
         NEW r \in Robots, NEW s \in T, Receive(r, s)
  PROVE  mate'[r][s] = "PLAYING"
<1>1. Said(s) = {told[s]} /\ told[s] = "PLAYING"
  BY DEF Undisturbed, Said, Tellers
<1>2. mate \in [Robots -> [Robots -> Reports]]
  BY DEF IInv, TypeOK
<1> QED
  BY <1>1, <1>2 DEF Receive

-----------------------------------------------------------------------------
(* Fairness, with what enables each step written out: a message of a       *)
(* robot that says PLAYING changes what is known of it, and a tick near    *)
(* the centre circle gets a robot on as long as it does not play.          *)
ReceiveMoves(r, s) == told[s] = "PLAYING" /\ mate[r][s] # "PLAYING"
TickMoves(r) ==
  /\ gc = "SET"
  /\ r \in behind \/ state[r] = "READY"
       \/ (state[r] = "SET" /\ Enough(Playing(r), Active(r)))

ReceiveRuns(r, s) == []<>~ReceiveMoves(r, s) \/ []<><<Receive(r, s)>>_vars
TickRuns(r) == []<>~TickMoves(r) \/ []<><<Tick(r, TRUE)>>_vars

MessagesRun == [](\A p \in Robots \X Robots : ReceiveRuns(p[1], p[2]))
TicksRun == [](\A q \in Robots : TickRuns(q))

Always == [](IInv) /\ [][Next]_vars /\ MessagesRun /\ TicksRun

(* Only the pairs in S have not heard of the tellers.                      *)
Unheard(T, S) == Tellers(T) /\ Deaf(T) \subseteq S

LEMMA UnheardStep ==
  ASSUME Undisturbed, NEW T \in SUBSET Robots, NEW S,
         NEW r \in Robots, NEW s \in T
  PROVE  /\ IInv /\ [Next]_vars /\ Unheard(T, S)
              => GoneOn' \/ Unheard(T, S)'
         /\ IInv /\ [Next]_vars /\ Unheard(T, S) /\ <<Receive(r, s)>>_vars
              => GoneOn' \/ Unheard(T, S \ {<<r, s>>})'
         /\ Unheard(T, S) /\ ~ReceiveMoves(r, s) => Unheard(T, S \ {<<r, s>>})
<1>1. ASSUME IInv, [Next]_vars, Unheard(T, S), ~GoneOn'
      PROVE  Tellers(T)' /\ Deaf(T)' \subseteq Deaf(T) /\ Deaf(T) \subseteq S
  <2>1. Tellers(T) /\ Deaf(T) \subseteq S
    BY <1>1 DEF Unheard
  <2>2. /\ Tellers(T)'
        /\ \A q \in Robots, p \in T :
             mate[q][p] = "PLAYING" => mate'[q][p] = "PLAYING"
    BY <1>1, <2>1, NothingLost
  <2> QED
    BY <2>1, <2>2 DEF Deaf
<1>2. ASSUME IInv, Unheard(T, S), <<Receive(r, s)>>_vars
      PROVE  <<r, s>> \notin Deaf(T)'
  <2>1. Tellers(T) /\ Receive(r, s)
    BY <1>2 DEF Unheard
  <2>2. mate'[r][s] = "PLAYING"
    BY <1>2, <2>1, ArrivalHeard
  <2> QED
    BY <2>2 DEF Deaf
<1>3. ASSUME Unheard(T, S), ~ReceiveMoves(r, s)
      PROVE  Unheard(T, S \ {<<r, s>>})
  BY <1>3 DEF Unheard, Tellers, ReceiveMoves, Deaf
<1> QED
  BY <1>1, <1>2, <1>3 DEF Unheard

HearsOne(T, S, p) ==
  Always => [](Unheard(T, S) => <>(GoneOn \/ Unheard(T, S \ {p})))

LEMMA OneHears ==
  ASSUME Undisturbed, NEW T \in SUBSET Robots, NEW S,
         NEW r \in Robots, NEW s \in T
  PROVE  HearsOne(T, S, <<r, s>>)
<1>1. (\A p \in Robots \X Robots : ReceiveRuns(p[1], p[2])) => ReceiveRuns(r, s)
  <2>1. <<r, s>> \in Robots \X Robots
    OBVIOUS
  <2> QED
    BY <2>1
<1>2. Always => ReceiveRuns(r, s)
  BY <1>1, PTL DEF Always, MessagesRun
<1> QED
  BY <1>2, UnheardStep, PTL DEF HearsOne, Always, ReceiveRuns

AllHear(T, S) == Always => [](Unheard(T, S) => <>(GoneOn \/ Unheard(T, {})))
AllHearOf(T, n) ==
  \A S \in SUBSET (Robots \X T) : Cardinality(S) = n => AllHear(T, S)

(* A non-empty set of natural numbers has a least element: the intervals   *)
(* 1..k are well-founded by inclusion.                                     *)
LEMMA LeastElement ==
  ASSUME NEW S, S \subseteq Nat, S # {}
  PROVE  \E n \in S : \A m \in S : n <= m
<1> DEFINE Below   == {1..k : k \in S}
           Smaller == StrictSubsetOrdering(Nat)
<1>1. Below \subseteq FiniteSubsetsOf(Nat) /\ Below # {}
  <2>1. \A k \in Nat : 1..k \in FiniteSubsetsOf(Nat)
    BY FS_Interval DEF FiniteSubsetsOf
  <2> QED
    BY <2>1
<1>2. \E X \in Below : \A Y \in Below : <<Y, X>> \notin Smaller
  <2>1. IsWellFoundedOn(Smaller, FiniteSubsetsOf(Nat))
    BY FS_StrictSubsetOrderingWellFounded
  <2> HIDE DEF Below, Smaller
  <2> QED
    BY <1>1, <2>1, WFMin, Zenon
<1>3. PICK n \in S : \A m \in S : <<1..m, 1..n>> \notin Smaller
  BY <1>2
<1>4. ASSUME NEW m \in S, m < n PROVE FALSE
  <2>1. n \in 1..n /\ n \notin 1..m
    BY <1>4
  <2>2. 1..m \subseteq 1..n /\ 1..m \in SUBSET Nat /\ 1..n \in SUBSET Nat
    BY <1>4
  <2> QED
    BY <1>3, <2>1, <2>2 DEF StrictSubsetOrdering
<1> QED
  BY <1>4

(* Induction.  The theorems of the library take a predicate as parameter,  *)
(* which the provers cannot instantiate; here it is the table of its       *)
(* values, a function.  Named(h) says nothing: it brings the table h to    *)
(* the provers' attention.                                                 *)
Named(h) == TRUE

LEMMA TableInduction ==
  \A h : Named(h) =>
    (/\ h[0] = TRUE
     /\ \A n \in Nat : h[n] = TRUE => h[n + 1] = TRUE
     => \A n \in Nat : h[n] = TRUE)
<1> SUFFICES ASSUME NEW h, h[0] = TRUE,
                    \A n \in Nat : h[n] = TRUE => h[n + 1] = TRUE,
                    {n \in Nat : h[n] # TRUE} # {}
             PROVE  FALSE
  OBVIOUS
<1>1. PICK n \in Nat : /\ h[n] # TRUE
                       /\ \A m \in Nat : h[m] # TRUE => n <= m
  BY LeastElement
<1>2. n # 0
  BY <1>1, Zenon
<1>3. n - 1 \in Nat /\ ~(n <= n - 1) /\ (n - 1) + 1 = n
  BY <1>2
<1>4. h[n - 1] = TRUE
  BY <1>1, <1>3, Zenon
<1>5. h[(n - 1) + 1] = TRUE
  BY <1>3, <1>4, Zenon
<1> QED
  BY <1>1, <1>3, <1>5, Zenon


LEMMA HearInduction ==
  ASSUME NEW T
  PROVE  /\ AllHearOf(T, 0)
         /\ \A n \in Nat : AllHearOf(T, n) => AllHearOf(T, n + 1)
         => \A n \in Nat : AllHearOf(T, n)
<1>1. Named([n \in Nat |-> IF AllHearOf(T, n) THEN TRUE ELSE FALSE])
  BY DEF Named
<1> QED
  BY <1>1, TableInduction

LEMMA EveryoneHears ==
  ASSUME Undisturbed, NEW T \in SUBSET Robots
  PROVE  \A n \in Nat : AllHearOf(T, n)
<1>0. \A S \in SUBSET (Robots \X T) : IsFiniteSet(S)
  BY KickOffConstants, FS_Subset, FS_Product
<1>1. AllHearOf(T, 0)
  <2>1. AllHear(T, {})
    BY PTL DEF AllHear
  <2>2. \A S \in SUBSET (Robots \X T) : Cardinality(S) = 0 => S = {}
    BY <1>0, FS_EmptySet
  <2> QED
    BY <2>1, <2>2 DEF AllHearOf
<1>2. ASSUME NEW n \in Nat
      PROVE  AllHearOf(T, n) => AllHearOf(T, n + 1)
  <2> SUFFICES ASSUME NEW S \in SUBSET (Robots \X T), Cardinality(S) = n + 1
               PROVE  AllHearOf(T, n) => AllHear(T, S)
    BY DEF AllHearOf
  <2>1. S # {}
    BY FS_EmptySet
  <2>2. PICK p \in S : TRUE
    BY <2>1
  <2>3. S \ {p} \in SUBSET (Robots \X T) /\ Cardinality(S \ {p}) = n
    BY <1>0, <2>2, FS_RemoveElement
  <2>4. AllHearOf(T, n) => AllHear(T, S \ {p})
    BY <2>3 DEF AllHearOf
  <2>5. PICK r \in Robots, s \in T : p = <<r, s>>
    BY <2>2
  <2>6. HearsOne(T, S, p)
    BY <2>5, OneHears
  <2> QED
    BY <2>4, <2>6, PTL DEF HearsOne, AllHear, Always, MessagesRun, TicksRun
<1> QED
  BY <1>1, <1>2, HearInduction

-----------------------------------------------------------------------------
(* Enough of the team are tellers, all have heard them, and only the       *)
(* robots in S do not play yet; r is at most k steps from playing.         *)
EnoughTell(T) == 10 * Cardinality(T) >= 3 * Cardinality(Robots)
Starting(T, S) == Unheard(T, {}) /\ Late \subseteq S
Near(T, S, r, k) == Starting(T, S) /\ Rank(r) <= k

(* Every robot counts enough of them.                                      *)
LEMMA AllCount ==
  ASSUME NEW T \in SUBSET Robots, EnoughTell(T), Unheard(T, {}),
         NEW r \in Robots
  PROVE  Enough(Playing(r), Active(r))
<1> DEFINE P == {s \in Robots : mate[r][s] = "PLAYING"}
           A == {s \in Robots : mate[r][s] # "out"}
<1>1. T \subseteq P /\ P \subseteq A
  <2>1. ASSUME NEW s \in T PROVE mate[r][s] = "PLAYING"
    <3>1. <<r, s>> \in Robots \X T /\ <<r, s>> \notin Deaf(T)
      BY DEF Unheard
    <3> QED
      BY <3>1 DEF Deaf
  <2> QED
    BY <2>1
<1>2. Cardinality(T) <= Cardinality(P) /\ Cardinality(P) <= Cardinality(A)
  BY <1>1, Counts, FS_Subset
<1>3. /\ Cardinality(A) <= Cardinality(Robots)
      /\ Cardinality(T) \in Nat /\ Cardinality(P) \in Nat
      /\ Cardinality(A) \in Nat /\ Cardinality(Robots) \in Nat
  BY Counts
<1>4. Cardinality(Robots) # 0
  BY KickOffConstants, FS_EmptySet
<1> HIDE DEF P, A
<1>5. Playing(r) = Cardinality(P) /\ Active(r) = Cardinality(A)
  BY DEF Playing, Active, P, A
<1> QED
  BY <1>2, <1>3, <1>4, <1>5 DEF Enough, EnoughTell

(* A tick near the centre circle that changes anything gets r on.          *)
LEMMA TickGetsOn ==
  ASSUME Undisturbed, IInv, NEW r \in Robots, gc = "SET",
         Enough(Playing(r), Active(r)), <<Tick(r, TRUE)>>_vars,
         Rank(r) # 0
  PROVE  Rank(r)' < Rank(r)
<1>1. TickOf(r) /\ TypeOK
  BY TickPlain DEF IInv
<1>2. behind' = behind \ {r} /\ state'[r] \in {"READY", "SET", "PLAYING"}
  BY <1>1, TickForward
<1>3. state[r] \in {"READY", "SET", "PLAYING"}
  BY DEF IInv, Agree
<1>4. CASE r \in behind
  BY <1>2, <1>4 DEF Rank
<1>5. PICK p \in {b \in BOOLEAN : b => "penalty" \in Faults} :
         \E s \in AfterPackets(r, p) : Conclude(r, s, FALSE, TRUE)
  BY DEF Tick
<1>6. p = FALSE
  BY DEF Undisturbed
<1>7. PICK s \in AfterPackets(r, FALSE) : Conclude(r, s, FALSE, TRUE)
  BY <1>5, <1>6
<1>8. CASE r \notin behind
  <2>1. s = state[r] \/ s = "SET"
    BY <1>1, <1>7, <1>8, PacketsPlain
  <2>2. s \in {"READY", "SET", "PLAYING"}
    BY <1>3, <2>1
  <2>3. /\ state'[r] = s \/ (s = "SET" /\ state'[r] = "PLAYING")
        /\ s = "SET" => state'[r] = "PLAYING"
    BY <1>7, <2>2, ConcludePlain
  <2>4. CASE s = "SET"
    BY <1>2, <1>3, <1>8, <2>3, <2>4 DEF Rank
  <2>5. CASE s = "READY" /\ state[r] = "READY"
    <3>1. ToldState(s, told[r], FALSE) = "READY"
      BY <2>5 DEF ToldState
    <3>2. TeamState(s, Playing(r), Active(r), TRUE) = "READY"
      BY <2>5 DEF TeamState
    <3>3. told[r] = "READY"
      BY <2>5 DEF IInv, Agree
    <3>4. /\ state' = [state EXCEPT ![r] = "READY"]
          /\ told' = [told EXCEPT ![r] = "READY"]
          /\ behind' = behind /\ fewest' = fewest
      BY <1>7, <1>8, <2>5, <3>1, <3>2 DEF Conclude
    <3>5. state' = state /\ told' = told
      BY <1>1, <2>5, <3>3, <3>4 DEF TypeOK
    <3>6. UNCHANGED <<gc, mate, origin>>
      BY DEF Tick
    <3>7. UNCHANGED vars
      BY <3>4, <3>5, <3>6 DEF vars
    <3> QED
      BY <3>7
  <2>6. CASE s = "PLAYING"
    BY <1>8, <2>1, <2>6 DEF Rank
  <2> QED
    BY <1>3, <2>1, <2>4, <2>5, <2>6
<1> QED
  BY <1>4, <1>8

LEMMA KeepsInv ==
  ASSUME Undisturbed
  PROVE  IInv /\ [Next]_vars => IInv'
BY AgreeNext, TypeNext DEF IInv

LEMMA NearStep ==
  ASSUME Undisturbed, NEW T \in SUBSET Robots, EnoughTell(T), NEW S,
         NEW r \in Robots, NEW k \in 1..3, NEW j, j = k - 1
  PROVE  /\ IInv /\ [Next]_vars /\ Near(T, S, r, k)
              => GoneOn' \/ Near(T, S, r, k)'
         /\ IInv /\ [Next]_vars /\ Near(T, S, r, k) /\ <<Tick(r, TRUE)>>_vars
              => GoneOn' \/ Near(T, S, r, j)'
         /\ IInv /\ Near(T, S, r, k) /\ ~TickMoves(r) => Near(T, S, r, j)
<1>1. \A q \in Robots : Rank(q) \in 0..3 /\ Rank(q)' \in 0..3
  BY DEF Rank
<1>2. ASSUME IInv, NEW q \in Robots
      PROVE  Rank(q) = 0 <=> q \notin Late
  BY <1>2 DEF IInv, Agree, Rank, Late
<1>3. ASSUME IInv, [Next]_vars, Near(T, S, r, k), ~GoneOn'
      PROVE  Near(T, S, r, k)'
  <2>1. Tellers(T) /\ Deaf(T) = {} /\ Late \subseteq S /\ Rank(r) <= k
    BY <1>3 DEF Near, Starting, Unheard
  <2>2. /\ Tellers(T)'
        /\ \A q \in Robots, p \in T :
             mate[q][p] = "PLAYING" => mate'[q][p] = "PLAYING"
        /\ \A q \in Robots : Rank(q)' <= Rank(q)
    BY <1>3, <2>1, NothingLost
  <2>3. Deaf(T)' = {}
    BY <2>1, <2>2 DEF Deaf
  <2>4. Late' \subseteq Late
    <3> SUFFICES ASSUME NEW q \in Robots, q \notin Late PROVE q \notin Late'
      BY DEF Late
    <3>1. Rank(q) = 0
      BY <1>2, <1>3
    <3>2. Rank(q)' = 0
      BY <1>1, <2>2, <3>1
    <3>3. q \notin behind /\ state[q] = "PLAYING"
      BY DEF Late
    <3>4. q \notin behind' /\ state'[q] \notin {"READY", "SET"}
      BY <3>2 DEF Rank
    <3>5. IInv'
      BY <1>3, KeepsInv
    <3>6. state'[q] \in {"READY", "SET", "PLAYING"}
      BY <3>5 DEF IInv, Agree
    <3> QED
      BY <3>4, <3>6 DEF Late
  <2>5. Rank(r)' <= k
    BY <1>1, <2>1, <2>2
  <2> QED
    BY <2>1, <2>2, <2>3, <2>4, <2>5 DEF Near, Starting, Unheard
<1>4. ASSUME IInv, Near(T, S, r, k), <<Tick(r, TRUE)>>_vars
      PROVE  Rank(r)' <= j
  <2>1. gc = "SET" /\ Unheard(T, {}) /\ Rank(r) <= k
    BY <1>4 DEF Near, Starting, Unheard, Tellers
  <2>2. Enough(Playing(r), Active(r))
    BY <2>1, AllCount
  <2>3. CASE Rank(r) # 0
    <3>1. Rank(r)' < Rank(r)
      BY <1>4, <2>1, <2>2, <2>3, TickGetsOn
    <3> QED
      BY <1>1, <2>1, <3>1
  <2>4. CASE Rank(r) = 0
    <3>1. TickOf(r)
      BY <1>4, TickPlain
    <3>2. Rank(r)' <= Rank(r)
      BY <1>4, <2>1, <3>1, TickForward
    <3> QED
      BY <1>1, <2>4, <3>2
  <2> QED
    BY <2>3, <2>4
<1>5. ASSUME IInv, Near(T, S, r, k), ~TickMoves(r)
      PROVE  Near(T, S, r, j)
  <2>1. gc = "SET" /\ Unheard(T, {})
    BY <1>5 DEF Near, Starting, Unheard, Tellers
  <2>2. Enough(Playing(r), Active(r))
    BY <2>1, AllCount
  <2>3. Rank(r) = 0
    BY <1>5, <2>1, <2>2 DEF TickMoves, Rank
  <2> QED
    BY <1>5, <2>3 DEF Near
<1>6. ASSUME Near(T, S, r, k)', Rank(r)' <= j
      PROVE  Near(T, S, r, j)'
  BY <1>6 DEF Near
<1> QED
  BY <1>3, <1>4, <1>5, <1>6

GetsNear(T, S, r, k, j) ==
  Always => [](Near(T, S, r, k) => <>(GoneOn \/ Near(T, S, r, j)))

LEMMA OneGetsNear ==
  ASSUME Undisturbed, NEW T \in SUBSET Robots, EnoughTell(T), NEW S,
         NEW r \in Robots, NEW k \in 1..3, NEW j, j = k - 1
  PROVE  GetsNear(T, S, r, k, j)
<1>1. (\A q \in Robots : TickRuns(q)) => TickRuns(r)
  OBVIOUS
<1>2. Always => TickRuns(r)
  BY <1>1, PTL DEF Always, TicksRun
<1> QED
  BY <1>2, NearStep, PTL DEF GetsNear, Always, TickRuns

OneStarts(T, S, r) ==
  Always => [](Starting(T, S) => <>(GoneOn \/ Starting(T, S \ {r})))

LEMMA OneMoreStarts ==
  ASSUME Undisturbed, NEW T \in SUBSET Robots, EnoughTell(T), NEW S,
         NEW r \in Robots
  PROVE  OneStarts(T, S, r)
<1>1. Starting(T, S) => Near(T, S, r, 3)
  BY DEF Near, Rank
<1>2. IInv /\ Near(T, S, r, 0) => Starting(T, S \ {r})
  BY DEF Near, Starting, Rank, Late, IInv, Agree
<1>3. /\ GetsNear(T, S, r, 3, 2) /\ GetsNear(T, S, r, 2, 1)
      /\ GetsNear(T, S, r, 1, 0)
  BY OneGetsNear
<1>4. /\ Always => [](Near(T, S, r, 3) => <>(GoneOn \/ Near(T, S, r, 2)))
      /\ Always => [](Near(T, S, r, 2) => <>(GoneOn \/ Near(T, S, r, 1)))
      /\ Always => [](Near(T, S, r, 1) => <>(GoneOn \/ Near(T, S, r, 0)))
  BY <1>3 DEF GetsNear
<1> QED
  BY <1>1, <1>2, <1>4, PTL DEF OneStarts, Always, MessagesRun, TicksRun

AllStart(T, S) == Always => [](Starting(T, S) => <>(GoneOn \/ Starting(T, {})))
AllStartOf(T, n) == \A S \in SUBSET Robots : Cardinality(S) = n => AllStart(T, S)

LEMMA StartInduction ==
  ASSUME NEW T
  PROVE  /\ AllStartOf(T, 0)
         /\ \A n \in Nat : AllStartOf(T, n) => AllStartOf(T, n + 1)
         => \A n \in Nat : AllStartOf(T, n)
<1>1. Named([n \in Nat |-> IF AllStartOf(T, n) THEN TRUE ELSE FALSE])
  BY DEF Named
<1> QED
  BY <1>1, TableInduction

LEMMA EveryoneStarts ==
  ASSUME Undisturbed, NEW T \in SUBSET Robots, EnoughTell(T)
  PROVE  \A n \in Nat : AllStartOf(T, n)
<1>0. \A S \in SUBSET Robots : IsFiniteSet(S)
  BY KickOffConstants, FS_Subset
<1>1. AllStartOf(T, 0)
  <2>1. AllStart(T, {})
    BY PTL DEF AllStart
  <2>2. \A S \in SUBSET Robots : Cardinality(S) = 0 => S = {}
    BY <1>0, FS_EmptySet
  <2> QED
    BY <2>1, <2>2 DEF AllStartOf
<1>2. ASSUME NEW n \in Nat
      PROVE  AllStartOf(T, n) => AllStartOf(T, n + 1)
  <2> SUFFICES ASSUME NEW S \in SUBSET Robots, Cardinality(S) = n + 1
               PROVE  AllStartOf(T, n) => AllStart(T, S)
    BY DEF AllStartOf
  <2>1. S # {}
    BY FS_EmptySet
  <2>2. PICK r \in S : TRUE
    BY <2>1
  <2>3. S \ {r} \in SUBSET Robots /\ Cardinality(S \ {r}) = n
    <3>1. Cardinality(S \ {r}) = Cardinality(S) - 1
      BY <1>0, <2>2, FS_RemoveElement
    <3> QED
      BY <3>1
  <2>4. AllStartOf(T, n) => AllStart(T, S \ {r})
    BY <2>3 DEF AllStartOf
  <2>5. OneStarts(T, S, r)
    BY <2>2, OneMoreStarts
  <2> QED
    BY <2>4, <2>5, PTL DEF OneStarts, AllStart, Always, MessagesRun, TicksRun
<1> QED
  BY <1>1, <1>2, StartInduction

(* Those who tell start the team, whoever they are.                        *)
Spread == GoneOn \/ \A r \in Robots : state[r] = "PLAYING"
Spreads(T) == Always => [](Tellers(T) => <>Spread)

LEMMA TellersStartAll ==
  ASSUME Undisturbed, NEW T \in SUBSET Robots, EnoughTell(T)
  PROVE  Spreads(T)
<1> DEFINE pairs == Robots \X T
<1>1. /\ IsFiniteSet(pairs) /\ Cardinality(pairs) \in Nat
      /\ pairs \in SUBSET (Robots \X T)
  BY KickOffConstants, FS_Subset, FS_Product, FS_CardinalityType
<1>2. IsFiniteSet(Robots) /\ Cardinality(Robots) \in Nat
  BY KickOffConstants, FS_CardinalityType
<1>3. Tellers(T) => Unheard(T, Robots \X T)
  BY DEF Unheard, Deaf
<1>4. Unheard(T, {}) => Starting(T, Robots)
  BY DEF Starting, Late
<1>5. Starting(T, {}) => Spread
  BY DEF Starting, Late, Spread
<1>6. GoneOn => Spread
  BY DEF Spread
<1>7. AllHearOf(T, Cardinality(pairs)) /\ AllStartOf(T, Cardinality(Robots))
  BY <1>1, <1>2, EveryoneHears, EveryoneStarts
<1>8. AllHear(T, Robots \X T) /\ AllStart(T, Robots)
  BY <1>1, <1>7 DEF AllHearOf, AllStartOf
<1>9. /\ Always => [](Unheard(T, Robots \X T) => <>(GoneOn \/ Unheard(T, {})))
      /\ Always => [](Starting(T, Robots) => <>(GoneOn \/ Starting(T, {})))
  BY <1>8 DEF AllHear, AllStart
<1> QED
  BY <1>3, <1>4, <1>5, <1>6, <1>9, PTL
     DEF Spreads, Always, MessagesRun, TicksRun

Told ==
  /\ gc = "SET"
  /\ \E tellers \in SUBSET Robots :
       /\ 10 * Cardinality(tellers) >= 3 * Cardinality(Robots)
       /\ \A r \in tellers : told[r] = "PLAYING" /\ r \notin behind

LEMMA SpreadsAtLast ==
  ASSUME Undisturbed
  PROVE  Always /\ Told => <>Spread
<1> SUFFICES ASSUME Always, Told PROVE <>Spread
  OBVIOUS
<1>1. PICK T \in SUBSET Robots : EnoughTell(T) /\ Tellers(T)
  BY DEF Told, Tellers, EnoughTell
<1>2. Spreads(T)
  BY <1>1, TellersStartAll
<1> QED
  BY <1>1, <1>2, PTL DEF Spreads

(* If enough of the team says PLAYING during SET, the whole team starts,   *)
(* for a team of any size, as long as messages get through and every robot *)
(* is near the centre circle now and then.                                 *)
THEOREM TeamStarts ==
  Undisturbed => (Spec /\ MessagesRun /\ TicksRun => WhistleSpreads)
<1> SUFFICES ASSUME Undisturbed
             PROVE  Spec /\ MessagesRun /\ TicksRun => WhistleSpreads
  OBVIOUS
<1> QED
  BY AgreeAlways, SpreadsAtLast, PTL
     DEF WhistleSpreads, Told, Spread, GoneOn, Spec, Always, MessagesRun, TicksRun
=============================================================================
