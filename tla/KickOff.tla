------------------------------ MODULE KickOff ------------------------------
(***************************************************************************)
(* How a team starts to play on the referee's whistle.  Every robot tells  *)
(* its team mates, five times a second and over a lossy network, whether   *)
(* it believes that the game is on; a robot in SET starts when at least    *)
(* 30% of the team mates it hears from say so.  Any robot may hear a       *)
(* whistle that was not blown, and may miss what the referee says.         *)
(*                                                                         *)
(* A tick of a robot's GameController thread is one step here (module      *)
(* GameController takes it apart), and so are the broadcast of a message   *)
(* and its reception by one robot.                                         *)
(***************************************************************************)
EXTENDS GameState, FiniteSets

CONSTANTS
  Robots,      \* the team
  MAX_ORIGIN,  \* how many robots may play into a SET or hear a whistle in it
  MAX_OUT,     \* how many entries may be incapacitated at a time
  Moves,       \* the phases the referee goes on to
  Faults       \* what else may happen, of the following

ASSUME KickOffConstants ==
  /\ IsFiniteSet(Robots)
  /\ MAX_ORIGIN \in Nat /\ MAX_OUT \in Nat
  /\ Moves \subseteq {"READY", "SET", "PLAYING"}
  /\ Faults \subseteq {"button", "penalty", "flicker"}

VARIABLES
  gc,      \* the phase the referee broadcasts
  state,   \* each robot's own data.state
  told,    \* each robot's gameState, which it sends to its team
  behind,  \* robots whose tick began before the referee's last move
  mate,    \* what each robot knows of each team mate
  \* history, read by the properties only
  origin,  \* robots that were PLAYING, or thought to be, when SET began, or
           \* heard a whistle or had their button pressed in it
  fewest   \* the fewest active team mates any robot counted in this SET

vars == <<gc, state, told, behind, mate, origin, fewest>>

(* A team mate is incapacitated, says PLAYING, or says anything else.  A   *)
(* robot is one of its own team mates: it hears its own broadcasts.        *)
Reports == {"out", "quiet", "PLAYING"}

TypeOK ==
  /\ gc \in {"READY", "SET", "PLAYING"}
  /\ state \in [Robots -> GameStates]
  /\ told \in [Robots -> GameStates]
  /\ mate \in [Robots -> [Robots -> Reports]]
  /\ behind \in SUBSET Robots
  /\ origin \in SUBSET Robots
  /\ fewest \in 0..Cardinality(Robots)

(* Robots that play, say so, or are thought to.                            *)
Started ==
  {r \in Robots : \/ state[r] = "PLAYING" \/ told[r] = "PLAYING"
                  \/ \E s \in Robots : mate[s][r] = "PLAYING"}

(* Some robots may have missed that the game before has ended; the team    *)
(* has been talking for a while, or has not begun to.                      *)
Init ==
  /\ gc = "READY"
  /\ \E astray \in SUBSET Robots :
       /\ Cardinality(astray) <= MAX_ORIGIN
       /\ state = [r \in Robots |-> IF r \in astray THEN "PLAYING"
                                                    ELSE "READY"]
  /\ told = state
  /\ behind = {}
  /\ \E report \in {"out", "quiet"} :
       /\ report = "out" => Cardinality(Robots \X Robots) <= MAX_OUT
       /\ mate = [r \in Robots |-> [s \in Robots |-> report]]
  /\ origin = {} /\ fewest = Cardinality(Robots)

-----------------------------------------------------------------------------
(* The referee.                                                            *)

Referee(from, to) ==
  /\ to \in Moves /\ gc = from /\ gc' = to
  /\ behind' = Robots

RefereeReady ==
  /\ Referee("PLAYING", "READY")
  /\ UNCHANGED <<state, told, mate, origin, fewest>>

RefereeSet ==
  /\ Referee("READY", "SET")
  /\ Cardinality(Started) <= MAX_ORIGIN
  /\ origin' = Started
  /\ fewest' = Cardinality(Robots)
  /\ UNCHANGED <<state, told, mate>>

RefereePlay ==
  /\ Referee("SET", "PLAYING")
  /\ origin' = {} /\ fewest' = Cardinality(Robots)
  /\ UNCHANGED <<state, told, mate>>

-----------------------------------------------------------------------------
(* One tick of the GameController thread.                                  *)

Before == [READY |-> "PLAYING", SET |-> "READY", PLAYING |-> "SET"]

(* What the packets of one tick of r leave of its state: none may arrive,  *)
(* or some of this phase, or, in a tick that began before the referee's    *)
(* last move, some of the phase before, with or without some of this one.  *)
AfterPackets(r, penalised) ==
  LET Parse(phase, states) == {ParseState(s, phase, penalised) : s \in states}
      old == {state[r]} \cup
             (IF r \in behind THEN Parse(Before[gc], {state[r]}) ELSE {})
  IN  old \cup Parse(gc, old)

Playing(r) == Cardinality({s \in Robots : mate[r][s] = "PLAYING"})
Active(r)  == Cardinality({s \in Robots : mate[r][s] # "out"})

(* A tick that ends, after packets and button, in state s.                 *)
Conclude(r, s, whistle, near) ==
  LET said  == ToldState(s, told[r], whistle)
      plays == TeamState(s, Playing(r), Active(r), near)
  IN  /\ behind' = behind \ {r}
      /\ state' = [state EXCEPT ![r] = plays]
      /\ told' = [told EXCEPT ![r] = IF said = "PLAYING" /\ plays = "SET"
                                       THEN said ELSE plays]
      /\ fewest' = IF gc = "SET" /\ s = "SET" /\ 0 < Active(r)
                        /\ Active(r) < fewest
                     THEN Active(r) ELSE fewest

Tick(r, near) ==
  /\ \E penalised \in {p \in BOOLEAN : p => "penalty" \in Faults} :
     \E s \in AfterPackets(r, penalised) : Conclude(r, s, FALSE, near)
  /\ UNCHANGED <<gc, mate, origin>>

(* Something other than packets and the team may make r play in this SET.  *)
Prompt(r) ==
  /\ gc = "SET" => Cardinality(origin \cup {r}) <= MAX_ORIGIN
  /\ origin' = IF gc = "SET" THEN origin \cup {r} ELSE origin

(* The robot hears a whistle, or what it takes for one.                    *)
Whistle(r) ==
  /\ Prompt(r)
  /\ \E s \in AfterPackets(r, FALSE), near \in BOOLEAN : Conclude(r, s, TRUE, near)
  /\ UNCHANGED <<gc, mate>>

(* A person presses the chest button.                                      *)
Press(r) ==
  /\ "button" \in Faults /\ Prompt(r)
  /\ \E s \in AfterPackets(r, FALSE), near \in BOOLEAN :
       Conclude(r, PressState(s), FALSE, near)
  /\ UNCHANGED <<gc, mate>>

-----------------------------------------------------------------------------
(* The team network.                                                       *)

(* What s broadcasts.  While it rewrites its blackboard, gameState is      *)
(* briefly its data.state.                                                 *)
Said(s) == {told[s]} \cup (IF "flicker" \in Faults THEN {state[s]} ELSE {})

(* The state of s is kept as it is.                                        *)
Receive_Raw(r, s) ==
  /\ mate' = [mate EXCEPT ![r][s] = told[s]]
  /\ UNCHANGED <<gc, state, told, behind, origin, fewest>>

(* r receives a message of s.                                              *)
Receive(r, s) ==
  /\ \E said \in Said(s) :
       mate' = [mate EXCEPT ![r][s] = IF said = "PLAYING" THEN said
                                                          ELSE "quiet"]
  /\ UNCHANGED <<gc, state, told, behind, origin, fewest>>

Out == {p \in Robots \X Robots : mate[p[1]][p[2]] = "out"}

(* r has received nothing from s for more than SECS_TILL_INCAPACITATED, or *)
(* receives that it is penalised, diving or picked up.                     *)
Incapacitate(r, s) ==
  /\ Cardinality(Out) < MAX_OUT
  /\ mate' = [mate EXCEPT ![r][s] = "out"]
  /\ UNCHANGED <<gc, state, told, behind, origin, fewest>>

Next ==
  \/ RefereeReady \/ RefereeSet \/ RefereePlay
  \/ \E r \in Robots :
       \/ Whistle(r) \/ Press(r)
       \/ \E near \in BOOLEAN : Tick(r, near)
       \/ \E s \in Robots : Receive(r, s) \/ Incapacitate(r, s)

Spec == Init /\ [][Next]_vars

(* Messages get through now and then, and every robot is near the centre   *)
(* circle now and then, for a whole tick.                                  *)
Fairness ==
  \A r \in Robots : /\ SF_vars(Tick(r, TRUE))
                    /\ \A s \in Robots : WF_vars(Receive(r, s))

FairSpec == Spec /\ Fairness
-----------------------------------------------------------------------------
(* A few robots that hear a whistle nobody blew, that missed the READY     *)
(* packets or that are still thought to be playing, do not start the team: *)
(* while they are less than 30% of the team mates any robot counts, no     *)
(* other robot plays, says it plays or is thought to, whatever is lost.    *)
FalseStartContained ==
  (gc = "SET" /\ 10 * Cardinality(origin) < 3 * fewest)
    => Started \subseteq origin

(* If enough of the team says PLAYING during SET, and no READY packet is   *)
(* still on its way to them, the whole team starts, unless the referee     *)
(* goes on first.                                                          *)
WhistleSpreads ==
  (/\ gc = "SET"
   /\ \E tellers \in SUBSET Robots :
        /\ 10 * Cardinality(tellers) >= 3 * Cardinality(Robots)
        /\ \A r \in tellers : told[r] = "PLAYING" /\ r \notin behind)
    ~> (gc # "SET" \/ \A r \in Robots : state[r] = "PLAYING")
=============================================================================
