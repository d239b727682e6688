----------------------------- MODULE GameState -----------------------------
(***************************************************************************)
(* How a robot's idea of the state of the game follows from what the       *)
(* GameController (the referee's computer) broadcasts, from the chest      *)
(* button, and from the kick-off whistle as it and its team mates heard    *)
(* it.  Operators only: GameController uses them for one robot's thread,   *)
(* KickOff for a team.                                                     *)
(***************************************************************************)
EXTENDS Integers

(* What the referee's computer can say...                                  *)
Phases == {"INITIAL", "READY", "SET", "PLAYING", "FINISHED"}

(* ... and what a robot can believe: runswift adds three values.           *)
Penalised  == {"PENALISED", "PENALISED_IN_SET"}
GameStates == Phases \cup Penalised \cup {"INVALID"}

(* A later SET overrides the robot's PLAYING...                            *)
ParseState_SetWins(current, phase, penalised) ==
  CASE penalised /\ phase = "SET" -> "PENALISED_IN_SET"
    [] penalised /\ phase # "SET" -> "PENALISED"
    [] OTHER -> phase

(* ... or a robot that plays early plays on through READY as well...       *)
ParseState_Stuck(current, phase, penalised) ==
  IF current = "PLAYING" THEN "PLAYING" ELSE phase

(* ... or a penalty lasts until the button is pressed...                   *)
ParseState_Lasting(current, phase, penalised) ==
  CASE current \in Penalised -> current
    [] penalised /\ current \notin Penalised -> "PENALISED"
    [] OTHER -> IF phase = "SET" /\ current = "PLAYING" THEN "PLAYING" ELSE phase

(* ... or penalties are looked at in SET only.                             *)
ParseState_SetOnly(current, phase, penalised) ==
  IF penalised /\ phase = "SET" THEN "PENALISED_IN_SET" ELSE phase

(* parseData: the state after a packet.  A robot that already plays stays  *)
(* PLAYING while the packets still say SET; a penalty of its own hides     *)
(* either.                                                                 *)
ParseState(current, phase, penalised) ==
  LET kept == IF phase = "SET" /\ current = "PLAYING" THEN "PLAYING" ELSE phase
  IN  IF penalised
        THEN IF kept = "SET" THEN "PENALISED_IN_SET" ELSE "PENALISED"
        ELSE kept

(* buttonUpdate: a press of the chest button penalises a robot in INITIAL  *)
(* or PLAYING, and makes any other play.                                   *)
PressState(current) ==
  IF current \in {"INITIAL", "PLAYING"} THEN "PENALISED" ELSE "PLAYING"

(* The robot forgets that it said PLAYING once the whistle is over.        *)
ToldState_Forgets(current, previous, heard) ==
  IF current = "SET" /\ heard THEN "PLAYING" ELSE current

(* What the robot tells its team: PLAYING if it is in SET and hears the    *)
(* whistle, or said PLAYING before.  heard stands for a whistle file       *)
(* younger than 3 seconds, with act_on_whistle.                            *)
ToldState(current, previous, heard) ==
  IF current = "SET" /\ (previous = "PLAYING" \/ heard) THEN "PLAYING"
                                                       ELSE current

(* The robot does not count itself among the active.                       *)
Enough_Selfless(playing, active) ==
  active > 0 /\ 10 * playing >= 3 * (active - 1)

(* The share of the active team mates that must say PLAYING:               *)
(* ratio >= 0.30, never computed when nobody is active.                    *)
Enough(playing, active) == active > 0 /\ 10 * playing >= 3 * active

(* The team's opinion is taken in every state.                             *)
TeamState_Always(current, playing, active, near) ==
  IF near /\ Enough(playing, active) THEN "PLAYING" ELSE current

(* A robot in SET plays if enough of its team does and it is near the      *)
(* centre circle.                                                          *)
TeamState(current, playing, active, near) ==
  IF current = "SET" /\ near /\ Enough(playing, active) THEN "PLAYING"
                                                        ELSE current
=============================================================================
