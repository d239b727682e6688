--------------------------- MODULE ActionRequest ---------------------------
(***************************************************************************)
(* How what behaviour wants reaches the motion of the robot: the request   *)
(* lies twice on the blackboard.  The Perception thread writes one copy    *)
(* and then turns readBuf to it; the readers, the Motion thread first of   *)
(* all, take the copy readBuf shows.  No lock is held, and a configuration *)
(* command from Off-Nao rewrites the copy being shown in place.            *)
(*                                                                         *)
(* A request is the number of the Perception tick that made it.  A copy is *)
(* written, or read, between two steps.                                    *)
(***************************************************************************)
EXTENDS Integers

CONSTANTS
  Readers,      \* threads that read the request
  MAX_REQUESTS, \* how many requests Perception makes
  MAX_CONFIGS   \* how many configuration commands Off-Nao sends

ASSUME RequestConstants == MAX_REQUESTS \in Nat /\ MAX_CONFIGS \in Nat

VARIABLES
  \* the blackboard
  readBuf,
  request,     \* each copy: the tick that wrote it, or began to
  \* writers
  perception,  \* where the Perception thread is in its write
  writeBuf, made,
  offnao,      \* is Off-Nao rewriting the copy being shown?
  configs,
  \* readers
  reader,      \* where each reader is
  buf,         \* the copy it reads
  wanted,      \* the request that readBuf showed it
  \* history, read by the properties only
  halfway,     \* copies whose last write was never completed
  torn,        \* readers whose copy of the request met a write to it
  lapped,      \* readers since whose look at readBuf it was turned
  meddled      \* readers whose copy was rewritten in place since

shown    == <<readBuf, request>>
writers  == <<perception, writeBuf, made, offnao, configs>>
readers  == <<reader, buf, wanted>>
history  == <<halfway, torn, lapped, meddled>>
vars     == <<shown, writers, readers, history>>

Bufs     == {0, 1}
Requests == 0..MAX_REQUESTS

TypeOK ==
  /\ readBuf \in Bufs /\ writeBuf \in Bufs
  /\ request \in [Bufs -> Requests]
  /\ perception \in {"think", "write", "publish"}
  /\ made \in Requests
  /\ offnao \in BOOLEAN
  /\ configs \in 0..MAX_CONFIGS
  /\ reader \in [Readers -> {"look", "copy", "copying"}]
  /\ buf \in [Readers -> Bufs]
  /\ wanted \in [Readers -> Requests]
  /\ halfway \in SUBSET Bufs
  /\ torn \in SUBSET Readers /\ lapped \in SUBSET Readers
  /\ meddled \in SUBSET Readers

Init ==
  /\ readBuf = 0 /\ request = [b \in Bufs |-> 0]
  /\ perception = "think" /\ writeBuf = 0 /\ made = 0
  /\ offnao = FALSE /\ configs = 0
  /\ reader = [r \in Readers |-> "look"]
  /\ buf = [r \in Readers |-> 0] /\ wanted = [r \in Readers |-> 0]
  /\ halfway = {} /\ torn = {} /\ lapped = {} /\ meddled = {}

(* The readers that have been shown b and are not done, and those of them  *)
(* in the middle of their copy.                                            *)
Shown(b)   == {r \in Readers : reader[r] # "look" /\ buf[r] = b}
Copying(b) == {r \in Shown(b) : reader[r] = "copying"}

-----------------------------------------------------------------------------
(* The Perception thread.                                                  *)

(* The copy to write is always the same one.                               *)
BeginWrite_Fixed ==
  /\ perception = "think" /\ made < MAX_REQUESTS
  /\ perception' = "write"
  /\ writeBuf' = 1
  /\ made' = made + 1
  /\ request' = [request EXCEPT ![1] = made + 1]
  /\ halfway' = halfway \cup {1}
  /\ torn' = torn \cup Copying(1)
  /\ UNCHANGED <<readBuf, offnao, configs, readers, lapped, meddled>>

(* The copy is shown before it is written.                                 *)
BeginWrite_Shown ==
  LET other == (readBuf + 1) % 2
  IN  /\ perception = "think" /\ made < MAX_REQUESTS
      /\ perception' = "write"
      /\ writeBuf' = other /\ readBuf' = other
      /\ made' = made + 1
      /\ request' = [request EXCEPT ![other] = made + 1]
      /\ halfway' = halfway \cup {other}
      /\ torn' = torn \cup Copying(other)
      /\ lapped' = lapped \cup {r \in Readers : reader[r] # "look"}
      /\ UNCHANGED <<offnao, configs, readers, meddled>>

(* The skills have run, or a remote control has spoken: the copy that is   *)
(* not shown is written.                                                   *)
BeginWrite ==
  LET other == (readBuf + 1) % 2
  IN  /\ perception = "think" /\ made < MAX_REQUESTS
      /\ perception' = "write"
      /\ writeBuf' = other
      /\ made' = made + 1
      /\ request' = [request EXCEPT ![other] = made + 1]
      /\ halfway' = halfway \cup {other}
      /\ torn' = torn \cup Copying(other)
      /\ UNCHANGED <<readBuf, offnao, configs, readers, lapped, meddled>>

EndWrite ==
  /\ perception = "write" /\ perception' = "publish"
  /\ halfway' = halfway \ {writeBuf}
  /\ UNCHANGED <<shown, writeBuf, made, offnao, configs, readers, torn, lapped,
                 meddled>>

(* readBuf runs on instead of turning.                                     *)
Publish_Next ==
  /\ perception = "publish" /\ perception' = "think"
  /\ readBuf' = readBuf + 1
  /\ UNCHANGED <<request, writeBuf, made, offnao, configs, readers, history>>

(* readBuf turns to the new copy, and so does an Off-Nao in mid command,   *)
(* which looks readBuf up anew for every field.                            *)
Publish ==
  /\ perception = "publish" /\ perception' = "think"
  /\ readBuf' = writeBuf
  /\ lapped' = lapped \cup {r \in Readers : reader[r] # "look"}
  /\ torn' = IF offnao THEN torn \cup Copying(writeBuf) ELSE torn
  /\ meddled' = IF offnao THEN meddled \cup Shown(writeBuf) ELSE meddled
  /\ UNCHANGED <<request, writeBuf, made, offnao, configs, readers, halfway>>

(* A tick that ends early shows what it was writing.                       *)
Restart_Shows ==
  /\ perception # "think" /\ perception' = "think"
  /\ readBuf' = writeBuf
  /\ lapped' = lapped \cup {r \in Readers : reader[r] # "look"}
  /\ UNCHANGED <<request, writeBuf, made, offnao, configs, readers, halfway,
                 torn, meddled>>

(* An exception, a fault or an overrun ends the tick; a new Perception     *)
(* begins.                                                                 *)
Restart ==
  /\ perception # "think" /\ perception' = "think"
  /\ UNCHANGED <<shown, writeBuf, made, offnao, configs, readers, history>>

-----------------------------------------------------------------------------
(* BehaviourBlackboard::readOptions, on Off-Nao's thread.                  *)

BeginConfig ==
  /\ ~offnao /\ configs < MAX_CONFIGS
  /\ offnao' = TRUE /\ configs' = configs + 1
  /\ torn' = torn \cup Copying(readBuf)
  /\ meddled' = meddled \cup Shown(readBuf)
  /\ UNCHANGED <<shown, perception, writeBuf, made, readers, halfway, lapped>>

EndConfig ==
  /\ offnao /\ offnao' = FALSE
  /\ UNCHANGED <<shown, perception, writeBuf, made, configs, readers, history>>

-----------------------------------------------------------------------------
(* A reader.                                                               *)

(* The first copy is read, whichever is shown.                             *)
Look_First(r) ==
  /\ reader[r] = "look"
  /\ reader' = [reader EXCEPT ![r] = "copy"]
  /\ buf' = [buf EXCEPT ![r] = 0]
  /\ wanted' = [wanted EXCEPT ![r] = request[readBuf]]
  /\ meddled' = IF offnao /\ readBuf = 0 THEN meddled \cup {r} ELSE meddled
  /\ UNCHANGED <<shown, writers, halfway, torn, lapped>>

(* It notes which copy is shown...                                         *)
Look(r) ==
  /\ reader[r] = "look"
  /\ reader' = [reader EXCEPT ![r] = "copy"]
  /\ buf' = [buf EXCEPT ![r] = readBuf]
  /\ wanted' = [wanted EXCEPT ![r] = request[readBuf]]
  /\ meddled' = IF offnao THEN meddled \cup {r} ELSE meddled
  /\ UNCHANGED <<shown, writers, halfway, torn, lapped>>

(* ... and copies it...                                                    *)
BeginCopy(r) ==
  /\ reader[r] = "copy"
  /\ reader' = [reader EXCEPT ![r] = "copying"]
  /\ torn' = IF buf[r] \in halfway \/ (offnao /\ buf[r] = readBuf)
               THEN torn \cup {r} ELSE torn
  /\ UNCHANGED <<shown, writers, buf, wanted, halfway, lapped, meddled>>

(* ... to act on the request.                                              *)
EndCopy(r) ==
  /\ reader[r] = "copying"
  /\ reader' = [reader EXCEPT ![r] = "look"]
  /\ torn' = torn \ {r} /\ lapped' = lapped \ {r} /\ meddled' = meddled \ {r}
  /\ UNCHANGED <<shown, writers, buf, wanted, halfway>>

Next ==
  \/ BeginWrite \/ EndWrite \/ Publish \/ Restart
  \/ BeginConfig \/ EndConfig
  \/ \E r \in Readers : Look(r) \/ BeginCopy(r) \/ EndCopy(r)

Spec == Init /\ [][Next]_vars
-----------------------------------------------------------------------------
(* What is shown is a complete request, even when Perception was ended in  *)
(* the middle of a write and began anew.                                   *)
ShownWhole == readBuf \notin halfway

(* A reader gets the very request it was shown, whole, unless readBuf was  *)
(* turned since it looked or Off-Nao rewrote its copy: one Perception tick *)
(* that overlaps with the copy is harmless as long as it does not publish. *)
WrongNeedsLap ==
  \A r \in Readers :
    (reader[r] = "copying" /\ (r \in torn \/ request[buf[r]] # wanted[r]))
      => r \in lapped \cup meddled

-----------------------------------------------------------------------------
(* What a reader would have if it ended now, and what is shown.            *)
Holding(r) ==
  IF reader[r] = "look" THEN -2
  ELSE IF r \in torn THEN -1
  ELSE request[buf[r]]

Showing == IF readBuf \in halfway THEN -1 ELSE request[readBuf]

(* Readers that were not overtaken.                                        *)
Undisturbed == {r \in Readers : reader[r] # "look"} \ (lapped \cup meddled)

Register == INSTANCE RequestRegister
  WITH value     <- Showing,
       held      <- [r \in Readers |-> Holding(r)],
       owed      <- Undisturbed,
       rewriting <- offnao

(* The two copies and readBuf are a register of requests: the request      *)
(* shown is whole and later than those before, also after a Perception     *)
(* that ended halfway; a reader gets it unless it was overtaken.           *)
ImplementsRegister == Register!Spec
=============================================================================
