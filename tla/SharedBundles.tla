--------------------------- MODULE SharedBundles ---------------------------
(***************************************************************************)
(* How a robot shares what it has observed with a team mate.  The sender's *)
(* localisation gathers observations in its shared distribution, puts them *)
(* on the blackboard as a bundle, and empties the distribution when a flag *)
(* says that the transmitter has sent the bundle.  At the receiver another *)
(* flag says that a bundle has come in.  Localisation, the transmitter and *)
(* the receiver's handler are threads, and no lock guards the flags.       *)
(*                                                                         *)
(* An observation is a number; a bundle is the set of those in it.         *)
(* Abstracted: the estimates themselves, and a copy of a bundle that is    *)
(* torn by a write to it.                                                  *)
(***************************************************************************)
EXTENDS Integers, Sequences

CONSTANT MAX_OBS   \* how many observations are made

ASSUME BundleConstants == MAX_OBS \in Nat

VARIABLES
  \* the sender's localisation (Perception thread)
  loc,        \* where its tick is
  shared,     \* the observations in its shared distribution
  made,       \* the number of observations made
  \* the sender's blackboard
  bundle,
  outgoing,   \* havePendingOutgoingSharedBundle
  \* the sender's TeamTransmitter thread
  tx, carried,
  \* the network: at most one message is on its way
  net,
  \* the receiver's TeamReceiver handler
  rx, message,
  flag_copy,  \* its copy of the sender's incoming flag
  \* the receiver's blackboard
  incoming,   \* havePendingIncomingSharedBundle[sender]
  received,   \* data[sender]
  \* the receiver's localisation
  mate_loc,
  \* history, read by the properties only
  sent,       \* observations in some message...
  resent,     \* ... and in more than one
  late,       \* observations published while a message was being sent
  dropped,    \* observations reset away as sent, although they were not
  applied,    \* observations the receiver applied...
  twice,      \* ... more than once
  stale       \* was the incoming flag raised by writing back an old copy?

sender   == <<loc, shared, made, bundle, outgoing>>
transmit == <<tx, carried>>
receiver == <<rx, message, flag_copy, incoming, received, mate_loc>>
sendings == <<sent, resent, late, dropped>>
fusions  == <<applied, twice, stale>>
vars     == <<sender, transmit, net, receiver, sendings, fusions>>

Bundles == SUBSET (1..MAX_OBS)

TypeOK ==
  /\ loc \in {"begin", "localise", "bundle", "flag"}
  /\ tx \in {"idle", "clear", "send"}
  /\ rx \in {"idle", "flag", "other_flag", "data"}
  /\ mate_loc \in {"read", "clear"}
  /\ made \in 0..MAX_OBS
  /\ shared \in Bundles /\ bundle \in Bundles /\ carried \in Bundles
  /\ net \in {<<>>} \cup {<<b>> : b \in Bundles}
  /\ message \in Bundles /\ received \in Bundles
  /\ outgoing \in BOOLEAN /\ incoming \in BOOLEAN /\ flag_copy \in BOOLEAN
  /\ sent \in Bundles /\ resent \in Bundles
  /\ late \in Bundles /\ dropped \in Bundles
  /\ applied \in Bundles /\ twice \in Bundles /\ stale \in BOOLEAN

Init ==
  /\ loc = "begin" /\ tx = "idle" /\ rx = "idle" /\ mate_loc = "read"
  /\ made = 0
  /\ shared = {} /\ bundle = {} /\ carried = {} /\ message = {}
  /\ received = {} /\ net = <<>>
  /\ outgoing = FALSE /\ incoming = FALSE /\ flag_copy = FALSE
  /\ sent = {} /\ resent = {} /\ late = {} /\ dropped = {}
  /\ applied = {} /\ twice = {} /\ stale = FALSE

-----------------------------------------------------------------------------
(* The sender's localisation.                                              *)

Loc(from, to) == loc = from /\ loc' = to

(* The distribution is reset in every tick, sent or not.                   *)
HandleMine_Always ==
  /\ Loc("begin", "localise")
  /\ shared' = {}
  /\ dropped' = dropped \cup (shared \ (sent \cup carried))
  /\ UNCHANGED <<made, bundle, outgoing, transmit, net, receiver, sent,
                 resent, late, fusions>>

(* handleMySharedDistribution, possibly after a startOfPlayReset.          *)
HandleMine ==
  /\ Loc("begin", "localise")
  /\ \E mine \in {shared, {}} :
       /\ shared' = IF outgoing THEN mine ELSE {}
       /\ dropped' = IF outgoing THEN dropped
                     ELSE dropped \cup
                          (mine \ (sent \cup IF tx = "send" THEN carried ELSE {}))
  /\ UNCHANGED <<made, bundle, outgoing, transmit, net, receiver, sent,
                 resent, late, fusions>>

(* The robot sees something, or nothing...                                 *)
Localise ==
  /\ Loc("localise", "bundle")
  /\ \E new \in {{}, {made + 1}} \cap Bundles :
       /\ shared' = shared \cup new
       /\ made' = IF new = {} THEN made ELSE made + 1
  /\ UNCHANGED <<bundle, outgoing, transmit, net, receiver, sendings,
                 fusions>>

(* ... or, penalised, starts afresh.                                       *)
StartAfresh ==
  /\ Loc("localise", "bundle")
  /\ shared' = {}
  /\ UNCHANGED <<made, bundle, outgoing, transmit, net, receiver, sendings,
                 fusions>>

(* The bundle waits until the last one has been sent.                      *)
WriteBundle_Waits ==
  /\ Loc("bundle", "flag")
  /\ bundle' = IF outgoing THEN bundle ELSE shared
  /\ UNCHANGED <<shared, made, outgoing, transmit, net, receiver, sendings,
                 fusions>>

(* writeResultToBlackboard, up to the bundle...                            *)
WriteBundle ==
  /\ Loc("bundle", "flag")
  /\ bundle' = shared
  /\ late' = IF tx = "clear" THEN late \cup (shared \ carried) ELSE late
  /\ UNCHANGED <<shared, made, outgoing, transmit, net, receiver, sent,
                 resent, dropped, fusions>>

(* ... and the flag.                                                       *)
WriteFlag ==
  /\ Loc("flag", "begin")
  /\ outgoing' = TRUE
  /\ UNCHANGED <<shared, made, bundle, transmit, net, receiver, sendings,
                 fusions>>

-----------------------------------------------------------------------------
(* The sender's transmitter.  It sends five times a second whatever the    *)
(* flag says, and clears the flag before it sends.                         *)

Tx(from, to) == tx = from /\ tx' = to

ReadBundle ==
  /\ Tx("idle", "clear")
  /\ carried' = bundle
  /\ UNCHANGED <<sender, net, receiver, sendings, fusions>>

ClearFlag ==
  /\ Tx("clear", "send")
  /\ outgoing' = FALSE
  /\ UNCHANGED <<loc, shared, made, bundle, carried, net, receiver, sendings,
                 fusions>>

(* Messages pile up in the network.                                        *)
Send_PilesUp ==
  /\ Tx("send", "idle")
  /\ net' = net \o <<carried>>
  /\ sent' = sent \cup carried
  /\ resent' = resent \cup (sent \cap carried)
  /\ UNCHANGED <<sender, carried, receiver, late, dropped, fusions>>

(* The broadcast, which the network may lose.                              *)
Send ==
  /\ Tx("send", "idle")
  /\ \E lost \in BOOLEAN :
       net' = IF lost \/ net # <<>> THEN net ELSE <<carried>>
  /\ sent' = sent \cup carried
  /\ resent' = resent \cup (sent \cap carried)
  /\ UNCHANGED <<sender, carried, receiver, late, dropped, fusions>>

-----------------------------------------------------------------------------
(* The receiver.  The handler copies all flags, sets one and writes them   *)
(* back before it stores the message.                                      *)

Rx(from, to) == rx = from /\ rx' = to

Handle ==
  /\ Rx("idle", "flag") /\ net # <<>>
  /\ message' = net[1] /\ net' = <<>>
  /\ UNCHANGED <<sender, transmit, flag_copy, incoming, received, mate_loc,
                 sendings, fusions>>

SetFlag ==
  /\ Rx("flag", "data")
  /\ incoming' = TRUE
  /\ UNCHANGED <<sender, transmit, net, message, flag_copy, received,
                 mate_loc, sendings, fusions>>

StoreData ==
  /\ Rx("data", "idle")
  /\ received' = message
  /\ UNCHANGED <<sender, transmit, net, message, flag_copy, incoming,
                 mate_loc, sendings, fusions>>

(* A message of another team mate: this sender's flag is read...           *)
HandleOther ==
  /\ Rx("idle", "other_flag")
  /\ flag_copy' = incoming
  /\ UNCHANGED <<sender, transmit, net, message, incoming, received, mate_loc,
                 sendings, fusions>>

(* ... and written back.                                                   *)
SetOtherFlag ==
  /\ Rx("other_flag", "idle")
  /\ incoming' = flag_copy
  /\ stale' = (stale \/ (flag_copy /\ ~incoming))
  /\ UNCHANGED <<sender, transmit, net, message, flag_copy, received,
                 mate_loc, sendings, applied, twice>>

(* handleIncomingSharedUpdate, unless the receiver does not localise: what *)
(* has come in is fused into the receiver's own estimate.                  *)
HandleIncoming ==
  /\ mate_loc = "read" /\ mate_loc' = "clear"
  /\ \E localises \in BOOLEAN :
       LET fused == IF localises /\ incoming THEN received ELSE {}
       IN  /\ applied' = applied \cup fused
           /\ twice' = twice \cup (applied \cap fused)
  /\ UNCHANGED <<sender, transmit, net, rx, message, flag_copy, incoming,
                 received, sendings, stale>>

(* Localisation clears none of the flags...                                *)
ClearIncoming_Keeps ==
  /\ mate_loc = "clear" /\ mate_loc' = "read"
  /\ UNCHANGED <<sender, transmit, net, rx, message, flag_copy, incoming,
                 received, sendings, fusions>>

(* ... or all of them, once it has fused.                                  *)
ClearIncoming ==
  /\ mate_loc = "clear" /\ mate_loc' = "read"
  /\ incoming' = FALSE /\ stale' = FALSE
  /\ UNCHANGED <<sender, transmit, net, rx, message, flag_copy, received,
                 sendings, applied, twice>>

-----------------------------------------------------------------------------
Localisation == HandleMine \/ Localise \/ StartAfresh \/ WriteBundle \/ WriteFlag
Transmission == ReadBundle \/ ClearFlag \/ Send
Reception    == Handle \/ SetFlag \/ StoreData \/ HandleOther \/ SetOtherFlag
                  \/ HandleIncoming \/ ClearIncoming

Next == Localisation \/ Transmission \/ Reception

Spec == Init /\ [][Next]_vars

(* The sender's threads are scheduled.                                     *)
FairSpec == Spec /\ WF_vars(Localisation) /\ WF_vars(Transmission)
-----------------------------------------------------------------------------
(* An observation that is reset away as sent has been sent, unless it came *)
(* to the blackboard between the transmitter's read of the bundle and its  *)
(* clearing of the flag: the flag is cleared for a newer bundle than the   *)
(* one that is sent.                                                       *)
DroppedWasLate == dropped \subseteq late

(* Nothing waits for ever: what the robot has observed is sent, or leaves  *)
(* the shared distribution by a reset, however the threads interleave.     *)
EverythingLeaves ==
  \A o \in 1..MAX_OBS : o \in shared ~> (o \in sent \/ o \notin shared)

(* An observation is fused again only if it was sent in two messages, if   *)
(* the flag of the next message is up before its data are there, or if the *)
(* flag of one that was fused is up again because the handler, busy with   *)
(* another team mate's message, wrote back a copy it took before.          *)
TwiceNeedsRace ==
  [][\A o \in twice' \ twice : o \in resent \/ rx = "data" \/ stale]_vars

(* What comments of SharedDistribution.hpp say, and the code does not do.  *)

(* "we reset it every time it is broadcast to our teammates": localisation *)
(* begins the tick after a broadcast without what has been broadcast.      *)
ResetAfterBroadcast ==
  [][loc = "begin" /\ loc' = "localise" => shared' \cap sent = {}]_vars
=============================================================================
