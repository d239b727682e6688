------------------------ MODULE SharedBundlesProofs ------------------------
(***************************************************************************)
(* What the sender's reset throws away, for any number of observations.    *)
(***************************************************************************)
EXTENDS SharedBundles, TLAPS

(* What the transmitter has on its way to the network, the flag cleared.   *)
OnItsWay == IF tx = "send" THEN carried ELSE {}

(* Between two ticks the blackboard holds the whole shared distribution.   *)
Published == loc \in {"begin", "flag"} => bundle = shared

(* While the transmitter is about to clear the flag, what it does not      *)
(* carry came too late for it.                                             *)
Overtaken == tx = "clear" => bundle \subseteq carried \cup late

(* A cleared flag vouches for the whole distribution, but for what was     *)
(* late.                                                                   *)
Vouched ==
  loc = "begin" /\ ~outgoing => shared \subseteq sent \cup late \cup OnItsWay

IInv == Published /\ Overtaken /\ Vouched /\ DroppedWasLate

(* The receiver touches nothing that the invariant speaks of.              *)
LEMMA ReceptionIsElsewhere ==
  ASSUME IInv, Reception \/ UNCHANGED vars
  PROVE  IInv'
<1>1. UNCHANGED <<loc, shared, bundle, outgoing, tx, carried, sent, late,
                  dropped>>
  BY DEF Reception, Handle, SetFlag, StoreData, HandleOther, SetOtherFlag,
         HandleIncoming, ClearIncoming, vars, sender, transmit, sendings
<1> QED
  BY <1>1 DEF IInv, Published, Overtaken, Vouched, OnItsWay, DroppedWasLate

LEMMA IInvStays == IInv /\ [Next]_vars => IInv'
<1> SUFFICES ASSUME IInv, [Next]_vars PROVE IInv'
  OBVIOUS
<1> USE DEF IInv, Published, Overtaken, Vouched, OnItsWay, DroppedWasLate,
            sendings
<1>1. CASE HandleMine
  <2>1. PICK mine \in {shared, {}} :
          dropped' = IF outgoing THEN dropped
                     ELSE dropped \cup
                          (mine \ (sent \cup IF tx = "send" THEN carried ELSE {}))
    BY <1>1 DEF HandleMine
  <2>2. loc = "begin" /\ loc' = "localise"
    BY <1>1 DEF HandleMine, Loc
  <2>3. UNCHANGED <<bundle, tx, carried, sent, late>>
    BY <1>1 DEF HandleMine, transmit
  <2>4. ~outgoing => mine \ (sent \cup IF tx = "send" THEN carried ELSE {})
                       \subseteq late
    BY <2>1, <2>2
  <2>5. dropped' \subseteq late'
    BY <2>1, <2>3, <2>4
  <2> QED
    BY <2>2, <2>3, <2>5
<1>2. CASE Localise \/ StartAfresh
  BY <1>2 DEF Localise, StartAfresh, Loc, transmit
<1>3. CASE WriteBundle
  BY <1>3 DEF WriteBundle, Loc, transmit
<1>4. CASE WriteFlag
  BY <1>4 DEF WriteFlag, Loc, transmit
<1>5. CASE ReadBundle
  BY <1>5 DEF ReadBundle, Tx, sender
<1>6. CASE ClearFlag
  BY <1>6 DEF ClearFlag, Tx
<1>7. CASE Send
  BY <1>7 DEF Send, Tx, sender
<1>8. CASE Reception \/ UNCHANGED vars
  BY <1>8, ReceptionIsElsewhere
<1> QED
  BY <1>1, <1>2, <1>3, <1>4, <1>5, <1>6, <1>7, <1>8
     DEF Next, Localisation, Transmission

(* An observation that is reset away unsent came between the transmitter's *)
(* read of the bundle and its clearing of the flag.                        *)
THEOREM DroppedLate == Spec => []DroppedWasLate
<1>1. Init => IInv
  BY DEF Init, IInv, Published, Overtaken, Vouched, OnItsWay, DroppedWasLate
<1>2. IInv => DroppedWasLate
  BY DEF IInv
<1> QED
  BY <1>1, <1>2, IInvStays, PTL DEF Spec

-----------------------------------------------------------------------------
(* The types of the variables.                                             *)
LEMMA BundleOps ==
  /\ {} \in Bundles
  /\ \A a, b \in Bundles : a \cup b \in Bundles /\ a \cap b \in Bundles
                            /\ a \ b \in Bundles
BY DEF Bundles

LEMMA TypeStays ==
  ASSUME TypeOK, [Next]_vars
  PROVE  TypeOK'
<1> USE BundleOps DEF TypeOK, sender, transmit, receiver, sendings, fusions,
                      Loc, Tx, Rx
<1>1. CASE HandleMine
  <2>1. PICK mine \in {shared, {}} :
          /\ shared' = IF outgoing THEN mine ELSE {}
          /\ dropped' = IF outgoing THEN dropped
                        ELSE dropped \cup
                             (mine \ (sent \cup IF tx = "send" THEN carried ELSE {}))
    BY <1>1 DEF HandleMine
  <2> DEFINE away == IF tx = "send" THEN carried ELSE {}
  <2>2. mine \in Bundles /\ away \in Bundles
    OBVIOUS
  <2>3. mine \ (sent \cup away) \in Bundles
    BY <2>2
  <2>4. shared' \in Bundles /\ dropped' \in Bundles
    BY <2>1, <2>2, <2>3
  <2> QED
    BY <1>1, <2>4 DEF HandleMine
<1>2. CASE Localise
  <2>1. PICK new \in {{}, {made + 1}} \cap Bundles :
          /\ shared' = shared \cup new
          /\ made' = IF new = {} THEN made ELSE made + 1
    BY <1>2 DEF Localise
  <2>2. made' \in 0..MAX_OBS
    BY <2>1, BundleConstants DEF Bundles
  <2>3. shared' \in Bundles
    BY <2>1
  <2> QED
    BY <1>2, <2>2, <2>3 DEF Localise
<1>3. CASE StartAfresh
  BY <1>3 DEF StartAfresh
<1>4. CASE WriteBundle
  BY <1>4 DEF WriteBundle
<1>5. CASE WriteFlag
  BY <1>5 DEF WriteFlag
<1>6. CASE ReadBundle
  BY <1>6 DEF ReadBundle
<1>7. CASE ClearFlag
  BY <1>7 DEF ClearFlag
<1>8. CASE Send
  <2>1. net' \in {net, <<carried>>}
    BY <1>8 DEF Send
  <2> QED
    BY <1>8, <2>1 DEF Send
<1>9. CASE Handle
  <2>1. message' = net[1] /\ net' = <<>> /\ net # <<>>
    BY <1>9 DEF Handle
  <2>2. PICK b \in Bundles : net = <<b>>
    BY <2>1
  <2>3. message' \in Bundles
    BY <2>1, <2>2
  <2> QED
    BY <1>9, <2>1, <2>3 DEF Handle
<1>10. CASE SetFlag
  BY <1>10 DEF SetFlag
<1>11. CASE StoreData
  BY <1>11 DEF StoreData
<1>12. CASE HandleOther
  BY <1>12 DEF HandleOther
<1>13. CASE SetOtherFlag
  BY <1>13 DEF SetOtherFlag
<1>14. CASE HandleIncoming
  <2>1. PICK fused \in {received, {}} :
          applied' = applied \cup fused /\ twice' = twice \cup (applied \cap fused)
    BY <1>14 DEF HandleIncoming
  <2>2. applied' \in Bundles /\ twice' \in Bundles
    BY <2>1
  <2> QED
    BY <1>14, <2>2 DEF HandleIncoming
<1>15. CASE ClearIncoming
  BY <1>15 DEF ClearIncoming
<1>16. CASE UNCHANGED vars
  BY <1>16 DEF vars
<1> QED
  BY <1>1, <1>2, <1>3, <1>4, <1>5, <1>6, <1>7, <1>8, <1>9, <1>10, <1>11, <1>12,
     <1>13, <1>14, <1>15, <1>16 DEF Next, Localisation, Transmission, Reception

(* For any number of observations: at most one message is on its way, and  *)
(* every bundle is a set of observations.                                  *)
THEOREM TypeCorrect == Spec => []TypeOK
<1>1. Init => TypeOK
  <2>1. 0 \in 0..MAX_OBS
    BY BundleConstants
  <2> QED
    BY <2>1, BundleOps DEF Init, TypeOK
<1>2. TypeOK /\ [Next]_vars => TypeOK'
  BY TypeStays
<1> QED
  BY <1>1, <1>2, PTL DEF Spec

-----------------------------------------------------------------------------
(* Why an observation is fused twice.  One that is in a single message is  *)
(* in one place at a time on its way: the network, the handler's hands,    *)
(* the receiver's blackboard.                                              *)
InNet     == IF net = <<>> THEN {} ELSE net[1]
InHand    == IF rx \in {"flag", "data"} THEN message ELSE {}
Arrived   == received \cup applied

OnePlace ==
  /\ InNet \cup InHand \cup Arrived \subseteq sent
  /\ InNet \cap (InHand \cup Arrived) \subseteq resent
  /\ InHand \cap Arrived \subseteq resent

(* What the flag announces, the handler's two lines and a stale copy       *)
(* aside, has not been fused yet.                                          *)
Fresh ==
  incoming /\ rx # "data" /\ mate_loc = "read" /\ ~stale
    => received \cap applied \subseteq resent

Carried == OnePlace /\ Fresh

LEMMA SenderCarries ==
  ASSUME TypeOK, Carried, Localisation \/ Transmission
  PROVE  Carried'
<1> USE DEF Carried, OnePlace, Fresh, Arrived, receiver, sendings, fusions
<1>1. CASE Send
  <2>1. /\ net' = net \/ net' = <<carried>>
        /\ sent' = sent \cup carried
        /\ resent' = resent \cup (sent \cap carried)
        /\ UNCHANGED <<rx, message, incoming, received, mate_loc, applied,
                       stale>>
    BY <1>1 DEF Send
  <2>2. InNet' \in {InNet, carried} /\ InHand' = InHand
    BY <2>1 DEF InNet, InHand
  <2> HIDE DEF InNet, InHand
  <2> QED
    BY <2>1, <2>2
<1>2. CASE Localisation \/ ReadBundle \/ ClearFlag
  <2>1. UNCHANGED <<net, rx, message, incoming, received, mate_loc, sent,
                    resent, applied, stale>>
    BY <1>2 DEF Localisation, HandleMine, Localise, StartAfresh, WriteBundle,
                WriteFlag, ReadBundle, ClearFlag
  <2>2. InNet' = InNet /\ InHand' = InHand
    BY <2>1 DEF InNet, InHand
  <2> QED
    BY <2>1, <2>2
<1> QED
  BY <1>1, <1>2 DEF Transmission

LEMMA ReceiverCarries ==
  ASSUME TypeOK, Carried, Reception
  PROVE  Carried'
<1> USE DEF Carried, OnePlace, Fresh, Arrived, sendings, fusions, Rx
<1>1. CASE Handle
  <2>1. /\ InNet' = {} /\ InHand' = InNet
        /\ UNCHANGED <<incoming, received, mate_loc, sent, resent, applied,
                       stale>>
        /\ rx # "data" /\ rx' # "data"
    BY <1>1 DEF Handle, InNet, InHand
  <2> HIDE DEF InNet, InHand
  <2> QED
    BY <2>1
<1>2. CASE SetFlag
  <2>1. /\ InNet' = InNet /\ InHand' = InHand /\ rx' = "data"
        /\ UNCHANGED <<received, mate_loc, sent, resent, applied, stale>>
    BY <1>2 DEF SetFlag, InNet, InHand
  <2> QED
    BY <2>1
<1>3. CASE StoreData
  <2>1. /\ InNet' = InNet /\ InHand' = {} /\ received' = InHand
        /\ UNCHANGED <<incoming, mate_loc, sent, resent, applied, stale>>
    BY <1>3 DEF StoreData, InNet, InHand
  <2> QED
    BY <2>1
<1>4. CASE HandleOther \/ SetOtherFlag
  <2>1. /\ InNet' = InNet /\ InHand' = InHand
        /\ UNCHANGED <<received, mate_loc, sent, resent, applied>>
        /\ rx # "data" /\ (incoming' /\ ~stale' => incoming /\ ~stale)
    BY <1>4 DEF HandleOther, SetOtherFlag, InNet, InHand, TypeOK
  <2> QED
    BY <2>1
<1>5. CASE HandleIncoming
  <2>1. PICK fused \in {received, {}} : applied' = applied \cup fused
    BY <1>5 DEF HandleIncoming
  <2>2. /\ InNet' = InNet /\ InHand' = InHand /\ mate_loc' = "clear"
        /\ UNCHANGED <<received, sent, resent>>
    BY <1>5 DEF HandleIncoming, InNet, InHand
  <2> HIDE DEF InNet, InHand
  <2> QED
    BY <2>1, <2>2
<1>6. CASE ClearIncoming
  <2>1. /\ InNet' = InNet /\ InHand' = InHand /\ ~incoming'
        /\ UNCHANGED <<received, sent, resent, applied>>
    BY <1>6 DEF ClearIncoming, InNet, InHand
  <2> QED
    BY <2>1
<1> QED
  BY <1>1, <1>2, <1>3, <1>4, <1>5, <1>6 DEF Reception

LEMMA CarriedStays == TypeOK /\ Carried /\ [Next]_vars => Carried'
<1>1. ASSUME Carried, UNCHANGED vars PROVE Carried'
  BY <1>1 DEF vars, Carried, OnePlace, Fresh, InNet, InHand, Arrived,
              receiver, sendings, fusions
<1> QED
  BY <1>1, SenderCarries, ReceiverCarries DEF Next

(* An observation is fused again only if it was sent again, or if one of   *)
(* the two races between the receiver's handler and its localisation has   *)
(* announced it again, for any number of observations.                     *)
THEOREM FusedTwice == Spec => TwiceNeedsRace
<1>1. Init => Carried
  BY DEF Init, Carried, OnePlace, Fresh, InNet, InHand, Arrived
<1>2. TypeOK /\ Carried /\ [Next]_vars
        => [\A o \in twice' \ twice : o \in resent \/ rx = "data" \/ stale]_vars
  <2> SUFFICES ASSUME Carried, Next, NEW o \in twice' \ twice,
                      rx # "data", ~stale
               PROVE  o \in resent
    OBVIOUS
  <2>1. HandleIncoming
    BY DEF Next, Localisation, Transmission, Reception, HandleMine, Localise,
           StartAfresh, WriteBundle, WriteFlag, ReadBundle, ClearFlag, Send,
           Handle, SetFlag, StoreData, HandleOther, SetOtherFlag,
           ClearIncoming, fusions
  <2>2. mate_loc = "read" /\ incoming /\ o \in received \cap applied
    BY <2>1 DEF HandleIncoming
  <2> QED
    BY <2>2 DEF Carried, Fresh
<1> QED
  BY <1>1, <1>2, CarriedStays, TypeCorrect, PTL DEF Spec, TwiceNeedsRace

-----------------------------------------------------------------------------
(* Nothing waits for ever.  The prover knows no ENABLED, so that weak      *)
(* fairness is written out: neither thread of the sender ever comes to a   *)
(* place where it has no step, so a fair one goes on for ever.             *)
SenderRuns == []<><<Localisation>>_vars /\ []<><<Transmission>>_vars

Inv == TypeOK /\ IInv

(* What becomes of observation o: it waits for the bundle, is on the       *)
(* blackboard while the transmitter has an older bundle in its hands, and  *)
(* is taken by it.                                                         *)
Observed(o) == o \in shared
Gone(o)     == o \in sent \/ o \notin shared
Seen(o)     == ~Gone(o) /\ loc = "localise"
Localised(o) == ~Gone(o) /\ loc = "bundle"
Shown(o)    == ~Gone(o) /\ o \in bundle
Passed(o)   == Shown(o) /\ tx = "clear" /\ o \notin carried
Sending(o)  == Shown(o) /\ tx = "send" /\ o \notin carried
Resting(o)  == Shown(o) /\ tx = "idle"
Taken(o)    == Shown(o) /\ tx = "clear" /\ o \in carried
Leaving(o)  == Shown(o) /\ tx = "send" /\ o \in carried

(* What the other threads do to what localisation, or the transmitter, is  *)
(* doing with an observation.                                              *)
LEMMA Elsewhere ==
  ASSUME Reception \/ UNCHANGED vars
  PROVE  UNCHANGED <<loc, shared, bundle, tx, carried, sent>>
BY DEF Reception, Handle, SetFlag, StoreData, HandleOther, SetOtherFlag,
       HandleIncoming, ClearIncoming, vars, sender, transmit, sendings

LEMMA LocalisationGoesOn ==
  ASSUME IInv, NEW o, ~Gone(o), Localisation
  PROVE  /\ UNCHANGED <<tx, carried, sent>>
         /\ \/ Gone(o)'
            \/ ~Gone(o)' /\ Shown(o)' /\ loc # "localise"
            \/ ~Gone(o)' /\ loc = "localise" /\ loc' = "bundle" /\ bundle' = bundle
<1> USE DEF IInv, Published, Gone, Shown, Loc, transmit, sendings
<1>1. CASE HandleMine
  BY <1>1 DEF HandleMine
<1>2. CASE Localise \/ StartAfresh
  BY <1>2 DEF Localise, StartAfresh
<1>3. CASE WriteBundle \/ WriteFlag
  BY <1>3 DEF WriteBundle, WriteFlag
<1> QED
  BY <1>1, <1>2, <1>3 DEF Localisation

LEMMA TransmissionGoesOn ==
  ASSUME NEW o, ~Gone(o), Transmission
  PROVE  /\ UNCHANGED <<loc, shared, bundle>>
         /\ tx = "idle" => tx' = "clear" /\ carried' = bundle
         /\ tx = "clear" => tx' = "send" /\ carried' = carried
         /\ tx = "send" => tx' = "idle" /\ sent' = sent \cup carried
         /\ tx # "send" => sent' = sent
BY DEF Transmission, ReadBundle, ClearFlag, Send, Tx, sender, sendings

(* One step of any thread moves an observation on or leaves it where it    *)
(* is, and a step of the thread whose turn it is moves it on.              *)
LEMMA OnToTheBoard ==
  ASSUME Inv, NEW o, [Next]_vars
  PROVE  /\ Seen(o) => Seen(o)' \/ Localised(o)' \/ Gone(o)'
         /\ Localised(o) => Localised(o)' \/ Shown(o)' \/ Gone(o)'
         /\ Localisation /\ Seen(o) => Localised(o)' \/ Gone(o)'
         /\ Localisation /\ Localised(o) => Shown(o)' \/ Gone(o)'
<1> USE DEF Inv, Seen, Localised, Gone, Shown
<1>1. CASE Localisation
  BY <1>1, LocalisationGoesOn
<1>2. CASE Transmission
  <2>1. UNCHANGED <<loc, shared, bundle>> \/ Gone(o)
    BY <1>2, TransmissionGoesOn
  <2>2. ~Localisation \/ Gone(o) \/ loc \notin {"localise", "bundle"}
    BY <2>1 DEF Localisation, HandleMine, Localise, StartAfresh, WriteBundle,
                WriteFlag, Loc
  <2> QED
    BY <2>1, <2>2
<1>3. CASE Reception \/ UNCHANGED vars
  <2>1. UNCHANGED <<loc, shared, bundle, sent>>
    BY <1>3, Elsewhere
  <2>2. ~Localisation \/ loc \notin {"localise", "bundle"}
    BY <2>1 DEF Localisation, HandleMine, Localise, StartAfresh, WriteBundle,
                WriteFlag, Loc
  <2> QED
    BY <2>1, <2>2
<1> QED
  BY <1>1, <1>2, <1>3 DEF Next

LEMMA OffTheBoard ==
  ASSUME Inv, NEW o, [Next]_vars
  PROVE  /\ Shown(o) => Shown(o)' \/ Gone(o)'
         /\ Passed(o) => Passed(o)' \/ Sending(o)' \/ Gone(o)'
         /\ Sending(o) => Sending(o)' \/ Resting(o)' \/ Gone(o)'
         /\ Resting(o) => Resting(o)' \/ Taken(o)' \/ Gone(o)'
         /\ Taken(o) => Taken(o)' \/ Leaving(o)' \/ Gone(o)'
         /\ Leaving(o) => Leaving(o)' \/ Gone(o)'
         /\ Transmission =>
              /\ Passed(o) => Sending(o)' \/ Gone(o)'
              /\ Sending(o) => Resting(o)' \/ Gone(o)'
              /\ Resting(o) => Taken(o)' \/ Gone(o)'
              /\ Taken(o) => Leaving(o)' \/ Gone(o)'
              /\ Leaving(o) => Gone(o)'
<1> USE DEF Inv, Gone, Shown, Passed, Sending, Resting, Taken, Leaving
<1>1. CASE Transmission
  BY <1>1, TransmissionGoesOn
<1>2. CASE Localisation \/ Reception \/ UNCHANGED vars
  <2>1. Gone(o) \/ UNCHANGED <<tx, carried, sent>>
    BY <1>2, LocalisationGoesOn, Elsewhere
  <2>2. Shown(o) => Shown(o)' \/ Gone(o)'
    BY <1>2, LocalisationGoesOn, Elsewhere
  <2>3. Gone(o) \/ ~Transmission
    BY <2>1 DEF Transmission, ReadBundle, ClearFlag, Send, Tx
  <2> QED
    BY <2>1, <2>2, <2>3
<1> QED
  BY <1>1, <1>2 DEF Next

(* However the sender's two threads interleave with each other and with    *)
(* the receiver, an observation is sent or reset away.                     *)
THEOREM NothingWaits == Spec /\ SenderRuns => EverythingLeaves
<1> SUFFICES ASSUME NEW o \in 1..MAX_OBS
             PROVE  Spec /\ SenderRuns => (Observed(o) ~> Gone(o))
  BY DEF EverythingLeaves, Gone, Observed
<1>1. Inv /\ Observed(o) => Seen(o) \/ Localised(o) \/ Shown(o) \/ Gone(o)
  BY DEF Inv, TypeOK, IInv, Published, Observed, Seen, Localised, Shown, Gone
<1>2. Inv /\ Shown(o) =>
        Passed(o) \/ Sending(o) \/ Resting(o) \/ Taken(o) \/ Leaving(o)
  BY DEF Inv, TypeOK, Passed, Sending, Resting, Taken, Leaving
<1>3. Inv /\ [Next]_vars =>
        /\ Seen(o) => Seen(o)' \/ Localised(o)' \/ Gone(o)'
        /\ Localised(o) => Localised(o)' \/ Shown(o)' \/ Gone(o)'
        /\ Passed(o) => Passed(o)' \/ Sending(o)' \/ Gone(o)'
        /\ Sending(o) => Sending(o)' \/ Resting(o)' \/ Gone(o)'
        /\ Resting(o) => Resting(o)' \/ Taken(o)' \/ Gone(o)'
        /\ Taken(o) => Taken(o)' \/ Leaving(o)' \/ Gone(o)'
        /\ Leaving(o) => Leaving(o)' \/ Gone(o)'
  BY OnToTheBoard, OffTheBoard
<1>4. Inv /\ [Next]_vars /\ <<Localisation>>_vars =>
        /\ Seen(o) => Localised(o)' \/ Gone(o)'
        /\ Localised(o) => Shown(o)' \/ Gone(o)'
  BY OnToTheBoard
<1>5. Inv /\ [Next]_vars /\ <<Transmission>>_vars =>
        /\ Passed(o) => Sending(o)' \/ Gone(o)'
        /\ Sending(o) => Resting(o)' \/ Gone(o)'
        /\ Resting(o) => Taken(o)' \/ Gone(o)'
        /\ Taken(o) => Leaving(o)' \/ Gone(o)'
        /\ Leaving(o) => Gone(o)'
  BY OffTheBoard
<1>6. Spec => []IInv
  <2>1. Init => IInv
    BY DEF Init, IInv, Published, Overtaken, Vouched, OnItsWay, DroppedWasLate
  <2> QED
    BY <2>1, IInvStays, PTL DEF Spec
<1> QED
  BY <1>1, <1>2, <1>3, <1>4, <1>5, <1>6, TypeCorrect, PTL DEF Spec, SenderRuns, Inv
=============================================================================
