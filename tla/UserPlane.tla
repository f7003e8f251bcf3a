------------------------------ MODULE UserPlane ------------------------------
(***************************************************************************)
(* The data path of MAC PDUs: the gateway MAC with a queue per UE and its  *)
(* round robin (model/ntn-gw-mac.cc), the bent pipe of the satellite with  *)
(* a pair of PHYs per beam (model/sat-phy.cc), and the UE MAC that filters *)
(* by RNTI, judges each PDU by an SINR and acknowledges what it takes      *)
(* (model/sat-ut-mac.cc).                                                  *)
(*                                                                         *)
(* All gateway traffic shares one feeder channel; each beam has a user     *)
(* channel of its own, on which a UE hears the satellite and the other UEs *)
(* of its beam.  Everything on a channel is received by all on it, in      *)
(* order.  What a PDU carries is for NtnRlc; it has here the tags on it.   *)
(***************************************************************************)
EXTENDS Integers, Sequences, FiniteSets, SequencesExt, FiniteSetsExt

CONSTANTS
  Ue,          (* The RNTIs, one per UE.                                   *)
  Beam,        (* The beams; 0 stands for an RNTI added without one.       *)
  Unassigned,  (* The UEs that have not been given their RNTI: "single UE".*)
  Sinr,        (* SINRs of channels, dB.                                   *)
  Granted,     (* Effective SINRs the scheduler works out for its grants.  *)
  Injected,    (* SINRs a scenario puts into the error models, if it does.  *)
  NoSinr,      (* No effective SINR: NaN.                                  *)
  Gateway,     (* The gateway as a sender; a UE is known by its number.    *)
  Satellite,   (* The satellite as a sender.                               *)
  MaxQueue,    (* Bound on the queue of a UE.                              *)
  MaxDown,     (* Bound on the DL PDUs and ACKs on their way.              *)
  MaxUp        (* Bound on the UL data PDUs on their way.                  *)

ASSUME UserPlaneAssumption ==
  /\ Ue \subseteq Nat \ {0} /\ Beam \subseteq Nat \ {0}
  /\ IsFiniteSet(Ue) /\ IsFiniteSet(Beam)
  /\ Unassigned \subseteq Ue
  /\ Sinr \cup Granted \cup Injected \subseteq Int
  /\ NoSinr \notin Int /\ {Gateway, Satellite} \cap Ue = {} /\ Gateway # Satellite
  /\ {MaxQueue, MaxDown, MaxUp} \subseteq Nat \ {0}

Feeder == 0
Channel == Beam \cup {Feeder}

(* The tags of a PDU, and whether it is one of the uplink.                 *)
Pdu == [rnti : Ue \cup {0}, ack : BOOLEAN, eff : Granted \cup {NoSinr},
        beam : Beam \cup {0}, up : BOOLEAN]

Transmission == [from : Ue \cup {Gateway, Satellite}, pdu : Pdu]

VARIABLES
  registered,  (* m_registeredUes                                          *)
  queue,       (* The length of each queue in m_dlQueues.                  *)
  ueBeam,      (* m_ueBeam                                                 *)
  cursor,      (* m_rrCursor                                               *)
  ticking,     (* Whether m_schedEvent is running.                         *)
  camped,      (* The beam whose user channel each UE is on.               *)
  channel,     (* The SINR the PHY of each UE computes on reception.       *)
  phyErr,      (* m_phyErr of each UE: its SINR, and HasExplicitSinr.      *)
  air,         (* What is on its way on each channel.                      *)
  due,         (* History: copies of PDUs of each RNTI sent on user links, *)
               (* less those missed and less m_ackCount.                   *)
  misjudged    (* History: a PDU was judged by a signal not its own.       *)

vars == <<registered, queue, ueBeam, cursor, ticking, camped, channel,
          phyErr, air, due, misjudged>>
gateway == <<registered, queue, ueBeam, cursor, ticking>>

DataRnti(u) == IF u \in Unassigned THEN 0 ELSE u

DefaultDb == 20

Init ==
  /\ registered = <<>>
  /\ queue = [u \in Ue |-> 0]
  /\ ueBeam = [u \in Ue |-> 0]
  /\ cursor = 1
  /\ ticking = FALSE
  /\ camped \in [Ue -> Beam]
  /\ channel \in [Ue -> Sinr]
  /\ phyErr \in [Ue -> IF Injected = {}
                       THEN {[sinr |-> DefaultDb, explicit |-> FALSE]}
                       ELSE [sinr : Injected, explicit : {TRUE}]]
  /\ air = [c \in Channel |-> <<>>]
  /\ due = [u \in Ue |-> 0]
  /\ misjudged = FALSE

IsUlData(pdu) == pdu.up /\ ~pdu.ack

OnTheirWay(ulData) ==
  LET on(c) == Len(SelectSeq(air[c], LAMBDA tx : IsUlData(tx.pdu) = ulData))
  IN  MapThenSumSet(on, Channel)

-----------------------------------------------------------------------------
(* The gateway MAC.                                                        *)

AddUe(u, b) ==
  /\ registered' = IF Contains(registered, u) THEN registered
                   ELSE Append(registered, u)
  /\ ueBeam' = [ueBeam EXCEPT ![u] = b]
  /\ UNCHANGED <<queue, cursor, ticking, camped, channel, phyErr, air,
                 due, misjudged>>

(* A PDU for an RNTI that was not added is dropped.                        *)
EnqueueDlPdu(u) ==
  /\ Contains(registered, u)
  /\ queue[u] < MaxQueue
  /\ queue' = [queue EXCEPT ![u] = @ + 1]
  /\ UNCHANGED <<registered, ueBeam, cursor, ticking, camped, channel,
                 phyErr, air, due, misjudged>>

(* Nothing in the repository starts it twice, which would add a second     *)
(* chain of ticks.                                                         *)
StartScheduler ==
  /\ ~ticking
  /\ ticking' = TRUE
  /\ UNCHANGED <<registered, queue, ueBeam, cursor, camped, channel,
                 phyErr, air, due, misjudged>>

StopScheduler ==
  /\ ticking
  /\ ticking' = FALSE
  /\ UNCHANGED <<registered, queue, ueBeam, cursor, camped, channel,
                 phyErr, air, due, misjudged>>

(* The tag has the effective SINR of the last grant of u, if there was one *)
(* and a scheduler is connected: m_lastDlEffSinrDb, any value here.        *)
StampDlDciTag(u, eff) ==
  [rnti |-> u, ack |-> FALSE, eff |-> eff, beam |-> ueBeam[u], up |-> FALSE]

SendDlPduForRnti(u) ==
  \E eff \in Granted \cup {NoSinr} :
    air' = [air EXCEPT ![Feeder] =
              Append(@, [from |-> Gateway, pdu |-> StampDlDciTag(u, eff)])]

(* The places of the round, from the cursor on.                            *)
After(step) == ((cursor - 1 + step) % Len(registered)) + 1

(* Faulty variant: each tick looks from the first UE on.                   *)
NextCursorFirst(step) == 1

NextCursor(step) == (After(step) % Len(registered)) + 1

(* One PDU of the first UE in turn that has any.                           *)
ScheduleTick ==
  /\ ticking
  /\ OnTheirWay(FALSE) < MaxDown
  /\ \E step \in 0..(Len(registered) - 1) :
       LET u == registered[After(step)] IN
       /\ queue[u] > 0
       /\ \A earlier \in 0..(step - 1) : queue[registered[After(earlier)]] = 0
       /\ queue' = [queue EXCEPT ![u] = @ - 1]
       /\ cursor' = NextCursor(step)
       /\ SendDlPduForRnti(u)
  /\ UNCHANGED <<registered, ueBeam, ticking, camped, channel, phyErr,
                 due, misjudged>>

-----------------------------------------------------------------------------
(* The UE.                                                                 *)

Camp(u, b) ==
  /\ camped' = [camped EXCEPT ![u] = b]
  /\ UNCHANGED <<gateway, channel, phyErr, air, due, misjudged>>

Fade(u, sinr) ==
  /\ channel' = [channel EXCEPT ![u] = sinr]
  /\ UNCHANGED <<gateway, camped, phyErr, air, due, misjudged>>

SendUlPdu(u) ==
  /\ OnTheirWay(TRUE) < MaxUp
  /\ air' = [air EXCEPT ![camped[u]] =
       Append(@, [from |-> u,
                  pdu |-> [rnti |-> DataRnti(u), ack |-> FALSE, eff |-> NoSinr,
                           beam |-> 0, up |-> TRUE]])]
  /\ UNCHANGED <<gateway, camped, channel, phyErr, due, misjudged>>

(* Faulty variant: the filter by RNTI is gone.                             *)
ForAnyone(u, pdu) == TRUE

(* Whether the UE with RNTI u looks at a PDU it hears.                     *)
IsFor(u, pdu) == DataRnti(u) \in {0, pdu.rnti}

(* SetSinrDb.                                                              *)
WithSinr(sinr) == [sinr |-> sinr, explicit |-> TRUE]

(* What the error model of u is when it judges the PDU: the effective SINR *)
(* of the grant before an SINR set explicitly before that of the channel.  *)
Judging(u, pdu) ==
  IF pdu.ack THEN phyErr[u]
  ELSE IF pdu.eff # NoSinr THEN WithSinr(pdu.eff)
  ELSE IF phyErr[u].explicit THEN phyErr[u]
  ELSE WithSinr(channel[u])

(* BlerFromSinr: certain loss below -5 dB; some is possible at any SINR.   *)
Outcomes(u, pdu) ==
  IF pdu.ack THEN {TRUE}
  ELSE IF Judging(u, pdu).sinr < -5 THEN {FALSE} ELSE BOOLEAN

(* By its own signal: its grant's or the channel's, unless a scenario puts *)
(* another in on purpose.                                                  *)
JudgedByItsOwn(u, pdu) ==
  \/ pdu.ack
  \/ pdu.eff # NoSinr
  \/ Injected # {}
  \/ Judging(u, pdu).sinr = channel[u]

(* Who hears a transmission on the user channel of b.                      *)
Hearing(b, tx) == {u \in Ue \ {tx.from} : camped[u] = b}

-----------------------------------------------------------------------------
(* The satellite and the two ends of each channel.                         *)

(* Faulty variant: a PHY of the satellite relays what another has relayed. *)
RelaysAnything(tx) == TRUE

(* The PHYs of the satellite never relay what the satellite sent.          *)
IsRelayed(tx) == tx.from # Satellite

(* Feeder PHYs that relay down: all of them if there is no beam tag.       *)
RelayingDown(tx) ==
  IF ~IsRelayed(tx) THEN {}
  ELSE IF tx.pdu.beam = 0 THEN Beam ELSE Beam \cap {tx.pdu.beam}

Relay(tx) == [tx EXCEPT !.from = Satellite]

(* NtnGwMac::DoPhyRx counts ACKs; data goes to the RLC of the RNTI unless  *)
(* the PHY error model drops it, which changes nothing here.               *)
ReceiveOnFeeder ==
  LET tx == Head(air[Feeder])
      down == RelayingDown(tx)
      counted == tx.from = Satellite /\ tx.pdu.ack
  IN
  /\ air[Feeder] # <<>>
  /\ air' = [c \in Channel |->
       IF c = Feeder THEN Tail(air[c])
       ELSE IF c \in down THEN Append(air[c], Relay(tx)) ELSE air[c]]
  /\ due' = [u \in Ue |->
       due[u] + (IF u = tx.pdu.rnti /\ ~tx.pdu.up THEN Cardinality(down) ELSE 0)
              - (IF u = tx.pdu.rnti /\ counted THEN 1 ELSE 0)]
  /\ UNCHANGED <<gateway, camped, channel, phyErr, misjudged>>

SendHarqAck(u) ==
  [from |-> u, pdu |-> [rnti |-> u, ack |-> TRUE, eff |-> NoSinr, beam |-> 0,
                        up |-> TRUE]]

(* Those who acknowledge, of those who take a PDU.                         *)
Acknowledging(taken) == {u \in taken : DataRnti(u) # 0}

(* SatUtMac::DoPhyRx at every UE that hears it, and SatGeoUserPhy::Receive.*)
ReceiveOnUser(b) ==
  LET tx == Head(air[b])
      hearing == {u \in Hearing(b, tx) : IsFor(u, tx.pdu)}
      up == IF IsRelayed(tx) THEN <<Relay(tx)>> ELSE <<>>
  IN
  /\ air[b] # <<>>
  /\ \E taken \in SUBSET hearing :
       LET acks == SetToSeq(Acknowledging(taken)) IN
       /\ \A u \in hearing : (u \in taken) \in Outcomes(u, tx.pdu)
       /\ air' = [air EXCEPT
            ![b] = Tail(@) \o [i \in DOMAIN acks |-> SendHarqAck(acks[i])],
            ![Feeder] = @ \o up]
       /\ due' = [u \in Ue |->
            IF tx.from = Satellite /\ ~tx.pdu.up /\ u = tx.pdu.rnti /\ u \notin taken
            THEN due[u] - 1 ELSE due[u]]
  /\ phyErr' = [u \in Ue |-> IF u \in hearing THEN Judging(u, tx.pdu) ELSE phyErr[u]]
  /\ misjudged' = (misjudged \/ \E u \in hearing : ~JudgedByItsOwn(u, tx.pdu))
  /\ UNCHANGED <<gateway, camped, channel>>

Next ==
  \/ \E u \in Ue, b \in Beam \cup {0} : AddUe(u, b)
  \/ \E u \in Ue : EnqueueDlPdu(u)
  \/ StartScheduler \/ StopScheduler \/ ScheduleTick
  \/ \E u \in Ue, b \in Beam : Camp(u, b)
  \/ \E u \in Ue, sinr \in Sinr : Fade(u, sinr)
  \/ \E u \in Ue : SendUlPdu(u)
  \/ ReceiveOnFeeder
  \/ \E b \in Beam : ReceiveOnUser(b)

Spec == Init /\ [][Next]_vars

(* Ticks come every period and what was sent arrives.                      *)
FairSpec ==
  /\ Spec
  /\ WF_vars(ScheduleTick)
  /\ WF_vars(ReceiveOnFeeder)
  /\ \A b \in Beam : WF_vars(ReceiveOnUser(b))

-----------------------------------------------------------------------------
(* Properties.                                                             *)

(* The state has its types.                                                *)
TypeOK ==
  /\ IsInjective(registered) /\ Range(registered) \subseteq Ue
  /\ queue \in [Ue -> 0..MaxQueue]
  /\ ueBeam \in [Ue -> Beam \cup {0}]
  /\ cursor \in 1..(Cardinality(Ue) + 1)
  /\ ticking \in BOOLEAN
  /\ camped \in [Ue -> Beam]
  /\ channel \in [Ue -> Sinr]
  /\ phyErr \in [Ue -> [sinr : Sinr \cup Granted \cup Injected \cup {DefaultDb},
                        explicit : BOOLEAN]]
  /\ \A c \in Channel : Range(air[c]) \subseteq Transmission
  /\ due \in [Ue -> Nat]
  /\ misjudged \in BOOLEAN

(* The satellite does not send down to UEs what a UE sent up, nor back to  *)
(* the gateway what came from it, though every PHY on a channel hears all  *)
(* the others: "relaying a second time between beams".                     *)
NothingIsRelayedTwice ==
  /\ \A b \in Beam : \A i \in DOMAIN air[b] :
       air[b][i].from = Satellite => ~air[b][i].pdu.up
  /\ \A i \in DOMAIN air[Feeder] :
       air[Feeder][i].from = Satellite => air[Feeder][i].pdu.up

Pending(c, u) ==
  Cardinality({i \in DOMAIN air[c] :
    LET tx == air[c][i] IN
    /\ tx.pdu.rnti = u
    /\ tx.pdu.ack \/ (tx.from = Satellite /\ ~tx.pdu.up)})

(* The gateway's count of ACKs of an RNTI goes up once for each copy of a  *)
(* PDU that its own UE took, and for nothing else, wherever UEs move and   *)
(* whoever else hears the PDU: what was sent down is missed, acknowledged  *)
(* or on its way in one direction.                                         *)
AcksAreEarned ==
  \A u \in Ue \ Unassigned :
    due[u] = MapThenSumSet(LAMBDA c : Pending(c, u), Channel)

(* "Find the first UE that has packets": no queue stands still while the   *)
(* scheduler runs, however full the others are kept.                       *)
QueuesAreServed ==
  \A u \in Ue, n \in 1..MaxQueue : []<>(ticking => queue[u] # n)

(* A PDU without an effective SINR is judged by the SINR the channel gave  *)
(* it, "the real physical path of ordinary packets", unless the caller has *)
(* deliberately put another into the error model.                          *)
JudgedByOwnSignal == ~misjudged
=============================================================================
