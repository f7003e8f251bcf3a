------------------------------- MODULE NtnRlc -------------------------------
(***************************************************************************)
(* One radio bearer between two NtnRlc entities (model/ntn-rlc.cc): the    *)
(* sending half of one entity, the receiving half of its peer, and the     *)
(* PDUs in flight between them.  The two halves of an entity share no      *)
(* state but statistics, so the opposite direction is another copy of this *)
(* module.  TM mode passes packets through and keeps no state: left out.   *)
(*                                                                         *)
(* PDUs in flight form a set.  An SDU is transmitted once and may then be  *)
(* retransmitted any number of times, so the reception of a retransmission *)
(* may leave another copy in flight.  The PHY error model may drop any PDU *)
(* on arrival.                                                             *)
(* An armed timer may fire at any moment.                                  *)
(***************************************************************************)
EXTENDS Naturals, Sequences, FiniteSets

CONSTANTS
  SnMod,      (* Size of the sequence-number space: 2^16 for uint16_t.   *)
  MaxSdu,     (* Bound: SDUs submitted to the bearer.                    *)
  MaxStatus,  (* Bound: STATUS PDUs in flight.                           *)
  Modes,      (* The modes a bearer is configured with.                  *)
  PhyLoss,    (* Whether PHYs lose PDUs: some, none or all of them do.   *)
  AmDrop      (* Whether m_amDropProb > 0: the receiver simulates loss.  *)

ASSUME NtnRlcAssumption ==
  /\ SnMod \in Nat \ {0}
  /\ MaxSdu \in Nat
  /\ MaxStatus \in Nat
  /\ Modes \subseteq {"UM", "AM"}
  /\ PhyLoss \subseteq BOOLEAN
  /\ AmDrop \in BOOLEAN

VARIABLES
  mode,              (* m_mode, set before the bearer is used             *)
  lossy,             (* whether the PHY of this bearer loses PDUs         *)
  amTxNextSn,        (* sender: next SN, shared by UM and AM              *)
  amTxBuffer,        (* sender: SN -> SDU kept for retransmission         *)
  amPollEvent,       (* sender: t-PollRetransmit is running               *)
  umNextExpectedSn,  (* UM receiver: lowest SN still accepted             *)
  amRxNextSn,        (* AM receiver: next SN to hand up                   *)
  amReorderBuffer,   (* AM receiver: SN -> SDU received ahead of a gap    *)
  amMissingSn,       (* AM receiver: SNs to NACK in the next STATUS PDU   *)
  amStatusPending,   (* AM receiver: a STATUS PDU is scheduled            *)
  dataPdus,          (* data PDUs in flight                               *)
  statusPdus,        (* STATUS PDUs in flight, each a set of NACKed SNs   *)
  sent,              (* history: how many SDUs PDCP has submitted         *)
  delivered          (* history: the SDUs handed to the upper layer       *)

txVars == <<amTxNextSn, amTxBuffer, amPollEvent>>
statusVars == <<amMissingSn, amStatusPending>>
rxVars == <<umNextExpectedSn, amRxNextSn, amReorderBuffer, statusVars, delivered>>
netVars == <<dataPdus, statusPdus>>
vars == <<mode, lossy, txVars, rxVars, netVars, sent>>

SnSpace == 0..(SnMod - 1)
Sdu == 1..MaxSdu
Pdu == [sn : SnSpace, sdu : Sdu, isRetx : BOOLEAN]

(* Faulty variant: an SN field one number short of the space. *)
SnPlusNarrow(sn, n) ==
  IF sn + n < SnMod - 1 THEN sn + n ELSE sn + n - (SnMod - 1)

(* uint16_t arithmetic: sn + n, for n up to SnMod. *)
SnPlus(sn, n) == IF sn + n < SnMod THEN sn + n ELSE sn + n - SnMod

Put(f, key, value) ==
  [k \in DOMAIN f \cup {key} |-> IF k = key THEN value ELSE f[k]]

Init ==
  /\ mode \in Modes
  /\ lossy \in PhyLoss
  /\ amTxNextSn = 0
  /\ amTxBuffer = << >>
  /\ amPollEvent = FALSE
  /\ umNextExpectedSn = 0
  /\ amRxNextSn = 0
  /\ amReorderBuffer = << >>
  /\ amMissingSn = {}
  /\ amStatusPending = FALSE
  /\ dataPdus = {}
  /\ statusPdus = {}
  /\ sent = 0
  /\ delivered = << >>

-----------------------------------------------------------------------------
(* Sender.                                                                 *)

(* TransmitPdcpPdu: the entity numbers the SDU and sends it; in AM it also *)
(* keeps a copy and restarts t-PollRetransmit.                             *)
TransmitPdcpPdu ==
  /\ sent < MaxSdu
  /\ sent' = sent + 1
  /\ amTxNextSn' = SnPlus(amTxNextSn, 1)
  /\ dataPdus' = dataPdus \cup {[sn |-> amTxNextSn, sdu |-> sent + 1, isRetx |-> FALSE]}
  /\ \/ /\ mode = "UM"
        /\ UNCHANGED <<amTxBuffer, amPollEvent>>
     \/ /\ mode = "AM"
        /\ amTxBuffer' = Put(amTxBuffer, amTxNextSn, sent + 1)
        /\ amPollEvent' = TRUE
  /\ UNCHANGED <<mode, lossy, rxVars, statusPdus>>

(* The copies of these SNs that the transmission buffer holds. *)
Retransmissions(sns) ==
  {[sn |-> sn, sdu |-> amTxBuffer[sn], isRetx |-> TRUE] :
     sn \in sns \cap DOMAIN amTxBuffer}

(* A STATUS PDU arrives: every NACKed SN still buffered is sent again. *)
AmReceiveStatusPdu(nacks) ==
  /\ nacks \in statusPdus
  /\ statusPdus' = statusPdus \ {nacks}
  /\ dataPdus' = dataPdus \cup Retransmissions(nacks)
  /\ UNCHANGED <<mode, lossy, txVars, rxVars, sent>>

(* t-PollRetransmit expires: the lowest buffered SN, and only that one, is *)
(* sent again and the timer restarts.  Nothing ever leaves the buffer.     *)
PollTargets == {sn \in DOMAIN amTxBuffer : \A s \in DOMAIN amTxBuffer : sn <= s}

AmPollRetransmitTimeout ==
  /\ amPollEvent
  /\ dataPdus' = dataPdus \cup Retransmissions(PollTargets)
  /\ amPollEvent' = (DOMAIN amTxBuffer # {})
  /\ UNCHANGED <<mode, lossy, amTxNextSn, amTxBuffer, rxVars, statusPdus, sent>>

-----------------------------------------------------------------------------
(* Receiver.                                                               *)

Take(pdu, left) ==
  /\ pdu \in dataPdus
  /\ left => pdu.isRetx
  /\ dataPdus' = IF left THEN dataPdus ELSE dataPdus \ {pdu}
  /\ UNCHANGED <<mode, lossy, txVars, statusPdus, sent>>

(* Faulty variants: no duplicate check; the check is off by one. *)
IsStaleNever(sn, next) == FALSE
IsStaleOffByOne(sn, next) == sn <= next

(* Already passed by the receive window: a duplicate, or late. *)
IsStale(sn, next) == sn < next

UmReceive(pdu, left) ==
  /\ mode = "UM"
  /\ Take(pdu, left)
  /\ IF IsStale(pdu.sn, umNextExpectedSn)
     THEN UNCHANGED rxVars
     ELSE /\ umNextExpectedSn' = SnPlus(pdu.sn, 1)
          /\ delivered' = Append(delivered, pdu.sdu)
          /\ UNCHANGED <<amRxNextSn, amReorderBuffer, statusVars>>

(* AmReceive's simulated loss: the SN is NACKed whether or not it was      *)
(* received before.                                                        *)
AmDropData(pdu, left) ==
  /\ mode = "AM"
  /\ AmDrop
  /\ Take(pdu, left)
  /\ amMissingSn' = amMissingSn \cup {pdu.sn}
  /\ amStatusPending' = TRUE
  /\ UNCHANGED <<umNextExpectedSn, amRxNextSn, amReorderBuffer, delivered>>

AmDiscardDuplicate(pdu, left) ==
  /\ mode = "AM"
  /\ Take(pdu, left)
  /\ IsStale(pdu.sn, amRxNextSn)
  /\ UNCHANGED rxVars

(* The SNs of the n buffered PDUs that follow on from `next`.  *)
Run(next, n) == {SnPlus(next, i) : i \in 0..(n - 1)}

(* n is how many PDUs the delivery loop takes out of the buffer `buf`. *)
IsMaximalRun(buf, next, n) ==
  /\ Run(next, n) \subseteq DOMAIN buf
  /\ SnPlus(next, n) \notin DOMAIN buf \ Run(next, n)

Without(f, keys) == [k \in DOMAIN f \ keys |-> f[k]]

(* The SNs below the highest buffered one that have not arrived. *)
Gaps(buf, next) ==
  {sn \in SnSpace \ DOMAIN buf : next <= sn /\ \E s \in DOMAIN buf : sn < s}

(* AmScheduleStatusReport, under its caller's condition: gaps are open and *)
(* some SN is to be NACKed.                                                *)
ReportNeeded(buf, missing) == DOMAIN buf # {} /\ missing # {}

(* AmReceiveDataPdu: buffer the PDU, hand up what is now in sequence, mark *)
(* the gaps that stay open and schedule a STATUS PDU for them.             *)
AmAcceptData(pdu, left) ==
  /\ mode = "AM"
  /\ Take(pdu, left)
  /\ ~IsStale(pdu.sn, amRxNextSn)
  /\ \E n \in 0..SnMod :
       LET buf == Put(amReorderBuffer, pdu.sn, pdu.sdu)
           rest == Without(buf, Run(amRxNextSn, n))
           next == SnPlus(amRxNextSn, n)
           missing == (amMissingSn \ {pdu.sn}) \cup Gaps(rest, next)
       IN /\ IsMaximalRun(buf, amRxNextSn, n)
          /\ delivered' =
               delivered \o [i \in 1..n |-> buf[SnPlus(amRxNextSn, i - 1)]]
          /\ amRxNextSn' = next
          /\ amReorderBuffer' = rest
          /\ amMissingSn' = missing
          /\ amStatusPending' = (amStatusPending \/ ReportNeeded(rest, missing))
  /\ UNCHANGED umNextExpectedSn

(* The prohibit timer expires: one STATUS PDU NACKs every missing SN.  The *)
(* set is emptied, on the assumption that STATUS PDUs are never lost.      *)
AmSendStatusReport ==
  /\ amStatusPending
  /\ amStatusPending' = FALSE
  /\ IF amMissingSn = {}
     THEN UNCHANGED statusPdus
     ELSE /\ Cardinality(statusPdus) < MaxStatus
          /\ statusPdus' = statusPdus \cup {amMissingSn}
  /\ amMissingSn' = {}
  /\ UNCHANGED <<mode, lossy, txVars, umNextExpectedSn, amRxNextSn, amReorderBuffer,
                 delivered, dataPdus, sent>>

-----------------------------------------------------------------------------
(* The PHY error model drops a PDU on arrival. *)
LoseData(pdu) ==
  /\ lossy
  /\ pdu \in dataPdus
  /\ dataPdus' = dataPdus \ {pdu}
  /\ UNCHANGED <<mode, lossy, txVars, rxVars, statusPdus, sent>>

LoseStatus(nacks) ==
  /\ lossy
  /\ nacks \in statusPdus
  /\ statusPdus' = statusPdus \ {nacks}
  /\ UNCHANGED <<mode, lossy, txVars, rxVars, dataPdus, sent>>

Sender ==
  \/ TransmitPdcpPdu
  \/ \E nacks \in statusPdus : AmReceiveStatusPdu(nacks)
  \/ AmPollRetransmitTimeout

Receiver ==
  \/ AmSendStatusReport
  \/ \E pdu \in dataPdus, left \in BOOLEAN :
       \/ UmReceive(pdu, left)
       \/ AmDropData(pdu, left)
       \/ AmDiscardDuplicate(pdu, left)
       \/ AmAcceptData(pdu, left)

Phy ==
  \/ \E pdu \in dataPdus : LoseData(pdu)
  \/ \E nacks \in statusPdus : LoseStatus(nacks)

Next == Sender \/ Receiver \/ Phy

Spec == Init /\ [][Next]_vars

(* Timers fire and what is in flight arrives.  Drop probabilities are      *)
(* below one, so what the receiver waits for gets through some time if it  *)
(* is sent again and again: the PDU with the next SN, and a STATUS PDU     *)
(* that NACKs it.                                                          *)
Fairness ==
  /\ WF_vars(AmPollRetransmitTimeout)
  /\ SF_vars(AmSendStatusReport)
  /\ WF_vars(\E nacks \in statusPdus : AmReceiveStatusPdu(nacks))
  /\ WF_vars(\E pdu \in dataPdus : AmDiscardDuplicate(pdu, FALSE))
  /\ SF_vars(\E nacks \in statusPdus :
               amRxNextSn \in nacks /\ AmReceiveStatusPdu(nacks))
  /\ SF_vars(\E pdu \in dataPdus :
               pdu.sn = amRxNextSn /\ AmAcceptData(pdu, FALSE))

FairSpec == Spec /\ Fairness

-----------------------------------------------------------------------------
(* Properties.                                                             *)

TypeOK ==
  /\ mode \in Modes
  /\ lossy \in PhyLoss
  /\ amTxNextSn \in SnSpace
  /\ DOMAIN amTxBuffer \subseteq SnSpace
  /\ \A sn \in DOMAIN amTxBuffer : amTxBuffer[sn] \in Sdu
  /\ amPollEvent \in BOOLEAN
  /\ umNextExpectedSn \in SnSpace
  /\ amRxNextSn \in SnSpace
  /\ DOMAIN amReorderBuffer \subseteq SnSpace
  /\ \A sn \in DOMAIN amReorderBuffer : amReorderBuffer[sn] \in Sdu
  /\ amMissingSn \subseteq SnSpace
  /\ amStatusPending \in BOOLEAN
  /\ dataPdus \subseteq Pdu
  /\ statusPdus \subseteq SUBSET SnSpace
  /\ sent \in 0..MaxSdu
  /\ delivered \in Seq(Sdu)

(* What a bearer promises: the entities implement RlcDelivery as long as   *)
(* no SN is used twice (MaxSdu < SnMod).                                   *)
Delivery == INSTANCE RlcDelivery WITH
  MaxSdu <- MaxSdu, Modes <- Modes, mode <- mode, sent <- sent,
  delivered <- delivered

ImplementsDelivery == Delivery!Spec

(* The AM receiver hands up exactly a prefix of what was submitted: no     *)
(* SDU skipped, repeated or overtaken, however PDUs are lost, reordered or *)
(* retransmitted (the delivery loop of AmReceiveDataPdu).                  *)
InOrderExactlyOnce ==
  mode = "AM" => /\ Len(delivered) <= sent
                 /\ \A i \in 1..Len(delivered) : delivered[i] = i

(* An SN noted as missing is never forgotten: a STATUS PDU is scheduled    *)
(* for it.  Two places insert into m_amMissingSn and only the timer's      *)
(* handler clears it.                                                      *)
MissingIsReported == amMissingSn # {} => amStatusPending

(* A NACK never asks for an SDU the sender does not hold: the "not in tx   *)
(* buffer" branch of AmReceiveStatusPdu is not reached.                    *)
NackIsAnswerable ==
  \A nacks \in statusPdus \cup {amMissingSn} : nacks \subseteq DOMAIN amTxBuffer

(* The strengthening the proofs need, while no SN is used twice: counters, *)
(* buffers and PDUs agree that SN k carries SDU k + 1.                     *)
SenderInv ==
  /\ amTxNextSn = sent
  /\ mode = "AM" => DOMAIN amTxBuffer = 0..(sent - 1)
  /\ \A sn \in DOMAIN amTxBuffer : sn < sent /\ amTxBuffer[sn] = sn + 1

PduInv == \A pdu \in dataPdus : pdu.sdu = pdu.sn + 1 /\ pdu.sn < sent

AmReceiverInv ==
  mode = "AM" =>
    /\ amRxNextSn = Len(delivered)
    /\ \A sn \in DOMAIN amReorderBuffer :
         sn < sent /\ amReorderBuffer[sn] = sn + 1

UmReceiverInv ==
  mode = "UM" =>
    /\ umNextExpectedSn <= sent
    /\ \A i \in 1..Len(delivered) : delivered[i] <= umNextExpectedSn

RlcInv ==
  /\ TypeOK
  /\ SenderInv
  /\ PduInv
  /\ AmReceiverInv
  /\ UmReceiverInv
  /\ InOrderExactlyOnce
  /\ NackIsAnswerable

(* Someone is responsible for every SDU the AM receiver does not yet hold: *)
(* its PDU is in flight, a STATUS PDU in flight NACKs it, or it is noted   *)
(* for the next one.  It needs a PHY that loses nothing.                   *)
IsAccountedFor(sn) ==
  \/ IsStale(sn, amRxNextSn)
  \/ sn \in DOMAIN amReorderBuffer \cup amMissingSn
  \/ \E pdu \in dataPdus : pdu.sn = sn
  \/ \E nacks \in statusPdus : sn \in nacks

NoSduForgotten ==
  mode = "AM" /\ ~lossy => \A sn \in DOMAIN amTxBuffer : IsAccountedFor(sn)

(* Every SDU submitted to an AM bearer is eventually delivered, though the *)
(* receiver drops PDUs on purpose, if the PHY loses nothing.               *)
EventualDelivery ==
  \A k \in Sdu :
    mode = "AM" /\ ~lossy /\ sent >= k ~> Len(delivered) >= k

(* The same whatever the PHY loses: "acknowledged, in order, reliable".    *)
ReliableDelivery ==
  \A k \in Sdu : mode = "AM" /\ sent >= k ~> Len(delivered) >= k
=============================================================================
