---------------------------- MODULE NtnRlc_proofs ----------------------------
(***************************************************************************)
(* Theorems about the RLC bearer of NtnRlc, for every SN space, number of  *)
(* SDUs and number of STATUS PDUs in flight; and about the services of     *)
(* Traffic whose SDUs it carries, for every number of files, applications, *)
(* installations, windows and retries and every length of a talk spurt.    *)
(***************************************************************************)
EXTENDS NtnRlc, Traffic, Integers, FiniteSets, FiniteSetTheorems, NaturalsInduction,
        WellFoundedInduction, TLAPS

(* SN arithmetic stays in the SN space. *)
LEMMA SnPlusType ==
  ASSUME NEW sn \in SnSpace, NEW n \in 0..SnMod
  PROVE  SnPlus(sn, n) \in SnSpace
BY NtnRlcAssumption DEF SnPlus, SnSpace

(* Retransmissions are well-typed PDUs. *)
LEMMA RetransmissionsType ==
  ASSUME TypeOK, NEW sns
  PROVE  Retransmissions(sns) \subseteq Pdu
<1>1. ASSUME NEW sn \in sns \cap DOMAIN amTxBuffer
      PROVE  [sn |-> sn, sdu |-> amTxBuffer[sn], isRetx |-> TRUE] \in Pdu
  <2>1. sn \in SnSpace /\ amTxBuffer[sn] \in Sdu
    BY DEF TypeOK
  <2>2. QED
    BY <2>1 DEF Pdu
<1>2. QED
  BY <1>1 DEF Retransmissions

(* What one run of the delivery loop does to the buffer and the window,    *)
(* stated of values so that every later step can cite it.                  *)
LEMMA DeliveryLoopType ==
  ASSUME TypeOK, NEW pdu \in Pdu, NEW n \in 0..SnMod,
         NEW buf, buf = Put(amReorderBuffer, pdu.sn, pdu.sdu),
         Run(amRxNextSn, n) \subseteq DOMAIN buf
  PROVE  /\ DOMAIN buf \subseteq SnSpace
         /\ \A sn \in DOMAIN buf : buf[sn] \in Sdu
         /\ [i \in 1..n |-> buf[SnPlus(amRxNextSn, i - 1)]] \in Seq(Sdu)
<1>1. /\ DOMAIN buf \subseteq SnSpace
      /\ \A sn \in DOMAIN buf : buf[sn] \in Sdu
  BY DEF TypeOK, Put, Pdu
<1>2. ASSUME NEW i \in 1..n
      PROVE  buf[SnPlus(amRxNextSn, i - 1)] \in Sdu
  <2>1. i - 1 \in 0..(n - 1)
    BY NtnRlcAssumption
  <2>2. SnPlus(amRxNextSn, i - 1) \in DOMAIN buf
    BY <2>1 DEF Run
  <2>3. QED
    BY <1>1, <2>2
<1>3. n \in Nat
  BY NtnRlcAssumption
<1>4. [i \in 1..n |-> buf[SnPlus(amRxNextSn, i - 1)]] \in Seq(Sdu)
  BY <1>2, <1>3
<1>5. QED
  BY <1>1, <1>4

(* Every variable keeps its type. *)
THEOREM TypeCorrect == Spec => []TypeOK
<1>1. Init => TypeOK
  <2> SUFFICES ASSUME Init PROVE TypeOK
    OBVIOUS
  <2>1. DOMAIN amTxBuffer = {} /\ DOMAIN amReorderBuffer = {}
    BY DEF Init
  <2>2. 0 \in SnSpace /\ 0 \in 0..MaxSdu /\ delivered \in Seq(Sdu)
    BY NtnRlcAssumption DEF Init, SnSpace
  <2>3. QED
    BY <2>1, <2>2 DEF Init, TypeOK
<1>2. TypeOK /\ [Next]_vars => TypeOK'
  <2> SUFFICES ASSUME TypeOK, [Next]_vars
               PROVE  TypeOK'
    OBVIOUS
  <2> USE NtnRlcAssumption
  <2>1. CASE TransmitPdcpPdu
    <3>1. sent + 1 \in Sdu /\ sent' \in 0..MaxSdu
      BY <2>1 DEF TransmitPdcpPdu, TypeOK, Sdu
    <3>2. amTxNextSn' \in SnSpace
      BY <2>1, SnPlusType DEF TransmitPdcpPdu, TypeOK
    <3>3. dataPdus' \subseteq Pdu
      <4>1. [sn |-> amTxNextSn, sdu |-> sent + 1, isRetx |-> FALSE] \in Pdu
        BY <3>1 DEF TypeOK, Pdu
      <4>2. QED
        BY <2>1, <4>1 DEF TransmitPdcpPdu, TypeOK
    <3>4. /\ DOMAIN amTxBuffer' \subseteq SnSpace
          /\ \A sn \in DOMAIN amTxBuffer' : amTxBuffer'[sn] \in Sdu
      BY <2>1, <3>1 DEF TransmitPdcpPdu, TypeOK, Put
    <3>5. amPollEvent' \in BOOLEAN
      BY <2>1 DEF TransmitPdcpPdu, TypeOK
    <3>6. QED
      BY <2>1, <3>1, <3>2, <3>3, <3>4, <3>5
      DEF TransmitPdcpPdu, TypeOK, rxVars, statusVars
  <2>2. ASSUME NEW nacks \in statusPdus, AmReceiveStatusPdu(nacks)
        PROVE  TypeOK'
    BY <2>2, RetransmissionsType
    DEF AmReceiveStatusPdu, TypeOK, rxVars, txVars, statusVars
  <2>3. CASE AmPollRetransmitTimeout
    <3>1. amPollEvent' \in BOOLEAN
      BY <2>3 DEF AmPollRetransmitTimeout
    <3>2. dataPdus' \subseteq Pdu
      BY <2>3, RetransmissionsType DEF AmPollRetransmitTimeout, TypeOK
    <3>3. UNCHANGED <<mode, lossy, amTxNextSn, amTxBuffer, rxVars, statusPdus, sent>>
      BY <2>3 DEF AmPollRetransmitTimeout
    <3>4. QED
      BY <3>1, <3>2, <3>3 DEF TypeOK, rxVars, statusVars
  <2>4. CASE AmSendStatusReport
    <3>1. statusPdus' = statusPdus \/ statusPdus' = statusPdus \cup {amMissingSn}
      BY <2>4 DEF AmSendStatusReport
    <3>2. statusPdus' \subseteq SUBSET SnSpace
      BY <3>1 DEF TypeOK
    <3>3. /\ amMissingSn' = {} /\ amStatusPending' = FALSE
          /\ UNCHANGED <<mode, lossy, txVars, umNextExpectedSn, amRxNextSn,
                         amReorderBuffer, delivered, dataPdus, sent>>
      BY <2>4 DEF AmSendStatusReport
    <3>4. QED
      BY <3>2, <3>3 DEF TypeOK, txVars
  <2>5. ASSUME NEW pdu \in dataPdus, NEW stays \in BOOLEAN
        PROVE  /\ UmReceive(pdu, stays) => TypeOK'
               /\ AmDropData(pdu, stays) => TypeOK'
               /\ AmDiscardDuplicate(pdu, stays) => TypeOK'
               /\ AmAcceptData(pdu, stays) => TypeOK'
    <3>1. pdu \in Pdu /\ pdu.sn \in SnSpace /\ pdu.sdu \in Sdu
      BY DEF TypeOK, Pdu
    <3>2. SnPlus(pdu.sn, 1) \in SnSpace
      BY <3>1, SnPlusType
    <3>3. UmReceive(pdu, stays) => TypeOK'
      <4> SUFFICES ASSUME UmReceive(pdu, stays) PROVE TypeOK'
        OBVIOUS
      <4>1. delivered' \in Seq(Sdu) /\ umNextExpectedSn' \in SnSpace
        BY <3>1, <3>2 DEF UmReceive, TypeOK, rxVars
      <4>2. QED
        BY <4>1 DEF UmReceive, Take, TypeOK, rxVars, txVars, statusVars
    <3>4. AmDropData(pdu, stays) => TypeOK'
      BY <3>1 DEF AmDropData, Take, TypeOK, txVars
    <3>5. AmDiscardDuplicate(pdu, stays) => TypeOK'
      BY DEF AmDiscardDuplicate, Take, TypeOK, rxVars, txVars, statusVars
    <3>6. AmAcceptData(pdu, stays) => TypeOK'
      <4> SUFFICES ASSUME AmAcceptData(pdu, stays) PROVE TypeOK'
        OBVIOUS
      <4> DEFINE buf == Put(amReorderBuffer, pdu.sn, pdu.sdu)
      <4>1. PICK n \in 0..SnMod :
              LET rest == Without(buf, Run(amRxNextSn, n))
                  next == SnPlus(amRxNextSn, n)
                  missing == (amMissingSn \ {pdu.sn}) \cup Gaps(rest, next)
              IN /\ IsMaximalRun(buf, amRxNextSn, n)
                 /\ delivered' =
                      delivered \o [i \in 1..n |-> buf[SnPlus(amRxNextSn, i - 1)]]
                 /\ amRxNextSn' = next
                 /\ amReorderBuffer' = rest
                 /\ amMissingSn' = missing
                 /\ amStatusPending' = (amStatusPending \/ ReportNeeded(rest, missing))
        BY DEF AmAcceptData
      <4>2. Run(amRxNextSn, n) \subseteq DOMAIN buf
        BY <4>1 DEF IsMaximalRun
      <4>3. /\ DOMAIN buf \subseteq SnSpace
            /\ \A sn \in DOMAIN buf : buf[sn] \in Sdu
            /\ [i \in 1..n |-> buf[SnPlus(amRxNextSn, i - 1)]] \in Seq(Sdu)
        BY <3>1, <4>2, DeliveryLoopType
      <4>4. delivered' \in Seq(Sdu)
        BY <4>1, <4>3 DEF TypeOK
      <4>5. amRxNextSn' \in SnSpace
        BY <4>1, SnPlusType DEF TypeOK
      <4>6. /\ DOMAIN amReorderBuffer' \subseteq SnSpace
            /\ \A sn \in DOMAIN amReorderBuffer' : amReorderBuffer'[sn] \in Sdu
        BY <4>1, <4>3 DEF Without
      <4>7. amMissingSn' \subseteq SnSpace
        BY <4>1 DEF Gaps, TypeOK
      <4>8. amStatusPending' \in BOOLEAN
        BY <4>1 DEF ReportNeeded, TypeOK
      <4>9. QED
        BY <4>4, <4>5, <4>6, <4>7, <4>8 DEF AmAcceptData, Take, TypeOK, txVars
    <3>7. QED
      BY <3>3, <3>4, <3>5, <3>6
  <2>6. CASE Phy
    BY <2>6 DEF Phy, LoseData, LoseStatus, TypeOK, rxVars, txVars, statusVars
  <2>7. CASE UNCHANGED vars
    BY <2>7 DEF vars, TypeOK, rxVars, txVars, statusVars, netVars
  <2>8. QED
    BY <2>1, <2>2, <2>3, <2>4, <2>5, <2>6, <2>7 DEF Next, Sender, Receiver
<1>3. QED
  BY <1>1, <1>2, PTL DEF Spec

-----------------------------------------------------------------------------
(* While no SN is used twice.                                              *)

(* SN arithmetic does not wrap below the highest SN in use. *)
LEMMA SnPlusNoWrap ==
  ASSUME NEW sn \in SnSpace, NEW n \in Nat, sn + n < SnMod
  PROVE  SnPlus(sn, n) = sn + n
BY NtnRlcAssumption DEF SnPlus, SnSpace

(* A run of buffered PDUs ends below `sent`, so the delivery loop never    *)
(* wraps and hands up SDUs amRxNextSn + 1 .. amRxNextSn + n.               *)
LEMMA RunBelowSent ==
  ASSUME MaxSdu < SnMod, TypeOK, NEW n \in 0..SnMod, NEW domain,
         \A sn \in domain : sn < sent,
         Run(amRxNextSn, n) \subseteq domain
  PROVE  /\ amRxNextSn + n < SnMod
         /\ SnPlus(amRxNextSn, n) = amRxNextSn + n
         /\ \A i \in 1..n : SnPlus(amRxNextSn, i - 1) = amRxNextSn + i - 1
         /\ n # 0 => amRxNextSn + n <= sent
<1> USE NtnRlcAssumption
<1>0. amRxNextSn \in SnSpace /\ sent \in 0..MaxSdu /\ n \in Nat
  BY DEF TypeOK
<1>1. amRxNextSn + n < SnMod
  <2> SUFFICES ASSUME amRxNextSn + n >= SnMod PROVE FALSE
    BY <1>0 DEF SnSpace
  <2> DEFINE i == SnMod - 1 - amRxNextSn
  <2>1. i \in 0..(n - 1) /\ i \in Nat
    BY <1>0 DEF SnSpace
  <2>2. SnPlus(amRxNextSn, i) = SnMod - 1
    BY <1>0, <2>1 DEF SnPlus, SnSpace
  <2>3. SnPlus(amRxNextSn, i) \in Run(amRxNextSn, n)
    BY <2>1 DEF Run
  <2>4. SnMod - 1 < sent
    BY <2>2, <2>3
  <2>5. QED
    BY <1>0, <2>4
<1>2. SnPlus(amRxNextSn, n) = amRxNextSn + n
  BY <1>0, <1>1, SnPlusNoWrap
<1>3. ASSUME NEW i \in 1..n
      PROVE  SnPlus(amRxNextSn, i - 1) = amRxNextSn + i - 1
  BY <1>0, <1>1, SnPlusNoWrap DEF SnSpace
<1>4. ASSUME n # 0
      PROVE  amRxNextSn + n <= sent
  <2>1. n - 1 \in 0..(n - 1) /\ n \in 1..n
    BY <1>0, <1>4
  <2>2. SnPlus(amRxNextSn, n - 1) = amRxNextSn + n - 1
    BY <1>3, <2>1
  <2>3. SnPlus(amRxNextSn, n - 1) \in Run(amRxNextSn, n)
    BY <2>1 DEF Run
  <2>4. amRxNextSn + n - 1 < sent
    BY <2>2, <2>3
  <2>5. QED
    BY <1>0, <2>4 DEF SnSpace
<1>5. QED
  BY <1>1, <1>2, <1>3, <1>4

(* What an accepted PDU does to the receiver, in terms of SN values.       *)
LEMMA AcceptEffect ==
  ASSUME MaxSdu < SnMod, RlcInv,
         NEW pdu \in dataPdus, NEW stays \in BOOLEAN, AmAcceptData(pdu, stays)
  PROVE  \E n \in 0..SnMod :
           /\ amRxNextSn' = amRxNextSn + n
           /\ delivered' = delivered \o [i \in 1..n |-> amRxNextSn + i]
           /\ amRxNextSn + n <= sent
           /\ \A sn \in DOMAIN amReorderBuffer' :
                sn < sent /\ amReorderBuffer'[sn] = sn + 1
           /\ \A sn \in amMissingSn' : sn \in amMissingSn \/ sn \in 0..(sent - 1)
           /\ \A sn \in DOMAIN amReorderBuffer \cup {pdu.sn} :
                sn \in DOMAIN amReorderBuffer' \/ sn < amRxNextSn'
           /\ amMissingSn \ {pdu.sn} \subseteq amMissingSn'
<1> USE NtnRlcAssumption
<1> DEFINE buf == Put(amReorderBuffer, pdu.sn, pdu.sdu)
<1>0. /\ TypeOK /\ SenderInv /\ PduInv /\ mode = "AM"
      /\ amRxNextSn = Len(delivered) /\ Len(delivered) <= sent
      /\ \A sn \in DOMAIN amReorderBuffer :
           sn < sent /\ amReorderBuffer[sn] = sn + 1
  BY DEF RlcInv, AmAcceptData, AmReceiverInv, InOrderExactlyOnce
<1>1. PICK n \in 0..SnMod :
        LET rest == Without(buf, Run(amRxNextSn, n))
            next == SnPlus(amRxNextSn, n)
            missing == (amMissingSn \ {pdu.sn}) \cup Gaps(rest, next)
        IN /\ IsMaximalRun(buf, amRxNextSn, n)
           /\ delivered' =
                delivered \o [i \in 1..n |-> buf[SnPlus(amRxNextSn, i - 1)]]
           /\ amRxNextSn' = next
           /\ amReorderBuffer' = rest
           /\ amMissingSn' = missing
           /\ amStatusPending' = (amStatusPending \/ ReportNeeded(rest, missing))
  BY DEF AmAcceptData
<1>2. pdu \in Pdu /\ pdu.sn < sent /\ pdu.sdu = pdu.sn + 1
  BY <1>0 DEF PduInv, TypeOK
<1>3. \A sn \in DOMAIN buf : sn < sent /\ buf[sn] = sn + 1
  BY <1>0, <1>2 DEF Put
<1>4. Run(amRxNextSn, n) \subseteq DOMAIN buf
  BY <1>1 DEF IsMaximalRun
<1>5. /\ SnPlus(amRxNextSn, n) = amRxNextSn + n
      /\ \A i \in 1..n : SnPlus(amRxNextSn, i - 1) = amRxNextSn + i - 1
      /\ n # 0 => amRxNextSn + n <= sent
  BY <1>0, <1>3, <1>4, RunBelowSent
<1>6. amRxNextSn \in Nat /\ sent \in Nat /\ n \in Nat
  BY <1>0 DEF TypeOK, SnSpace
<1>7. amRxNextSn + n <= sent
  BY <1>0, <1>5, <1>6
<1>8. [i \in 1..n |-> buf[SnPlus(amRxNextSn, i - 1)]]
        = [i \in 1..n |-> amRxNextSn + i]
  <2>1. ASSUME NEW i \in 1..n
        PROVE  buf[SnPlus(amRxNextSn, i - 1)] = amRxNextSn + i
    <3>1. i - 1 \in 0..(n - 1) /\ i \in Nat
      BY <1>6
    <3>2. SnPlus(amRxNextSn, i - 1) \in DOMAIN buf
      BY <1>4, <3>1 DEF Run
    <3>3. buf[SnPlus(amRxNextSn, i - 1)] = SnPlus(amRxNextSn, i - 1) + 1
      BY <1>3, <3>2
    <3>4. QED
      BY <1>5, <1>6, <3>1, <3>3
  <2>2. QED
    BY <2>1
<1>9. \A sn \in DOMAIN amReorderBuffer' :
        sn < sent /\ amReorderBuffer'[sn] = sn + 1
  BY <1>1, <1>3 DEF Without
<1>10. \A sn \in Gaps(Without(buf, Run(amRxNextSn, n)), SnPlus(amRxNextSn, n)) :
         sn \in 0..(sent - 1)
  <2> SUFFICES ASSUME NEW sn \in SnSpace, NEW s \in DOMAIN buf, sn < s
               PROVE  sn \in 0..(sent - 1)
    BY DEF Gaps, Without
  <2>1. s \in SnSpace /\ s < sent
    BY <1>0, <1>2, <1>3 DEF Put, TypeOK, Pdu
  <2>2. QED
    BY <1>6, <2>1 DEF SnSpace
<1>11. \A sn \in amMissingSn' : sn \in amMissingSn \/ sn \in 0..(sent - 1)
  BY <1>1, <1>10
<1>12. ASSUME NEW sn \in DOMAIN amReorderBuffer \cup {pdu.sn}
       PROVE  sn \in DOMAIN amReorderBuffer' \/ sn < amRxNextSn'
  <2>1. sn \in DOMAIN buf
    BY DEF Put
  <2>2. CASE sn \in Run(amRxNextSn, n)
    <3>1. PICK i \in 0..(n - 1) : sn = SnPlus(amRxNextSn, i)
      BY <2>2 DEF Run
    <3>2. i + 1 \in 1..n /\ (i + 1) - 1 = i
      BY <1>6, <3>1
    <3>3. sn = amRxNextSn + (i + 1) - 1
      BY <1>5, <3>1, <3>2
    <3>4. QED
      BY <1>1, <1>5, <1>6, <3>1, <3>3
  <2>3. CASE sn \notin Run(amRxNextSn, n)
    BY <1>1, <2>1, <2>3 DEF Without
  <2>4. QED
    BY <2>2, <2>3
<1>13. amMissingSn \ {pdu.sn} \subseteq amMissingSn'
  BY <1>1
<1>14. QED
  BY <1>1, <1>5, <1>7, <1>8, <1>9, <1>11, <1>12, <1>13

(* Retransmissions and first transmissions agree that SN k carries SDU     *)
(* k + 1.                                                                  *)
LEMMA RetransmissionsInv ==
  ASSUME TypeOK, SenderInv, NEW sns
  PROVE  \A pdu \in Retransmissions(sns) : pdu.sdu = pdu.sn + 1 /\ pdu.sn < sent
BY DEF Retransmissions, SenderInv

(* The inductive invariant. *)
THEOREM RlcInvCorrect ==
  ASSUME MaxSdu < SnMod
  PROVE  Spec => []RlcInv
<1> USE NtnRlcAssumption
<1>1. Init => RlcInv
  <2> SUFFICES ASSUME Init PROVE RlcInv
    OBVIOUS
  <2>1. TypeOK
    <3>1. DOMAIN amTxBuffer = {} /\ DOMAIN amReorderBuffer = {}
      BY DEF Init
    <3>2. 0 \in SnSpace /\ 0 \in 0..MaxSdu /\ delivered \in Seq(Sdu)
      BY DEF Init, SnSpace
    <3>3. QED
      BY <3>1, <3>2 DEF Init, TypeOK
  <2>2. SenderInv /\ PduInv /\ AmReceiverInv /\ UmReceiverInv
    BY DEF Init, SenderInv, PduInv, AmReceiverInv, UmReceiverInv
  <2>3. InOrderExactlyOnce /\ NackIsAnswerable
    BY DEF Init, InOrderExactlyOnce, NackIsAnswerable
  <2>4. QED
    BY <2>1, <2>2, <2>3 DEF RlcInv
<1>2. RlcInv /\ TypeOK' /\ [Next]_vars => RlcInv'
  <2> SUFFICES ASSUME RlcInv, TypeOK', [Next]_vars
               PROVE  RlcInv'
    OBVIOUS
  <2>0. /\ TypeOK /\ SenderInv /\ PduInv /\ AmReceiverInv /\ UmReceiverInv
        /\ InOrderExactlyOnce /\ NackIsAnswerable
        /\ sent \in Nat /\ delivered \in Seq(Sdu)
    BY DEF RlcInv, TypeOK
  <2>1. CASE TransmitPdcpPdu
    <3>1. /\ sent' = sent + 1 /\ mode' = mode /\ mode \in {"UM", "AM"}
          /\ UNCHANGED <<rxVars, statusPdus>>
      BY <2>1 DEF TransmitPdcpPdu
    <3>2. amTxNextSn' = sent'
      <4>1. amTxNextSn = sent /\ sent + 1 < SnMod /\ amTxNextSn \in SnSpace
        BY <2>0, <2>1 DEF TransmitPdcpPdu, SenderInv, TypeOK, SnSpace
      <4>2. QED
        BY <2>0, <2>1, <4>1, SnPlusNoWrap DEF TransmitPdcpPdu
    <3>3. SenderInv'
      <4>1. CASE mode = "UM"
        BY <2>0, <2>1, <3>1, <3>2, <4>1 DEF TransmitPdcpPdu, SenderInv, TypeOK, SnSpace
      <4>2. CASE mode = "AM"
        <5>1. amTxBuffer' = Put(amTxBuffer, sent, sent + 1)
          BY <2>0, <2>1, <4>2 DEF TransmitPdcpPdu, SenderInv
        <5>2. DOMAIN amTxBuffer' = 0..sent
          BY <2>0, <4>2, <5>1 DEF Put, SenderInv
        <5>3. \A sn \in DOMAIN amTxBuffer' : amTxBuffer'[sn] = sn + 1
          BY <2>0, <5>1 DEF Put, SenderInv
        <5>4. QED
          BY <2>0, <3>1, <3>2, <5>2, <5>3 DEF SenderInv
      <4>3. QED
        BY <3>1, <4>1, <4>2
    <3>4. PduInv'
      <4>1. \A pdu \in dataPdus : pdu.sn \in Nat
        BY <2>0 DEF TypeOK, Pdu, SnSpace
      <4>2. QED
        BY <2>0, <2>1, <3>1, <4>1 DEF TransmitPdcpPdu, PduInv, SenderInv
    <3>5. AmReceiverInv' /\ InOrderExactlyOnce'
      <4>1. \A sn \in DOMAIN amReorderBuffer : sn \in Nat
        BY <2>0 DEF TypeOK, SnSpace
      <4>2. QED
        BY <2>0, <3>1, <4>1 DEF AmReceiverInv, InOrderExactlyOnce, rxVars
    <3>6. UmReceiverInv'
      BY <2>0, <3>1 DEF UmReceiverInv, rxVars, TypeOK, SnSpace
    <3>7. NackIsAnswerable'
      <4>1. DOMAIN amTxBuffer \subseteq DOMAIN amTxBuffer'
        BY <2>1 DEF TransmitPdcpPdu, Put
      <4>2. QED
        BY <2>0, <3>1, <4>1 DEF NackIsAnswerable, rxVars, statusVars
    <3>8. QED
      BY <3>3, <3>4, <3>5, <3>6, <3>7 DEF RlcInv
  <2>2. ASSUME NEW nacks \in statusPdus, AmReceiveStatusPdu(nacks)
        PROVE  RlcInv'
    <3>1. PduInv'
      BY <2>0, <2>2, RetransmissionsInv DEF AmReceiveStatusPdu, PduInv
    <3>2. QED
      BY <2>0, <2>2, <3>1 DEF AmReceiveStatusPdu, RlcInv, SenderInv, AmReceiverInv,
        UmReceiverInv, InOrderExactlyOnce, NackIsAnswerable, txVars, rxVars, statusVars
  <2>3. CASE AmPollRetransmitTimeout
    <3>1. dataPdus' = dataPdus \cup Retransmissions(PollTargets)
      BY <2>3 DEF AmPollRetransmitTimeout
    <3>2. UNCHANGED <<mode, lossy, amTxNextSn, amTxBuffer, rxVars, statusPdus, sent>>
      BY <2>3 DEF AmPollRetransmitTimeout
    <3>3. PduInv'
      BY <2>0, <3>1, <3>2, RetransmissionsInv DEF PduInv
    <3>4. QED
      BY <2>0, <3>2, <3>3 DEF RlcInv, SenderInv, AmReceiverInv, UmReceiverInv,
        InOrderExactlyOnce, NackIsAnswerable, rxVars, statusVars
  <2>4. CASE AmSendStatusReport
    <3>1. statusPdus' \subseteq statusPdus \cup {amMissingSn} /\ amMissingSn' = {}
      BY <2>4 DEF AmSendStatusReport
    <3>2. UNCHANGED <<mode, lossy, txVars, umNextExpectedSn, amRxNextSn, amReorderBuffer,
                     delivered, dataPdus, sent>>
      BY <2>4 DEF AmSendStatusReport
    <3>3. NackIsAnswerable'
      BY <2>0, <3>1, <3>2 DEF NackIsAnswerable, txVars
    <3>4. QED
      BY <2>0, <3>2, <3>3 DEF RlcInv, SenderInv, PduInv, AmReceiverInv,
        UmReceiverInv, InOrderExactlyOnce, txVars
  <2>5. ASSUME NEW pdu \in dataPdus, NEW stays \in BOOLEAN
        PROVE  /\ UmReceive(pdu, stays) => RlcInv'
               /\ AmDropData(pdu, stays) => RlcInv'
               /\ AmDiscardDuplicate(pdu, stays) => RlcInv'
               /\ AmAcceptData(pdu, stays) => RlcInv'
    <3>1. /\ pdu.sn \in SnSpace /\ pdu.sdu \in Sdu
          /\ pdu.sdu = pdu.sn + 1 /\ pdu.sn < sent
      BY <2>0 DEF TypeOK, Pdu, PduInv
    <3>2. Take(pdu, stays) => /\ UNCHANGED <<mode, lossy, txVars, statusPdus, sent>>
                            /\ SenderInv' /\ PduInv'
      BY <2>0 DEF Take, SenderInv, PduInv, txVars
    <3>3. UmReceive(pdu, stays) => RlcInv'
      <4> SUFFICES ASSUME UmReceive(pdu, stays) PROVE RlcInv'
        OBVIOUS
      <4>1. Take(pdu, stays) /\ mode = "UM"
        BY DEF UmReceive
      <4>2. UmReceiverInv'
        <5>1. CASE IsStale(pdu.sn, umNextExpectedSn)
          BY <2>0, <3>2, <4>1, <5>1 DEF UmReceive, UmReceiverInv, rxVars
        <5>2. CASE ~IsStale(pdu.sn, umNextExpectedSn)
          <6>1. umNextExpectedSn' = pdu.sn + 1 /\ delivered' = Append(delivered, pdu.sdu)
            BY <2>0, <3>1, <5>2, SnPlusNoWrap DEF UmReceive, TypeOK, SnSpace
          <6>2. umNextExpectedSn <= pdu.sn /\ umNextExpectedSn \in Nat /\ pdu.sn \in Nat
            BY <2>0, <3>1, <5>2 DEF IsStale, TypeOK, SnSpace
          <6>3. \A i \in 1..Len(delivered) : delivered[i] \in Nat
            BY <2>0 DEF Sdu
          <6>4. QED
            BY <2>0, <3>1, <3>2, <4>1, <6>1, <6>2, <6>3 DEF UmReceiverInv
        <5>3. QED
          BY <5>1, <5>2
      <4>3. amMissingSn' = amMissingSn
        BY DEF UmReceive, rxVars, statusVars
      <4>4. NackIsAnswerable'
        BY <2>0, <3>2, <4>1, <4>3 DEF NackIsAnswerable, txVars
      <4>5. AmReceiverInv' /\ InOrderExactlyOnce'
        BY <3>2, <4>1 DEF AmReceiverInv, InOrderExactlyOnce
      <4>6. QED
        BY <3>2, <4>1, <4>2, <4>4, <4>5 DEF RlcInv
    <3>4. AmDropData(pdu, stays) => RlcInv'
      <4> SUFFICES ASSUME AmDropData(pdu, stays) PROVE RlcInv'
        OBVIOUS
      <4>1. Take(pdu, stays) /\ mode = "AM" /\ amMissingSn' = amMissingSn \cup {pdu.sn}
        BY DEF AmDropData
      <4>2. pdu.sn \in DOMAIN amTxBuffer
        BY <2>0, <3>1, <4>1 DEF SenderInv, SnSpace
      <4>3. NackIsAnswerable'
        BY <2>0, <3>2, <4>1, <4>2 DEF NackIsAnswerable, txVars
      <4>4. QED
        BY <2>0, <3>2, <4>1, <4>3 DEF AmDropData, RlcInv, AmReceiverInv,
          UmReceiverInv, InOrderExactlyOnce
    <3>5. AmDiscardDuplicate(pdu, stays) => RlcInv'
      BY <2>0, <3>2 DEF AmDiscardDuplicate, RlcInv, AmReceiverInv, UmReceiverInv,
        InOrderExactlyOnce, NackIsAnswerable, rxVars, txVars, statusVars
    <3>6. AmAcceptData(pdu, stays) => RlcInv'
      <4> SUFFICES ASSUME AmAcceptData(pdu, stays) PROVE RlcInv'
        OBVIOUS
      <4>1. Take(pdu, stays) /\ mode = "AM" /\ umNextExpectedSn' = umNextExpectedSn
        BY DEF AmAcceptData
      <4>2. PICK n \in 0..SnMod :
              /\ amRxNextSn' = amRxNextSn + n
              /\ delivered' = delivered \o [i \in 1..n |-> amRxNextSn + i]
              /\ amRxNextSn + n <= sent
              /\ \A sn \in DOMAIN amReorderBuffer' :
                   sn < sent /\ amReorderBuffer'[sn] = sn + 1
              /\ \A sn \in amMissingSn' : sn \in amMissingSn \/ sn \in 0..(sent - 1)
        BY AcceptEffect
      <4>3. /\ n \in Nat /\ amRxNextSn = Len(delivered)
            /\ \A i \in 1..Len(delivered) : delivered[i] = i
        BY <2>0, <4>1 DEF AmReceiverInv, InOrderExactlyOnce
      <4>4. [i \in 1..n |-> amRxNextSn + i] \in Seq(Nat)
        BY <4>3
      <4>5. Len(delivered') = Len(delivered) + n
        BY <2>0, <4>2, <4>3, <4>4
      <4>6. \A i \in 1..Len(delivered') : delivered'[i] = i
        BY <2>0, <4>2, <4>3, <4>4, <4>5
      <4>7. AmReceiverInv' /\ InOrderExactlyOnce'
        BY <3>2, <4>1, <4>2, <4>3, <4>5, <4>6 DEF AmReceiverInv, InOrderExactlyOnce
      <4>8. NackIsAnswerable'
        BY <2>0, <3>2, <4>1, <4>2 DEF NackIsAnswerable, SenderInv, txVars
      <4>9. QED
        BY <3>2, <4>1, <4>7, <4>8 DEF RlcInv, UmReceiverInv
    <3>7. QED
      BY <3>3, <3>4, <3>5, <3>6
  <2>6. CASE Phy
    BY <2>0, <2>6 DEF Phy, LoseData, LoseStatus, RlcInv, SenderInv, PduInv,
      AmReceiverInv, UmReceiverInv, InOrderExactlyOnce, NackIsAnswerable,
      rxVars, txVars, statusVars
  <2>7. CASE UNCHANGED vars
    BY <2>0, <2>7 DEF vars, RlcInv, SenderInv, PduInv, AmReceiverInv, UmReceiverInv,
      InOrderExactlyOnce, NackIsAnswerable, rxVars, txVars, statusVars, netVars
  <2>8. QED
    BY <2>1, <2>2, <2>3, <2>4, <2>5, <2>6, <2>7 DEF Next, Sender, Receiver
<1>3. QED
  BY <1>1, <1>2, TypeCorrect, PTL DEF Spec

(* The AM receiver hands up a prefix of what was submitted.                *)
THEOREM InOrderCorrect ==
  ASSUME MaxSdu < SnMod
  PROVE  Spec => []InOrderExactlyOnce
<1>1. RlcInv => InOrderExactlyOnce
  BY DEF RlcInv
<1>2. QED
  BY <1>1, RlcInvCorrect, PTL

(* The receiver never NACKs an SDU the sender does not hold.               *)
THEOREM NackIsAnswerableCorrect ==
  ASSUME MaxSdu < SnMod
  PROVE  Spec => []NackIsAnswerable
<1>1. RlcInv => NackIsAnswerable
  BY DEF RlcInv
<1>2. QED
  BY <1>1, RlcInvCorrect, PTL

(* A missing SN keeps a STATUS PDU scheduled, even when SNs wrap.          *)
THEOREM MissingIsReportedCorrect == Spec => []MissingIsReported
<1>1. Init => MissingIsReported
  BY DEF Init, MissingIsReported
<1>2. MissingIsReported /\ [Next]_vars => MissingIsReported'
  <2> SUFFICES ASSUME MissingIsReported, [Next]_vars
               PROVE  MissingIsReported'
    OBVIOUS
  <2>1. UNCHANGED statusVars => MissingIsReported'
    BY DEF MissingIsReported, statusVars
  <2>2. CASE TransmitPdcpPdu \/ AmPollRetransmitTimeout \/ Phy \/ UNCHANGED vars
    <3>1. UNCHANGED statusVars
      BY <2>2 DEF TransmitPdcpPdu, AmPollRetransmitTimeout, Phy, LoseData,
        LoseStatus, rxVars, vars
    <3>2. QED
      BY <2>1, <3>1
  <2>3. ASSUME NEW nacks \in statusPdus, AmReceiveStatusPdu(nacks)
        PROVE  MissingIsReported'
    BY <2>1, <2>3 DEF AmReceiveStatusPdu, rxVars
  <2>4. CASE AmSendStatusReport
    BY <2>4 DEF AmSendStatusReport, MissingIsReported
  <2>5. ASSUME NEW pdu \in dataPdus, NEW stays \in BOOLEAN
        PROVE  /\ UmReceive(pdu, stays) => MissingIsReported'
               /\ AmDropData(pdu, stays) => MissingIsReported'
               /\ AmDiscardDuplicate(pdu, stays) => MissingIsReported'
               /\ AmAcceptData(pdu, stays) => MissingIsReported'
    <3>1. UmReceive(pdu, stays) => MissingIsReported'
      BY <2>1 DEF UmReceive, rxVars
    <3>2. AmDropData(pdu, stays) => MissingIsReported'
      BY DEF AmDropData, MissingIsReported
    <3>3. AmDiscardDuplicate(pdu, stays) => MissingIsReported'
      BY <2>1 DEF AmDiscardDuplicate, rxVars
    <3>4. AmAcceptData(pdu, stays) => MissingIsReported'
      <4> SUFFICES ASSUME AmAcceptData(pdu, stays), amMissingSn' # {}
                   PROVE  amStatusPending'
        BY DEF MissingIsReported
      <4>1. PICK buf, next :
              LET missing == (amMissingSn \ {pdu.sn}) \cup Gaps(buf, next)
              IN /\ amMissingSn' = missing
                 /\ amStatusPending' = (amStatusPending \/ ReportNeeded(buf, missing))
        BY DEF AmAcceptData
      <4>2. CASE amMissingSn # {}
        BY <4>1, <4>2 DEF MissingIsReported
      <4>3. CASE amMissingSn = {}
        <5>1. Gaps(buf, next) # {}
          BY <4>1, <4>3
        <5>2. DOMAIN buf # {}
          BY <5>1 DEF Gaps
        <5>3. QED
          BY <4>1, <5>2 DEF ReportNeeded
      <4>4. QED
        BY <4>2, <4>3
    <3>5. QED
      BY <3>1, <3>2, <3>3, <3>4
  <2>6. QED
    BY <2>2, <2>3, <2>4, <2>5 DEF Next, Sender, Receiver
<1>3. QED
  BY <1>1, <1>2, PTL DEF Spec

-----------------------------------------------------------------------------
(* The entities implement the abstract bearer.                             *)

THEOREM RlcImplementsDelivery ==
  ASSUME MaxSdu < SnMod
  PROVE  Spec => ImplementsDelivery
<1> USE NtnRlcAssumption
<1>1. Init => Delivery!Init
  BY DEF Init, Delivery!Init
<1>2. RlcInv /\ [Next]_vars => [Delivery!Next]_(Delivery!vars)
  <2> SUFFICES ASSUME RlcInv, [Next]_vars
               PROVE  Delivery!Next \/ UNCHANGED Delivery!vars
    OBVIOUS
  <2>0. /\ TypeOK /\ PduInv /\ UmReceiverInv
        /\ sent \in Nat /\ delivered \in Seq(Sdu)
    BY DEF RlcInv, TypeOK
  <2>1. CASE TransmitPdcpPdu
    BY <2>1 DEF TransmitPdcpPdu, Delivery!Next, Delivery!Submit, rxVars
  <2>2. CASE AmPollRetransmitTimeout \/ AmSendStatusReport \/ Phy \/ UNCHANGED vars
    BY <2>2 DEF AmPollRetransmitTimeout, AmSendStatusReport, Phy, LoseData,
      LoseStatus, rxVars, vars, Delivery!vars
  <2>3. ASSUME NEW nacks \in statusPdus, AmReceiveStatusPdu(nacks)
        PROVE  UNCHANGED Delivery!vars
    BY <2>3 DEF AmReceiveStatusPdu, rxVars, Delivery!vars
  <2>4. ASSUME NEW pdu \in dataPdus, NEW stays \in BOOLEAN,
               \/ AmDropData(pdu, stays)
               \/ AmDiscardDuplicate(pdu, stays)
        PROVE  UNCHANGED Delivery!vars
    BY <2>4 DEF AmDropData, AmDiscardDuplicate, Take, rxVars, Delivery!vars
  <2>5. ASSUME NEW pdu \in dataPdus, NEW stays \in BOOLEAN, UmReceive(pdu, stays)
        PROVE  Delivery!Next \/ UNCHANGED Delivery!vars
    <3>1. mode = "UM" /\ UNCHANGED <<mode, lossy, sent>>
      BY <2>5 DEF UmReceive, Take
    <3>2. CASE IsStale(pdu.sn, umNextExpectedSn)
      BY <2>5, <3>1, <3>2 DEF UmReceive, rxVars, Delivery!vars
    <3>3. CASE ~IsStale(pdu.sn, umNextExpectedSn)
      <4>1. delivered' = Append(delivered, pdu.sdu)
        BY <2>5, <3>3 DEF UmReceive
      <4>2. pdu.sdu = pdu.sn + 1 /\ pdu.sn \in Nat /\ pdu.sn < sent
        BY <2>0 DEF PduInv, TypeOK, Pdu, SnSpace
      <4>3. umNextExpectedSn \in Nat /\ umNextExpectedSn <= pdu.sn
        BY <2>0, <3>3, <4>2 DEF IsStale, TypeOK, SnSpace
      <4>4. \A i \in 1..Len(delivered) :
              delivered[i] \in Nat /\ delivered[i] <= umNextExpectedSn
        BY <2>0, <3>1 DEF UmReceiverInv, Sdu
      <4>5. \A i \in 1..Len(delivered) : delivered[i] < pdu.sdu
        BY <4>2, <4>3, <4>4
      <4>6. pdu.sdu \in 1..sent
        BY <2>0, <4>2
      <4>7. Delivery!DeliverLater(pdu.sdu)
        BY <3>1, <4>1, <4>5 DEF Delivery!DeliverLater
      <4>8. QED
        BY <4>6, <4>7 DEF Delivery!Next
    <3>4. QED
      BY <3>2, <3>3
  <2>6. ASSUME NEW pdu \in dataPdus, NEW stays \in BOOLEAN, AmAcceptData(pdu, stays)
        PROVE  Delivery!Next \/ UNCHANGED Delivery!vars
    <3>1. mode = "AM" /\ UNCHANGED <<mode, lossy, sent>> /\ amRxNextSn = Len(delivered)
      BY <2>6 DEF AmAcceptData, Take, RlcInv, AmReceiverInv
    <3>2. PICK n \in 0..SnMod :
            /\ delivered' = delivered \o [i \in 1..n |-> amRxNextSn + i]
            /\ amRxNextSn + n <= sent
      BY <2>6, AcceptEffect
    <3>3. n \in Nat /\ Len(delivered) \in Nat
      BY <2>0
    <3>4. CASE n = 0
      <4>1. [i \in 1..n |-> amRxNextSn + i] = << >>
        BY <3>4
      <4>2. delivered \o << >> = delivered
        BY <2>0
      <4>3. delivered' = delivered
        BY <3>2, <4>1, <4>2
      <4>4. QED
        BY <3>1, <4>3 DEF Delivery!vars
    <3>5. CASE n # 0
      <4>1. n \in 1..(sent - Len(delivered))
        BY <2>0, <3>1, <3>2, <3>3, <3>5
      <4>2. Delivery!DeliverNext(n)
        BY <3>1, <3>2 DEF Delivery!DeliverNext
      <4>3. QED
        BY <4>1, <4>2 DEF Delivery!Next
    <3>6. QED
      BY <3>4, <3>5
  <2>7. QED
    BY <2>1, <2>2, <2>3, <2>4, <2>5, <2>6 DEF Next, Sender, Receiver
<1>3. QED
  BY <1>1, <1>2, RlcInvCorrect, PTL DEF Spec, ImplementsDelivery, Delivery!Spec


-----------------------------------------------------------------------------
(* Over a PHY that loses nothing, no SDU of an AM bearer is forgotten.     *)

(* Who answers for an SN only changes with the receiver and the PDUs in    *)
(* flight.                                                                 *)
LEMMA StillAccountedFor ==
  ASSUME NEW sn, IsAccountedFor(sn), UNCHANGED rxVars,
         dataPdus \subseteq dataPdus', statusPdus \subseteq statusPdus'
  PROVE  IsAccountedFor(sn)'
BY DEF IsAccountedFor, rxVars, statusVars

THEOREM NoSduForgottenCorrect ==
  ASSUME MaxSdu < SnMod
  PROVE  Spec => []NoSduForgotten
<1> USE NtnRlcAssumption
<1>1. Init => NoSduForgotten
  BY DEF Init, NoSduForgotten
<1>2. RlcInv /\ NoSduForgotten /\ [Next]_vars => NoSduForgotten'
  <2> SUFFICES ASSUME RlcInv, NoSduForgotten, [Next]_vars, mode' = "AM", ~lossy',
                      NEW sn \in DOMAIN amTxBuffer'
               PROVE  IsAccountedFor(sn)'
    BY DEF NoSduForgotten
  <2>0. TypeOK /\ amRxNextSn \in Nat
    BY DEF RlcInv, TypeOK, SnSpace
  <2>1. UNCHANGED <<mode, lossy>>
    BY DEF Next, Sender, Receiver, Phy, TransmitPdcpPdu, AmReceiveStatusPdu,
      AmPollRetransmitTimeout, AmSendStatusReport, UmReceive, AmDropData,
      AmDiscardDuplicate, AmAcceptData, Take, LoseData, LoseStatus, vars
  <2>2. CASE TransmitPdcpPdu
    <3>1. CASE sn \in DOMAIN amTxBuffer
      <4>1. IsAccountedFor(sn)
        BY <2>1, <3>1 DEF NoSduForgotten
      <4>2. QED
        BY <2>2, <4>1, StillAccountedFor DEF TransmitPdcpPdu
    <3>2. CASE sn \notin DOMAIN amTxBuffer
      <4>1. sn = amTxNextSn
        BY <2>1, <2>2, <3>2 DEF TransmitPdcpPdu, Put
      <4>2. [sn |-> sn, sdu |-> sent + 1, isRetx |-> FALSE] \in dataPdus'
        BY <2>2, <4>1 DEF TransmitPdcpPdu
      <4>3. QED
        BY <4>2 DEF IsAccountedFor
    <3>3. QED
      BY <3>1, <3>2
  <2>3. ASSUME UNCHANGED amTxBuffer
        PROVE  IsAccountedFor(sn)
    BY <2>1, <2>3 DEF NoSduForgotten
  <2>4. ASSUME NEW nacks \in statusPdus, AmReceiveStatusPdu(nacks)
        PROVE  IsAccountedFor(sn)'
    <3>1. /\ UNCHANGED amTxBuffer /\ UNCHANGED rxVars
          /\ statusPdus' = statusPdus \ {nacks}
          /\ dataPdus' = dataPdus \cup Retransmissions(nacks)
      BY <2>4 DEF AmReceiveStatusPdu, txVars
    <3>2. CASE sn \in nacks
      <4>1. [sn |-> sn, sdu |-> amTxBuffer[sn], isRetx |-> TRUE]
               \in Retransmissions(nacks)
        BY <3>1, <3>2 DEF Retransmissions
      <4>2. QED
        BY <3>1, <4>1 DEF IsAccountedFor
    <3>3. CASE sn \notin nacks
      BY <2>3, <3>1, <3>3 DEF IsAccountedFor, rxVars, statusVars
    <3>4. QED
      BY <3>2, <3>3
  <2>5. CASE AmPollRetransmitTimeout
    <3>1. /\ UNCHANGED <<amTxBuffer, rxVars, statusPdus>>
          /\ dataPdus \subseteq dataPdus'
      BY <2>5 DEF AmPollRetransmitTimeout
    <3>2. QED
      BY <2>3, <3>1, StillAccountedFor
  <2>6. CASE AmSendStatusReport
    <3>1. /\ UNCHANGED <<amTxBuffer, amRxNextSn, amReorderBuffer, dataPdus>>
          /\ statusPdus \subseteq statusPdus'
          /\ amMissingSn # {} => amMissingSn \in statusPdus'
      BY <2>6 DEF AmSendStatusReport, txVars
    <3>2. QED
      BY <2>3, <3>1 DEF IsAccountedFor
  <2>7. ASSUME NEW pdu \in dataPdus, NEW stays \in BOOLEAN
        PROVE  /\ UmReceive(pdu, stays) => IsAccountedFor(sn)'
               /\ AmDropData(pdu, stays) => IsAccountedFor(sn)'
               /\ AmDiscardDuplicate(pdu, stays) => IsAccountedFor(sn)'
               /\ AmAcceptData(pdu, stays) => IsAccountedFor(sn)'
    <3>1. ASSUME Take(pdu, stays)
          PROVE  /\ UNCHANGED <<amTxBuffer, statusPdus>>
                 /\ dataPdus \ {pdu} \subseteq dataPdus'
                 /\ IsAccountedFor(sn)
      <4>1. /\ UNCHANGED <<amTxBuffer, statusPdus>>
            /\ dataPdus \ {pdu} \subseteq dataPdus'
        BY <3>1 DEF Take, txVars
      <4>2. QED
        BY <2>3, <4>1
    <3>2. UmReceive(pdu, stays) => IsAccountedFor(sn)'
      BY <2>1 DEF UmReceive
    <3>3. AmDropData(pdu, stays) => IsAccountedFor(sn)'
      BY <3>1 DEF AmDropData, IsAccountedFor
    <3>4. AmDiscardDuplicate(pdu, stays) => IsAccountedFor(sn)'
      <4> SUFFICES ASSUME AmDiscardDuplicate(pdu, stays) PROVE IsAccountedFor(sn)'
        OBVIOUS
      <4>1. Take(pdu, stays) /\ UNCHANGED rxVars /\ IsStale(pdu.sn, amRxNextSn)
        BY DEF AmDiscardDuplicate
      <4>2. QED
        BY <3>1, <4>1 DEF IsAccountedFor, rxVars, statusVars
    <3>5. AmAcceptData(pdu, stays) => IsAccountedFor(sn)'
      <4> SUFFICES ASSUME AmAcceptData(pdu, stays) PROVE IsAccountedFor(sn)'
        OBVIOUS
      <4>1. PICK n \in 0..SnMod :
              /\ amRxNextSn' = amRxNextSn + n
              /\ \A k \in DOMAIN amReorderBuffer \cup {pdu.sn} :
                   k \in DOMAIN amReorderBuffer' \/ k < amRxNextSn'
              /\ amMissingSn \ {pdu.sn} \subseteq amMissingSn'
        BY AcceptEffect
      <4>2. Take(pdu, stays)
        BY DEF AmAcceptData
      <4>3. CASE sn < amRxNextSn
        <5>1. sn \in Nat /\ n \in Nat
          BY <2>0, <3>1, <4>2 DEF TypeOK, SnSpace
        <5>2. sn < amRxNextSn'
          BY <2>0, <4>1, <4>3, <5>1
        <5>3. QED
          BY <5>2 DEF IsAccountedFor, IsStale
      <4>4. CASE sn \in DOMAIN amReorderBuffer \cup {pdu.sn}
        BY <4>1, <4>4 DEF IsAccountedFor, IsStale
      <4>5. CASE sn \in amMissingSn \ {pdu.sn}
        BY <4>1, <4>5 DEF IsAccountedFor
      <4>6. CASE \E q \in dataPdus \ {pdu} : q.sn = sn
        BY <3>1, <4>2, <4>6 DEF IsAccountedFor
      <4>7. CASE \E nacks \in statusPdus : sn \in nacks
        BY <3>1, <4>2, <4>7 DEF IsAccountedFor
      <4>8. QED
        BY <3>1, <4>2, <4>3, <4>4, <4>5, <4>6, <4>7 DEF IsAccountedFor, IsStale
    <3>6. QED
      BY <3>2, <3>3, <3>4, <3>5
  <2>8. CASE Phy
    BY <2>8 DEF Phy, LoseData, LoseStatus
  <2>9. CASE UNCHANGED vars
    <3>1. UNCHANGED <<amTxBuffer, rxVars, dataPdus, statusPdus>>
      BY <2>9 DEF vars, txVars, netVars
    <3>2. QED
      BY <2>3, <3>1, StillAccountedFor
  <2>10. QED
    BY <2>2, <2>4, <2>5, <2>6, <2>7, <2>8, <2>9 DEF Next, Sender, Receiver
<1>3. QED
  BY <1>1, <1>2, RlcInvCorrect, PTL DEF Spec

-----------------------------------------------------------------------------
(* The traffic of a user: FTP.                                             *)

(* The types of the driver's state. *)
FtpTypes ==
  /\ model \in {1, 2, 3}
  /\ current \in Nat \ {0} /\ pending \in Nat /\ completed \in Nat /\ timedOut \in Nat
  /\ fileInFlight \in BOOLEAN
  /\ transfer \in Seq({"waiting", "sending", "closed"}) /\ Len(transfer) = current
  /\ looks \in Seq(Nat) /\ Len(looks) = current
  /\ watchdog \subseteq Ftp!Files

(* A file that is not in flight is over, or overdue; the current one may   *)
(* have been found so while another is not there yet to take its place.    *)
FilesInv ==
  model # 1 =>
    /\ \A f \in Ftp!Files : f # current \/ ~fileInFlight =>
         transfer[f] = "closed" \/ f \notin watchdog
    /\ pending > 0 => fileInFlight

(* The files that have ended, one way or the other. *)
Ended == completed + timedOut
InFlightCount == IF fileInFlight THEN 1 ELSE 0
Counted == IF model = 1 THEN Ended + InFlightCount <= current ELSE Ended + InFlightCount = current

(* The types, the two halves of FilesFollow, and that nothing ends before  *)
(* the driver starts: Start makes the first application send, whatever it  *)
(* was doing.                                                              *)
FtpInv ==
  /\ FtpTypes /\ FilesInv /\ Counted
  /\ ~started => current = 1 /\ fileInFlight /\ ~active

FtpService == service = "ftp" => FtpInv
NoFtpService ==
  service # "ftp" =>
    /\ model = 1 /\ current = 0
    /\ completed = 0 /\ timedOut = 0 /\ fileInFlight = FALSE

(* Counted says what EachFileCountedOnce says.                             *)
LEMMA CountedIs == Ftp!EachFileCountedOnce <=> Counted
BY DEF Ftp!EachFileCountedOnce, Counted, Ended, InFlightCount

(* Without FTP no file there is, and none is counted.                      *)
LEMMA FtpInvImplies == FtpService /\ NoFtpService => FilesFollow
<1> SUFFICES ASSUME FtpService, NoFtpService PROVE FilesFollow
  OBVIOUS
<1>1. CASE service = "ftp"
  BY <1>1, CountedIs DEF FtpService, FtpInv, FilesInv, FtpTypes, FilesFollow, Ftp!FilesFollow,
    Ftp!OneAtATime
<1>2. CASE service # "ftp"
  BY <1>2 DEF NoFtpService, FilesFollow, Ftp!FilesFollow, Ftp!OneAtATime, Ftp!EachFileCountedOnce
<1> QED
  BY <1>1, <1>2

(* InstallFtpDriver's first file is in flight, watched and not counted.    *)
LEMMA FtpInit == ASSUME Ftp!Init PROVE FtpInv
<1>1. Models \subseteq 1..3 /\ FtpRetries \in Nat
  BY TrafficAssumption DEF Ftp!FtpAssumption
<1>2. FtpTypes
  BY <1>1 DEF Ftp!Init, FtpTypes, Ftp!Files
<1> QED
  BY <1>1, <1>2 DEF Ftp!Init, FtpInv, FilesInv, Ftp!Files, Counted, Ended, InFlightCount

(* What a new file leaves behind is over: no file is in flight, or the      *)
(* current one has just ended.                                             *)
LEMMA SpawnKeeps ==
  ASSUME FtpTypes, NEW files, files \in Seq({"waiting", "sending", "closed"}), Len(files) = current,
         NEW dogs, dogs \subseteq Ftp!Files,
         Ftp!FtpSpawnFile(files), Ftp!WithWatchdogs(dogs),
         model' = model, pending' \in Nat, completed' \in Nat, timedOut' \in Nat,
         model # 1 => \A f \in Ftp!Files : files[f] = "closed" \/ f \notin dogs
  PROVE  FtpTypes' /\ FilesInv'
<1>1. /\ current' = current + 1 /\ fileInFlight' = TRUE
      /\ transfer' = Append(files, "waiting") /\ looks' = Append(looks, FtpRetries + 1)
      /\ watchdog' = dogs \cup (1..current' \ 1..current)
  BY DEF Ftp!FtpSpawnFile, Ftp!WithWatchdogs, Ftp!Files
<1>2. FtpRetries \in Nat /\ current \in Nat
  BY TrafficAssumption DEF Ftp!FtpAssumption, FtpTypes
<1>3. FtpTypes'
  BY <1>1, <1>2 DEF FtpTypes, Ftp!Files
<1>4. ASSUME model # 1, NEW f \in 1..current', f # current'
      PROVE  transfer'[f] = "closed" \/ f \notin watchdog'
  <2>1. f \in 1..current
    BY <1>1, <1>2, <1>4
  <2>2. transfer'[f] = files[f]
    BY <1>1, <2>1
  <2>3. f \in watchdog' => f \in dogs
    BY <1>1, <2>1
  <2> QED
    BY <1>4, <2>1, <2>2, <2>3 DEF Ftp!Files
<1> QED
  BY <1>1, <1>3, <1>4 DEF FilesInv, Ftp!Files

(* Without a new file only what became of the others changes.              *)
LEMMA NoSpawnKeeps ==
  ASSUME FtpTypes, NEW files, files \in Seq({"waiting", "sending", "closed"}), Len(files) = current,
         NEW dogs, dogs \subseteq Ftp!Files,
         Ftp!NoSpawn(files), Ftp!WithWatchdogs(dogs),
         model' = model, pending' \in Nat, completed' \in Nat, timedOut' \in Nat,
         fileInFlight' \in BOOLEAN
  PROVE  FtpTypes' /\ watchdog' = dogs /\ transfer' = files /\ current' = current
BY DEF Ftp!NoSpawn, Ftp!WithWatchdogs, Ftp!Files, FtpTypes

(* The counts are numbers.                                                 *)
LEMMA EndedType == FtpTypes => Ended \in Nat /\ current \in Nat /\ InFlightCount \in {0, 1}
BY DEF FtpTypes, Ended, InFlightCount

(* The end of the current file, by its socket or by its watchdog: what is  *)
(* over or no longer watched by then may give way to another file.         *)
LEMMA FileEnds ==
  ASSUME FtpInv, fileInFlight, active, active' = active, started' = started, model' = model,
         NEW files, files \in Seq({"waiting", "sending", "closed"}), Len(files) = current,
         NEW dogs, dogs \subseteq Ftp!Files,
         model # 1 => \A f \in Ftp!Files : files[f] = "closed" \/ f \notin dogs,
         Ftp!FtpOnFileComplete(files), Ftp!WithWatchdogs(dogs),
         completed' \in Nat, timedOut' \in Nat, Ended' = Ended + 1
  PROVE  FtpInv'
<1>1. /\ Ended \in Nat /\ current \in Nat
      /\ IF model = 1 THEN Ended + 1 <= current ELSE Ended + 1 = current
  <2>1. InFlightCount = 1
    BY DEF InFlightCount
  <2>2. Counted
    BY DEF FtpInv
  <2> QED
    BY <2>1, <2>2, EndedType DEF Counted, FtpInv
<1>3. started'
  BY DEF FtpInv
<1>4. CASE Ftp!FtpSpawnFile(files) /\ pending' \in Nat
  <2>1. FtpTypes' /\ FilesInv'
    BY <1>4, SpawnKeeps DEF FtpInv
  <2>2. current' = current + 1 /\ InFlightCount' = 1
    BY <1>4 DEF Ftp!FtpSpawnFile, InFlightCount
  <2>3. Counted'
    BY <1>1, <2>2 DEF Counted
  <2> QED
    BY <1>3, <2>1, <2>3 DEF FtpInv
<1>5. CASE /\ model = 1 \/ (model = 3 /\ pending = 0)
           /\ fileInFlight' = FALSE /\ Ftp!NoSpawn(files) /\ UNCHANGED pending
  <2>1. FtpTypes' /\ watchdog' = dogs /\ transfer' = files /\ current' = current
    BY <1>5, NoSpawnKeeps DEF FtpInv, FtpTypes
  <2>2. FilesInv'
    BY <1>5, <2>1 DEF FilesInv, Ftp!Files
  <2>3. InFlightCount' = 0
    BY <1>5 DEF InFlightCount
  <2>4. Counted'
    BY <1>1, <2>1, <2>3 DEF Counted
  <2> QED
    BY <1>3, <2>1, <2>2, <2>4 DEF FtpInv
<1> QED
  <2>1. pending \in Nat
    BY DEF FtpInv, FtpTypes
  <2>2. CASE model = 2 /\ Ftp!FtpSpawnFile(files) /\ UNCHANGED pending
    BY <1>4, <2>1, <2>2
  <2>3. CASE pending > 0 /\ pending' = pending - 1 /\ Ftp!FtpSpawnFile(files)
    <3>1. pending' \in Nat
      BY <2>1, <2>3
    <3> QED
      BY <1>4, <2>3, <3>1
  <2> QED
    BY <1>5, <2>2, <2>3 DEF Ftp!FtpOnFileComplete

(* An arrival queues behind the file in flight or is spawned when there is *)
(* none (in Model 1, in any case).                                         *)
LEMMA ArrivalKeepsFtp ==
  ASSUME FtpInv, Ftp!FtpOnArrival
  PROVE  FtpInv'
<1>1. /\ active /\ model # 2 /\ Ftp!WithWatchdogs(watchdog)
      /\ UNCHANGED <<model, active, started, completed, timedOut>>
  BY DEF Ftp!FtpOnArrival
<1>2. FtpTypes /\ Ended' = Ended /\ Ended \in Nat /\ current \in Nat /\ pending \in Nat
  BY <1>1, EndedType DEF FtpInv, Ended, FtpTypes
<1>3. started'
  BY <1>1 DEF FtpInv
<1>4. transfer \in Seq({"waiting", "sending", "closed"}) /\ Len(transfer) = current
      /\ watchdog \subseteq Ftp!Files
  BY <1>2 DEF FtpTypes
<1>5. completed' \in Nat /\ timedOut' \in Nat
  BY <1>1, <1>2 DEF FtpTypes
<1>6. CASE Ftp!MustQueue
  <2>1. pending' = pending + 1 /\ Ftp!NoSpawn(transfer) /\ UNCHANGED fileInFlight /\ fileInFlight
    BY <1>6 DEF Ftp!FtpOnArrival, Ftp!MustQueue
  <2>2. FtpTypes' /\ watchdog' = watchdog /\ transfer' = transfer /\ current' = current
    <3>1. pending' \in Nat /\ fileInFlight' \in BOOLEAN
      BY <1>2, <2>1 DEF FtpTypes
    <3> QED
      BY <1>1, <1>2, <1>4, <1>5, <2>1, <3>1, NoSpawnKeeps
  <2>3. FilesInv'
    BY <1>1, <2>1, <2>2 DEF FtpInv, FilesInv, Ftp!Files
  <2>4. Counted'
    BY <1>1, <1>2, <2>1, <2>2 DEF FtpInv, Counted, InFlightCount
  <2> QED
    BY <1>3, <2>2, <2>3, <2>4 DEF FtpInv
<1>7. CASE ~Ftp!MustQueue
  <2>1. Ftp!FtpSpawnFile(transfer) /\ UNCHANGED pending
    BY <1>7 DEF Ftp!FtpOnArrival
  <2>2. model # 1 => \A f \in Ftp!Files : transfer[f] = "closed" \/ f \notin watchdog
    <3>1. model # 1 => ~fileInFlight
      BY <1>1, <1>2, <1>7 DEF Ftp!MustQueue, FtpTypes
    <3> QED
      BY <3>1 DEF FtpInv, FilesInv
  <2>3. FtpTypes' /\ FilesInv'
    BY <1>1, <1>2, <1>4, <1>5, <2>1, <2>2, SpawnKeeps
  <2>4. current' = current + 1 /\ InFlightCount' = 1
    BY <2>1 DEF Ftp!FtpSpawnFile, InFlightCount
  <2>5. Counted'
    <3>1. CASE model = 1
      <4>1. Ended + InFlightCount <= current
        BY <3>1 DEF FtpInv, Counted
      <4>2. InFlightCount \in {0, 1}
        BY <1>2, EndedType
      <4>3. Ended + 1 <= current + 1
        BY <1>2, <4>1, <4>2
      <4> QED
        BY <1>1, <1>2, <2>4, <3>1, <4>3 DEF Counted
    <3>2. CASE model # 1
      <4>1. InFlightCount = 0
        BY <1>1, <1>2, <1>7, <3>2 DEF Ftp!MustQueue, FtpTypes, InFlightCount
      <4>2. Ended = current
        BY <1>2, <3>2, <4>1 DEF FtpInv, Counted
      <4> QED
        BY <1>1, <1>2, <2>4, <3>2, <4>2 DEF Counted
    <3> QED
      BY <3>1, <3>2
  <2> QED
    BY <1>3, <2>3, <2>5 DEF FtpInv
<1> QED
  BY <1>6, <1>7

(* A socket closes: only the current file's, if it is in flight, counts.   *)
LEMMA CloseKeeps ==
  ASSUME FtpInv, NEW f \in Ftp!Files, Ftp!Close(f)
  PROVE  FtpInv'
<1> DEFINE files == [transfer EXCEPT ![f] = "closed"]
<1>1. /\ transfer[f] = "sending" /\ Ftp!WithWatchdogs(watchdog)
      /\ UNCHANGED <<model, active, started, timedOut>>
  BY DEF Ftp!Close
<1>2. FtpTypes /\ current \in Nat /\ f \in 1..current
  BY DEF FtpInv, FtpTypes, Ftp!Files
<1>3. /\ files \in Seq({"waiting", "sending", "closed"}) /\ Len(files) = current
      /\ watchdog \subseteq Ftp!Files
      /\ files[f] = "closed" /\ \A g \in Ftp!Files : g # f => files[g] = transfer[g]
  BY <1>2 DEF FtpTypes, Ftp!Files
<1>4. CASE f \in hooked /\ Ftp!Concerns(f)
  <2>1. completed' = completed + 1 /\ Ftp!FtpOnFileComplete(files)
    BY <1>4 DEF Ftp!Close
  <2>2. completed' \in Nat /\ timedOut' \in Nat /\ Ended' = Ended + 1
    BY <1>1, <1>2, <2>1 DEF FtpTypes, Ended
  <2>3. active /\ fileInFlight /\ f = current
    BY <1>4 DEF Ftp!Concerns
  <2>4. model # 1 => \A g \in Ftp!Files : files[g] = "closed" \/ g \notin watchdog
    BY <1>3, <2>3 DEF FtpInv, FilesInv
  <2> HIDE DEF files
  <2> QED
    BY <1>1, <1>3, <2>1, <2>2, <2>3, <2>4, FileEnds
<1>5. CASE ~(f \in hooked /\ Ftp!Concerns(f))
  <2>1. Ftp!NoSpawn(files) /\ UNCHANGED <<completed, fileInFlight, pending>>
    BY <1>5 DEF Ftp!Close
  <2>2. completed' \in Nat /\ timedOut' \in Nat /\ pending' \in Nat /\ fileInFlight' \in BOOLEAN
    BY <1>1, <1>2, <2>1 DEF FtpTypes
  <2>3. FtpTypes' /\ watchdog' = watchdog /\ transfer' = files /\ current' = current
    <3> HIDE DEF files
    <3> QED
      BY <1>1, <1>2, <1>3, <2>1, <2>2, NoSpawnKeeps
  <2>4. FilesInv'
    <3>1. \A g \in Ftp!Files : transfer[g] = "closed" => files[g] = "closed"
      BY <1>3
    <3> HIDE DEF files
    <3> QED
      BY <1>1, <2>1, <2>3, <3>1 DEF FtpInv, FilesInv, Ftp!Files
  <2>5. Counted'
    BY <1>1, <2>1, <2>3 DEF FtpInv, Counted, Ended, InFlightCount
  <2>6. ~started' => current' = 1 /\ fileInFlight' /\ ~active'
    BY <1>1, <2>1, <2>3 DEF FtpInv
  <2> QED
    BY <2>3, <2>4, <2>5, <2>6 DEF FtpInv
<1> QED
  BY <1>4, <1>5

(* A watchdog fires, likewise.                                             *)
LEMMA WatchdogKeeps ==
  ASSUME FtpInv, NEW f \in Ftp!Files, Ftp!FtpWatchdog(f)
  PROVE  FtpInv'
<1> DEFINE dogs == watchdog \ {f}
<1>1. /\ started /\ f \in watchdog /\ Ftp!WithWatchdogs(dogs)
      /\ UNCHANGED <<model, active, started, completed>>
  BY DEF Ftp!FtpWatchdog
<1>2. FtpTypes /\ current \in Nat
  BY DEF FtpInv, FtpTypes
<1>3. /\ transfer \in Seq({"waiting", "sending", "closed"}) /\ Len(transfer) = current
      /\ dogs \subseteq Ftp!Files /\ f \notin dogs /\ dogs \subseteq watchdog
  BY <1>2 DEF FtpTypes
<1> HIDE DEF dogs
<1>4. CASE Ftp!Concerns(f)
  <2>1. timedOut' = timedOut + 1 /\ Ftp!FtpOnFileComplete(transfer)
    BY <1>4 DEF Ftp!FtpWatchdog
  <2>2. completed' \in Nat /\ timedOut' \in Nat /\ Ended' = Ended + 1
    BY <1>1, <1>2, <2>1 DEF FtpTypes, Ended
  <2>3. active /\ fileInFlight /\ f = current
    BY <1>4 DEF Ftp!Concerns
  <2>4. model # 1 => \A g \in Ftp!Files : transfer[g] = "closed" \/ g \notin dogs
    BY <1>3, <2>3 DEF FtpInv, FilesInv
  <2> QED
    BY <1>1, <1>3, <2>1, <2>2, <2>3, <2>4, FileEnds
<1>5. CASE ~Ftp!Concerns(f)
  <2>1. Ftp!NoSpawn(transfer) /\ UNCHANGED <<timedOut, fileInFlight, pending>>
    BY <1>5 DEF Ftp!FtpWatchdog
  <2>2. completed' \in Nat /\ timedOut' \in Nat /\ pending' \in Nat /\ fileInFlight' \in BOOLEAN
    BY <1>1, <1>2, <2>1 DEF FtpTypes
  <2>3. FtpTypes' /\ watchdog' = dogs /\ transfer' = transfer /\ current' = current
    BY <1>1, <1>2, <1>3, <2>1, <2>2, NoSpawnKeeps
  <2>4. FilesInv'
    BY <1>1, <1>3, <2>1, <2>3 DEF FtpInv, FilesInv, Ftp!Files
  <2>5. Counted'
    BY <1>1, <2>1, <2>3 DEF FtpInv, Counted, Ended, InFlightCount
  <2> QED
    BY <1>1, <2>3, <2>4, <2>5 DEF FtpInv
<1> QED
  BY <1>4, <1>5

(* The starts, the stop and the look-ups, which end no file. *)
LEMMA RestKeepsFtp ==
  ASSUME FtpInv,
         \/ Ftp!Start \/ Ftp!Stop
         \/ \E f \in Ftp!Files : Ftp!StartApplication(f) \/ Ftp!LookForSocket(f)
  PROVE  FtpInv'
<1>1. UNCHANGED <<model, fileInFlight, current, pending, completed, timedOut, watchdog>>
  BY DEF Ftp!Start, Ftp!Stop, Ftp!StartApplication, Ftp!LookForSocket
<1>2. FtpTypes /\ current \in Nat \ {0}
  BY DEF FtpInv, FtpTypes
<1>3. looks' \in Seq(Nat) /\ Len(looks') = current
  <2>1. CASE UNCHANGED looks
    BY <1>2, <2>1 DEF FtpTypes
  <2>2. ASSUME NEW f \in Ftp!Files, Ftp!LookForSocket(f)
        PROVE  looks' \in Seq(Nat) /\ Len(looks') = current
    <3>1. looks[f] - 1 \in Nat /\ looks[f] > 0
      BY <1>2, <2>2 DEF Ftp!LookForSocket, FtpTypes, Ftp!Files
    <3>2. \E n \in Nat : looks' = [looks EXCEPT ![f] = n]
      BY <2>2, <3>1 DEF Ftp!LookForSocket
    <3> QED
      BY <1>2, <2>2, <3>2 DEF FtpTypes, Ftp!Files
  <2> QED
    BY <2>1, <2>2 DEF Ftp!Start, Ftp!Stop, Ftp!StartApplication
<1>4. \/ transfer' = transfer
      \/ \E f \in Ftp!Files : /\ transfer' = [transfer EXCEPT ![f] = "sending"]
                              /\ transfer[f] = "waiting" \/ ~started
  BY <1>2 DEF Ftp!Start, Ftp!Stop, Ftp!StartApplication, Ftp!LookForSocket, Ftp!Files
<1>5. /\ transfer' \in Seq({"waiting", "sending", "closed"}) /\ Len(transfer') = current
  BY <1>2, <1>4 DEF FtpTypes, Ftp!Files
<1>6. FtpTypes'
  BY <1>1, <1>2, <1>3, <1>5 DEF FtpTypes, Ftp!Files
<1>7. FilesInv'
  <2>1. CASE transfer' = transfer
    BY <1>1, <2>1 DEF FtpInv, FilesInv, Ftp!Files
  <2>2. ASSUME NEW f \in Ftp!Files, transfer' = [transfer EXCEPT ![f] = "sending"],
               transfer[f] = "waiting" \/ ~started
        PROVE  FilesInv'
    <3>1. \A g \in Ftp!Files : g # f => transfer'[g] = transfer[g]
      BY <1>2, <2>2 DEF FtpTypes, Ftp!Files
    <3>2. CASE transfer[f] = "waiting"
      BY <1>1, <2>2, <3>1, <3>2 DEF FtpInv, FilesInv, Ftp!Files
    <3>3. CASE ~started
      <4>1. current = 1 /\ fileInFlight /\ f = current
        BY <3>3, <2>2 DEF FtpInv, Ftp!Files
      <4> QED
        BY <1>1, <4>1 DEF FtpInv, FilesInv, Ftp!Files
    <3> QED
      BY <2>2, <3>2, <3>3
  <2> QED
    BY <1>4, <2>1, <2>2
<1>8. Counted'
  BY <1>1 DEF FtpInv, Counted, Ended, InFlightCount
<1>9. ~started' => current' = 1 /\ fileInFlight' /\ ~active'
  BY <1>1 DEF FtpInv, Ftp!Start, Ftp!Stop, Ftp!StartApplication, Ftp!LookForSocket
<1> QED
  BY <1>6, <1>7, <1>8, <1>9 DEF FtpInv

(* FTP's files follow one another in all three models, whatever the order  *)
(* of closes, watchdogs and arrivals.                                      *)
THEOREM FilesFollowCorrect == TrafficSpec => []FilesFollow
<1>1. TrafficInit => FtpService /\ NoFtpService
  BY FtpInit DEF TrafficInit, FtpService, NoFtpService, NoFtp
<1>2. FtpService /\ NoFtpService /\ [TrafficNext]_allVars => FtpService' /\ NoFtpService'
  <2> SUFFICES ASSUME FtpService, NoFtpService, [TrafficNext]_allVars
               PROVE  FtpService' /\ NoFtpService'
    OBVIOUS
  <2>1. CASE FtpStep(Ftp!Next)
    <3>1. service = "ftp" /\ service' = service /\ Ftp!Next
      BY <2>1 DEF FtpStep
    <3>2. FtpInv'
      BY <3>1, ArrivalKeepsFtp, CloseKeeps, WatchdogKeeps, RestKeepsFtp DEF Ftp!Next, FtpService
    <3> QED
      BY <3>1, <3>2 DEF FtpService, NoFtpService
  <2>2. CASE UNCHANGED <<service, ftpVars>>
    BY <2>2 DEF ftpVars, FtpService, NoFtpService, FtpInv, FtpTypes, Ftp!Files, FilesInv, Counted,
      Ended, InFlightCount
  <2>3. CASE UdpStep(UdpLegs!Next) \/ HttpStep(Http!Next)
    BY <2>2, <2>3 DEF UdpStep, HttpStep
  <2>4. CASE LayerStep(Layers!Next) \/ RateStep(Rates!Next) \/ AccountStep(Accounts!Next)
    BY <2>2, <2>4 DEF LayerStep, RateStep, AccountStep, trafficVars
  <2>5. CASE UNCHANGED allVars
    BY <2>2, <2>5 DEF allVars, trafficVars
  <2> QED
    BY <2>1, <2>3, <2>4, <2>5 DEF TrafficNext
<1> QED
  BY <1>1, <1>2, FtpInvImplies, PTL DEF TrafficSpec

-----------------------------------------------------------------------------
(* The traffic of a user: the two legs of a VoIP session.                  *)

(* The legs there are by now.                                              *)
Legs == DOMAIN flows \cap {"A", "B"}

SessionTypes ==
  session \in [legATalking : BOOLEAN, inMutualSilence : BOOLEAN, primed : BOOLEAN,
               stateChange : Int, advancedNow : BOOLEAN]

LegTypes ==
  \A f \in Legs :
    flows[f] \in [started : BOOLEAN, active : BOOLEAN, voiceActive : BOOLEAN, wake : Nat]

(* What a leg last saw of its session, and for how long it may rely on it. *)
LegFollows(f) ==
  /\ flows[f].active => flows[f].started
  /\ flows[f].started =>
       /\ session.primed
       /\ flows[f].wake <= session.stateChange
       /\ flows[f].voiceActive => (f = "A") = session.legATalking
       /\ ~session.advancedNow \/ flows[f].wake > 0
            => flows[f].voiceActive = UdpLegs!Talks(f, session)

(* A session that has been advanced in this instant is not due again.      *)
LegsInv ==
  /\ SessionTypes /\ LegTypes
  /\ session.advancedNow => session.primed /\ session.stateChange > 0
  /\ \A f \in Legs : LegFollows(f)

(* If both legs talked, both would have seen their own turn.               *)
LEMMA LegsInvImplies == LegsInv => UdpLegs!LegsAgree
<1> SUFFICES ASSUME LegsInv PROVE UdpLegs!LegsAgree
  OBVIOUS
<1>1. ASSUME NEW f \in Legs, flows[f].active /\ flows[f].wake > 0
      PROVE  flows[f].voiceActive = UdpLegs!Talks(f, session)
  BY <1>1 DEF LegsInv, LegFollows
<1>2. ASSUME Legs = {"A", "B"}, \A f \in Legs : flows[f].started,
             flows["A"].voiceActive, flows["B"].voiceActive
      PROVE  FALSE
  <2>1. ("A" = "A") = session.legATalking
    BY <1>2 DEF LegsInv, LegFollows
  <2>2. ("B" = "A") = session.legATalking
    BY <1>2 DEF LegsInv, LegFollows
  <2>3. "B" # "A"
    OBVIOUS
  <2> QED
    BY <2>1, <2>2, <2>3
<1> QED
  BY <1>1, <1>2 DEF Legs, UdpLegs!LegsAgree

(* No leg has seen anything yet.                                           *)
LEMMA LegsInit == ASSUME UdpLegs!Init PROVE LegsInv
<1>1. SessionTypes /\ ~session.advancedNow
  BY DEF UdpLegs!Init, SessionTypes
<1>2. ASSUME NEW f \in Legs
      PROVE  /\ flows[f] \in [started : BOOLEAN, active : BOOLEAN, voiceActive : BOOLEAN,
                              wake : Nat]
             /\ ~flows[f].active /\ ~flows[f].started
  BY DEF UdpLegs!Init, Legs
<1> QED
  BY <1>1, <1>2 DEF LegsInv, LegTypes, LegFollows

(* What is assumed of intervals, spurts and gaps.                          *)
LEMMA UdpTimes ==
  /\ FrameInterval \in Nat /\ SilenceInterval \in Nat /\ FrameInterval > 0 /\ SilenceInterval > 0
  /\ Talk \subseteq Nat \ {0} /\ Gap \subseteq Nat \ {0}
BY TrafficAssumption DEF UdpLegs!UdpAssumption

(* AdvanceVoipSession primes the session, leaves it as it is, or, when it  *)
(* is due, turns from talk to silence or from silence to the other leg.    *)
LEMMA Advanced ==
  ASSUME LegsInv, NEW talk \in Talk, NEW gap \in Gap, NEW n,
         n = UdpLegs!AdvanceVoipSession(session, talk, gap)
  PROVE  /\ n \in [legATalking : BOOLEAN, inMutualSilence : BOOLEAN, primed : BOOLEAN,
                   stateChange : Int, advancedNow : BOOLEAN]
         /\ n.advancedNow /\ n.primed /\ n.stateChange > 0
         /\ \/ ~session.primed
            \/ /\ n.legATalking = session.legATalking
               /\ n.inMutualSilence = session.inMutualSilence
               /\ n.stateChange = session.stateChange
            \/ /\ ~session.advancedNow /\ session.stateChange <= 0
               /\ session.inMutualSilence
                  \/ (n.inMutualSilence /\ n.legATalking = session.legATalking)
<1>1. session \in [legATalking : BOOLEAN, inMutualSilence : BOOLEAN, primed : BOOLEAN,
                   stateChange : Int, advancedNow : BOOLEAN]
  BY DEF LegsInv, SessionTypes
<1>2. talk \in Int /\ gap \in Int /\ talk > 0 /\ gap > 0
  BY UdpTimes
<1>3. CASE ~session.primed
  <2>1. ~session.advancedNow
    BY <1>3 DEF LegsInv
  <2>2. n = [session EXCEPT !.primed = TRUE, !.stateChange = talk, !.advancedNow = TRUE]
    <3> DEFINE p == [session EXCEPT !.primed = TRUE, !.stateChange = talk]
    <3>1. UdpLegs!Primed(session, talk) = p
      BY <1>3 DEF UdpLegs!Primed
    <3>2. ~p.advancedNow /\ ~(p.stateChange <= 0)
      BY <1>1, <1>2, <2>1
    <3> HIDE DEF p
    <3>3. n = [p EXCEPT !.advancedNow = TRUE]
      BY <3>1, <3>2 DEF UdpLegs!AdvanceVoipSession
    <3> QED
      BY <1>1, <3>3 DEF p
  <2> QED
    BY <1>1, <1>2, <1>3, <2>2
<1>4. CASE session.primed /\ session.advancedNow
  <2>1. n = session
    BY <1>4 DEF UdpLegs!AdvanceVoipSession, UdpLegs!Primed
  <2> QED
    BY <1>1, <1>4, <2>1 DEF LegsInv
<1>5. CASE session.primed /\ ~session.advancedNow /\ session.stateChange > 0
  <2>1. n = [session EXCEPT !.advancedNow = TRUE]
    <3>1. UdpLegs!Primed(session, talk) = session
      BY <1>5 DEF UdpLegs!Primed
    <3>2. ~session.advancedNow /\ ~(session.stateChange <= 0)
      BY <1>1, <1>5
    <3> QED
      BY <3>1, <3>2 DEF UdpLegs!AdvanceVoipSession
  <2> QED
    BY <1>1, <1>5, <2>1
<1>6. CASE session.primed /\ ~session.advancedNow /\ session.stateChange <= 0
  <2>1. n = [UdpLegs!Turned(session, talk, gap) EXCEPT !.advancedNow = TRUE]
    BY <1>1, <1>6 DEF UdpLegs!AdvanceVoipSession, UdpLegs!Primed
  <2>2. CASE session.inMutualSilence
    <3>1. n = [session EXCEPT !.inMutualSilence = FALSE, !.legATalking = ~session.legATalking,
                              !.stateChange = talk, !.advancedNow = TRUE]
      BY <1>1, <2>1, <2>2 DEF UdpLegs!Turned
    <3> QED
      BY <1>1, <1>2, <1>6, <2>2, <3>1
  <2>3. CASE ~session.inMutualSilence
    <3>1. n = [session EXCEPT !.inMutualSilence = TRUE, !.stateChange = gap, !.advancedNow = TRUE]
      BY <1>1, <2>1, <2>3 DEF UdpLegs!Turned
    <3> QED
      BY <1>1, <1>2, <1>6, <2>3, <3>1
  <2> QED
    BY <2>2, <2>3
<1>7. session.stateChange > 0 \/ session.stateChange <= 0
  BY <1>1
<1> QED
  BY <1>3, <1>4, <1>5, <1>6, <1>7

(* A leg wakes no later than its session changes.                          *)
LEMMA NextWakeBounded ==
  ASSUME NEW v, NEW s, s.stateChange \in Int, s.stateChange > 0
  PROVE  UdpLegs!NextWake(v, s) \in Nat /\ UdpLegs!NextWake(v, s) <= s.stateChange
<1>1. CASE v
  BY <1>1, UdpTimes DEF UdpLegs!NextWake, UdpLegs!Smaller
<1>2. CASE ~v
  BY <1>2, UdpTimes DEF UdpLegs!NextWake, UdpLegs!Smaller
<1> QED
  BY <1>1, <1>2

(* A leg that runs sees its session as it is; one that does not has not   *)
(* slept through a change of it.                                           *)
LEMMA DriverKeeps ==
  ASSUME LegsInv, NEW f \in DOMAIN flows, UdpLegs!Driver(f)
  PROVE  LegsInv'
<1>1. CASE f = "F" /\ UNCHANGED session /\ \E r : flows' = [flows EXCEPT !["F"] = r]
  <2>1. Legs' = Legs /\ \A g \in Legs : flows'[g] = flows[g]
    BY <1>1 DEF Legs
  <2> QED
    BY <1>1, <2>1 DEF LegsInv, SessionTypes, LegTypes, LegFollows, UdpLegs!Talks
<1>2. ASSUME f # "F", NEW talk \in Talk, NEW gap \in Gap,
             session' = UdpLegs!AdvanceVoipSession(session, talk, gap),
             NEW voice, voice = UdpLegs!Talks(f, session'),
             flows' = [flows EXCEPT ![f] =
                         [started |-> TRUE, active |-> TRUE, voiceActive |-> voice,
                          wake |-> UdpLegs!NextWake(voice, session')]]
      PROVE  LegsInv'
  <2>1. /\ session' \in [legATalking : BOOLEAN, inMutualSilence : BOOLEAN, primed : BOOLEAN,
                         stateChange : Int, advancedNow : BOOLEAN]
        /\ session'.advancedNow /\ session'.primed /\ session'.stateChange > 0
    BY <1>2, Advanced
  <2>2. \/ ~session.primed
        \/ /\ session'.legATalking = session.legATalking
           /\ session'.inMutualSilence = session.inMutualSilence
           /\ session'.stateChange = session.stateChange
        \/ /\ ~session.advancedNow /\ session.stateChange <= 0
           /\ session.inMutualSilence
              \/ (session'.inMutualSilence /\ session'.legATalking = session.legATalking)
    BY <1>2, Advanced
  <2>3. /\ Legs' = Legs
        /\ flows'[f] = [started |-> TRUE, active |-> TRUE, voiceActive |-> voice,
                        wake |-> UdpLegs!NextWake(voice, session')]
        /\ \A g \in Legs : g # f => flows'[g] = flows[g]
    BY <1>2 DEF Legs
  <2>4. voice \in BOOLEAN
    BY <1>2 DEF UdpLegs!Talks
  <2>5. UdpLegs!NextWake(voice, session') \in Nat
        /\ UdpLegs!NextWake(voice, session') <= session'.stateChange
    BY <2>1, NextWakeBounded
  <2>6. LegTypes'
    <3>1. flows'[f] \in [started : BOOLEAN, active : BOOLEAN, voiceActive : BOOLEAN, wake : Nat]
      BY <2>3, <2>4, <2>5
    <3> QED
      BY <2>3, <3>1 DEF LegsInv, LegTypes
  <2>7. LegFollows(f)'
    <3>1. voice => (f = "A") = session'.legATalking
      BY <1>2 DEF UdpLegs!Talks
    <3> QED
      BY <1>2, <2>1, <2>3, <2>5, <3>1 DEF LegFollows
  <2>8. ASSUME NEW g \in Legs, g # f
        PROVE  LegFollows(g)'
    <3>1. flows'[g] = flows[g] /\ LegFollows(g) /\ flows[g].wake \in Nat
      BY <2>3, <2>8 DEF LegsInv, LegTypes
    <3>2. CASE ~flows[g].started
      BY <3>1, <3>2 DEF LegFollows
    <3>3. CASE /\ session'.legATalking = session.legATalking
               /\ session'.inMutualSilence = session.inMutualSilence
               /\ session'.stateChange = session.stateChange
      BY <2>1, <3>1, <3>3 DEF LegFollows, UdpLegs!Talks
    <3>4. CASE /\ ~session.advancedNow /\ session.stateChange <= 0 /\ flows[g].started
               /\ session.inMutualSilence
                  \/ (session'.inMutualSilence /\ session'.legATalking = session.legATalking)
      <4>1. flows[g].voiceActive = UdpLegs!Talks(g, session)
        BY <3>1, <3>4 DEF LegFollows
      <4>2. flows[g].wake <= session.stateChange /\ session.stateChange \in Int
        BY <3>1, <3>4 DEF LegFollows, LegsInv, SessionTypes
      <4>3. flows[g].wake = 0
        BY <3>1, <3>4, <4>2
      <4>4. flows[g].voiceActive => (g = "A") = session'.legATalking
        BY <3>4, <4>1 DEF UdpLegs!Talks
      <4> QED
        BY <2>1, <3>1, <4>3, <4>4 DEF LegFollows
    <3> QED
      BY <2>2, <3>1, <3>2, <3>3, <3>4 DEF LegFollows
  <2> QED
    BY <2>1, <2>3, <2>6, <2>7, <2>8 DEF LegsInv, SessionTypes
<1> QED
  BY <1>1, <1>2 DEF UdpLegs!Driver

(* Time goes on for both legs and their session alike.                     *)
LEMMA ElapseKeeps ==
  ASSUME LegsInv, UdpLegs!Elapse
  PROVE  LegsInv'
<1>1. /\ DOMAIN flows = installed /\ \A f \in installed : flows[f].active /\ flows[f].wake > 0
      /\ flows' = [f \in installed |-> [flows[f] EXCEPT !.wake = flows[f].wake - 1]]
      /\ session' = [session EXCEPT !.advancedNow = FALSE,
                       !.stateChange = IF session.primed THEN session.stateChange - 1
                                       ELSE session.stateChange]
  BY DEF UdpLegs!Elapse
<1>2. session \in [legATalking : BOOLEAN, inMutualSilence : BOOLEAN, primed : BOOLEAN,
                   stateChange : Int, advancedNow : BOOLEAN]
  BY DEF LegsInv, SessionTypes
<1>3. /\ SessionTypes' /\ ~session'.advancedNow
      /\ session'.primed = session.primed
      /\ session'.legATalking = session.legATalking
      /\ session'.inMutualSilence = session.inMutualSilence
      /\ session.primed => session'.stateChange = session.stateChange - 1
  <2> DEFINE next == IF session.primed THEN session.stateChange - 1 ELSE session.stateChange
  <2>1. next \in Int
    BY <1>2
  <2>2. session.primed => next = session.stateChange - 1
    OBVIOUS
  <2>3. session' = [session EXCEPT !.advancedNow = FALSE, !.stateChange = next]
    BY <1>1
  <2> HIDE DEF next
  <2>4. session'.stateChange = next
    BY <1>2, <2>3
  <2>5. /\ SessionTypes' /\ ~session'.advancedNow
        /\ session'.primed = session.primed
        /\ session'.legATalking = session.legATalking
        /\ session'.inMutualSilence = session.inMutualSilence
    BY <1>2, <2>1, <2>3 DEF SessionTypes
  <2> QED
    BY <2>2, <2>4, <2>5
<1>4. Legs' = Legs
  BY <1>1 DEF Legs
<1>5. ASSUME NEW f \in Legs
      PROVE  /\ flows'[f] \in [started : BOOLEAN, active : BOOLEAN, voiceActive : BOOLEAN,
                               wake : Nat]
             /\ LegFollows(f)'
  <2>1. /\ flows[f] \in [started : BOOLEAN, active : BOOLEAN, voiceActive : BOOLEAN, wake : Nat]
        /\ flows'[f] = [flows[f] EXCEPT !.wake = flows[f].wake - 1]
        /\ flows[f].active /\ flows[f].wake > 0 /\ LegFollows(f)
    BY <1>1 DEF LegsInv, LegTypes, Legs
  <2>2. /\ flows'[f].wake = flows[f].wake - 1 /\ flows[f].wake - 1 \in Nat
        /\ flows'[f].started = flows[f].started /\ flows'[f].active = flows[f].active
        /\ flows'[f].voiceActive = flows[f].voiceActive
        /\ flows'[f] \in [started : BOOLEAN, active : BOOLEAN, voiceActive : BOOLEAN, wake : Nat]
    <3> DEFINE w == flows[f].wake - 1
    <3>1. w \in Nat
      BY <2>1
    <3>2. flows'[f] = [flows[f] EXCEPT !.wake = w]
      BY <2>1
    <3> HIDE DEF w
    <3>3. /\ flows'[f].wake = w
          /\ flows'[f].started = flows[f].started /\ flows'[f].active = flows[f].active
          /\ flows'[f].voiceActive = flows[f].voiceActive
          /\ flows'[f] \in [started : BOOLEAN, active : BOOLEAN, voiceActive : BOOLEAN, wake : Nat]
      BY <2>1, <3>1, <3>2
    <3> QED
      BY <3>1, <3>3 DEF w
  <2>3. /\ flows[f].started /\ session.primed
        /\ flows[f].wake <= session.stateChange
        /\ flows[f].voiceActive => (f = "A") = session.legATalking
        /\ flows[f].voiceActive = UdpLegs!Talks(f, session)
    BY <2>1 DEF LegFollows
  <2>4. flows'[f].wake <= session'.stateChange
    <3>1. /\ flows[f].wake \in Int /\ session.stateChange \in Int
          /\ session'.stateChange = session.stateChange - 1
          /\ flows'[f].wake = flows[f].wake - 1
      BY <1>2, <1>3, <2>1, <2>2, <2>3
    <3> QED
      BY <2>3, <3>1
  <2>5. UdpLegs!Talks(f, session') = UdpLegs!Talks(f, session)
    BY <1>3 DEF UdpLegs!Talks
  <2>6. LegFollows(f)'
    BY <1>3, <2>2, <2>3, <2>4, <2>5 DEF LegFollows
  <2> QED
    BY <2>2, <2>6
<1> QED
  BY <1>3, <1>4, <1>5 DEF LegsInv, LegTypes

(* The legs of a session agree on it whatever the order in which they      *)
(* wake.                                                                   *)
THEOREM LegsAgreeCorrect == TrafficSpec => []LegsAgree
<1> DEFINE Inv == service = "udp" => LegsInv
<1>1. TrafficInit => Inv
  BY LegsInit DEF TrafficInit
<1>2. Inv /\ [TrafficNext]_allVars => Inv'
  <2> SUFFICES ASSUME Inv, [TrafficNext]_allVars PROVE Inv'
    OBVIOUS
  <2>1. CASE UdpStep(UdpLegs!Next)
    <3>1. service = "udp" /\ LegsInv /\ UdpLegs!Next
      BY <2>1 DEF UdpStep
    <3>2. ASSUME NEW f \in DOMAIN flows, UdpLegs!Driver(f)
          PROVE  LegsInv'
      BY <3>1, <3>2, DriverKeeps
    <3>3. ASSUME NEW f \in DOMAIN flows, UdpLegs!Stop(f)
          PROVE  LegsInv'
      <4>1. /\ session' = session /\ Legs' \subseteq Legs
            /\ \A g \in Legs' : flows'[g] = flows[g]
        BY <3>3 DEF UdpLegs!Stop, UdpLegs!Restrict, Legs
      <4> QED
        BY <3>1, <4>1 DEF LegsInv, SessionTypes, LegTypes, LegFollows, UdpLegs!Talks
    <3>4. CASE UdpLegs!ResetStats
      <4>1. session' = session /\ Legs' = {}
        BY <3>4 DEF UdpLegs!ResetStats, Legs
      <4> QED
        BY <3>1, <4>1 DEF LegsInv, SessionTypes, LegTypes
    <3>5. CASE UdpLegs!ReportQueueUtilization
      BY <3>1, <3>5 DEF UdpLegs!ReportQueueUtilization, LegsInv, SessionTypes, LegTypes, Legs,
        LegFollows, UdpLegs!Talks
    <3>6. CASE UdpLegs!Elapse
      BY <3>1, <3>6, ElapseKeeps
    <3> QED
      BY <3>1, <3>2, <3>3, <3>4, <3>5, <3>6 DEF UdpLegs!Next, UdpLegs!Start, UdpLegs!Wake
  <2>2. CASE UNCHANGED <<service, udpVars>>
    BY <2>2 DEF udpVars, LegsInv, SessionTypes, LegTypes, Legs, LegFollows, UdpLegs!Talks
  <2>3. CASE FtpStep(Ftp!Next) \/ HttpStep(Http!Next)
    BY <2>2, <2>3 DEF FtpStep, HttpStep
  <2>4. CASE LayerStep(Layers!Next) \/ RateStep(Rates!Next) \/ AccountStep(Accounts!Next)
    BY <2>2, <2>4 DEF LayerStep, RateStep, AccountStep, trafficVars
  <2>5. CASE UNCHANGED allVars
    BY <2>2, <2>5 DEF allVars, trafficVars
  <2> QED
    BY <2>1, <2>3, <2>4, <2>5 DEF TrafficNext
<1>3. Inv => LegsAgree
  BY LegsInvImplies DEF LegsAgree
<1> QED
  BY <1>1, <1>2, <1>3, PTL DEF TrafficSpec

-----------------------------------------------------------------------------
(* The traffic of a user: HTTP.                                            *)

(* The generator's tables and what they count have their types.            *)
TablesTypes ==
  /\ gen = [contexts |-> gen.contexts, arrivalActive |-> gen.arrivalActive,
            servers |-> gen.servers, registry |-> gen.registry]
  /\ gen.contexts \in Seq(Node)
  /\ gen.servers \in [Node -> Nat]
  /\ traces \in [Node -> Nat]
  /\ arrivals \in [1..MaxInstalls -> Nat]

(* A node is in the registry, and traced once, if it has a server; every   *)
(* context has its arrivals while the window lasts.  The last two together *)
(* with arrivalActive are why an arrival that stops a chain never is one   *)
(* of a context there is.                                                  *)
TablesAgree ==
  /\ \A n \in Node : n \in gen.registry <=> gen.servers[n] # Http!None
  /\ \A n \in Node : traces[n] = IF gen.servers[n] = Http!None THEN 0 ELSE 1
  /\ Len(gen.contexts) <= MaxInstalls
  /\ Len(gen.contexts) > 0 => gen.arrivalActive
  /\ phase # "over" => \A i \in 1..Len(gen.contexts) : arrivals[i] > 0

(* Only HTTP has managed sockets, so only its steps can part them from the *)
(* rate.                                                                   *)
HttpInv ==
  /\ TablesTypes /\ TablesAgree /\ Http!BuffersFollowRate
  /\ service # "http" => DOMAIN buffers = {}

(* What holds of the tables is what the property says.                     *)
LEMMA HttpInvImplies == HttpInv => InstallationsAreWhole
BY DEF HttpInv, TablesAgree, InstallationsAreWhole, Http!InstallationsAreWhole

(* The bound is a number.                                                  *)
LEMMA MaxInstallsNat == MaxInstalls \in Nat
BY TrafficAssumption DEF Http!HttpAssumption

(* Before anything is installed.                                           *)
LEMMA EmptyTablesAgree ==
  ASSUME gen = Http!EmptyTables, traces = [n \in Node |-> 0], arrivals \in [1..MaxInstalls -> Nat]
  PROVE  TablesTypes /\ TablesAgree
<1>1. gen.contexts = <<>> /\ gen.servers = [n \in Node |-> 0] /\ gen.registry = {}
      /\ Len(gen.contexts) = 0
  BY DEF Http!EmptyTables, Http!None
<1>2. TablesTypes
  BY <1>1 DEF TablesTypes, Http!EmptyTables
<1>3. TablesAgree
  BY <1>1, MaxInstallsNat DEF TablesAgree, Http!None
<1> QED
  BY <1>2, <1>3

LEMMA HttpInitInv == TrafficInit => HttpInv
<1> SUFFICES ASSUME TrafficInit PROVE HttpInv
  OBVIOUS
<1>1. Http!Init
  BY DEF TrafficInit
<1>2. TablesTypes /\ TablesAgree
  BY <1>1, EmptyTablesAgree DEF Http!Init
<1>3. DOMAIN buffers = {}
  BY <1>1 DEF Http!Init
<1> QED
  BY <1>2, <1>3 DEF HttpInv, Http!BuffersFollowRate

(* A socket is registered with buffers of the present rate.                *)
LEMMA RegisteredFollows ==
  ASSUME Http!BuffersFollowRate, NEW socket, Http!RegisterManagedTcpSocket(socket),
         multiplier' = multiplier
  PROVE  Http!BuffersFollowRate'
BY DEF Http!BuffersFollowRate, Http!RegisterManagedTcpSocket, Http!With

(* An installation makes its server, its trace, its context and its first  *)
(* arrival together.                                                       *)
LEMMA InstallKeeps ==
  ASSUME HttpInv, NEW c \in Node, NEW s \in Node, NEW rate \in {0, 1}, Http!InstallHttp(c, s, rate)
  PROVE  TablesTypes' /\ TablesAgree'
<1> DEFINE server == IF gen.servers[s] = Http!None THEN Len(apps) + 1 ELSE gen.servers[s]
           index == Len(gen.contexts) + 1
<1>1. gen' = Http!WithInstalled(gen, c, s, server, rate)
  BY DEF Http!InstallHttp
<1>2. server \in Nat /\ server # Http!None
  BY DEF HttpInv, TablesTypes, Http!None
<1> HIDE DEF server
<1>3. /\ gen'.contexts = IF rate > 0 THEN Append(gen.contexts, c) ELSE gen.contexts
      /\ gen'.servers = [gen.servers EXCEPT ![s] = server]
      /\ gen'.registry = gen.registry \cup {s}
      /\ gen'.arrivalActive = (gen.arrivalActive \/ rate > 0)
      /\ gen' = [contexts |-> gen'.contexts, arrivalActive |-> gen'.arrivalActive,
            servers |-> gen'.servers, registry |-> gen'.registry]
  BY <1>1 DEF Http!WithInstalled, HttpInv, TablesTypes
<1>4. /\ index \in 1..MaxInstalls /\ phase = "before" /\ phase' = phase
      /\ arrivals' = [arrivals EXCEPT ![index] = @ + rate]
      /\ traces' = [traces EXCEPT ![s] = @ + (IF s \in gen.registry THEN 0 ELSE 1)]
  BY MaxInstallsNat DEF Http!InstallHttp, HttpInv, TablesTypes
<1>5. TablesTypes'
  <2>1. gen'.contexts \in Seq(Node) /\ gen'.servers \in [Node -> Nat]
    BY <1>2, <1>3 DEF HttpInv, TablesTypes
  <2>2. traces' \in [Node -> Nat]
    BY <1>4 DEF HttpInv, TablesTypes
  <2>3. arrivals' \in [1..MaxInstalls -> Nat]
    <3>1. arrivals[index] \in Nat
      BY <1>4 DEF HttpInv, TablesTypes
    <3>2. arrivals[index] + rate \in Nat
      BY <3>1
    <3> HIDE DEF index
    <3> QED
      BY <1>4, <3>2 DEF HttpInv, TablesTypes
  <2> QED
    BY <1>3, <2>1, <2>2, <2>3 DEF TablesTypes
<1>6. ASSUME NEW n \in Node
      PROVE  /\ n \in gen'.registry <=> gen'.servers[n] # Http!None
             /\ traces'[n] = IF gen'.servers[n] = Http!None THEN 0 ELSE 1
  <2>1. CASE n = s
    BY <1>2, <1>3, <1>4, <2>1 DEF HttpInv, TablesTypes, TablesAgree
  <2>2. CASE n # s
    BY <1>2, <1>3, <1>4, <2>2 DEF HttpInv, TablesTypes, TablesAgree
  <2> QED
    BY <2>1, <2>2
<1>7. Len(gen'.contexts) <= MaxInstalls /\ (Len(gen'.contexts) > 0 => gen'.arrivalActive)
  <2>1. CASE rate = 1
    <3>1. Len(gen'.contexts) = index
      BY <1>3, <2>1 DEF HttpInv, TablesTypes
    <3>2. index <= MaxInstalls
      BY <1>4, MaxInstallsNat
    <3>3. rate > 0
      BY <2>1
    <3>4. gen'.arrivalActive
      BY <1>3, <3>3, Zenon
    <3> QED
      BY <3>1, <3>2, <3>4
  <2>2. CASE rate = 0
    <3>1. gen'.contexts = gen.contexts /\ gen'.arrivalActive = (gen.arrivalActive \/ FALSE)
      BY <1>3, <2>2
    <3>2. Len(gen.contexts) <= MaxInstalls /\ (Len(gen.contexts) > 0 => gen.arrivalActive)
      BY DEF HttpInv, TablesAgree
    <3> QED
      BY <3>1, <3>2
  <2> QED
    BY <2>1, <2>2
<1>8. ASSUME NEW i \in 1..Len(gen'.contexts)
      PROVE  arrivals'[i] > 0
  <2>1. CASE rate = 0
    <3>1. i \in 1..Len(gen.contexts) /\ arrivals' = arrivals
      BY <1>3, <1>4, <2>1 DEF HttpInv, TablesTypes
    <3> QED
      BY <1>4, <3>1 DEF HttpInv, TablesAgree
  <2>2. CASE rate = 1 /\ i = index
    BY <1>4, <2>2 DEF HttpInv, TablesTypes
  <2>3. CASE rate = 1 /\ i # index
    <3>1. i \in 1..Len(gen.contexts)
      BY <1>3, <2>3 DEF HttpInv, TablesTypes
    <3>2. arrivals'[i] = arrivals[i]
      BY <1>4, <3>1, <2>3 DEF HttpInv, TablesTypes, TablesAgree
    <3> QED
      BY <1>4, <3>1, <3>2 DEF HttpInv, TablesAgree
  <2> QED
    BY <2>1, <2>2, <2>3
<1> QED
  BY <1>5, <1>6, <1>7, <1>8 DEF TablesAgree

(* An arrival ends no chain of a context while the window lasts.           *)
LEMMA ArrivalKeeps ==
  ASSUME HttpInv, NEW i \in 1..MaxInstalls, Http!HttpOnSessionArrival(i)
  PROVE  TablesTypes' /\ TablesAgree'
<1>1. UNCHANGED <<gen, traces, phase>>
  BY DEF Http!HttpOnSessionArrival
<1>2. CASE UNCHANGED arrivals
  BY <1>1, <1>2 DEF HttpInv, TablesTypes, TablesAgree
<1>3. CASE /\ ~gen.arrivalActive \/ i > Len(gen.contexts) \/ phase = "over"
           /\ arrivals' = [arrivals EXCEPT ![i] = @ - 1]
           /\ arrivals[i] > 0
  <2>1. arrivals' \in [1..MaxInstalls -> Nat]
    <3>1. arrivals[i] - 1 \in Nat
      BY <1>3 DEF HttpInv, TablesTypes
    <3> QED
      BY <1>3, <3>1 DEF HttpInv, TablesTypes
  <2>2. ASSUME phase # "over", NEW j \in 1..Len(gen.contexts)
        PROVE  arrivals'[j] > 0
    <3>1. j # i
      <4>1. gen.arrivalActive
        BY <2>2 DEF HttpInv, TablesTypes, TablesAgree
      <4>2. i > Len(gen.contexts)
        BY <1>3, <2>2, <4>1
      <4> QED
        BY <2>2, <4>2 DEF HttpInv, TablesTypes
    <3>2. j \in 1..MaxInstalls /\ arrivals[j] > 0
      BY <2>2, MaxInstallsNat DEF HttpInv, TablesTypes, TablesAgree
    <3> QED
      BY <1>3, <3>1, <3>2 DEF HttpInv, TablesTypes
  <2> QED
    BY <1>1, <2>1, <2>2 DEF HttpInv, TablesTypes, TablesAgree
<1> QED
  BY <1>2, <1>3 DEF Http!HttpOnSessionArrival, Http!Chain

(* The reset clears tables, traces, buffers and the rate together.         *)
LEMMA ResetKeeps ==
  ASSUME HttpInv, Http!ResetStats
  PROVE  TablesTypes' /\ TablesAgree' /\ Http!BuffersFollowRate'
<1>1. /\ gen' = Http!EmptyTables /\ traces' = [n \in Node |-> 0] /\ arrivals' = arrivals
      /\ buffers' = <<>>
  BY DEF Http!ResetStats, Http!TablesAfterReset
<1>2. gen'.contexts = <<>> /\ gen'.servers = [n \in Node |-> 0] /\ gen'.registry = {}
      /\ Len(gen'.contexts) = 0
  BY <1>1 DEF Http!EmptyTables, Http!None
<1>3. TablesTypes'
  BY <1>1, <1>2 DEF HttpInv, TablesTypes, Http!EmptyTables
<1>4. TablesAgree'
  BY <1>1, <1>2, MaxInstallsNat DEF TablesAgree, Http!None
<1>5. Http!BuffersFollowRate'
  BY <1>1 DEF Http!BuffersFollowRate
<1> QED
  BY <1>3, <1>4, <1>5

(* Every operation of HTTP.                                                *)
LEMMA HttpNextInv ==
  ASSUME HttpInv, HttpStep(Http!Next)
  PROVE  HttpInv'
<1>1. service = "http" /\ service' = service /\ Http!Next
  BY DEF HttpStep
<1>2. ASSUME NEW c \in Node, NEW s \in Node, NEW rate \in {0, 1}, Http!InstallHttp(c, s, rate)
      PROVE  TablesTypes' /\ TablesAgree' /\ Http!BuffersFollowRate'
  <2>1. UNCHANGED <<buffers, multiplier>>
    BY <1>2 DEF Http!InstallHttp
  <2> QED
    BY <1>2, <2>1, InstallKeeps DEF HttpInv, Http!BuffersFollowRate
<1>3. ASSUME NEW i \in 1..MaxInstalls, Http!HttpOnSessionArrival(i)
      PROVE  TablesTypes' /\ TablesAgree' /\ Http!BuffersFollowRate'
  <2>1. UNCHANGED <<buffers, multiplier>>
    BY <1>3 DEF Http!HttpOnSessionArrival
  <2> QED
    BY <1>3, <2>1, ArrivalKeeps DEF HttpInv, Http!BuffersFollowRate
<1>4. ASSUME NEW a, NEW s, Http!LookUpSocket(a) \/ Http!Connect(a) \/ Http!Accept(s, a)
      PROVE  TablesTypes' /\ TablesAgree' /\ Http!BuffersFollowRate'
  <2>1. UNCHANGED <<multiplier, gen, traces, phase, arrivals>>
    BY <1>4 DEF Http!LookUpSocket, Http!Connect, Http!Accept
  <2>2. TablesTypes' /\ TablesAgree'
    BY <2>1 DEF HttpInv, TablesTypes, TablesAgree
  <2>3. UNCHANGED buffers \/ \E socket : Http!RegisterManagedTcpSocket(socket)
    BY <1>4 DEF Http!LookUpSocket, Http!Connect, Http!Accept
  <2>4. Http!BuffersFollowRate'
    BY <2>1, <2>3, RegisteredFollows DEF HttpInv, Http!BuffersFollowRate
  <2> QED
    BY <2>2, <2>4
<1>5. CASE Http!ReportQueueUtilization
  <2>1. /\ UNCHANGED <<gen, traces, phase, arrivals>>
        /\ buffers' = [s \in DOMAIN buffers |-> multiplier']
    BY <1>5 DEF Http!ReportQueueUtilization
  <2>2. Http!BuffersFollowRate'
    BY <2>1 DEF Http!BuffersFollowRate
  <2> QED
    BY <1>1, <2>1, <2>2 DEF HttpInv, TablesTypes, TablesAgree
<1>6. CASE Http!ResetStats
  BY <1>1, <1>6, ResetKeeps DEF HttpInv
<1>7. CASE Http!OpenWindow \/ Http!CloseWindow
  <2>1. /\ UNCHANGED <<gen, traces, arrivals, buffers, multiplier>>
        /\ phase' # "over" => phase # "over"
    BY <1>7 DEF Http!OpenWindow, Http!CloseWindow
  <2> QED
    BY <1>1, <2>1 DEF HttpInv, TablesTypes, TablesAgree, Http!BuffersFollowRate
<1>8. CASE Http!SetApplicationWindow
  <2>1. UNCHANGED <<gen, traces, arrivals, buffers, multiplier>> /\ gen = Http!EmptyTables
    BY <1>8 DEF Http!SetApplicationWindow
  <2>2. gen'.contexts = <<>> /\ Len(gen'.contexts) = 0
    BY <2>1 DEF Http!EmptyTables
  <2> QED
    BY <1>1, <2>1, <2>2 DEF HttpInv, TablesTypes, TablesAgree, Http!BuffersFollowRate
<1>9. service' # "http" => DOMAIN buffers' = {}
  BY <1>1
<1> QED
  BY <1>1, <1>2, <1>3, <1>4, <1>5, <1>6, <1>7, <1>8, <1>9 DEF Http!Next, HttpInv

(* Without HTTP there are no sockets for a change of the rate to miss.     *)
LEMMA OthersKeepHttp ==
  ASSUME HttpInv, service # "http", UNCHANGED <<service, httpVars>>
  PROVE  HttpInv'
BY DEF HttpInv, TablesTypes, TablesAgree, httpVars, Http!BuffersFollowRate

(* Installations are whole, and their buffers follow the rate, through     *)
(* every interleaving of installations, arrivals, resets and windows.      *)
THEOREM InstallationsAreWholeCorrect == TrafficSpec => []InstallationsAreWhole
<1>1. TrafficInit => HttpInv
  BY HttpInitInv
<1>2. HttpInv /\ [TrafficNext]_allVars => HttpInv'
  <2> SUFFICES ASSUME HttpInv, [TrafficNext]_allVars PROVE HttpInv'
    OBVIOUS
  <2>1. CASE UNCHANGED allVars
    BY <2>1 DEF allVars, trafficVars, httpVars, HttpInv, TablesTypes, TablesAgree,
      Http!BuffersFollowRate
  <2>2. CASE HttpStep(Http!Next)
    BY <2>2, HttpNextInv
  <2>3. CASE FtpStep(Ftp!Next) \/ UdpStep(UdpLegs!Next)
    <3>1. service # "http" /\ UNCHANGED <<service, httpVars>>
      BY <2>3 DEF FtpStep, UdpStep
    <3> QED
      BY <3>1, OthersKeepHttp
  <2>4. CASE LayerStep(Layers!Next) \/ RateStep(Rates!Next) \/ AccountStep(Accounts!Next)
    <3>1. service # "http" /\ UNCHANGED <<service, httpVars>>
      BY <2>4 DEF LayerStep, RateStep, AccountStep, trafficVars
    <3> QED
      BY <3>1, OthersKeepHttp
  <2> QED
    BY <2>1, <2>2, <2>3, <2>4 DEF TrafficNext
<1> QED
  BY <1>1, <1>2, HttpInvImplies, PTL DEF TrafficSpec
=============================================================================
