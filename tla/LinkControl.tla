----------------------------- MODULE LinkControl -----------------------------
(***************************************************************************)
(* What follows an uplink grant (model/geo-beam-scheduler.cc): the ledger  *)
(* that tells whose grant the PHY measured, by slot and symbol, and the    *)
(* closed-loop power control (CLPC), whose own measurement of the grant    *)
(* comes back some 300 ms later with the RNTI.  A measurement is of the    *)
(* power in use at the grant; power and SINR are in whole dB, and what a   *)
(* UE is granted and how many blocks is for the module Uplink.             *)
(***************************************************************************)
EXTENDS Integers, Sequences, FiniteSets, FiniteSetsExt

CONSTANTS
  Rnti,          (* The RNTIs.                                             *)
  Above, Below,  (* How far over or under its target SINR a UE may start.  *)
  MaxCut,        (* -m_clpcMinDb                                           *)
  MaxBoost,      (* m_clpcMaxDb                                            *)
  LoopDelay,     (* Whether m_clpcLoopDelay is not zero.                   *)
  PhyReports,    (* Whether the PHY reports its measurements too.          *)
  Slots,         (* The number of slots after which numbers repeat.        *)
  MaxUnsettled,  (* Bound on the grants of a UE that CLPC has yet to use.  *)
  MaxLost        (* Bound on the entries whose measurement was lost.       *)

ASSUME LinkControlAssumption ==
  /\ Above \cup Below \cup {MaxCut, MaxBoost} \subseteq Nat
  /\ {LoopDelay, PhyReports} \subseteq BOOLEAN
  /\ {Slots, MaxUnsettled} \subseteq Nat \ {0}
  /\ MaxLost \in Nat

VARIABLES
  surplus,    (* The SINR of each UE without correction, over the target.  *)
  offset,     (* clpcOffsetDb of each UE's context                         *)
  slot,       (* m_currentUlTriggerSfnSf                                   *)
  ledger,     (* m_ulCqiAllocationMap                                      *)
  measured,   (* What the PHY will report, with whom it measured.          *)
  feedback,   (* The scheduled DeliverUlSinrFeedback calls, in their order.*)
  deltas,     (* The scheduled ApplyClpcDelta calls, in their order.       *)
  misled      (* History: a UE was credited with another's measurement.    *)

linkVars == <<surplus, offset, slot, ledger, measured, feedback, deltas, misled>>

Surplus == Above \cup {-db : db \in Below}

Slotted == 0..(Slots - 1)

Entry == [slot : Slotted, sym : Nat, rnti : Rnti]

(* A measurement of a grant: `over` is the SINR above the target.          *)
Measurement == [entry : Entry, over : Int]

Delta == [rnti : Rnti, db : {-1, 1, 3}]

LinkInit ==
  /\ surplus \in [Rnti -> Surplus]
  /\ offset = [u \in Rnti |-> 0]
  /\ slot = 0
  /\ ledger = {}
  /\ measured = {}
  /\ feedback = <<>>
  /\ deltas = <<>>
  /\ misled = FALSE

-----------------------------------------------------------------------------
(* Power control.                                                          *)

(* QuantizeTpcDb: the power step for an error of target minus measured.    *)
QuantizeTpcDb(error) ==
  IF error > 4 THEN 3 ELSE IF error >= 1 THEN 1 ELSE IF error < -1 THEN -1 ELSE 0

Clamped(db) == IF db < -MaxCut THEN -MaxCut ELSE IF db > MaxBoost THEN MaxBoost ELSE db

Corrected(db, tpc) == Clamped(db + tpc)

(* UpdateClosedLoopPowerControl, at once or after the loop's delay.        *)
ApplyUlSinrMeasurement(u, over) ==
  LET tpc == QuantizeTpcDb(-over) IN
  IF LoopDelay /\ tpc # 0
  THEN /\ deltas' = Append(deltas, [rnti |-> u, db |-> tpc])
       /\ UNCHANGED offset
  ELSE /\ offset' = [offset EXCEPT ![u] = Corrected(@, tpc)]
       /\ UNCHANGED deltas

ApplyClpcDelta ==
  /\ deltas # <<>>
  /\ offset' = [offset EXCEPT ![Head(deltas).rnti] =
                                Corrected(@, Head(deltas).db)]
  /\ deltas' = Tail(deltas)
  /\ UNCHANGED <<surplus, slot, ledger, measured, feedback, misled>>

-----------------------------------------------------------------------------
(* The ledger.                                                             *)

InSlot(s) == {entry \in ledger : entry.slot = s}

(* Faulty variant: every grant of a slot starts at its first symbol.       *)
FirstSymStart == 0

(* AllocateUlLedgerSymStart: one past the last symbol in use.              *)
AllocateUlLedgerSymStart ==
  IF InSlot(slot) = {} THEN 0 ELSE Max({entry.sym : entry \in InSlot(slot)}) + 1

Unsettled(u) ==
  Cardinality({i \in DOMAIN feedback : feedback[i].entry.rnti = u})
  + Cardinality({i \in DOMAIN deltas : deltas[i].rnti = u})

(* ProcessUlGrant for a trigger or for an SR by the MAC's interface, which *)
(* have a slot: the grant enters the ledger, and its SINR is worked out    *)
(* from the power it gives.  A grant for an SR on the PUCCH has no slot    *)
(* and leaves all of this alone.                                           *)
RecordUlGrant(u) ==
  LET entry == [slot |-> slot, sym |-> AllocateUlLedgerSymStart, rnti |-> u]
      measurement == [entry |-> entry, over |-> surplus[u] + offset[u]]
  IN
  /\ Unsettled(u) < MaxUnsettled
  /\ ledger' = ledger \cup {entry}
  /\ feedback' = Append(feedback, measurement)
  /\ measured' = IF PhyReports THEN measured \cup {measurement} ELSE measured
  /\ UNCHANGED <<surplus, offset, slot, deltas, misled>>

(* The number of a slot returns after 10.24 s, when what was measured in   *)
(* it has long arrived or been lost.                                       *)
NextSlot ==
  LET next == (slot + 1) % Slots IN
  /\ \A measurement \in measured : measurement.entry.slot # next
  /\ \A i \in DOMAIN feedback : feedback[i].entry.slot # next
  /\ slot' = next
  /\ UNCHANGED <<surplus, offset, ledger, measured, feedback, deltas, misled>>

(* The PHY reports once the slot is over.                                  *)
Over(measurement) == measurement.entry.slot # slot

(* DoSchedUlCqiInfoReq: whoever the ledger names by slot and symbol.       *)
DoSchedUlCqiInfoReq(measurement) ==
  LET found == {entry \in ledger : /\ entry.slot = measurement.entry.slot
                                   /\ entry.sym = measurement.entry.sym}
  IN
  /\ Over(measurement)
  /\ measured' = measured \ {measurement}
  /\ ledger' = ledger \ found
  /\ misled' = (misled \/ \E entry \in found : entry # measurement.entry)
  /\ IF found = {}
     THEN UNCHANGED <<offset, deltas>>
     ELSE \E entry \in found :
            ApplyUlSinrMeasurement(entry.rnti, measurement.over)
  /\ UNCHANGED <<surplus, slot, feedback>>

LosePhyReport(measurement) ==
  /\ Over(measurement)
  /\ Cardinality({entry \in ledger :
       \A m \in measured : m.entry # entry}) < MaxLost
  /\ measured' = measured \ {measurement}
  /\ UNCHANGED <<surplus, offset, slot, ledger, feedback, deltas, misled>>

(* The entry a measurement with an RNTI settles, if the PHY has not.       *)
Settled(entry) == ledger \cap {entry}

(* DeliverUlSinrFeedback: applied by RNTI; the ledger is only cleaned.     *)
DeliverUlSinrFeedback ==
  /\ feedback # <<>>
  /\ Over(Head(feedback))
  /\ feedback' = Tail(feedback)
  /\ ApplyUlSinrMeasurement(Head(feedback).entry.rnti, Head(feedback).over)
  /\ ledger' = ledger \ Settled(Head(feedback).entry)
  /\ UNCHANGED <<surplus, slot, measured, misled>>

LinkNext ==
  \/ NextSlot
  \/ \E u \in Rnti : RecordUlGrant(u)
  \/ DeliverUlSinrFeedback
  \/ ApplyClpcDelta
  \/ \E measurement \in measured :
       DoSchedUlCqiInfoReq(measurement) \/ LosePhyReport(measurement)

LinkSpec == LinkInit /\ [][LinkNext]_linkVars

(* Slots pass and scheduled calls are made at their time; a UE that keeps  *)
(* sending is granted again and again (see Uplink), and the PHY's reports  *)
(* come or are lost.                                                       *)
LinkFairSpec ==
  /\ LinkSpec
  /\ WF_linkVars(NextSlot)
  /\ WF_linkVars(DeliverUlSinrFeedback)
  /\ WF_linkVars(ApplyClpcDelta)
  /\ \A u \in Rnti : SF_linkVars(RecordUlGrant(u))
  /\ WF_linkVars(\E measurement \in measured :
               DoSchedUlCqiInfoReq(measurement) \/ LosePhyReport(measurement))

-----------------------------------------------------------------------------
(* Properties.                                                             *)

(* The state has its types, and the correction its limits.                 *)
LinkTypeOK ==
  /\ surplus \in [Rnti -> Surplus]
  /\ offset \in [Rnti -> (-MaxCut)..MaxBoost]
  /\ slot \in Slotted
  /\ ledger \subseteq Entry
  /\ measured \subseteq Measurement
  /\ feedback \in Seq(Measurement)
  /\ deltas \in Seq(Delta)
  /\ misled \in BOOLEAN

(* A measurement is never credited to another UE or grant than the one     *)
(* measured, and an entry stays in the ledger only while its feedback is   *)
(* to come ("to keep m_ulCqiAllocationMap from growing without bound"),    *)
(* though reports come in any order, some are lost, entries are settled by *)
(* two paths and slot numbers return.                                      *)
LedgerIsSound ==
  /\ ~misled
  /\ \A entry \in ledger : \E i \in DOMAIN feedback : feedback[i].entry = entry

(* "CLPC converges to m_targetUlSinrDb" (geo-beam-scheduler.cc:1250): each *)
(* UE that the correction can bring there ends up and stays where no more  *)
(* steps are commanded, though corrections are on their way for grants     *)
(* that were measured before earlier ones had taken effect.                *)
ClpcConverges ==
  \A u \in Rnti :
    <>[](QuantizeTpcDb(-(surplus[u] + offset[u])) = 0)
=============================================================================
