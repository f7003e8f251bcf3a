-------------------------- MODULE ResourceManager --------------------------
(***************************************************************************)
(* The gateway's account of one beam's resource blocks in one direction    *)
(* (model/resource-manager.cc): what a scheduling round has used of the    *)
(* budget, which slots of the semi-persistent (SPS) region it has claimed, *)
(* and how many SPS blocks are admitted, over all rounds and possibly more *)
(* than the region holds.  The operations are functions of the account;    *)
(* the power budgets and the blocks shared in the power domain, which cost *)
(* the budget nothing, are left out.                                       *)
(***************************************************************************)
EXTENDS Naturals, FiniteSets

CONSTANTS
  BudgetRbs,        (* m_dlBeamBudgetRbs.                                  *)
  SpsRegionRbs,     (* m_dlSpsRegionRbs.                                   *)
  OverbookPercent   (* m_dlSpsOverbookFactor, in hundredths.               *)

ASSUME ResourceAssumption ==
  /\ BudgetRbs \in Nat
  /\ SpsRegionRbs \in Nat
  /\ OverbookPercent \in Nat

Slot == {slot \in 0..SpsRegionRbs : slot < SpsRegionRbs}

Usage == [used : Nat, spsBusy : SUBSET Slot, spsAdmitted : Nat]

Unused == [used |-> 0, spsBusy |-> {}, spsAdmitted |-> 0]

(* Each round starts from nothing; admissions last.                        *)
ResetBeamAllocation(usage) == [usage EXCEPT !.used = 0, !.spsBusy = {}]

Smaller(a, b) == IF a < b THEN a ELSE b

RemainingRbs(usage) ==
  IF usage.used < BudgetRbs THEN BudgetRbs - usage.used ELSE 0

ApprovedRbs(usage, requested) == Smaller(requested, RemainingRbs(usage))

AllocateSpectrum(usage, requested) ==
  [usage EXCEPT !.used = @ + ApprovedRbs(usage, requested)]

SpsAdmitCapRbs == (SpsRegionRbs * OverbookPercent) \div 100

AdmitsSpsGrant(usage, count) ==
  /\ count > 0
  /\ SpsAdmitCapRbs > 0
  /\ usage.spsAdmitted + count <= SpsAdmitCapRbs

AdmitSpsGrant(usage, count) == [usage EXCEPT !.spsAdmitted = @ + count]

ReleaseSpsAdmission(usage, count) ==
  [usage EXCEPT !.spsAdmitted = IF @ > count THEN @ - count ELSE 0]

(* Faulty variant: first fit that does not look at the slots already taken. *)
ClaimsOverlapping(usage, count) ==
  {rbgs \in SUBSET Slot :
     /\ Cardinality(rbgs) = count
     /\ count <= RemainingRbs(usage)
     /\ \A picked \in rbgs, passed \in Slot \ rbgs : picked < passed}

(* First fit: the lowest free slots, `count` of them or none.  A set with  *)
(* the one claim there can be, empty when the claim fails.                 *)
Claims(usage, count) ==
  LET free == Slot \ usage.spsBusy IN
  {rbgs \in SUBSET free :
     /\ Cardinality(rbgs) = count
     /\ count <= RemainingRbs(usage)
     /\ \A picked \in rbgs, passed \in free \ rbgs : picked < passed}

ClaimSpsRbgs(usage, rbgs) ==
  [usage EXCEPT !.used = @ + Cardinality(rbgs), !.spsBusy = @ \cup rbgs]
=============================================================================
