----------------------------- MODULE HarqPolicy -----------------------------
(***************************************************************************)
(* HarqPolicyController (harq-policy-controller): for every new block,     *)
(* whether HARQ is used and how careful the MCS is, from the risk of the   *)
(* channel; and the gate that takes HARQ off less readily while blocks     *)
(* sent without it keep failing.  The risk, a weighted sum over what the   *)
(* CQI controller knows, is any value of 0..MaxRisk.                       *)
(***************************************************************************)
EXTENDS CqiAmc

CONSTANTS
  MaxRisk,      (* The greatest risk.                                      *)
  ThInit,       (* The configured m_thLow: m_thLowInit.                    *)
  ThHigh,       (* m_thHigh                                                *)
  Tighten,      (* By how much a tightening lowers m_thLow.                *)
  EwmaFull,     (* What the moving average is when every block fails.      *)
  EwmaWeight,   (* Of how many outcomes it is made: 1 / m_ewmaAlpha.       *)
  EwmaRef,      (* m_blerSafe * m_guardFactor                              *)
  MaxRetxN,     (* m_maxRetxN                                              *)
  SafeBackOff,  (* -BlerTargetToCqiOffset(m_blerSafe)                      *)
  AggrBias      (* BlerTargetToCqiOffset(m_blerAggr)                       *)

ASSUME HarqPolicyAssumption ==
  /\ {MaxRisk, ThInit, ThHigh, Tighten, EwmaFull, EwmaRef, MaxRetxN,
      SafeBackOff, AggrBias} \subseteq Nat
  /\ EwmaWeight \in Nat \ {0}

(* ReadChannelView and ComputeRisk: level, trend, uncertainty and BLER of a *)
(* fresh estimate may amount to any risk.                                  *)
ComputeRisk == 0..MaxRisk

(* The offset of a target block error rate: 0 for the nominal one.         *)
BlerTargetToCqiOffset(target) ==
  CASE target = "safe" -> -SafeBackOff
    [] target = "nominal" -> 0
    [] target = "aggressive" -> AggrBias

(* Tier 0: sent once, no answer waited for.                                *)
MakeOff == [off |-> TRUE, maxRetx |-> 0, target |-> "safe"]

(* Tier 1: HARQ by feedback.                                               *)
MakeReactive(target) == [off |-> FALSE, maxRetx |-> MaxRetxN, target |-> target]

(* What is decided for a block, by how fresh the estimate is, the service  *)
(* and the risk.                                                           *)
Decide(fresh, latencySensitive, risk, thLow) ==
  CASE ~fresh -> MakeReactive("nominal")
    [] fresh /\ (latencySensitive \/ risk < thLow) -> MakeOff
    [] fresh /\ ~latencySensitive /\ risk >= thLow /\ risk < ThHigh -> MakeReactive("nominal")
    [] OTHER -> MakeReactive("aggressive")

(* The gate: the moving average of failures without HARQ, and m_thLow.     *)
Healed == [thLow |-> ThInit, failures |-> 0]

(* Faulty variant: a block delivered leaves the average as it is.          *)
AverageUnforgiving(f, delivered) ==
  IF delivered THEN f ELSE ((EwmaWeight - 1) * f + EwmaFull) \div EwmaWeight

(* The moving average of failures, after one more outcome.                 *)
Average(f, delivered) ==
  ((EwmaWeight - 1) * f + (IF delivered THEN 0 ELSE EwmaFull)) \div EwmaWeight

(* The outcome of a block; only those without HARQ count.  m_thLow stays   *)
(* between half of its configured value and all of it.                     *)
OnOutcome(g, off, delivered) ==
  LET f  == Average(g.failures, delivered)
      th == IF f > EwmaRef THEN g.thLow - Tighten ELSE g.thLow + 1
  IN  IF ~off THEN g
      ELSE [failures |-> f,
            thLow |-> Clamp(th, ThInit \div 2, ThInit)]
=============================================================================
