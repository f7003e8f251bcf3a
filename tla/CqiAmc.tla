------------------------------- MODULE CqiAmc -------------------------------
(***************************************************************************)
(* CqiAmcController (cqi-amc-controller): what it keeps for one UE, a      *)
(* Kalman filter of the CQI reported and the offset of the outer loop.     *)
(* CQI and offset are counted in steps of m_stepUp.  Of the filter, whose  *)
(* gains are real numbers, only what its equations guarantee is kept: the  *)
(* level is first carried on along its rate, as far as that may be, and    *)
(* then corrected to somewhere between there and the report; the rate is   *)
(* corrected the same way; and a forecast adds at most MaxPredictDelta.    *)
(***************************************************************************)
EXTENDS Integers

CONSTANTS
  MaxCqi,           (* m_cqiMax: CQIs are 0..MaxCqi.                       *)
  DefaultCqi,       (* Taken for a UE that has not reported.               *)
  MaxPredictDelta,  (* m_maxPredictDeltaCqi                                *)
  MaxDrift,         (* Bound: how far the rate carries the level at once.  *)
  MaxStray,         (* Bound: how far beyond the CQIs it carries it.       *)
  StepDown,         (* stepUp * (1 - blerTarget) / blerTarget              *)
  DeltaMax          (* m_deltaMax = -m_deltaMin                            *)

ASSUME CqiAmcAssumption ==
  /\ {MaxCqi, MaxPredictDelta, MaxDrift, MaxStray, DeltaMax} \subseteq Nat
  /\ DefaultCqi \in 0..MaxCqi
  /\ StepDown \in Nat \ {0}

Cqis == 0..MaxCqi

Clamp(v, lo, hi) == IF v < lo THEN lo ELSE IF v > hi THEN hi ELSE v

AsCqi(v) == Clamp(v, 0, MaxCqi)

(* The state of a UE: level is L, which nothing clamps, trend what R adds  *)
(* to a forecast, and delta the offset of the outer loop.                  *)
Unfed == [level |-> DefaultCqi, trend |-> 0, initialized |-> FALSE, delta |-> 0]

Trends == -MaxPredictDelta..MaxPredictDelta

(* Whether v lies between a and b.                                         *)
IsBetween(a, v, b) == (a <= v /\ v <= b) \/ (b <= v /\ v <= a)

(* Where the level may be by the time of a report.  With a trend of 0 the  *)
(* rate is small or not trusted, and may have either sign.                 *)
KalmanPredictTo(s) ==
  {l \in -MaxStray..(MaxCqi + MaxStray) :
     /\ IsBetween(l - MaxDrift, s.level, l + MaxDrift)
     /\ s.trend > 0 => l >= s.level
     /\ s.trend < 0 => l <= s.level}

(* What a report z makes of a level p and of the rate: no gain is negative. *)
Corrected(s, p, z) ==
  {[level |-> l, trend |-> t, initialized |-> TRUE, delta |-> s.delta] :
     l \in {v \in -MaxStray..(MaxCqi + MaxStray) : IsBetween(p, v, z)},
     t \in {r \in Trends : /\ s.trend > 0 /\ z > p => r >= 0
                           /\ s.trend < 0 /\ z < p => r <= 0}}

(* A report z arrives: the first one is taken as it is.                    *)
OnCqiReport(s, z) ==
  IF s.initialized THEN UNION {Corrected(s, p, z) : p \in KalmanPredictTo(s)}
  ELSE {[s EXCEPT !.level = z, !.trend = 0, !.initialized = TRUE]}

HasFreshEstimate(s) == s.initialized

(* The forecast of the filter.                                             *)
PredictCqi(s) == IF s.initialized THEN AsCqi(s.level + s.trend) ELSE DefaultCqi

GetEffectiveCqi(s) == AsCqi(PredictCqi(s) + s.delta)

(* Faulty variant: a NACK moves the MCS up as well.                        *)
OnHarqFeedbackUp(s, ack) ==
  [s EXCEPT !.delta = Clamp(IF ack THEN @ + 1 ELSE @ + StepDown, -DeltaMax, DeltaMax)]

(* The outer loop: one step up for an ACK, StepDown for a NACK.            *)
OnHarqFeedback(s, ack) ==
  [s EXCEPT !.delta = Clamp(IF ack THEN @ + 1 ELSE @ - StepDown, -DeltaMax, DeltaMax)]
=============================================================================
