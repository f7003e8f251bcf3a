---------------------------- MODULE TrafficRate ----------------------------
(***************************************************************************)
(* Closed-loop rate control of the traffic generator (helper/              *)
(* traffic-models.cc): one multiplier, in percent, follows the utilisation *)
(* of the scheduler's queues.                                              *)
(***************************************************************************)
EXTENDS Integers

Levels == {"below", "between", "above"}   (* against the two watermarks. *)

Smaller(a, b) == IF a < b THEN a ELSE b
Larger(a, b) == IF a > b THEN a ELSE b

(* AdjustRateForClosedLoop: up by half to at most 3, down to at least 1/2. *)
Adjusted(multiplier, level) ==
  CASE level = "below" -> Smaller(300, (multiplier * 3) \div 2)
    [] level = "above" -> Larger(50, (multiplier * 4) \div 5)
    [] OTHER -> multiplier

(* ScaledInterval, of at least one unit. *)
ScaledInterval(base, multiplier) == Larger(1, (base * 100) \div multiplier)
=============================================================================
