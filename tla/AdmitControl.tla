----------------------------- MODULE AdmitControl -----------------------------
(***************************************************************************)
(* Admission control (model/admit-control.cc) as operators: registrations  *)
(* on an account, and the answers to the question whether a beam may take  *)
(* a UE.  The answers depend on a picture, the downlink RBs that remain of *)
(* each beam, and are OK or not; a handover takes queueing, redirecting    *)
(* and rejecting alike, and only the scheduler asks which of them it is.   *)
(* Every beam has an entry in m_beamResources.                             *)
(*                                                                         *)
(* Ratios are compared as integers, multiplied out by the budget.          *)
(***************************************************************************)
EXTENDS ServiceObjects, FiniteSets, FiniteSetsExt

CONSTANTS
  EmergencyUe, VoiceUe,  (* UEs of PRIORITY_EMERGENCY, PRIORITY_VOICE; the  *)
                         (* others are PRIORITY_DATA.                      *)
  HighCapacityUe,        (* UEs of TRAFFIC_HIGH_CAPACITY.                  *)
  GroundCapacity,        (* m_groundCapacity of each ground cell.          *)
  DlBeamBudgetRbs,       (* Downlink RBs of a beam.                        *)
  DlReservedRbs,         (* m_dlReservedRbs, for the PRACH.                *)
  DataAdmitRbCap,        (* m_dataAdmitRbCap of the scheduler.             *)
  EmergencyUserCap,      (* m_emergencyUserCapPerBeam.                     *)
  RawRequiredRbs,        (* Bound: the RBs the buffer of a UE may need.    *)
  RemainingRbs           (* Bound: the RBs a beam may have left.           *)

ASSUME AdmitAssumption ==
  /\ EmergencyUe \subseteq Ue /\ VoiceUe \subseteq Ue /\ HighCapacityUe \subseteq Ue
  /\ EmergencyUe \cap VoiceUe = {}
  /\ {GroundCapacity, DlReservedRbs} \subseteq Nat
  /\ {DlBeamBudgetRbs, DataAdmitRbCap, EmergencyUserCap} \subseteq Nat \ {0}
  /\ RawRequiredRbs \subseteq 1..DlBeamBudgetRbs
  /\ RemainingRbs \subseteq 0..DlBeamBudgetRbs

Excess(m, n) == IF m > n THEN m - n ELSE 0

-----------------------------------------------------------------------------
(* Registrations.                                                          *)

(* place: where a UE is registered (its context, 0 for none); active: how  *)
(* many UEs each beam and ground cell counts; emergency: how many of them  *)
(* a beam counts as emergency UEs (priorityCount).                         *)
Account ==
  [place : [Ue -> Object \cup {0}], active : [Object -> Nat], emergency : [Beam -> Nat]]

EmptyAccount ==
  [place |-> [u \in Ue |-> 0], active |-> [o \in Object |-> 0],
   emergency |-> [b \in Beam |-> 0]]

Raised(account, u, b) ==
  [account EXCEPT !.active[b] = @ + 1,
                  !.emergency[b] = IF u \in EmergencyUe THEN @ + 1 ELSE @]

(* The counters are lowered unless they are zero or those of no beam. *)
Lowered(account, u, b) ==
  IF b \in Beam
  THEN [account EXCEPT !.active[b] = Excess(@, 1),
                       !.emergency[b] = IF u \in EmergencyUe THEN Excess(@, 1) ELSE @]
  ELSE account

(* Faulty variant: a UE that comes from nowhere is not counted. *)
RegisterUncounted(account, u, b) ==
  LET placed == [account EXCEPT !.place[u] = b]
  IN IF account.place[u] \in Beam \ {b}
     THEN Raised(Lowered(placed, u, account.place[u]), u, b)
     ELSE placed

(* A UE registered to another beam leaves that beam's counts; one that is  *)
(* registered to this beam is not counted again.                           *)
RegisterUeToBeam(account, u, b) ==
  IF account.place[u] = b
  THEN account
  ELSE Raised(Lowered([account EXCEPT !.place[u] = b], u, account.place[u]), u, b)

(* Registration to a ground cell counts, whatever the UE was before. *)
RegisterUeToGround(account, u, g) ==
  [account EXCEPT !.place[u] = g, !.active[g] = @ + 1]

(* The counts that are lowered are those of the beam named by the caller.  *)
UnregisterUeFromBeam(account, u, b) ==
  IF account.place[u] = 0
  THEN account
  ELSE Lowered([account EXCEPT !.place[u] = 0], u, b)

UnregisterUeFromGround(account, u, g) ==
  [account EXCEPT !.place[u] = 0, !.active[g] = Excess(@, 1)]

CanAdmitGroundUe(account, available, g) ==
  available[g] /\ account.active[g] < GroundCapacity

-----------------------------------------------------------------------------
(* What a UE asks for and what a beam has.                                 *)

(* Faulty variant: a UE asks for all that its buffer needs. *)
UngatedRequiredRbs(u) == RawRequiredRbs

(* What a UE asks for is what it needs, capped according to its priority.  *)
EstimateRequiredRbs(u) ==
  LET cap == IF u \in EmergencyUe THEN 3 ELSE IF u \in VoiceUe THEN 2 ELSE DataAdmitRbCap
  IN {Min({cap, raw}) : raw \in RawRequiredRbs}

(* What the UEs ask for together. *)
Requests ==
  {rbs \in [Ue -> UNION {EstimateRequiredRbs(u) : u \in Ue}] :
     \A u \in Ue : rbs[u] \in EstimateRequiredRbs(u)}

(* High capacity traffic, unless of an emergency UE, counts half as much   *)
(* again, rounded up.                                                      *)
CalculateEffectiveRequiredRbs(u, rbs, isHighCapacity) ==
  Min({DlBeamBudgetRbs,
       IF isHighCapacity /\ u \notin EmergencyUe THEN (3 * rbs + 1) \div 2 ELSE rbs})

(* m_emergencyReservedRbs, m_voiceReservedRbs *)
EmergencyReservedRbs == 1
VoiceReservedRbs == 2

(* What the resource manager has left, or what is not known to be used.    *)
GetPhysicalRemainingRbs(remaining, b) == remaining[b]

GetAvailableRbs(remaining, u, b) ==
  Excess(GetPhysicalRemainingRbs(remaining, b),
         DlReservedRbs + (IF u \in VoiceUe THEN EmergencyReservedRbs ELSE 0))

GetGuaranteedAvailableRbs(remaining, b) ==
  Excess(GetPhysicalRemainingRbs(remaining, b),
         DlReservedRbs + EmergencyReservedRbs + VoiceReservedRbs)

UsedRbs(remaining, b) == DlBeamBudgetRbs - GetPhysicalRemainingRbs(remaining, b)

(* In percent.  For emergency UEs the threshold does not bind. *)
GetAdmissionThreshold(u, isHighCapacity) ==
  90 - (IF u \in VoiceUe THEN 3 ELSE 0) - (IF isHighCapacity THEN 8 ELSE 0)

(* Beams but the source with room for the UE. *)
GetRecommendedBeams(remaining, source, u, rbs, isHighCapacity) ==
  {b \in Beam \ {source} :
     CalculateEffectiveRequiredRbs(u, rbs, isHighCapacity) <= GetAvailableRbs(remaining, u, b)}

-----------------------------------------------------------------------------
(* Admission and handover.                                                 *)

(* The emergency UEs of each beam are counted in `emergency`. *)
CheckEmergencyCapacity(emergency, b) == emergency[b] < EmergencyUserCap

CanAdmitUe(emergency, remaining, b, u, rbs, isHighCapacity) ==
  LET effective == CalculateEffectiveRequiredRbs(u, rbs, isHighCapacity)
  IN /\ u \in EmergencyUe => CheckEmergencyCapacity(emergency, b)
     /\ effective <= GetAvailableRbs(remaining, u, b)
     /\ u \notin EmergencyUe \cup VoiceUe => effective <= GetGuaranteedAvailableRbs(remaining, b)
     /\ u \notin EmergencyUe =>
          100 * (UsedRbs(remaining, b) + effective)
            <= GetAdmissionThreshold(u, isHighCapacity) * DlBeamBudgetRbs

(* CanAdmitUe answers ADMIT_REDIRECT: the beam has its fill of emergency   *)
(* UEs, or not the RBs while another beam has.  What is asked of the other *)
(* is the effective need, which it takes for a need not yet converted.     *)
IsSentElsewhere(emergency, remaining, b, u, rbs, isHighCapacity) ==
  LET effective == CalculateEffectiveRequiredRbs(u, rbs, isHighCapacity)
  IN \/ u \in EmergencyUe /\ ~CheckEmergencyCapacity(emergency, b)
     \/ /\ effective > GetAvailableRbs(remaining, u, b)
        /\ GetRecommendedBeams(remaining, b, u, effective, isHighCapacity) # {}

(* Where the scheduler may redirect a UE of its beam `b`: a recommended    *)
(* beam that admits it.  The scores that order them are left out.          *)
RedirectTargets(account, remaining, b, u, rbs) ==
  LET high == u \in HighCapacityUe
  IN IF IsSentElsewhere(account.emergency, remaining, b, u, rbs, high)
     THEN {c \in GetRecommendedBeams(remaining, b, u, rbs, high) :
             CanAdmitUe(account.emergency, remaining, c, u, rbs, high)}
     ELSE {}

(* CalculateHandoverBenefit exceeds m_handoverBenefitThreshold: headroom   *)
(* left in the target, less what the source has, plus half of what the     *)
(* source is relieved of, is more than 15 % of the budget.  From a ground  *)
(* cell there is no benefit.                                               *)
IsBeneficial(remaining, source, target, u, rbs, isHighCapacity) ==
  LET effective == CalculateEffectiveRequiredRbs(u, rbs, isHighCapacity)
  IN /\ source \in Beam
     /\ 20 * Excess(remaining[target], effective)
          + 10 * Min({effective, UsedRbs(remaining, source)})
          + (IF u \in EmergencyUe THEN DlBeamBudgetRbs ELSE 0)
        > 20 * remaining[source] + 3 * DlBeamBudgetRbs
            + (IF isHighCapacity THEN DlBeamBudgetRbs ELSE 0)

(* The target would be used beyond 90 % and another beam is better by 10 %. *)
IsRedirected(remaining, source, target, u, rbs, isHighCapacity) ==
  LET effective == CalculateEffectiveRequiredRbs(u, rbs, isHighCapacity)
      Used(b) == UsedRbs(remaining, b) + effective
  IN /\ 10 * Used(target) > 9 * DlBeamBudgetRbs
     /\ \E b \in GetRecommendedBeams(remaining, source, u, rbs, isHighCapacity) \ {target} :
          10 * Used(b) + DlBeamBudgetRbs < 10 * Used(target)

-----------------------------------------------------------------------------
(* Load balancing.                                                         *)

(* CheckBeamLoadBalancing *)
IsImbalanced(remaining) ==
  \E b, c \in Beam : 10 * (remaining[b] - remaining[c]) > 3 * DlBeamBudgetRbs

IsHighLoad(remaining, b) == 10 * UsedRbs(remaining, b) > 8 * DlBeamBudgetRbs
IsLowLoad(remaining, b) == 10 * UsedRbs(remaining, b) < 4 * DlBeamBudgetRbs

(* Where load balancing may try to move a UE, each asking for rbs[u]. *)
RebalancingTargets(account, remaining, rbs, u) ==
  IF account.place[u] \in Beam /\ IsHighLoad(remaining, account.place[u])
  THEN {b \in GetRecommendedBeams(remaining, account.place[u], u, rbs[u], u \in HighCapacityUe) :
          IsLowLoad(remaining, b)}
  ELSE {}

(* TriggerLoadRebalancing: every UE of a loaded beam goes to one of its    *)
(* targets, in the order of scores that are left out.                      *)
Rebalancings(account, remaining, rbs) ==
  LET Target(u) == RebalancingTargets(account, remaining, rbs, u)
      movers == {u \in Ue : Target(u) # {}}
  IN {move \in [movers -> Beam] : \A u \in movers : move[u] \in Target(u)}

(* A target that refuses the UE directly, or brings too little, makes      *)
(* CanHandoverUe balance the load again, which finds the same beams and the *)
(* same refusal: such a rebalancing never ends.  An emergency UE that moves *)
(* counts against those that move after it.                                *)
IsEndless(account, remaining, rbs, move) ==
  LET filled == [b \in Beam |->
                   account.emergency[b]
                     + Cardinality({u \in DOMAIN move \cap EmergencyUe : move[u] = b})]
  IN \E u \in DOMAIN move :
       LET before == [filled EXCEPT ![move[u]] = Excess(@, 1)]
       IN \/ ~CanAdmitUe(before, remaining, move[u], u, rbs[u], u \in HighCapacityUe)
          \/ ~IsBeneficial(remaining, account.place[u], move[u], u, rbs[u], u \in HighCapacityUe)

(* CanHandoverUe for `asked` RBs of TRAFFIC_DATA: whether the handover is  *)
(* admitted, the moves made on the way, and whether it returns at all.  The *)
(* benefit decides only whether the load is balanced first.                *)
CanHandoverUe(account, remaining, rbs, source, target, u, asked) ==
  LET direct == CanAdmitUe(account.emergency, remaining, target, u, asked, FALSE)
      admit == direct /\ ~IsRedirected(remaining, source, target, u, asked, FALSE)
  IN IF direct /\ IsBeneficial(remaining, source, target, u, asked, FALSE)
     THEN {[admit |-> TRUE, move |-> <<>>, returns |-> TRUE]}
     ELSE IF IsImbalanced(remaining)
     THEN {[admit |-> admit, move |-> move,
            returns |-> ~IsEndless(account, remaining, rbs, move)] :
             move \in Rebalancings(account, remaining, rbs)}
     ELSE {[admit |-> admit, move |-> <<>>, returns |-> TRUE]}
=============================================================================
