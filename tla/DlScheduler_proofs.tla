------------------------- MODULE DlScheduler_proofs -------------------------
(***************************************************************************)
(* Proofs about the downlink rounds of DlScheduler, for any set of UEs and *)
(* beams, any budget, region and overbooking.                              *)
(***************************************************************************)
EXTENDS DlScheduler, FiniteSetTheorems, WellFoundedInduction, TLAPS

-----------------------------------------------------------------------------
(* The account of a beam.                                                  *)

LEMMA SlotsFinite == IsFiniteSet(Slot)
  <1>1. IsFiniteSet(0..SpsRegionRbs)
    BY FS_Interval, ResourceAssumption
  <1>2. Slot \in SUBSET (0..SpsRegionRbs)
    BY DEF Slot
  <1> QED BY <1>1, <1>2, FS_Subset

LEMMA RemainingType ==
  ASSUME NEW usg \in Usage
  PROVE  /\ RemainingRbs(usg) \in Nat
         /\ usg.used <= BudgetRbs => usg.used + RemainingRbs(usg) = BudgetRbs
  BY ResourceAssumption DEF RemainingRbs, Usage

LEMMA ResetType ==
  ASSUME NEW usg \in Usage
  PROVE  /\ ResetBeamAllocation(usg) \in Usage
         /\ ResetBeamAllocation(usg).used = 0
         /\ ResetBeamAllocation(usg).spsBusy = {}
  BY DEF ResetBeamAllocation, Usage

(* What may be claimed is free, has the size asked for and fits the budget.*)
LEMMA ClaimType ==
  ASSUME NEW usg \in Usage, NEW count \in Nat, NEW rbgs \in Claims(usg, count)
  PROVE  /\ rbgs \subseteq Slot
         /\ rbgs \cap usg.spsBusy = {}
         /\ Cardinality(rbgs) = count
         /\ count <= RemainingRbs(usg)
         /\ ClaimSpsRbgs(usg, rbgs) \in Usage
         /\ ClaimSpsRbgs(usg, rbgs).used = usg.used + count
         /\ ClaimSpsRbgs(usg, rbgs).spsBusy = usg.spsBusy \cup rbgs
         /\ Cardinality(usg.spsBusy \cup rbgs) = Cardinality(usg.spsBusy) + count
  <1>1. /\ rbgs \subseteq Slot /\ rbgs \cap usg.spsBusy = {}
        /\ Cardinality(rbgs) = count /\ count <= RemainingRbs(usg)
    BY DEF Claims
  <1>2. /\ ClaimSpsRbgs(usg, rbgs) \in Usage
        /\ ClaimSpsRbgs(usg, rbgs).used = usg.used + count
        /\ ClaimSpsRbgs(usg, rbgs).spsBusy = usg.spsBusy \cup rbgs
    <2>1. ClaimSpsRbgs(usg, rbgs) =
            [usg EXCEPT !.used = usg.used + count,
                        !.spsBusy = usg.spsBusy \cup rbgs]
      BY <1>1 DEF ClaimSpsRbgs
    <2>2. usg.used + count \in Nat /\ usg.spsBusy \cup rbgs \in SUBSET Slot
      BY <1>1 DEF Usage
    <2> QED BY <2>1, <2>2 DEF Usage
  <1>3. IsFiniteSet(rbgs) /\ IsFiniteSet(usg.spsBusy)
    BY <1>1, SlotsFinite, FS_Subset DEF Usage
  <1>4. Cardinality(usg.spsBusy \cup rbgs) = Cardinality(usg.spsBusy) + count
    <2>1. Cardinality(usg.spsBusy \cap rbgs) = 0
      BY <1>1, FS_EmptySet
    <2>2. Cardinality(usg.spsBusy) \in Nat
      BY <1>3, FS_CardinalityType
    <2>3. Cardinality(usg.spsBusy \cup rbgs)
            = Cardinality(usg.spsBusy) + Cardinality(rbgs)
                - Cardinality(usg.spsBusy \cap rbgs)
      BY <1>3, FS_Union
    <2> QED BY <1>1, <2>1, <2>2, <2>3
  <1> QED BY <1>1, <1>2, <1>4

LEMMA AdmitType ==
  ASSUME NEW usg \in Usage, NEW count \in Nat
  PROVE  /\ AdmitSpsGrant(usg, count) \in Usage
         /\ AdmitSpsGrant(usg, count).used = usg.used
         /\ AdmitSpsGrant(usg, count).spsBusy = usg.spsBusy
         /\ Claims(AdmitSpsGrant(usg, count), count) = Claims(usg, count)
  BY DEF AdmitSpsGrant, Usage, Claims, RemainingRbs

LEMMA AdmitClaimType ==
  ASSUME NEW usg \in Usage, NEW count \in Nat, NEW rbgs \in Claims(usg, count)
  PROVE  /\ rbgs \subseteq Slot
         /\ rbgs \cap usg.spsBusy = {}
         /\ count <= RemainingRbs(usg)
         /\ ClaimSpsRbgs(AdmitSpsGrant(usg, count), rbgs).used = usg.used + count
         /\ Cardinality(usg.spsBusy \cup rbgs)
              = Cardinality(usg.spsBusy) + Cardinality(rbgs)
  <1> DEFINE admitted == AdmitSpsGrant(usg, count)
  <1>1. /\ admitted \in Usage /\ rbgs \in Claims(admitted, count)
        /\ admitted.used = usg.used /\ admitted.spsBusy = usg.spsBusy
    BY AdmitType
  <1>2. /\ ClaimSpsRbgs(admitted, rbgs).used = admitted.used + count
        /\ ClaimSpsRbgs(admitted, rbgs).spsBusy = admitted.spsBusy \cup rbgs
    BY <1>1, ClaimType
  <1> QED BY <1>1, <1>2, ClaimType

LEMMA ReleaseType ==
  ASSUME NEW usg \in Usage, NEW count \in Nat
  PROVE  /\ ReleaseSpsAdmission(usg, count) \in Usage
         /\ ReleaseSpsAdmission(usg, count).used = usg.used
         /\ ReleaseSpsAdmission(usg, count).spsBusy = usg.spsBusy
  BY DEF ReleaseSpsAdmission, Usage

LEMMA AllocateType ==
  ASSUME NEW usg \in Usage, NEW requested \in Nat
  PROVE  /\ ApprovedRbs(usg, requested) \in Nat
         /\ ApprovedRbs(usg, requested) <= requested
         /\ ApprovedRbs(usg, requested) <= RemainingRbs(usg)
         /\ AllocateSpectrum(usg, requested) \in Usage
         /\ AllocateSpectrum(usg, requested).used
              = usg.used + ApprovedRbs(usg, requested)
         /\ AllocateSpectrum(usg, requested).spsBusy = usg.spsBusy
  <1>1. RemainingRbs(usg) \in Nat
    BY RemainingType
  <1>2. /\ ApprovedRbs(usg, requested) \in Nat
        /\ ApprovedRbs(usg, requested) <= requested
        /\ ApprovedRbs(usg, requested) <= RemainingRbs(usg)
    BY <1>1 DEF ApprovedRbs, Smaller
  <1> QED BY <1>2 DEF AllocateSpectrum, Usage

-----------------------------------------------------------------------------
(* The parts of a step.                                                    *)

LEMMA IdleRoundType == IdleRound \in Round
  BY DEF IdleRound, Round, NoFar, NoRedirects, NoClaims

LEMMA EnterBeamType ==
  ASSUME NEW r \in Round, NEW b \in Beam
  PROVE  EnterBeam(r, b) \in Round
  <1>1. GrantsOf(b) \subseteq Ue
    BY DEF GrantsOf
  <1>2. /\ NoFar \in [Ue -> SUBSET Ue] /\ NoClaims \in [Ue -> SUBSET Slot]
        /\ NoRedirects \in [Ue -> {0} \cup Beam]
    BY DEF NoFar, NoClaims, NoRedirects
  <1> QED BY <1>1, <1>2 DEF EnterBeam, Round

LEMMA HandledType ==
  ASSUME NEW r \in Round, NEW u
  PROVE  Handled(r, u) \in Round
  BY DEF Handled, Round

LEMMA ReleasedAtType ==
  ASSUME NEW r \in Round, NEW u \in Ue, NEW count
  PROVE  ReleasedAt(r, u, count) \in Round
  BY DEF ReleasedAt, Round

LEMMA GrantingType ==
  ASSUME NEW r \in Round, NEW who \in SUBSET Ue
  PROVE  Granting(r, who) \in Round
  BY DEF Granting, Round

LEMMA ServedWithType ==
  ASSUME NEW r \in Round, NEW u \in Ue, NEW far \in SUBSET Ue,
         NEW rbgs \in SUBSET Slot
  PROVE  ServedWith(r, u, far, rbgs) \in Round
  <1> DEFINE q == [r EXCEPT !.served = r.served \cup {u} \cup far,
                            !.claimed[u] = rbgs]
  <1>1. q \in Round
    BY DEF Round
  <1> HIDE DEF q
  <1>2. Granting(q, {u} \cup far) \in Round
    BY <1>1, GrantingType
  <1> QED BY <1>2 DEF ServedWith, q

LEMMA OverlaidType ==
  ASSUME NEW partner, NEW b
  PROVE  /\ Overlaid(partner, b) \subseteq Ue
         /\ Overlaid(partner, b) \subseteq {partner}
         /\ \A far \in Overlaid(partner, b) : ue[far].beam = b
  BY DEF Overlaid

LEMMA FindFarType ==
  ASSUME NEW b, NEW near, NEW exclude,
         NEW far \in FindSpsNomaFar(b, near, exclude)
  PROVE  \/ far = 0
         \/ /\ far \in Ue \ SpsUe
            /\ ue[far].beam = b
            /\ far \notin exclude
            /\ far \notin BoundFar
  BY DEF FindSpsNomaFar, FarCandidates, UesOf

LEMMA DrainType ==
  ASSUME NEW who, ue \in [Ue -> Context], Drain(who)
  PROVE  /\ ue' \in [Ue -> Context]
         /\ \A u \in Ue : ue'[u].beam = ue[u].beam
  <1>1. PICK emptied \in SUBSET who :
          ue' = [u \in Ue |-> IF u \in emptied
                              THEN [ue[u] EXCEPT !.hasData = FALSE] ELSE ue[u]]
    BY DEF Drain
  <1>2. ASSUME NEW u \in Ue
        PROVE  /\ [ue[u] EXCEPT !.hasData = FALSE] \in Context
               /\ [ue[u] EXCEPT !.hasData = FALSE].beam = ue[u].beam
    BY DEF Context
  <1> QED BY <1>1, <1>2

-----------------------------------------------------------------------------
(* Types, and that a round in progress has a beam.                         *)

BeamOpen == round.stage # "idle" => round.beam \in Beam

TypeInv == TypeOK /\ BeamOpen

LEMMA TypeInit == Init => TypeInv
  <1> SUFFICES ASSUME Init PROVE TypeInv
    OBVIOUS
  <1>1. ue \in [Ue -> Context]
    BY DEF Init, Context
  <1>2. grants \in [Ue -> Grant]
    BY DEF Init, Grant, NoGrant
  <1>3. usage \in [Beam -> Usage]
    BY DEF Init, Usage, Unused
  <1>4. round \in Round /\ round.stage = "idle"
    BY IdleRoundType DEF Init, IdleRound
  <1> QED BY <1>1, <1>2, <1>3, <1>4 DEF TypeInv, TypeOK, BeamOpen

LEMMA OpenBeamType ==
  ASSUME TypeInv, NEW r \in Round, NEW b \in Beam, OpenBeam(r, b)
  PROVE  /\ round' \in Round /\ round'.stage = "reuse" /\ round'.beam = b
         /\ usage' \in [Beam -> Usage]
  <1>1. round' = EnterBeam(r, b) /\ round' \in Round
    BY EnterBeamType DEF OpenBeam
  <1>2. round'.stage = "reuse" /\ round'.beam = b
    BY <1>1 DEF EnterBeam, Round
  <1>3. usage' = [usage EXCEPT ![b] = ResetBeamAllocation(usage[b])]
    BY DEF OpenBeam
  <1>4. usage' \in [Beam -> Usage]
    BY <1>3, ResetType DEF TypeInv, TypeOK
  <1> QED BY <1>1, <1>2, <1>4

LEMMA ConstantTypes ==
  /\ \A u \in Ue : u \in Nat /\ u # 0
  /\ SpsPeriod \in Nat /\ SpsPeriod > 0
  /\ PrachRbs \in Nat
  /\ NomaMinCqiGap \in Nat /\ NomaMinCqiGap > 0
  /\ \A size \in 1..SpsClassRbs : size \in Nat /\ size > 0
  <1>1. /\ Ue \subseteq Nat \ {0} /\ SpsPeriod \in Nat \ {0}
        /\ NomaMinCqiGap \in Nat \ {0} /\ SpsClassRbs \in Nat \ {0}
        /\ PrachRbs \in Nat
    BY DlSchedulerAssumption
  <1> QED BY <1>1

LEMMA PhaseType == \A u \in Ue : Phase(u) \in Nat
  <1> SUFFICES ASSUME NEW u \in Ue PROVE Phase(u) \in Nat
    OBVIOUS
  <1>1. u \in Nat /\ SpsPeriod \in Nat /\ SpsPeriod > 0
    BY ConstantTypes
  <1>2. u % SpsPeriod \in Nat
    BY <1>1
  <1> QED BY <1>2 DEF Phase

LEMMA RenewedType ==
  ASSUME NEW g \in Grant, NEW partner \in {0} \cup Ue
  PROVE  [g EXCEPT !.next = SpsPeriod, !.emptyTx = 0,
                   !.conflict = 0, !.partner = partner] \in Grant
  <1>1. SpsPeriod \in Nat
    BY ConstantTypes
  <1> DEFINE f == [g EXCEPT !.next = SpsPeriod, !.emptyTx = 0]
  <1>2. f \in Grant
    BY <1>1 DEF Grant
  <1>3. [f EXCEPT !.conflict = 0, !.partner = partner] \in Grant
    <2> HIDE DEF f
    <2> QED BY <1>2 DEF Grant
  <1> QED BY <1>3

(* A grant gets a transmission, with the partner overlaid.                 *)
Serving(u, far, rbgs) ==
  /\ round' \in Round
  /\ round'.stage = round.stage /\ round'.beam = round.beam
  /\ round'.todo = round.todo \ {u}
  /\ round'.served = round.served \cup {u} \cup far
  /\ round'.redirects = round.redirects
  /\ round'.claimed[u] = rbgs
  /\ \A v \in Ue \ {u} : round'.claimed[v] = round.claimed[v]
  /\ round'.granted = round.granted \cup {u} \cup far
  /\ round'.twice = round.twice \cup (round.granted \cap ({u} \cup far))

LEMMA ServeType ==
  ASSUME TypeInv, NEW u \in Ue, NEW far \in SUBSET Ue, NEW rbgs \in SUBSET Slot,
         round' = ServedWith(Handled(round, u), u, far, rbgs)
  PROVE  Serving(u, far, rbgs)
  <1>1. round \in Round
    BY DEF TypeInv, TypeOK
  <1>2. Handled(round, u) \in Round
    BY <1>1, HandledType
  <1>3. round' \in Round
    BY <1>2, ServedWithType
  <1> QED BY <1>1, <1>3 DEF ServedWith, Granting, Handled, Round, Serving

LEMMA TypeStep == TypeInv /\ [Next]_vars => TypeInv'
  <1> SUFFICES ASSUME TypeInv, [Next]_vars PROVE TypeInv'
    OBVIOUS
  <1>t. /\ ue \in [Ue -> Context] /\ grants \in [Ue -> Grant]
        /\ usage \in [Beam -> Usage] /\ round \in Round /\ BeamOpen
    BY DEF TypeInv, TypeOK
  <1>g. \A u \in Ue : grants[u] \in Grant
    BY <1>t
  <1>1. ASSUME NEW u \in Ue, UpdateUeDlBufferStatus(u) PROVE TypeInv'
    <2>1. ue' \in [Ue -> Context]
      BY <1>1, <1>t DEF UpdateUeDlBufferStatus, Context
    <2> QED BY <1>1, <1>t, <2>1 DEF UpdateUeDlBufferStatus, TypeInv, TypeOK, BeamOpen
  <1>2. ASSUME NEW u \in Ue, UpdateUeDlCqi(u) PROVE TypeInv'
    <2>1. ue' \in [Ue -> Context]
      BY <1>2, <1>t DEF UpdateUeDlCqi, Context
    <2> QED BY <1>2, <1>t, <2>1 DEF UpdateUeDlCqi, TypeInv, TypeOK, BeamOpen
  <1>3. ASSUME NEW u \in Ue, AddUe(u) PROVE TypeInv'
    <2>1. ue' \in [Ue -> Context]
      BY <1>3, <1>t DEF AddUe, Context
    <2> QED BY <1>3, <1>t, <2>1 DEF AddUe, TypeInv, TypeOK, BeamOpen
  <1>4. ASSUME NEW u \in Ue, RemoveUt(u) PROVE TypeInv'
    <2>1. ue' \in [Ue -> Context]
      BY <1>4, <1>t DEF RemoveUt, Context
    <2> QED BY <1>4, <1>t, <2>1 DEF RemoveUt, TypeInv, TypeOK, BeamOpen
  <1>5. ASSUME NEW u \in Ue, ExecuteHandover(u) PROVE TypeInv'
    <2>1. ue' \in [Ue -> Context]
      BY <1>5, <1>t DEF ExecuteHandover, Context
    <2> QED BY <1>5, <1>t, <2>1 DEF ExecuteHandover, TypeInv, TypeOK, BeamOpen
  <1>6. ASSUME StartRound PROVE TypeInv'
    <2>1. PICK b \in Beam : OpenBeam(IdleRound, b)
      BY <1>6 DEF StartRound
    <2>2. /\ round' \in Round /\ round'.beam \in Beam
          /\ usage' \in [Beam -> Usage]
      BY <2>1, IdleRoundType, OpenBeamType
    <2>3. \A u \in Ue :
            [grants[u] EXCEPT !.next = IF @ > 0 THEN @ - 1 ELSE 0] \in Grant
      BY <1>g DEF Grant
    <2>4. grants' \in [Ue -> Grant] /\ ue' = ue
      BY <1>6, <2>3 DEF StartRound
    <2> QED BY <1>t, <2>2, <2>4 DEF TypeInv, TypeOK, BeamOpen
  <1>7. ASSUME NEW u \in Ue, SkipGone(u) PROVE TypeInv'
    <2>1. /\ round' \in Round
          /\ round'.stage = round.stage /\ round'.beam = round.beam
      BY <1>7, <1>t DEF SkipGone, Handled, Round
    <2> QED BY <1>7, <1>t, <2>1 DEF SkipGone, TypeInv, TypeOK, BeamOpen
  <1>h. ASSUME NEW u \in Ue
        PROVE  /\ Holding(u) \in Round
               /\ Holding(u).stage = round.stage /\ Holding(u).beam = round.beam
    BY <1>t DEF Holding, Handled, Round
  <1>r. ASSUME NEW u \in Ue, NEW count
        PROVE  /\ ReleasedAt(Holding(u), u, count) \in Round
               /\ ReleasedAt(Holding(u), u, count).stage = round.stage
               /\ ReleasedAt(Holding(u), u, count).beam = round.beam
    <2>1. Holding(u) \in Round
      BY <1>h
    <2>2. ReleasedAt(Holding(u), u, count) \in Round
      BY <2>1, ReleasedAtType
    <2>3. /\ ReleasedAt(Holding(u), u, count).stage = Holding(u).stage
          /\ ReleasedAt(Holding(u), u, count).beam = Holding(u).beam
      BY <2>1 DEF ReleasedAt, Round
    <2> QED BY <1>h, <2>2, <2>3
  <1>8. ASSUME NEW u \in Ue, SkipNotDue(u) PROVE TypeInv'
    BY <1>8, <1>t, <1>h DEF SkipNotDue, TypeInv, TypeOK, BeamOpen
  <1>9. ASSUME NEW u \in Ue, SkipEmpty(u) PROVE TypeInv'
    <2>1. grants' \in [Ue -> Grant]
      BY <1>9, <1>t, <1>g, ConstantTypes DEF SkipEmpty, Grant
    <2> QED BY <1>9, <1>t, <1>r, <2>1 DEF SkipEmpty, TypeInv, TypeOK, BeamOpen
  <1>10. ASSUME NEW u \in Ue, SkipConflict(u) PROVE TypeInv'
    <2>1. grants' \in [Ue -> Grant]
      BY <1>10, <1>t, <1>g, ConstantTypes DEF SkipConflict, Grant
    <2> QED BY <1>10, <1>t, <1>r, <2>1 DEF SkipConflict, TypeInv, TypeOK, BeamOpen
  <1>11. ASSUME NEW u \in Ue, Reuse(u) PROVE TypeInv'
    <2> DEFINE far == Overlaid(grants[u].partner, grants[u].beam)
    <2>0. far \in SUBSET Ue
      BY OverlaidType
    <2>1. PICK rbgs \in ClaimsOf(u) :
            /\ usage' = [usage EXCEPT ![round.beam] = ClaimSpsRbgs(@, rbgs)]
            /\ round' = ServedWith(Handled(round, u), u, far, rbgs)
      BY <1>11 DEF Reuse
    <2>2. PICK partner \in Repaired(u, round.served \cup {u} \cup far) :
            grants' = [grants EXCEPT ![u].next = SpsPeriod, ![u].emptyTx = 0,
                                     ![u].conflict = 0, ![u].partner = partner]
      BY <1>11 DEF Reuse
    <2>3. ue' \in [Ue -> Context]
      BY <1>11, <1>t, DrainType DEF Reuse
    <2>4. round.beam \in Beam /\ usage[round.beam] \in Usage /\ grants[u].rbgSize \in Nat
      BY <1>11, <1>t, <1>g DEF Reuse, Due, BeamOpen, Grant
    <2>5. rbgs \in Claims(usage[round.beam], grants[u].rbgSize)
      BY <2>1 DEF ClaimsOf
    <2>6. rbgs \in SUBSET Slot /\ ClaimSpsRbgs(usage[round.beam], rbgs) \in Usage
      BY <2>4, <2>5, ClaimType
    <2>7. usage' \in [Beam -> Usage]
      BY <1>t, <2>1, <2>6
    <2>8. partner \in {0} \cup Ue
      BY <1>g, <2>2, FindFarType DEF Repaired, Grant
    <2>9. grants' \in [Ue -> Grant]
      <3>1. [grants[u] EXCEPT !.next = SpsPeriod, !.emptyTx = 0,
                              !.conflict = 0, !.partner = partner] \in Grant
        BY <1>g, <2>8, RenewedType
      <3>2. grants' = [grants EXCEPT ![u] =
              [grants[u] EXCEPT !.next = SpsPeriod, !.emptyTx = 0,
                                !.conflict = 0, !.partner = partner]]
        BY <1>t, <2>2
      <3> QED BY <1>t, <3>1, <3>2
    <2>10. round' \in Round /\ round'.stage = round.stage /\ round'.beam = round.beam
      BY <2>0, <2>1, <2>6, ServeType DEF Serving
    <2> QED BY <1>t, <2>3, <2>7, <2>9, <2>10 DEF TypeInv, TypeOK, BeamOpen
  <1>12. ASSUME NEW u \in Ue, ReleaseDlSpsGrant(u) PROVE TypeInv'
    <2>1. grants' \in [Ue -> Grant]
      BY <1>12, <1>t DEF ReleaseDlSpsGrant, Grant, NoGrant
    <2>2. usage' \in [Beam -> Usage]
      <3>1. grants[u].rbgSize \in Nat
        BY <1>g DEF Grant
      <3>2. CASE grants[u].beam \in Beam
        BY <1>12, <1>t, <3>1, <3>2, ReleaseType DEF ReleaseDlSpsGrant
      <3>3. CASE grants[u].beam \notin Beam
        BY <1>12, <1>t, <3>3 DEF ReleaseDlSpsGrant
      <3> QED BY <3>2, <3>3
    <2>3. round' \in Round /\ round'.stage = round.stage /\ round'.beam = round.beam
      BY <1>12, <1>t DEF ReleaseDlSpsGrant, Round
    <2> QED BY <1>12, <1>t, <2>1, <2>2, <2>3
            DEF ReleaseDlSpsGrant, TypeInv, TypeOK, BeamOpen
  <1>13. ASSUME EndReuse PROVE TypeInv'
    <2>1. round' \in Round /\ round'.beam = round.beam
      BY <1>13, <1>t DEF EndReuse, Round, UesOf
    <2> QED BY <1>13, <1>t, <2>1 DEF EndReuse, TypeInv, TypeOK, BeamOpen
  <1>14. ASSUME NEW u \in Ue, SkipActivation(u) PROVE TypeInv'
    <2>1. /\ round' \in Round
          /\ round'.stage = round.stage /\ round'.beam = round.beam
      BY <1>14, <1>t DEF SkipActivation, Handled, Round
    <2> QED BY <1>14, <1>t, <2>1 DEF SkipActivation, TypeInv, TypeOK, BeamOpen
  <1>15. ASSUME NEW u \in Ue, NEW size \in 1..SpsClassRbs, RefuseActivation(u, size)
         PROVE  TypeInv'
    <2>1. /\ round' \in Round
          /\ round'.stage = round.stage /\ round'.beam = round.beam
      BY <1>15, <1>t DEF RefuseActivation, Handled, Round
    <2> QED BY <1>15, <1>t, <2>1 DEF RefuseActivation, TypeInv, TypeOK, BeamOpen
  <1>16. ASSUME NEW u \in Ue, NEW size \in 1..SpsClassRbs, Activate(u, size)
         PROVE  TypeInv'
    <2> DEFINE b == round.beam
    <2>0. b \in Beam /\ usage[b] \in Usage /\ size \in Nat
      BY <1>16, <1>t, ConstantTypes DEF Activate, Activating, BeamOpen
    <2>1. PICK rbgs \in Claims(usage[b], size),
               partner \in FindSpsNomaFar(b, u, round.served) :
            /\ usage' = [usage EXCEPT ![b] =
                           ClaimSpsRbgs(AdmitSpsGrant(@, size), rbgs)]
            /\ grants' = [grants EXCEPT ![u] =
                 [active |-> TRUE, beam |-> b, rbgSize |-> size,
                  next |-> SpsPeriod + Phase(u), emptyTx |-> 0, conflict |-> 0,
                  partner |-> partner]]
            /\ round' = ServedWith(Handled(round, u), u, Overlaid(partner, b), rbgs)
            /\ Drain({u} \cup Overlaid(partner, b))
      BY <1>16 DEF Activate
    <2>2. ue' \in [Ue -> Context]
      BY <1>t, <2>1, DrainType
    <2>3. /\ AdmitSpsGrant(usage[b], size) \in Usage
          /\ rbgs \in Claims(AdmitSpsGrant(usage[b], size), size)
      BY <2>0, <2>1, AdmitType
    <2>4. /\ rbgs \in SUBSET Slot
          /\ ClaimSpsRbgs(AdmitSpsGrant(usage[b], size), rbgs) \in Usage
      BY <2>0, <2>3, ClaimType
    <2>5. usage' \in [Beam -> Usage]
      BY <1>t, <2>1, <2>4
    <2>6. partner \in {0} \cup Ue
      BY <2>1, FindFarType
    <2>7. Phase(u) \in Nat
      BY PhaseType
    <2>8. grants' \in [Ue -> Grant]
      BY <1>t, <2>0, <2>1, <2>6, <2>7, ConstantTypes DEF Grant
    <2>9. Overlaid(partner, b) \in SUBSET Ue
      BY OverlaidType
    <2>10. round' \in Round /\ round'.stage = round.stage /\ round'.beam = round.beam
      BY <2>1, <2>4, <2>9, ServeType DEF Serving
    <2> QED BY <1>t, <2>2, <2>5, <2>8, <2>10 DEF TypeInv, TypeOK, BeamOpen
  <1>17. ASSUME EndActivate PROVE TypeInv'
    <2> DEFINE rest == {u \in UesOf(round.beam) \ round.served : ue[u].hasData}
    <2>1. PICK pairing \in NomaPairings(rest) :
            round' = [round EXCEPT !.stage = "dynamic",
              !.todo = rest \ UNION {pairing[near] : near \in Ue},
              !.far = pairing,
              !.available = AvailableRbs(RemainingRbs(usage[round.beam]))]
      BY <1>17 DEF EndActivate
    <2>2. rest \subseteq Ue
      BY DEF UesOf
    <2>3. pairing \in [Ue -> SUBSET Ue]
      BY <2>1, <2>2 DEF NomaPairings
    <2>4. AvailableRbs(RemainingRbs(usage[round.beam])) \in Nat
      <3>1. round.beam \in Beam
        BY <1>17, <1>t DEF EndActivate, BeamOpen
      <3>2. RemainingRbs(usage[round.beam]) \in Nat
        BY <1>t, <3>1, RemainingType
      <3> QED BY <3>2, ConstantTypes DEF AvailableRbs
    <2> HIDE DEF rest
    <2>5. round' \in Round /\ round'.beam = round.beam
      BY <1>t, <2>1, <2>2, <2>3, <2>4 DEF Round
    <2> QED BY <1>17, <1>t, <2>5 DEF EndActivate, TypeInv, TypeOK, BeamOpen
  <1>18. ASSUME NEW u \in Ue, Defer(u) PROVE TypeInv'
    <2>1. /\ round' \in Round
          /\ round'.stage = round.stage /\ round'.beam = round.beam
      BY <1>18, <1>t DEF Defer, Handled, Round
    <2> QED BY <1>18, <1>t, <2>1 DEF Defer, TypeInv, TypeOK, BeamOpen
  <1>19. ASSUME NEW u \in Ue, Redirect(u) PROVE TypeInv'
    <2>0. PICK b \in Beam : round' = [Handled(round, u) EXCEPT !.redirects[u] = b]
      BY <1>19 DEF Redirect
    <2>1. /\ round' \in Round
          /\ round'.stage = round.stage /\ round'.beam = round.beam
      <3>1. /\ Handled(round, u) \in Round
            /\ Handled(round, u).stage = round.stage
            /\ Handled(round, u).beam = round.beam
        BY <1>t DEF Handled, Round
      <3> QED BY <2>0, <3>1 DEF Round
    <2> QED BY <1>19, <1>t, <2>1 DEF Redirect, TypeInv, TypeOK, BeamOpen
  <1>20. ASSUME NEW u \in Ue, Schedule(u) PROVE TypeInv'
    <2>0. round.beam \in Beam /\ usage[round.beam] \in Usage /\ round.available \in Nat
      BY <1>20, <1>t DEF Schedule, Scheduling, BeamOpen, Round
    <2> DEFINE approved(n) == ApprovedRbs(usage[round.beam], n)
               who == {u} \cup round.far[u]
               left(n) == [Handled(round, u) EXCEPT !.available = @ - approved(n)]
    <2>1. PICK n \in 1..round.available :
            /\ usage' = [usage EXCEPT ![round.beam] = AllocateSpectrum(@, n)]
            /\ round' = Granting(left(n), who)
      BY <1>20 DEF Schedule
    <2>2. n \in Nat /\ n <= round.available
      BY <2>0
    <2>3. /\ approved(n) \in Nat /\ approved(n) <= n
          /\ AllocateSpectrum(usage[round.beam], n) \in Usage
      BY <2>0, <2>2, AllocateType
    <2>4. usage' \in [Beam -> Usage]
      BY <1>t, <2>1, <2>3
    <2>5. ue' \in [Ue -> Context] /\ grants' = grants
      BY <1>20, <1>t, DrainType DEF Schedule
    <2>6. round.available - approved(n) \in Nat
      BY <2>0, <2>2, <2>3
    <2>7. who \in SUBSET Ue
      BY <1>t DEF Round
    <2> HIDE DEF approved, who
    <2>8. /\ left(n) \in Round
          /\ left(n).stage = round.stage /\ left(n).beam = round.beam
      BY <1>t, <2>6 DEF Handled, Round
    <2> HIDE DEF left
    <2>9. round' \in Round /\ round'.stage = round.stage /\ round'.beam = round.beam
      <3>1. Granting(left(n), who) \in Round
        BY <2>7, <2>8, GrantingType
      <3>2. /\ Granting(left(n), who).stage = left(n).stage
            /\ Granting(left(n), who).beam = left(n).beam
        BY <2>8 DEF Granting, Round
      <3> QED BY <2>1, <2>8, <3>1, <3>2
    <2> QED BY <1>t, <2>4, <2>5, <2>9 DEF TypeInv, TypeOK, BeamOpen
  <1>21. ASSUME EndBeam PROVE TypeInv'
    <2>1. ue' \in [Ue -> Context]
      <3>1. \A u \in Ue : round.redirects[u] \in {0} \cup Beam
        BY <1>t DEF Round
      <3>2. \A u \in Ue : [ue[u] EXCEPT !.beam = round.redirects[u]] \in Context
        BY <1>t, <3>1 DEF Context
      <3> QED BY <1>21, <1>t, <3>2 DEF EndBeam, Redirected
    <2>2. CASE round' = IdleRound /\ UNCHANGED usage
      BY <1>21, <1>t, <2>1, <2>2, IdleRoundType
         DEF EndBeam, TypeInv, TypeOK, BeamOpen, IdleRound
    <2>3. CASE \E b \in LaterBeams : OpenBeam(round, b)
      <3>1. PICK b \in Beam : OpenBeam(round, b)
        BY <2>3 DEF LaterBeams
      <3>2. round' \in Round /\ round'.beam = b /\ usage' \in [Beam -> Usage]
        BY <1>t, <3>1, OpenBeamType
      <3> QED BY <1>21, <1>t, <2>1, <3>2 DEF EndBeam, TypeInv, TypeOK, BeamOpen
    <2> QED BY <1>21, <2>2, <2>3 DEF EndBeam
  <1>22. CASE UNCHANGED vars
    BY <1>22, <1>t DEF vars, TypeInv, TypeOK, BeamOpen
  <1> QED BY <1>1, <1>2, <1>3, <1>4, <1>5, <1>6, <1>7, <1>8, <1>9, <1>10,
             <1>11, <1>12, <1>13, <1>14, <1>15, <1>16, <1>17, <1>18, <1>19,
             <1>20, <1>21, <1>22
          DEF Next, RunScheduler, ReuseStep, ActivateStep, DynamicStep

(* Type correctness: whatever the environment and the rounds do.           *)
THEOREM TypeCorrect == Spec => []TypeOK
  <1>1. TypeInv => TypeOK
    BY DEF TypeInv
  <1> QED BY <1>1, TypeInit, TypeStep, PTL DEF Spec

-----------------------------------------------------------------------------
(* What the steps that use resource blocks do.                             *)

(* A claim of count slots by u, with the UEs of far overlaid.              *)
Claiming(u, far, rbgs, count) ==
  /\ round.beam \in Beam
  /\ far \in SUBSET Ue
  /\ rbgs \in SUBSET Slot
  /\ Cardinality(rbgs) = count
  /\ rbgs \cap usage[round.beam].spsBusy = {}
  /\ usage[round.beam].used + count <= BudgetRbs
                                         \/ usage[round.beam].used > BudgetRbs
  /\ \A b \in Beam \ {round.beam} : usage'[b] = usage[b]
  /\ usage'[round.beam].used = usage[round.beam].used + count
  /\ usage'[round.beam].spsBusy = usage[round.beam].spsBusy \cup rbgs
  /\ Cardinality(usage'[round.beam].spsBusy)
       = Cardinality(usage[round.beam].spsBusy) + count
  /\ round' = ServedWith(Handled(round, u), u, far, rbgs)
  /\ \A v \in Ue : ue'[v].beam = ue[v].beam
  /\ \A v \in Ue \ {u} : grants'[v] = grants[v]
  /\ grants'[u].rbgSize = count

LEMMA ReuseEffect ==
  ASSUME TypeInv, NEW u \in Ue, Reuse(u)
  PROVE  \E rbgs \in SUBSET Slot, partner \in {0} \cup Ue :
           /\ Claiming(u, Overlaid(grants[u].partner, grants[u].beam), rbgs,
                       grants[u].rbgSize)
           /\ grants'[u].active = grants[u].active
           /\ grants'[u].beam = grants[u].beam
           /\ grants'[u].partner = partner
           /\ \/ partner \in {0, grants[u].partner}
              \/ partner \notin BoundFar /\ partner \notin SpsUe
  <1> DEFINE far == Overlaid(grants[u].partner, grants[u].beam)
             b == round.beam
  <1>t. /\ ue \in [Ue -> Context] /\ grants \in [Ue -> Grant]
        /\ usage \in [Beam -> Usage] /\ round \in Round /\ b \in Beam
    BY DEF TypeInv, TypeOK, BeamOpen, Reuse, Due
  <1>1. PICK rbgs \in ClaimsOf(u) :
          /\ usage' = [usage EXCEPT ![b] = ClaimSpsRbgs(@, rbgs)]
          /\ round' = ServedWith(Handled(round, u), u, far, rbgs)
    BY DEF Reuse
  <1>2. PICK partner \in Repaired(u, round.served \cup {u} \cup far) :
          grants' = [grants EXCEPT ![u].next = SpsPeriod, ![u].emptyTx = 0,
                                   ![u].conflict = 0, ![u].partner = partner]
    BY DEF Reuse
  <1>3. /\ partner \in {0} \cup Ue
        /\ \/ partner \in {0, grants[u].partner}
           \/ partner \notin BoundFar /\ partner \notin SpsUe
    <2>1. grants[u].partner \in {0} \cup Ue
      BY <1>t DEF Grant
    <2> QED BY <1>2, <2>1, FindFarType DEF Repaired
  <1>4. far \in SUBSET Ue
    BY OverlaidType
  <1>5. \A v \in Ue : ue'[v].beam = ue[v].beam
    BY <1>t, DrainType DEF Reuse
  <1>6. /\ grants'[u].active = grants[u].active
        /\ grants'[u].beam = grants[u].beam
        /\ grants'[u].rbgSize = grants[u].rbgSize
        /\ grants'[u].partner = partner
        /\ \A v \in Ue \ {u} : grants'[v] = grants[v]
    <2>1. grants[u] \in Grant
      BY <1>t
    <2>2. grants'[u] = [grants[u] EXCEPT !.next = SpsPeriod, !.emptyTx = 0,
                                         !.conflict = 0, !.partner = partner]
      BY <1>t, <1>2
    <2>3. \A v \in Ue \ {u} : grants'[v] = grants[v]
      BY <1>t, <1>2
    <2> QED BY <2>1, <2>2, <2>3 DEF Grant
  <1> HIDE DEF far
  <1>7. /\ usage[b] \in Usage /\ grants[u].rbgSize \in Nat
        /\ rbgs \in Claims(usage[b], grants[u].rbgSize)
    BY <1>t, <1>1 DEF ClaimsOf, Grant
  <1>8. Claiming(u, far, rbgs, grants[u].rbgSize)
    <2>1. /\ rbgs \subseteq Slot /\ rbgs \cap usage[b].spsBusy = {}
          /\ Cardinality(rbgs) = grants[u].rbgSize
          /\ grants[u].rbgSize <= RemainingRbs(usage[b])
          /\ ClaimSpsRbgs(usage[b], rbgs).used = usage[b].used + grants[u].rbgSize
          /\ ClaimSpsRbgs(usage[b], rbgs).spsBusy = usage[b].spsBusy \cup rbgs
          /\ Cardinality(usage[b].spsBusy \cup rbgs)
               = Cardinality(usage[b].spsBusy) + grants[u].rbgSize
      BY <1>7, ClaimType
    <2>2. /\ usage'[b] = ClaimSpsRbgs(usage[b], rbgs)
          /\ \A c \in Beam \ {b} : usage'[c] = usage[c]
      BY <1>t, <1>1
    <2>3. \/ usage[b].used + grants[u].rbgSize <= BudgetRbs
          \/ usage[b].used > BudgetRbs
      BY <1>7, <2>1, ResourceAssumption DEF RemainingRbs, Usage
    <2> QED BY <1>t, <1>1, <1>4, <1>5, <1>6, <2>1, <2>2, <2>3 DEF Claiming
  <1> QED BY <1>1, <1>3, <1>6, <1>8 DEF ClaimsOf, Claims, far

LEMMA ActivateEffect ==
  ASSUME TypeInv, NEW u \in Ue, NEW size \in 1..SpsClassRbs, Activate(u, size)
  PROVE  \E rbgs \in SUBSET Slot, partner \in {0} \cup Ue :
           /\ Claiming(u, Overlaid(partner, round.beam), rbgs, size)
           /\ grants'[u].active
           /\ grants'[u].beam = round.beam
           /\ grants'[u].partner = partner
           /\ partner = 0 \/ (/\ partner \notin SpsUe
                              /\ ue[partner].beam = round.beam
                              /\ partner \notin round.served
                              /\ partner \notin BoundFar)
  <1> DEFINE b == round.beam
  <1>t. /\ ue \in [Ue -> Context] /\ grants \in [Ue -> Grant]
        /\ usage \in [Beam -> Usage] /\ round \in Round /\ b \in Beam
        /\ usage[b] \in Usage /\ size \in Nat
    BY ConstantTypes DEF TypeInv, TypeOK, BeamOpen, Activate, Activating
  <1>1. PICK rbgs \in Claims(usage[b], size),
             partner \in FindSpsNomaFar(b, u, round.served) :
          /\ usage' = [usage EXCEPT ![b] =
                         ClaimSpsRbgs(AdmitSpsGrant(@, size), rbgs)]
          /\ grants' = [grants EXCEPT ![u] =
               [active |-> TRUE, beam |-> b, rbgSize |-> size,
                next |-> SpsPeriod + Phase(u), emptyTx |-> 0, conflict |-> 0,
                partner |-> partner]]
          /\ round' = ServedWith(Handled(round, u), u, Overlaid(partner, b), rbgs)
          /\ Drain({u} \cup Overlaid(partner, b))
    BY DEF Activate
  <1> DEFINE far == Overlaid(partner, b)
  <1>2. /\ partner \in {0} \cup Ue
        /\ partner = 0 \/ (/\ partner \notin SpsUe
                           /\ ue[partner].beam = b
                           /\ partner \notin round.served
                           /\ partner \notin BoundFar)
    BY <1>1, FindFarType
  <1>3. far \in SUBSET Ue
    BY OverlaidType
  <1>4. \A v \in Ue : ue'[v].beam = ue[v].beam
    BY <1>1, <1>t, DrainType
  <1>5. /\ grants'[u].active /\ grants'[u].beam = b
        /\ grants'[u].rbgSize = size /\ grants'[u].partner = partner
        /\ \A v \in Ue \ {u} : grants'[v] = grants[v]
    BY <1>t, <1>1
  <1>6. /\ usage[b] \in Usage /\ size \in Nat
        /\ rbgs \in Claims(usage[b], size)
    BY <1>t, <1>1
  <1>7. /\ round' = ServedWith(Handled(round, u), u, far, rbgs)
        /\ usage'[b] = ClaimSpsRbgs(AdmitSpsGrant(usage[b], size), rbgs)
        /\ \A c \in Beam \ {b} : usage'[c] = usage[c]
    BY <1>t, <1>1
  <1> HIDE DEF far
  <1>8. Claiming(u, far, rbgs, size)
    <2>1. /\ rbgs \subseteq Slot /\ rbgs \cap usage[b].spsBusy = {}
          /\ Cardinality(rbgs) = size /\ size <= RemainingRbs(usage[b])
          /\ usage'[b].used = usage[b].used + size
          /\ usage'[b].spsBusy = usage[b].spsBusy \cup rbgs
          /\ Cardinality(usage[b].spsBusy \cup rbgs)
               = Cardinality(usage[b].spsBusy) + size
      <3> DEFINE after == ClaimSpsRbgs(AdmitSpsGrant(usage[b], size), rbgs)
      <3>1. after.used = usage[b].used + size
        BY <1>6, AdmitClaimType
      <3>b. after.spsBusy = usage[b].spsBusy \cup rbgs
        BY <1>6 DEF ClaimSpsRbgs, AdmitSpsGrant, Usage
      <3>c. Cardinality(usage[b].spsBusy \cup rbgs)
              = Cardinality(usage[b].spsBusy) + Cardinality(rbgs)
        BY <1>6, AdmitClaimType
      <3>2. /\ rbgs \subseteq Slot /\ rbgs \cap usage[b].spsBusy = {}
            /\ Cardinality(rbgs) = size /\ size <= RemainingRbs(usage[b])
        BY <1>6 DEF Claims
      <3> QED BY <1>7, <3>1, <3>2, <3>b, <3>c
    <2>2. usage[b].used + size <= BudgetRbs \/ usage[b].used > BudgetRbs
      BY <1>t, <2>1, ResourceAssumption DEF RemainingRbs, Usage
    <2> QED BY <1>t, <1>3, <1>4, <1>5, <1>7, <2>1, <2>2 DEF Claiming
  <1> QED BY <1>1, <1>2, <1>5, <1>8 DEF Claims, far

(* A dynamic grant takes at most what is available to dynamic scheduling.  *)
LEMMA ScheduleEffect ==
  ASSUME TypeInv, NEW u \in Ue, Schedule(u)
  PROVE  \E approved \in Nat :
           /\ approved <= round.available
           /\ round.beam \in Beam
           /\ \A b \in Beam \ {round.beam} : usage'[b] = usage[b]
           /\ usage'[round.beam].used = usage[round.beam].used + approved
           /\ usage'[round.beam].spsBusy = usage[round.beam].spsBusy
           /\ round'.available = round.available - approved
           /\ round'.stage = round.stage /\ round'.beam = round.beam
           /\ round'.todo = round.todo \ {u}
           /\ round'.served = round.served
           /\ round'.claimed = round.claimed
           /\ round'.far = round.far
           /\ round'.redirects = round.redirects
           /\ round'.granted = round.granted \cup {u} \cup round.far[u]
           /\ round'.twice = round.twice
                               \cup (round.granted \cap ({u} \cup round.far[u]))
           /\ grants' = grants
           /\ \A v \in Ue : ue'[v].beam = ue[v].beam
  <1>t. /\ ue \in [Ue -> Context] /\ usage \in [Beam -> Usage] /\ round \in Round
        /\ round.beam \in Beam /\ usage[round.beam] \in Usage
        /\ round.available \in Nat
    BY DEF Schedule, Scheduling, TypeInv, TypeOK, BeamOpen, Round
  <1> DEFINE approved(n) == ApprovedRbs(usage[round.beam], n)
             who == {u} \cup round.far[u]
             left(n) == [Handled(round, u) EXCEPT !.available = @ - approved(n)]
  <1>1. PICK n \in 1..round.available :
          /\ usage' = [usage EXCEPT ![round.beam] = AllocateSpectrum(@, n)]
          /\ round' = Granting(left(n), who)
    BY DEF Schedule
  <1>2. n \in Nat /\ n <= round.available
    BY <1>t
  <1>3. /\ approved(n) \in Nat /\ approved(n) <= n
        /\ AllocateSpectrum(usage[round.beam], n).used
             = usage[round.beam].used + approved(n)
        /\ AllocateSpectrum(usage[round.beam], n).spsBusy
             = usage[round.beam].spsBusy
    BY <1>t, <1>2, AllocateType
  <1>4. /\ usage'[round.beam] = AllocateSpectrum(usage[round.beam], n)
        /\ \A b \in Beam \ {round.beam} : usage'[b] = usage[b]
    BY <1>t, <1>1
  <1>5. grants' = grants /\ \A v \in Ue : ue'[v].beam = ue[v].beam
    BY <1>t, DrainType DEF Schedule
  <1>6. who \in SUBSET Ue /\ approved(n) <= round.available
        /\ round.available - approved(n) \in Nat
    BY <1>t, <1>2, <1>3 DEF Round
  <1> HIDE DEF approved, who
  <1>7. /\ left(n) \in Round
        /\ left(n) = [round EXCEPT !.todo = round.todo \ {u},
                                   !.available = round.available - approved(n)]
    BY <1>t, <1>6 DEF Handled, Round
  <1> HIDE DEF left
  <1>8. round' = [left(n) EXCEPT
          !.granted = left(n).granted \cup who,
          !.twice = left(n).twice \cup (left(n).granted \cap who)]
    BY <1>1 DEF Granting
  <1>9. /\ round'.available = round.available - approved(n)
        /\ round'.stage = round.stage /\ round'.beam = round.beam
        /\ round'.todo = round.todo \ {u} /\ round'.served = round.served
        /\ round'.claimed = round.claimed /\ round'.far = round.far
        /\ round'.redirects = round.redirects
        /\ round'.granted = round.granted \cup who
        /\ round'.twice = round.twice \cup (round.granted \cap who)
    BY <1>t, <1>7, <1>8 DEF Round
  <1> QED BY <1>t, <1>3, <1>4, <1>5, <1>6, <1>9 DEF who

-----------------------------------------------------------------------------
(* What the other steps do.                                                *)

SameGrant(u) ==
  /\ grants'[u].active = grants[u].active
  /\ grants'[u].beam = grants[u].beam
  /\ grants'[u].rbgSize = grants[u].rbgSize
  /\ grants'[u].partner = grants[u].partner

SameTransmissions ==
  /\ round'.beam = round.beam
  /\ round'.claimed = round.claimed
  /\ round'.granted = round.granted
  /\ round'.twice = round.twice

(* A due or undue grant is passed over.                                    *)
Skipping(u) ==
  SkipGone(u) \/ SkipNotDue(u) \/ SkipEmpty(u) \/ SkipConflict(u)

LEMMA SkippingEffect ==
  ASSUME TypeInv, NEW u \in Ue, Skipping(u)
  PROVE  /\ UNCHANGED <<ue, usage>>
         /\ \A v \in Ue : SameGrant(v)
         /\ SameTransmissions
         /\ round.stage = "reuse" /\ round'.stage = "reuse"
         /\ round'.todo = round.todo \ {u}
         /\ round'.served = round.served \cup {u}
              \/ (round'.served = round.served /\ ue[u].beam = 0)
         /\ round'.redirects = round.redirects
  <1>t. /\ grants \in [Ue -> Grant] /\ round \in Round
        /\ \A v \in Ue : grants[v] \in Grant
    BY DEF TypeInv, TypeOK
  <1>1. CASE SkipGone(u)
    BY <1>1, <1>t
       DEF SkipGone, Handled, SameGrant, SameTransmissions, Round
  <1>2. CASE SkipNotDue(u)
    BY <1>2, <1>t
       DEF SkipNotDue, Holding, Handled, SameGrant, SameTransmissions, Round
  <1>3. ASSUME NEW count, round' = ReleasedAt(Holding(u), u, count)
        PROVE  /\ round'.stage = round.stage
               /\ round'.todo = round.todo \ {u}
               /\ round'.served = round.served \cup {u}
               /\ round'.redirects = round.redirects
               /\ SameTransmissions
    <2>1. /\ Holding(u) \in Round
          /\ Holding(u) = [round EXCEPT !.todo = round.todo \ {u},
                                        !.served = round.served \cup {u}]
      BY <1>t DEF Holding, Handled, Round
    <2>2. PICK released : round' = [Holding(u) EXCEPT !.toRelease = released]
      BY <1>3 DEF ReleasedAt
    <2> QED BY <1>t, <2>1, <2>2 DEF SameTransmissions, Round
  <1>4. CASE SkipEmpty(u)
    <2>1. \A v \in Ue : SameGrant(v)
      BY <1>4, <1>t DEF SkipEmpty, SameGrant, Grant
    <2> QED BY <1>4, <1>3, <2>1 DEF SkipEmpty, Due
  <1>5. CASE SkipConflict(u)
    <2>1. \A v \in Ue : SameGrant(v)
      BY <1>5, <1>t DEF SkipConflict, SameGrant, Grant
    <2> QED BY <1>5, <1>3, <2>1 DEF SkipConflict, Due
  <1> QED BY <1>1, <1>2, <1>4, <1>5 DEF Skipping

LEMMA ReleaseEffect ==
  ASSUME TypeInv, NEW u \in Ue, ReleaseDlSpsGrant(u)
  PROVE  /\ UNCHANGED ue
         /\ grants'[u] = NoGrant
         /\ \A v \in Ue \ {u} : grants'[v] = grants[v]
         /\ \A b \in Beam : /\ usage'[b].used = usage[b].used
                            /\ usage'[b].spsBusy = usage[b].spsBusy
         /\ SameTransmissions
         /\ round.stage = "reuse" /\ round'.stage = "reuse"
         /\ round'.todo = round.todo /\ round'.served = round.served
         /\ round'.redirects = round.redirects
  <1>t. /\ grants \in [Ue -> Grant] /\ round \in Round
        /\ usage \in [Beam -> Usage] /\ grants[u].rbgSize \in Nat
    BY DEF TypeInv, TypeOK, Grant
  <1>1. /\ UNCHANGED ue /\ grants'[u] = NoGrant
        /\ \A v \in Ue \ {u} : grants'[v] = grants[v]
    BY <1>t DEF ReleaseDlSpsGrant
  <1>2. ASSUME NEW b \in Beam
        PROVE  /\ usage'[b].used = usage[b].used
               /\ usage'[b].spsBusy = usage[b].spsBusy
    <2>1. \/ usage'[b] = usage[b]
          \/ usage'[b] = ReleaseSpsAdmission(usage[b], grants[u].rbgSize)
      BY <1>t DEF ReleaseDlSpsGrant
    <2> QED BY <1>t, <2>1, ReleaseType
  <1>3. /\ SameTransmissions
        /\ round.stage = "reuse" /\ round'.stage = "reuse"
        /\ round'.todo = round.todo /\ round'.served = round.served
        /\ round'.redirects = round.redirects
    BY <1>t DEF ReleaseDlSpsGrant, SameTransmissions, Round
  <1> QED BY <1>1, <1>2, <1>3

(* A step of a loop that neither gives nor takes anything.                 *)
Passing ==
  \/ EndReuse
  \/ \E u \in Ue : \/ SkipActivation(u) \/ Defer(u) \/ Redirect(u)
                   \/ \E size \in 1..SpsClassRbs : RefuseActivation(u, size)

LEMMA PassingEffect ==
  ASSUME TypeInv, Passing
  PROVE  /\ UNCHANGED <<ue, grants, usage>>
         /\ SameTransmissions
         /\ round'.available = round.available
         /\ round'.far = round.far
         /\ round'.served = round.served
         /\ \/ /\ round.stage = "reuse" /\ round'.stage = "activate"
               /\ round.todo = {} /\ round'.redirects = round.redirects
               /\ round'.todo = (UesOf(round.beam) \cap SpsUe) \ round.served
            \/ /\ round.stage = "activate" /\ round'.stage = "activate"
               /\ round'.todo \subseteq round.todo
               /\ round'.redirects = round.redirects
            \/ /\ round.stage = "dynamic" /\ round'.stage = "dynamic"
               /\ \E u \in round.todo :
                    /\ round'.todo = round.todo \ {u}
                    /\ \A v \in Ue \ {u} :
                         round'.redirects[v] = round.redirects[v]
  <1>t. round \in Round
    BY DEF TypeInv, TypeOK
  <1>1. CASE EndReuse
    BY <1>1, <1>t DEF EndReuse, SameTransmissions, Round
  <1>2. ASSUME NEW u \in Ue, SkipActivation(u) PROVE
          /\ UNCHANGED <<ue, grants, usage>> /\ SameTransmissions
          /\ round'.available = round.available /\ round'.far = round.far
          /\ round'.served = round.served
          /\ round.stage = "activate" /\ round'.stage = "activate"
          /\ round'.todo \subseteq round.todo
          /\ round'.redirects = round.redirects
    BY <1>2, <1>t
       DEF SkipActivation, Activating, Handled, SameTransmissions, Round
  <1>3. ASSUME NEW u \in Ue, NEW size \in 1..SpsClassRbs, RefuseActivation(u, size)
        PROVE
          /\ UNCHANGED <<ue, grants, usage>> /\ SameTransmissions
          /\ round'.available = round.available /\ round'.far = round.far
          /\ round'.served = round.served
          /\ round.stage = "activate" /\ round'.stage = "activate"
          /\ round'.todo \subseteq round.todo
          /\ round'.redirects = round.redirects
    BY <1>3, <1>t
       DEF RefuseActivation, Activating, Handled, SameTransmissions, Round
  <1>4. ASSUME NEW u \in Ue, Defer(u) PROVE
          /\ UNCHANGED <<ue, grants, usage>> /\ SameTransmissions
          /\ round'.available = round.available /\ round'.far = round.far
          /\ round'.served = round.served
          /\ round.stage = "dynamic" /\ round'.stage = "dynamic"
          /\ u \in round.todo /\ round'.todo = round.todo \ {u}
          /\ round'.redirects = round.redirects
    BY <1>4, <1>t DEF Defer, Scheduling, Handled, SameTransmissions, Round
  <1>5. ASSUME NEW u \in Ue, Redirect(u) PROVE
          /\ UNCHANGED <<ue, grants, usage>> /\ SameTransmissions
          /\ round'.available = round.available /\ round'.far = round.far
          /\ round'.served = round.served
          /\ round.stage = "dynamic" /\ round'.stage = "dynamic"
          /\ u \in round.todo /\ round'.todo = round.todo \ {u}
          /\ \A v \in Ue \ {u} : round'.redirects[v] = round.redirects[v]
    <2>1. PICK b \in Beam : round' = [Handled(round, u) EXCEPT !.redirects[u] = b]
      BY <1>5 DEF Redirect
    <2>2. /\ Handled(round, u) \in Round
          /\ Handled(round, u) = [round EXCEPT !.todo = round.todo \ {u}]
      BY <1>t DEF Handled, Round
    <2>3. /\ SameTransmissions
          /\ round'.available = round.available /\ round'.far = round.far
          /\ round'.served = round.served /\ round'.stage = round.stage
          /\ round'.todo = round.todo \ {u}
          /\ round'.redirects = [round.redirects EXCEPT ![u] = b]
      BY <1>t, <2>1, <2>2 DEF SameTransmissions, Round
    <2>4. \A v \in Ue \ {u} : round'.redirects[v] = round.redirects[v]
      BY <1>t, <2>3 DEF Round
    <2> QED BY <1>5, <2>3, <2>4 DEF Redirect, Scheduling
  <1> QED BY <1>1, <1>2, <1>3, <1>4, <1>5 DEF Passing

LEMMA EndActivateEffect ==
  ASSUME TypeInv, EndActivate
  PROVE  /\ UNCHANGED <<ue, grants, usage>>
         /\ SameTransmissions
         /\ round.stage = "activate" /\ round'.stage = "dynamic"
         /\ round.todo = {}
         /\ round'.redirects = round.redirects
         /\ round'.served = round.served
         /\ round'.available
              = AvailableRbs(RemainingRbs(usage[round.beam]))
         /\ round'.todo \subseteq UesOf(round.beam) \ round.served
         /\ \A near \in Ue :
              /\ round'.far[near] \subseteq UesOf(round.beam) \ round.served
              /\ round'.far[near] \cap round'.todo = {}
              /\ near \notin round'.far[near]
              /\ \A other \in Ue \ {near} :
                   round'.far[near] \cap round'.far[other] = {}
  <1>t. round \in Round
    BY DEF TypeInv, TypeOK
  <1> DEFINE rest == {u \in UesOf(round.beam) \ round.served : ue[u].hasData}
  <1>1. PICK pairing \in NomaPairings(rest) :
          round' = [round EXCEPT !.stage = "dynamic",
            !.todo = rest \ UNION {pairing[near] : near \in Ue},
            !.far = pairing,
            !.available = AvailableRbs(RemainingRbs(usage[round.beam]))]
    BY DEF EndActivate
  <1>2. /\ UNCHANGED <<ue, grants, usage>>
        /\ round.stage = "activate" /\ round.todo = {}
    BY DEF EndActivate
  <1>3. /\ rest \subseteq UesOf(round.beam) \ round.served
        /\ rest \subseteq Ue
    BY DEF UesOf
  <1>4. /\ pairing \in [Ue -> SUBSET rest]
        /\ \A near \in Ue :
             /\ \A far \in pairing[near] : pairing[far] = {}
             /\ \A other \in Ue \ {near} : pairing[near] \cap pairing[other] = {}
    BY DEF NomaPairings
  <1> HIDE DEF rest
  <1>5. /\ SameTransmissions /\ round'.stage = "dynamic"
        /\ round'.redirects = round.redirects
        /\ round'.served = round.served
        /\ round'.available = AvailableRbs(RemainingRbs(usage[round.beam]))
        /\ round'.todo = rest \ UNION {pairing[near] : near \in Ue}
        /\ round'.far = pairing
    BY <1>1, <1>t DEF SameTransmissions, Round
  <1>6. ASSUME NEW near \in Ue
        PROVE  /\ pairing[near] \subseteq rest
               /\ pairing[near] \cap round'.todo = {}
               /\ near \notin pairing[near]
    BY <1>4, <1>5
  <1> QED BY <1>2, <1>3, <1>4, <1>5, <1>6

LEMMA OpenBeamEffect ==
  ASSUME TypeInv, NEW r \in Round, NEW b \in Beam, OpenBeam(r, b)
  PROVE  /\ round'.stage = "reuse" /\ round'.beam = b
         /\ round'.todo = GrantsOf(b) /\ round'.served = {}
         /\ round'.claimed = NoClaims /\ round'.redirects = NoRedirects
         /\ round'.granted = r.granted /\ round'.twice = r.twice
         /\ usage'[b].used = 0 /\ usage'[b].spsBusy = {}
         /\ \A c \in Beam \ {b} : usage'[c] = usage[c]
  <1>t. usage \in [Beam -> Usage]
    BY DEF TypeInv, TypeOK
  <1>1. usage' = [usage EXCEPT ![b] = ResetBeamAllocation(usage[b])]
    BY DEF OpenBeam
  <1>2. /\ usage'[b].used = 0 /\ usage'[b].spsBusy = {}
        /\ \A c \in Beam \ {b} : usage'[c] = usage[c]
    BY <1>t, <1>1, ResetType
  <1> QED BY <1>2 DEF OpenBeam, EnterBeam, Round

(* The steps of the environment, which run between rounds.                 *)
Environment ==
  \E u \in Ue : \/ UpdateUeDlBufferStatus(u) \/ UpdateUeDlCqi(u)
                \/ AddUe(u) \/ RemoveUt(u) \/ ExecuteHandover(u)

LEMMA EnvironmentEffect ==
  ASSUME Environment
  PROVE  round.stage = "idle" /\ UNCHANGED <<grants, usage, round>>
  BY DEF Environment, Idle, UpdateUeDlBufferStatus, UpdateUeDlCqi, AddUe,
         RemoveUt, ExecuteHandover

LEMMA StartRoundEffect ==
  ASSUME TypeInv, StartRound
  PROVE  /\ UNCHANGED ue
         /\ round.stage = "idle"
         /\ \A v \in Ue : SameGrant(v)
         /\ \E b \in Beam : IsLeast(b, Beam) /\ OpenBeam(IdleRound, b)
  <1>t. \A v \in Ue : grants[v] \in Grant
    BY DEF TypeInv, TypeOK
  <1>1. \A v \in Ue : SameGrant(v)
    <2> SUFFICES ASSUME NEW v \in Ue PROVE SameGrant(v)
      OBVIOUS
    <2>1. grants'[v] = [grants[v] EXCEPT !.next = IF @ > 0 THEN @ - 1 ELSE 0]
      BY DEF StartRound
    <2> QED BY <1>t, <2>1 DEF SameGrant, Grant
  <1> QED BY <1>1 DEF StartRound, Idle

LEMMA StepCases ==
  ASSUME [Next]_vars
  PROVE  \/ Environment
         \/ StartRound
         \/ \E u \in Ue : Skipping(u) \/ Reuse(u) \/ ReleaseDlSpsGrant(u)
         \/ \E u \in Ue, size \in 1..SpsClassRbs : Activate(u, size)
         \/ Passing
         \/ EndActivate
         \/ \E u \in Ue : Schedule(u)
         \/ EndBeam
         \/ UNCHANGED vars
  BY DEF Next, RunScheduler, ReuseStep, ActivateStep, DynamicStep,
         Environment, Skipping, Passing

-----------------------------------------------------------------------------
(* The far UEs of configured grants.                                       *)

LEMMA FarBoundStep == TypeInv /\ FarBoundOnce /\ [Next]_vars => FarBoundOnce'
  <1> SUFFICES ASSUME TypeInv, FarBoundOnce, [Next]_vars PROVE FarBoundOnce'
    OBVIOUS
  <1>s. (\A v \in Ue : grants'[v].partner = grants[v].partner) => FarBoundOnce'
    BY DEF FarBoundOnce
  <1>b. ASSUME NEW u \in Ue, NEW partner,
               \A v \in Ue \ {u} : grants'[v] = grants[v],
               grants'[u].partner = partner,
               partner \in {0, grants[u].partner} \/ partner \notin BoundFar
        PROVE  FarBoundOnce'
    <2>1. ASSUME NEW v \in Ue, NEW w \in Ue, v # w, grants'[v].partner # 0
          PROVE  grants'[v].partner # grants'[w].partner
      <3>1. \A x \in Ue : grants[x].partner # 0 => grants[x].partner \in BoundFar
        BY DEF BoundFar
      <3> QED BY <1>b, <2>1, <3>1 DEF FarBoundOnce
    <2> QED BY <2>1 DEF FarBoundOnce
  <1>1. CASE Environment
    BY <1>1, <1>s, EnvironmentEffect
  <1>2. CASE StartRound
    BY <1>2, <1>s, StartRoundEffect DEF SameGrant
  <1>3. ASSUME NEW u \in Ue, Skipping(u) PROVE FarBoundOnce'
    BY <1>3, <1>s, SkippingEffect DEF SameGrant
  <1>4. ASSUME NEW u \in Ue, Reuse(u) PROVE FarBoundOnce'
    <2>1. PICK rbgs \in SUBSET Slot, partner \in {0} \cup Ue :
            /\ Claiming(u, Overlaid(grants[u].partner, grants[u].beam), rbgs,
                        grants[u].rbgSize)
            /\ grants'[u].partner = partner
            /\ partner \in {0, grants[u].partner} \/ partner \notin BoundFar
      BY <1>4, ReuseEffect
    <2>2. \A v \in Ue \ {u} : grants'[v] = grants[v]
      BY <2>1 DEF Claiming
    <2> QED BY <1>b, <2>1, <2>2
  <1>5. ASSUME NEW u \in Ue, ReleaseDlSpsGrant(u) PROVE FarBoundOnce'
    <2>1. /\ grants'[u].partner = 0
          /\ \A v \in Ue \ {u} : grants'[v] = grants[v]
      BY <1>5, ReleaseEffect DEF NoGrant
    <2> QED BY <1>b, <2>1
  <1>6. ASSUME NEW u \in Ue, NEW size \in 1..SpsClassRbs, Activate(u, size)
        PROVE  FarBoundOnce'
    <2>1. PICK rbgs \in SUBSET Slot, partner \in {0} \cup Ue :
            /\ Claiming(u, Overlaid(partner, round.beam), rbgs, size)
            /\ grants'[u].partner = partner
            /\ partner = 0 \/ partner \notin BoundFar
      BY <1>6, ActivateEffect
    <2>2. \A v \in Ue \ {u} : grants'[v] = grants[v]
      BY <2>1 DEF Claiming
    <2> QED BY <1>b, <2>1, <2>2
  <1>7. CASE Passing
    BY <1>7, <1>s, PassingEffect
  <1>8. CASE EndActivate
    BY <1>8, <1>s, EndActivateEffect
  <1>9. ASSUME NEW u \in Ue, Schedule(u) PROVE FarBoundOnce'
    BY <1>9, <1>s, ScheduleEffect
  <1>10. CASE EndBeam
    BY <1>10, <1>s DEF EndBeam
  <1>11. CASE UNCHANGED vars
    BY <1>11, <1>s DEF vars
  <1> QED BY <1>1, <1>2, <1>3, <1>4, <1>5, <1>6, <1>7, <1>8, <1>9, <1>10,
             <1>11, StepCases

(* A far UE is bound to one configured grant at most: the search for a far *)
(* UE passes over those bound already, at activation and at repair.        *)
THEOREM FarBoundOnceCorrect == Spec => []FarBoundOnce
  <1>1. Init => FarBoundOnce
    BY DEF Init, NoGrant, FarBoundOnce
  <1> QED BY <1>1, TypeInit, TypeStep, FarBoundStep, PTL DEF Spec

-----------------------------------------------------------------------------
(* The slots of the SPS region.                                            *)

LEMMA SlotsStep == TypeInv /\ SlotsExclusive /\ [Next]_vars => SlotsExclusive'
  <1> SUFFICES ASSUME TypeInv, SlotsExclusive, [Next]_vars PROVE SlotsExclusive'
    OBVIOUS
  <1>t. round \in Round
    BY DEF TypeInv, TypeOK
  <1>s. ASSUME SameTransmissions,
               round.beam \in Beam =>
                 usage'[round.beam].spsBusy = usage[round.beam].spsBusy,
               round.stage = "idle" => UNCHANGED usage,
               \A v \in Ue : grants'[v].active =>
                 (grants[v].active /\ grants'[v].rbgSize = grants[v].rbgSize)
        PROVE  SlotsExclusive'
    <2>1. usage'[round.beam].spsBusy = usage[round.beam].spsBusy
      BY <1>s DEF TypeInv, BeamOpen
    <2> QED BY <1>s, <2>1 DEF SlotsExclusive, SameTransmissions
  <1>e. round'.claimed = NoClaims => SlotsExclusive'
    BY DEF NoClaims, SlotsExclusive
  <1>c. ASSUME NEW u \in Ue, NEW far, NEW rbgs, NEW count,
               Claiming(u, far, rbgs, count)
        PROVE  SlotsExclusive'
    <2> DEFINE b == round.beam
    <2>1. /\ b \in Beam /\ round'.beam = b
          /\ round'.claimed[u] = rbgs
          /\ \A v \in Ue \ {u} : round'.claimed[v] = round.claimed[v]
      <3>1. /\ b \in Beam /\ far \in SUBSET Ue /\ rbgs \in SUBSET Slot
            /\ round' = ServedWith(Handled(round, u), u, far, rbgs)
        BY <1>c DEF Claiming
      <3>2. Serving(u, far, rbgs)
        BY <3>1, ServeType
      <3> QED BY <3>1, <3>2 DEF Serving
    <2>3. /\ rbgs \cap usage[b].spsBusy = {}
          /\ usage'[b].spsBusy = usage[b].spsBusy \cup rbgs
          /\ Cardinality(rbgs) = count /\ grants'[u].rbgSize = count
          /\ \A v \in Ue \ {u} : grants'[v] = grants[v]
      BY <1>c DEF Claiming
    <2>4. \A v \in Ue : round.claimed[v] \subseteq usage[b].spsBusy
      BY DEF SlotsExclusive
    <2>5. ASSUME NEW v \in Ue, NEW w \in Ue, v # w
          PROVE  round'.claimed[v] \cap round'.claimed[w] = {}
      <3>1. round.claimed[v] \cap round.claimed[w] = {}
        BY <2>5 DEF SlotsExclusive
      <3>2. CASE v = u
        BY <2>1, <2>3, <2>4, <2>5, <3>2
      <3>3. CASE w = u
        BY <2>1, <2>3, <2>4, <2>5, <3>3
      <3>4. CASE v # u /\ w # u
        BY <2>1, <3>1, <3>4
      <3> QED BY <3>2, <3>3, <3>4
    <2>6. ASSUME NEW v \in Ue, round'.claimed[v] # {}
          PROVE  /\ round'.claimed[v] \subseteq usage'[b].spsBusy
                 /\ grants'[v].active =>
                      Cardinality(round'.claimed[v]) = grants'[v].rbgSize
      <3>1. CASE v = u
        BY <2>1, <2>3, <3>1
      <3>2. CASE v # u
        BY <2>1, <2>3, <2>4, <2>6, <3>2 DEF SlotsExclusive
      <3> QED BY <3>1, <3>2
    <2> QED BY <2>1, <2>5, <2>6 DEF SlotsExclusive
  <1>1. CASE Environment
    BY <1>1, <1>s, EnvironmentEffect DEF SameTransmissions
  <1>2. CASE StartRound
    BY <1>2, <1>e, StartRoundEffect, OpenBeamEffect, IdleRoundType
  <1>3. ASSUME NEW u \in Ue, Skipping(u) PROVE SlotsExclusive'
    BY <1>3, <1>s, SkippingEffect DEF SameGrant
  <1>4. ASSUME NEW u \in Ue, Reuse(u) PROVE SlotsExclusive'
    BY <1>4, <1>c, ReuseEffect
  <1>5. ASSUME NEW u \in Ue, ReleaseDlSpsGrant(u) PROVE SlotsExclusive'
    <2>1. \A v \in Ue : grants'[v].active =>
            (grants[v].active /\ grants'[v].rbgSize = grants[v].rbgSize)
      BY <1>5, ReleaseEffect DEF NoGrant
    <2> QED BY <1>5, <1>s, <2>1, ReleaseEffect
  <1>6. ASSUME NEW u \in Ue, NEW size \in 1..SpsClassRbs, Activate(u, size)
        PROVE  SlotsExclusive'
    BY <1>6, <1>c, ActivateEffect
  <1>7. CASE Passing
    BY <1>7, <1>s, PassingEffect
  <1>8. CASE EndActivate
    BY <1>8, <1>s, EndActivateEffect
  <1>9. ASSUME NEW u \in Ue, Schedule(u) PROVE SlotsExclusive'
    <2>1. /\ SameTransmissions \/ round'.claimed = round.claimed
          /\ round'.beam = round.beam /\ round.beam \in Beam
          /\ usage'[round.beam].spsBusy = usage[round.beam].spsBusy
          /\ grants' = grants
      BY <1>9, ScheduleEffect
    <2>2. round'.claimed = round.claimed
      BY <1>9, ScheduleEffect
    <2> QED BY <2>1, <2>2 DEF SlotsExclusive
  <1>10. CASE EndBeam
    <2>1. CASE round' = IdleRound
      BY <1>e, <2>1 DEF IdleRound
    <2>2. CASE \E b \in LaterBeams : OpenBeam(round, b)
      BY <1>t, <1>e, <2>2, OpenBeamEffect DEF LaterBeams
    <2> QED BY <1>10, <2>1, <2>2 DEF EndBeam
  <1>11. CASE UNCHANGED vars
    BY <1>11 DEF vars, SlotsExclusive
  <1> QED BY <1>1, <1>2, <1>3, <1>4, <1>5, <1>6, <1>7, <1>8, <1>9, <1>10,
             <1>11, StepCases

(* No two UEs transmit on one SPS slot in a round, whatever the overbooking*)
(* factor: ClaimSpsRbgs claims free slots only.                            *)
THEOREM SlotsExclusiveCorrect == Spec => []SlotsExclusive
  <1>1. Init => SlotsExclusive
    BY DEF Init, IdleRound, NoClaims, SlotsExclusive
  <1> QED BY <1>1, TypeInit, TypeStep, SlotsStep, PTL DEF Spec

-----------------------------------------------------------------------------
(* The blocks reserved for the PRACH.                                      *)

(* While the SPS loops run, the beam has used just what they claimed; what *)
(* is available afterwards leaves the reserved blocks alone.               *)
ClaimedOnly ==
  round.stage \in {"reuse", "activate"} =>
    usage[round.beam].used = Cardinality(usage[round.beam].spsBusy)

AvailableIsLeft ==
  (round.stage = "dynamic" /\ round.available > 0) =>
    usage[round.beam].used + round.available + PrachRbs <= BudgetRbs

PrachInv == PrachKept /\ ClaimedOnly /\ AvailableIsLeft

LEMMA PrachStep == TypeInv /\ PrachInv /\ [Next]_vars => PrachInv'
  <1> SUFFICES ASSUME TypeInv, PrachInv, [Next]_vars PROVE PrachInv'
    OBVIOUS
  <1>t. /\ round \in Round /\ usage \in [Beam -> Usage]
        /\ round.stage # "idle" => round.beam \in Beam
        /\ \A b \in Beam : usage[b].used \in Nat
        /\ BudgetRbs \in Nat /\ PrachRbs \in Nat
        /\ round.available \in Nat
    BY ResourceAssumption, ConstantTypes
       DEF TypeInv, TypeOK, BeamOpen, Usage, Round
  <1>k. \A b \in Beam : Cardinality(usage[b].spsBusy) \in Nat
    BY <1>t, SlotsFinite, FS_Subset, FS_CardinalityType DEF Usage
  <1>s. ASSUME round'.beam = round.beam,
               \A b \in Beam : /\ usage'[b].used = usage[b].used
                               /\ usage'[b].spsBusy = usage[b].spsBusy,
               round'.stage = round.stage \/ round'.stage = "activate",
               round'.stage = "activate" => round.stage \in {"reuse", "activate"},
               round.stage = "dynamic" => round'.available = round.available
        PROVE  PrachInv'
    <2>1. PrachKept'
      BY <1>s DEF PrachInv, PrachKept
    <2>2. ClaimedOnly'
      BY <1>s, <1>t DEF PrachInv, ClaimedOnly
    <2>3. AvailableIsLeft'
      BY <1>s, <1>t DEF PrachInv, AvailableIsLeft
    <2> QED BY <2>1, <2>2, <2>3 DEF PrachInv
  <1>c. ASSUME NEW u \in Ue, NEW far, NEW rbgs, NEW count, count \in Nat,
               Claiming(u, far, rbgs, count),
               round.stage \in {"reuse", "activate"}
        PROVE  PrachInv'
    <2> DEFINE b == round.beam
    <2>1. /\ b \in Beam /\ far \in SUBSET Ue /\ rbgs \in SUBSET Slot
          /\ round' = ServedWith(Handled(round, u), u, far, rbgs)
          /\ usage[b].used + count <= BudgetRbs \/ usage[b].used > BudgetRbs
          /\ \A c \in Beam \ {b} : usage'[c] = usage[c]
          /\ usage'[b].used = usage[b].used + count
          /\ Cardinality(usage'[b].spsBusy)
               = Cardinality(usage[b].spsBusy) + count
      BY <1>c DEF Claiming
    <2>2. round'.stage = round.stage /\ round'.beam = b
      BY <2>1, ServeType DEF Serving
    <2>3. /\ usage[b].used = Cardinality(usage[b].spsBusy)
          /\ usage[b].used <= BudgetRbs
      BY <1>c, <2>1 DEF PrachInv, PrachKept, ClaimedOnly
    <2>4. /\ usage'[b].used = Cardinality(usage'[b].spsBusy)
          /\ usage'[b].used <= BudgetRbs
          /\ usage'[b].used \in Nat
      BY <1>c, <1>t, <2>1, <2>3
    <2>5. PrachKept'
      BY <2>1, <2>4 DEF PrachInv, PrachKept
    <2>6. ClaimedOnly' /\ AvailableIsLeft'
      BY <1>c, <2>2, <2>4 DEF ClaimedOnly, AvailableIsLeft
    <2> QED BY <2>5, <2>6 DEF PrachInv
  <1>o. ASSUME NEW r \in Round, NEW b \in Beam, OpenBeam(r, b) PROVE PrachInv'
    <2>1. /\ round'.stage = "reuse" /\ round'.beam = b
          /\ usage'[b].used = 0 /\ usage'[b].spsBusy = {}
          /\ \A c \in Beam \ {b} : usage'[c] = usage[c]
      BY <1>o, OpenBeamEffect
    <2>2. Cardinality(usage'[b].spsBusy) = 0
      BY <2>1, FS_EmptySet
    <2>3. ASSUME NEW c \in Beam
          PROVE  /\ usage'[c].used <= BudgetRbs
                 /\ usage'[c].used > Cardinality(usage'[c].spsBusy) =>
                      usage'[c].used + PrachRbs <= BudgetRbs
      <3>1. CASE c = b
        <4>1. usage'[c].used = 0 /\ Cardinality(usage'[c].spsBusy) = 0
          BY <2>1, <2>2, <3>1
        <4> QED BY <1>t, <4>1
      <3>2. CASE c # b
        BY <2>1, <3>2 DEF PrachInv, PrachKept
      <3> QED BY <3>1, <3>2
    <2>4. PrachKept'
      BY <2>3 DEF PrachKept
    <2> QED BY <2>1, <2>2, <2>4 DEF PrachInv, ClaimedOnly, AvailableIsLeft
  <1>1. CASE Environment
    BY <1>1, <1>s, <1>t, EnvironmentEffect
  <1>2. CASE StartRound
    BY <1>2, <1>o, StartRoundEffect, IdleRoundType
  <1>3. ASSUME NEW u \in Ue, Skipping(u) PROVE PrachInv'
    BY <1>3, <1>s, SkippingEffect DEF SameTransmissions
  <1>4. ASSUME NEW u \in Ue, Reuse(u) PROVE PrachInv'
    <2>1. round.stage = "reuse"
      BY <1>4 DEF Reuse, Due
    <2>2. grants[u].rbgSize \in Nat
      BY DEF TypeInv, TypeOK, Grant
    <2> QED BY <1>4, <1>c, <2>1, <2>2, ReuseEffect
  <1>5. ASSUME NEW u \in Ue, ReleaseDlSpsGrant(u) PROVE PrachInv'
    BY <1>5, <1>s, ReleaseEffect DEF SameTransmissions
  <1>6. ASSUME NEW u \in Ue, NEW size \in 1..SpsClassRbs, Activate(u, size)
        PROVE  PrachInv'
    <2>1. round.stage = "activate" /\ size \in Nat
      BY <1>6, ConstantTypes DEF Activate, Activating
    <2> QED BY <1>6, <1>c, <2>1, ActivateEffect
  <1>7. CASE Passing
    BY <1>7, <1>s, PassingEffect DEF SameTransmissions
  <1>8. CASE EndActivate
    <2> DEFINE b == round.beam
    <2>1. /\ round.stage = "activate" /\ round'.stage = "dynamic"
          /\ round'.beam = b /\ usage' = usage
          /\ round'.available = AvailableRbs(RemainingRbs(usage[b]))
      BY <1>8, EndActivateEffect DEF SameTransmissions
    <2>2. /\ b \in Beam /\ usage[b] \in Usage /\ usage[b].used <= BudgetRbs
      BY <1>t, <2>1 DEF PrachInv, PrachKept
    <2>3. RemainingRbs(usage[b]) \in Nat
          /\ usage[b].used + RemainingRbs(usage[b]) = BudgetRbs
      BY <2>2, RemainingType
    <2>4. round'.available > 0 =>
            usage[b].used + round'.available + PrachRbs <= BudgetRbs
      BY <1>t, <2>1, <2>2, <2>3 DEF AvailableRbs
    <2> QED BY <2>1, <2>4
            DEF PrachInv, PrachKept, ClaimedOnly, AvailableIsLeft
  <1>9. ASSUME NEW u \in Ue, Schedule(u) PROVE PrachInv'
    <2> DEFINE b == round.beam
    <2>1. PICK approved \in Nat :
            /\ approved <= round.available
            /\ b \in Beam
            /\ \A c \in Beam \ {b} : usage'[c] = usage[c]
            /\ usage'[b].used = usage[b].used + approved
            /\ usage'[b].spsBusy = usage[b].spsBusy
            /\ round'.available = round.available - approved
            /\ round'.stage = round.stage /\ round'.beam = b
      BY <1>9, ScheduleEffect
    <2>2. round.stage = "dynamic"
      BY <1>9 DEF Schedule, Scheduling
    <2>3. /\ approved > 0 =>
               usage[b].used + round.available + PrachRbs <= BudgetRbs
          /\ approved = 0 => usage'[b].used = usage[b].used
      BY <1>t, <2>1, <2>2 DEF PrachInv, AvailableIsLeft
    <2>4. /\ usage'[b].used <= BudgetRbs
          /\ usage'[b].used > Cardinality(usage'[b].spsBusy) =>
               usage'[b].used + PrachRbs <= BudgetRbs
      <3>1. CASE approved = 0
        BY <2>1, <2>3, <3>1 DEF PrachInv, PrachKept
      <3>2. CASE approved > 0
        BY <1>t, <2>1, <2>3, <3>2
      <3> QED BY <3>1, <3>2
    <2>5. PrachKept'
      BY <2>1, <2>4 DEF PrachInv, PrachKept
    <2>6. AvailableIsLeft'
      <3>1. round'.available > 0 =>
              usage'[b].used + round'.available + PrachRbs <= BudgetRbs
        BY <1>t, <2>1, <2>2 DEF PrachInv, AvailableIsLeft
      <3> QED BY <2>1, <3>1 DEF AvailableIsLeft
    <2> QED BY <2>1, <2>2, <2>5, <2>6 DEF PrachInv, ClaimedOnly
  <1>10. CASE EndBeam
    <2>1. CASE round' = IdleRound /\ UNCHANGED usage
      BY <2>1 DEF IdleRound, PrachInv, PrachKept, ClaimedOnly, AvailableIsLeft
    <2>2. CASE \E b \in LaterBeams : OpenBeam(round, b)
      BY <1>t, <1>o, <2>2 DEF LaterBeams
    <2> QED BY <1>10, <2>1, <2>2 DEF EndBeam
  <1>11. CASE UNCHANGED vars
    BY <1>11 DEF vars, PrachInv, PrachKept, ClaimedOnly, AvailableIsLeft
  <1> QED BY <1>1, <1>2, <1>3, <1>4, <1>5, <1>6, <1>7, <1>8, <1>9, <1>10,
             <1>11, StepCases

(* Dynamic scheduling never touches the blocks reserved for the PRACH, and *)
(* nothing exceeds the budget, however many blocks the SPS claims took.    *)
THEOREM PrachKeptCorrect == Spec => []PrachKept
  <1>1. Init => PrachInv
    <2> SUFFICES ASSUME Init PROVE PrachInv
      OBVIOUS
    <2>1. \A b \in Beam : usage[b].used = 0 /\ usage[b].spsBusy = {}
      BY DEF Init, Unused
    <2>2. \A b \in Beam : Cardinality(usage[b].spsBusy) = 0
      BY <2>1, FS_EmptySet
    <2> QED BY <2>1, <2>2, ResourceAssumption
            DEF Init, IdleRound, PrachInv, PrachKept, ClaimedOnly, AvailableIsLeft
  <1>2. PrachInv => PrachKept
    BY DEF PrachInv
  <1> QED BY <1>1, <1>2, TypeInit, TypeStep, PrachStep, PTL DEF Spec

-----------------------------------------------------------------------------
(* One transmission per UE and round.  A UE may get one as the holder of a *)
(* grant, in the beam of the grant, and one at home, in the beam it is in. *)

(* The loop over the grants is past the grant of u. *)
HolderDone(u) ==
  /\ grants[u].active
  /\ \/ grants[u].beam < round.beam
     \/ /\ grants[u].beam = round.beam
        /\ round.stage = "reuse" => u \notin round.todo \cup round.toRelease

(* The round is past what u may get at home, and u will not be moved. *)
HomeDone(u) ==
  /\ round.redirects[u] = 0
  /\ \/ ue[u].beam < round.beam
     \/ /\ ue[u].beam = round.beam
        /\ \/ u \in round.served
           \/ /\ round.stage = "dynamic"
              /\ u \notin round.todo
              /\ \A near \in round.todo : u \notin round.far[near]

(* Who got a transmission is past one of the two, who got two past both.   *)
Counted ==
  /\ \A u \in round.granted : HolderDone(u) \/ HomeDone(u)
  /\ \A u \in round.twice : /\ HolderDone(u) /\ HomeDone(u)
                            /\ grants[u].beam # ue[u].beam

(* Holders are periodic, far UEs are not. *)
SpsOnly ==
  \A u \in Ue : /\ grants[u].active => u \in SpsUe
                /\ grants[u].partner \notin SpsUe

(* Holders at home have been served or are about to be. *)
HoldersServed ==
  \A u \in GrantsOf(round.beam) :
    ue[u].beam = round.beam =>
      u \in round.served \/ (round.stage = "reuse" /\ u \in round.todo)

(* Nobody who was served is in a loop again. *)
LoopSound ==
  /\ round.stage = "reuse" =>
       /\ round.todo \cup round.toRelease \subseteq GrantsOf(round.beam)
       /\ round.todo \cap (round.served \cup round.toRelease) = {}
       /\ \A u \in round.todo : grants[u].partner \notin round.served
  /\ round.stage = "activate" =>
       round.todo \subseteq (UesOf(round.beam) \cap SpsUe) \ round.served
  /\ round.stage = "dynamic" =>
       /\ round.todo \subseteq UesOf(round.beam) \ round.served
       /\ \A near \in Ue :
            /\ round.far[near] \subseteq UesOf(round.beam) \ round.served
            /\ round.far[near] \cap round.todo = {}
            /\ \A other \in Ue \ {near} : round.far[near] \cap round.far[other] = {}
       /\ \A u \in round.todo :
            /\ round.redirects[u] = 0
            /\ \A far \in round.far[u] : round.redirects[far] = 0
  /\ round.stage # "dynamic" => round.redirects = NoRedirects

OnceInv ==
  /\ SpsOnly
  /\ round.stage = "idle" => round.twice = {}
  /\ round.stage # "idle" => Counted /\ HoldersServed /\ LoopSound

LEMMA OnceInvImplies == OnceInv => GrantedOnce
  BY DEF OnceInv, Counted, HolderDone, GrantedOnce

LEMMA OnceTypes ==
  ASSUME TypeInv
  PROVE  /\ \A u \in Ue : ue[u].beam \in Nat /\ grants[u].beam \in Nat
         /\ round.stage # "idle" => round.beam \in Nat /\ round.beam # 0
         /\ round.todo \subseteq Ue /\ round.granted \subseteq Ue
         /\ round.twice \subseteq Ue
         /\ 0 \notin SpsUe /\ SpsUe \subseteq Ue
         /\ \A u \in Ue : round.far[u] \subseteq Ue
  <1>1. Beam \subseteq Nat \ {0} /\ Ue \subseteq Nat \ {0} /\ SpsUe \subseteq Ue
    BY DlSchedulerAssumption
  <1>2. \A u \in Ue : ue[u] \in Context /\ grants[u] \in Grant
    BY DEF TypeInv, TypeOK
  <1>3. \A u \in Ue : ue[u].beam \in {0} \cup Beam /\ grants[u].beam \in {0} \cup Beam
    BY <1>2 DEF Context, Grant
  <1>4. round \in Round
    BY DEF TypeInv, TypeOK
  <1>5. /\ round.todo \subseteq Ue /\ round.granted \subseteq Ue
        /\ round.twice \subseteq Ue /\ round.far \in [Ue -> SUBSET Ue]
    BY <1>4 DEF Round
  <1>6. round.stage # "idle" => round.beam \in Beam
    BY DEF TypeInv, BeamOpen
  <1>7. \A u \in Ue : ue[u].beam \in Nat /\ grants[u].beam \in Nat
    <2>1. {0} \cup Beam \subseteq Nat
      BY <1>1
    <2> QED BY <1>3, <2>1
  <1>8. round.stage # "idle" => round.beam \in Nat /\ round.beam # 0
    BY <1>1, <1>6
  <1>9. \A u \in Ue : round.far[u] \subseteq Ue
    BY <1>5
  <1> QED BY <1>1, <1>5, <1>7, <1>8, <1>9

(* What a step must do for Counted: whoever is past stays past, and those  *)
(* who get a transmission were not past what they get it for.              *)
LEMMA CountedKept ==
  ASSUME Counted, NEW who,
         round'.granted = round.granted \cup who,
         round'.twice = round.twice \cup (round.granted \cap who),
         \A u \in round.granted \cup round.twice :
           /\ HolderDone(u) => /\ HolderDone(u)'
                               /\ grants'[u].beam = grants[u].beam
           /\ HomeDone(u) => /\ HomeDone(u)'
                             /\ ue'[u].beam = ue[u].beam,
         \A u \in who :
           /\ HolderDone(u)' \/ HomeDone(u)'
           /\ u \in round.granted =>
                HolderDone(u)' /\ HomeDone(u)' /\ grants'[u].beam # ue'[u].beam
  PROVE  Counted'
  <1>1. \A u \in round'.granted : HolderDone(u)' \/ HomeDone(u)'
    BY DEF Counted
  <1>2. ASSUME NEW u \in round'.twice
        PROVE  HolderDone(u)' /\ HomeDone(u)' /\ grants'[u].beam # ue'[u].beam
    <2>1. CASE u \in round.twice
      BY <2>1 DEF Counted
    <2>2. CASE u \in round.granted \cap who
      BY <2>2
    <2> QED BY <1>2, <2>1, <2>2
  <1> QED BY <1>1, <1>2 DEF Counted

LEMMA CountedSame ==
  ASSUME TypeInv, Counted, SameTransmissions,
         \A u \in Ue :
           /\ HolderDone(u) => /\ HolderDone(u)'
                               /\ grants'[u].beam = grants[u].beam
           /\ HomeDone(u) => /\ HomeDone(u)'
                             /\ ue'[u].beam = ue[u].beam
  PROVE  Counted'
  <1>1. /\ round.granted \subseteq Ue /\ round.twice \subseteq Ue
        /\ round'.granted = round.granted /\ round'.twice = round.twice
    BY OnceTypes DEF SameTransmissions
  <1>2. \A u \in round'.granted : HolderDone(u)' \/ HomeDone(u)'
    BY <1>1 DEF Counted
  <1>3. \A u \in round'.twice :
          HolderDone(u)' /\ HomeDone(u)' /\ grants'[u].beam # ue'[u].beam
    BY <1>1 DEF Counted
  <1> QED BY <1>2, <1>3 DEF Counted

(* What the steps do to the grants to be released.                         *)
LEMMA ServeReleases ==
  ASSUME TypeInv, NEW u \in Ue, NEW far \in SUBSET Ue, NEW rbgs \in SUBSET Slot,
         round' = ServedWith(Handled(round, u), u, far, rbgs)
  PROVE  round'.toRelease = round.toRelease
  BY DEF ServedWith, Granting, Handled, Round, TypeInv, TypeOK

LEMMA SkipReleases ==
  ASSUME TypeInv, NEW u \in Ue, Skipping(u)
  PROVE  /\ u \in round.todo
         /\ round'.toRelease \subseteq round.toRelease \cup {u}
  <1>t. round \in Round
    BY DEF TypeInv, TypeOK
  <1>1. ASSUME NEW count, round' = ReleasedAt(Holding(u), u, count)
        PROVE  round'.toRelease \subseteq round.toRelease \cup {u}
    <2>1. /\ Holding(u) \in Round
          /\ Holding(u) = [round EXCEPT !.todo = round.todo \ {u},
                                        !.served = round.served \cup {u}]
      BY <1>t DEF Holding, Handled, Round
    <2>2. Holding(u).toRelease = round.toRelease
      BY <1>t, <2>1 DEF Round
    <2> QED BY <1>1, <2>1, <2>2 DEF ReleasedAt, Round
  <1>2. CASE SkipGone(u)
    BY <1>2, <1>t DEF SkipGone, Handled, IsLeast, Round
  <1>3. CASE SkipNotDue(u)
    BY <1>3, <1>t DEF SkipNotDue, Holding, Handled, IsLeast, Round
  <1>4. CASE SkipEmpty(u) \/ SkipConflict(u)
    BY <1>1, <1>4 DEF SkipEmpty, SkipConflict, Due, IsLeast
  <1> QED BY <1>2, <1>3, <1>4 DEF Skipping

LEMMA ReleaseReleases ==
  ASSUME TypeInv, NEW u \in Ue, ReleaseDlSpsGrant(u)
  PROVE  /\ u \in round.toRelease /\ round'.toRelease = round.toRelease \ {u}
         /\ round.todo = {}
  BY DEF ReleaseDlSpsGrant, TypeInv, TypeOK, Round

LEMMA OnceSkip ==
  ASSUME TypeInv, OnceInv, NEW u \in Ue, Skipping(u)
  PROVE  OnceInv'
  <1>1. /\ UNCHANGED ue
        /\ \A v \in Ue : SameGrant(v)
        /\ SameTransmissions
        /\ round.stage = "reuse" /\ round'.stage = "reuse"
        /\ round'.todo = round.todo \ {u}
        /\ round'.served = round.served \cup {u}
             \/ (round'.served = round.served /\ ue[u].beam = 0)
        /\ round'.redirects = round.redirects
    BY SkippingEffect
  <1>2. /\ u \in round.todo
        /\ round'.toRelease \subseteq round.toRelease \cup {u}
    BY SkipReleases
  <1>3. /\ SpsOnly /\ Counted /\ HoldersServed /\ LoopSound
        /\ round.beam # 0
    BY <1>1, OnceTypes DEF OnceInv
  <1>4. SpsOnly'
    BY <1>1, <1>3 DEF SpsOnly, SameGrant
  <1>5. Counted'
    <2>1. \A v \in Ue :
            /\ HolderDone(v) => /\ HolderDone(v)'
                                /\ grants'[v].beam = grants[v].beam
            /\ HomeDone(v) => /\ HomeDone(v)'
                              /\ ue'[v].beam = ue[v].beam
      BY <1>1, <1>2 DEF HolderDone, HomeDone, SameGrant, SameTransmissions
    <2> QED BY <1>1, <1>3, <2>1, CountedSame
  <1>6. HoldersServed'
    BY <1>1, <1>3
       DEF HoldersServed, GrantsOf, SameGrant, SameTransmissions
  <1>7. LoopSound'
    <2>1. /\ round'.todo \cup round'.toRelease \subseteq GrantsOf(round.beam)
          /\ GrantsOf(round.beam)' = GrantsOf(round.beam)
      BY <1>1, <1>2, <1>3
         DEF LoopSound, GrantsOf, SameGrant, SameTransmissions
    <2>2. round'.todo \cap (round'.served \cup round'.toRelease) = {}
      BY <1>1, <1>2, <1>3 DEF LoopSound
    <2>3. ASSUME NEW v \in round'.todo
          PROVE  grants'[v].partner \notin round'.served
      <3>1. /\ v \in Ue /\ v \in round.todo
            /\ grants'[v].partner = grants[v].partner
        BY <1>1, <2>3, OnceTypes DEF SameGrant
      <3>2. grants[v].partner \notin round.served
        BY <1>1, <1>3, <3>1 DEF LoopSound
      <3>3. u \in SpsUe /\ grants[v].partner \notin SpsUe
        BY <1>1, <1>2, <1>3, <3>1 DEF LoopSound, SpsOnly, GrantsOf
      <3> QED BY <1>1, <3>1, <3>2, <3>3
    <2> QED BY <1>1, <1>3, <2>1, <2>2, <2>3 DEF LoopSound
  <1> QED BY <1>1, <1>4, <1>5, <1>6, <1>7 DEF OnceInv

LEMMA OnceReuse ==
  ASSUME TypeInv, FarBoundOnce, OnceInv, NEW u \in Ue, Reuse(u)
  PROVE  OnceInv'
  <1> DEFINE far == Overlaid(grants[u].partner, grants[u].beam)
             b == round.beam
  <1>1. PICK rbgs \in SUBSET Slot, partner \in {0} \cup Ue :
          /\ Claiming(u, far, rbgs, grants[u].rbgSize)
          /\ grants'[u].active = grants[u].active
          /\ grants'[u].beam = grants[u].beam
          /\ grants'[u].partner = partner
          /\ \/ partner \in {0, grants[u].partner}
             \/ partner \notin BoundFar /\ partner \notin SpsUe
    BY ReuseEffect
  <1>2. /\ far \in SUBSET Ue /\ far \subseteq {grants[u].partner}
        /\ \A v \in far : ue[v].beam = grants[u].beam
    BY OverlaidType
  <1>3. /\ u \in round.todo /\ round.stage = "reuse"
    BY DEF Reuse, Due, IsLeast
  <1>4. /\ SpsOnly /\ Counted /\ HoldersServed /\ LoopSound
        /\ u \in GrantsOf(b) /\ u \in SpsUe /\ 0 \notin Ue
        /\ grants[u].active /\ grants[u].beam = b
    BY <1>3, OnceTypes, ConstantTypes
       DEF OnceInv, LoopSound, SpsOnly, GrantsOf
  <1> HIDE DEF far
  <1>5. /\ \A v \in Ue : ue'[v].beam = ue[v].beam
        /\ \A v \in Ue \ {u} : grants'[v] = grants[v]
        /\ round' = ServedWith(Handled(round, u), u, far, rbgs)
    BY <1>1 DEF Claiming
  <1>6. /\ round'.stage = "reuse" /\ round'.beam = b
        /\ round'.todo = round.todo \ {u}
        /\ round'.served = round.served \cup {u} \cup far
        /\ round'.redirects = round.redirects
        /\ round'.granted = round.granted \cup ({u} \cup far)
        /\ round'.twice = round.twice \cup (round.granted \cap ({u} \cup far))
        /\ round'.toRelease = round.toRelease
    BY <1>2, <1>3, <1>5, ServeType, ServeReleases DEF Serving
  <1>7. /\ far \cap SpsUe = {} /\ far \cap round.served = {}
        /\ round.redirects = NoRedirects
        /\ u \notin round.served /\ u \notin round.toRelease
    BY <1>2, <1>3, <1>4 DEF SpsOnly, LoopSound
  <1>8. SpsOnly'
    BY <1>1, <1>4, <1>5, OnceTypes DEF SpsOnly
  <1>9. Counted'
    <2>1. ASSUME NEW v \in Ue
          PROVE  /\ HolderDone(v) => /\ HolderDone(v)'
                                     /\ grants'[v].beam = grants[v].beam
                 /\ HomeDone(v) => /\ HomeDone(v)'
                                   /\ ue'[v].beam = ue[v].beam
      <3>1. HolderDone(v) => v # u
        BY <1>3, <1>4, OnceTypes DEF HolderDone
      <3>2. HolderDone(v) => HolderDone(v)' /\ grants'[v].beam = grants[v].beam
        BY <1>3, <1>5, <1>6, <3>1 DEF HolderDone
      <3>3. HomeDone(v) => HomeDone(v)'
        BY <1>3, <1>5, <1>6 DEF HomeDone
      <3> QED BY <1>5, <3>2, <3>3
    <2>2. HolderDone(u)'
      BY <1>1, <1>3, <1>4, <1>6, <1>7 DEF HolderDone
    <2>3. ASSUME NEW v \in far
          PROVE  HomeDone(v)' /\ v \notin round.granted
      <3>1. /\ v \in Ue /\ ue[v].beam = b /\ ue'[v].beam = b
            /\ ~grants[v].active /\ v \notin round.served
            /\ b \in Nat /\ ~(b < b) /\ round.redirects[v] = 0
        BY <1>2, <1>3, <1>4, <1>5, <1>7, <2>3, OnceTypes DEF SpsOnly, NoRedirects
      <3>2. HomeDone(v)'
        BY <1>6, <2>3, <3>1 DEF HomeDone
      <3>3. ~HolderDone(v) /\ ~HomeDone(v)
        BY <1>3, <3>1 DEF HolderDone, HomeDone
      <3> QED BY <1>4, <3>2, <3>3 DEF Counted
    <2>4. ASSUME u \in round.granted
          PROVE  HomeDone(u)' /\ grants'[u].beam # ue'[u].beam
      <3>1. ~HolderDone(u)
        BY <1>3, <1>4, OnceTypes DEF HolderDone
      <3>2. HomeDone(u)
        BY <1>4, <2>4, <3>1 DEF Counted
      <3>3. ue[u].beam < b
        BY <1>3, <1>7, <3>2 DEF HomeDone
      <3> QED BY <1>1, <1>3, <1>4, <1>5, <2>1, <3>2, <3>3, OnceTypes
    <2>5. round.granted \cup round.twice \subseteq Ue
      BY OnceTypes
    <2>6. \A v \in {u} \cup far :
            /\ HolderDone(v)' \/ HomeDone(v)'
            /\ v \in round.granted =>
                 HolderDone(v)' /\ HomeDone(v)' /\ grants'[v].beam # ue'[v].beam
      BY <2>2, <2>3, <2>4
    <2> QED BY <1>4, <1>6, <2>1, <2>5, <2>6, CountedKept
  <1>10. HoldersServed'
    BY <1>1, <1>3, <1>4, <1>5, <1>6 DEF HoldersServed, GrantsOf
  <1>11. LoopSound'
    <2>1. GrantsOf(round.beam)' = GrantsOf(b)
      BY <1>1, <1>5, <1>6 DEF GrantsOf
    <2>2. /\ round'.todo \cup round'.toRelease \subseteq GrantsOf(b)
          /\ \A v \in round.todo : v \in SpsUe
      BY <1>3, <1>4, <1>6 DEF LoopSound, GrantsOf, SpsOnly
    <2>3. round'.todo \cap (round'.served \cup round'.toRelease) = {}
      BY <1>3, <1>4, <1>6, <1>7, <2>2 DEF LoopSound
    <2>4. ASSUME NEW v \in round'.todo
          PROVE  grants'[v].partner \notin round'.served
      <3>1. v \in Ue /\ v \in round.todo /\ v # u /\ grants'[v] = grants[v]
        BY <1>5, <1>6, <2>4, OnceTypes
      <3>2. grants[v].partner \notin round.served /\ grants[v].partner # u
        BY <1>3, <1>4, <3>1 DEF LoopSound, SpsOnly
      <3>3. grants[v].partner \notin far
        BY <1>2, <1>4, <3>1 DEF FarBoundOnce
      <3> QED BY <1>6, <3>1, <3>2, <3>3
    <2> QED BY <1>6, <1>7, <2>1, <2>2, <2>3, <2>4 DEF LoopSound
  <1> QED BY <1>6, <1>8, <1>9, <1>10, <1>11 DEF OnceInv

LEMMA OnceRelease ==
  ASSUME TypeInv, OnceInv, NEW u \in Ue, ReleaseDlSpsGrant(u)
  PROVE  OnceInv'
  <1>1. /\ UNCHANGED ue
        /\ grants'[u] = NoGrant
        /\ \A v \in Ue \ {u} : grants'[v] = grants[v]
        /\ SameTransmissions
        /\ round.stage = "reuse" /\ round'.stage = "reuse"
        /\ round'.todo = round.todo /\ round'.served = round.served
        /\ round'.redirects = round.redirects
    BY ReleaseEffect
  <1>2. /\ u \in round.toRelease /\ round'.toRelease = round.toRelease \ {u}
        /\ round.todo = {}
    BY ReleaseReleases
  <1>3. /\ SpsOnly /\ Counted /\ HoldersServed /\ LoopSound
    BY <1>1 DEF OnceInv
  <1>4. SpsOnly'
    BY <1>1, <1>3, OnceTypes DEF SpsOnly, NoGrant
  <1>5. Counted'
    <2>1. grants[u].beam = round.beam /\ round.beam \in Nat
      BY <1>1, <1>2, <1>3, OnceTypes DEF LoopSound, GrantsOf
    <2>2. ~HolderDone(u)
      BY <1>1, <1>2, <2>1 DEF HolderDone
    <2>3. \A v \in Ue :
            /\ HolderDone(v) => /\ HolderDone(v)'
                                /\ grants'[v].beam = grants[v].beam
            /\ HomeDone(v) => /\ HomeDone(v)'
                              /\ ue'[v].beam = ue[v].beam
      BY <1>1, <1>2, <2>2 DEF HolderDone, HomeDone, SameTransmissions
    <2> QED BY <1>1, <1>3, <2>3, CountedSame
  <1>6. HoldersServed'
    BY <1>1, <1>2, <1>3
       DEF HoldersServed, GrantsOf, SameTransmissions, NoGrant
  <1>7. LoopSound'
    <2>1. round'.todo \cup round'.toRelease \subseteq GrantsOf(round.beam)'
      BY <1>1, <1>2, <1>3 DEF LoopSound, GrantsOf, SameTransmissions
    <2> QED BY <1>1, <1>2, <1>3, <2>1 DEF LoopSound
  <1> QED BY <1>1, <1>4, <1>5, <1>6, <1>7 DEF OnceInv

LEMMA OnceActivate ==
  ASSUME TypeInv, OnceInv, NEW u \in Ue, NEW size \in 1..SpsClassRbs,
         Activate(u, size)
  PROVE  OnceInv'
  <1> DEFINE b == round.beam
  <1>1. PICK rbgs \in SUBSET Slot, partner \in {0} \cup Ue :
          /\ Claiming(u, Overlaid(partner, b), rbgs, size)
          /\ grants'[u].active
          /\ grants'[u].beam = b
          /\ grants'[u].partner = partner
          /\ partner = 0 \/ (/\ partner \notin SpsUe
                             /\ ue[partner].beam = b
                             /\ partner \notin round.served
                             /\ partner \notin BoundFar)
    BY ActivateEffect
  <1> DEFINE far == Overlaid(partner, b)
  <1>2. /\ far \in SUBSET Ue /\ far \subseteq {partner}
        /\ \A v \in far : ue[v].beam = b
    BY OverlaidType
  <1>3. /\ u \in round.todo /\ round.stage = "activate" /\ ~grants[u].active
    BY DEF Activate, Activating, Activatable
  <1>4. /\ SpsOnly /\ Counted /\ HoldersServed /\ LoopSound
        /\ b \in Nat /\ ~(b < b) /\ 0 \notin Ue
        /\ u \in SpsUe /\ ue[u].beam = b /\ u \notin round.served
        /\ round.todo \subseteq SpsUe
        /\ round.redirects = NoRedirects
    BY <1>3, OnceTypes, ConstantTypes DEF OnceInv, LoopSound, UesOf
  <1>c. Claiming(u, far, rbgs, size)
    BY <1>1
  <1> HIDE DEF far
  <1>5. /\ \A v \in Ue : ue'[v].beam = ue[v].beam
        /\ \A v \in Ue \ {u} : grants'[v] = grants[v]
        /\ round' = ServedWith(Handled(round, u), u, far, rbgs)
    BY <1>c DEF Claiming
  <1>6. /\ round'.stage = "activate" /\ round'.beam = b
        /\ round'.todo = round.todo \ {u}
        /\ round'.served = round.served \cup {u} \cup far
        /\ round'.redirects = round.redirects
        /\ round'.granted = round.granted \cup ({u} \cup far)
        /\ round'.twice = round.twice \cup (round.granted \cap ({u} \cup far))
    BY <1>2, <1>3, <1>5, ServeType DEF Serving
  <1>7. far \cap SpsUe = {} /\ far \cap round.served = {}
    BY <1>1, <1>2, <1>4
  <1>8. SpsOnly'
    BY <1>1, <1>4, <1>5, OnceTypes DEF SpsOnly
  <1>9. Counted'
    <2>1. ASSUME NEW v \in Ue
          PROVE  /\ HolderDone(v) => /\ HolderDone(v)'
                                     /\ grants'[v].beam = grants[v].beam
                 /\ HomeDone(v) => /\ HomeDone(v)'
                                   /\ ue'[v].beam = ue[v].beam
      <3>1. HolderDone(v) => v # u
        BY <1>3 DEF HolderDone
      <3>2. HolderDone(v) => HolderDone(v)' /\ grants'[v].beam = grants[v].beam
        BY <1>3, <1>5, <1>6, <3>1 DEF HolderDone
      <3>3. HomeDone(v) => HomeDone(v)'
        BY <1>3, <1>5, <1>6 DEF HomeDone
      <3> QED BY <1>5, <3>2, <3>3
    <2>2. ASSUME NEW v \in {u} \cup far
          PROVE  HomeDone(v)' /\ v \notin round.granted
      <3>1. /\ v \in Ue /\ ue[v].beam = b /\ ue'[v].beam = b
            /\ ~grants[v].active /\ v \notin round.served
            /\ round.redirects[v] = 0
        BY <1>2, <1>3, <1>4, <1>5, <1>7, <2>2 DEF SpsOnly, NoRedirects
      <3>2. HomeDone(v)'
        BY <1>6, <2>2, <3>1 DEF HomeDone
      <3>3. ~HolderDone(v) /\ ~HomeDone(v)
        BY <1>3, <1>4, <3>1 DEF HolderDone, HomeDone
      <3> QED BY <1>4, <3>2, <3>3 DEF Counted
    <2>3. round.granted \cup round.twice \subseteq Ue
      BY OnceTypes
    <2> QED BY <1>4, <1>6, <2>1, <2>2, <2>3, CountedKept
  <1>10. HoldersServed'
    BY <1>3, <1>4, <1>5, <1>6 DEF HoldersServed, GrantsOf
  <1>11. LoopSound'
    <2>1. UesOf(round.beam)' = UesOf(b)
      BY <1>5, <1>6 DEF UesOf
    <2>2. round'.todo \subseteq (UesOf(b) \cap SpsUe) \ round'.served
      BY <1>3, <1>4, <1>6, <1>7 DEF LoopSound
    <2> QED BY <1>4, <1>6, <2>1, <2>2 DEF LoopSound
  <1> QED BY <1>6, <1>8, <1>9, <1>10, <1>11 DEF OnceInv

LEMMA OncePassing ==
  ASSUME TypeInv, OnceInv, Passing
  PROVE  OnceInv'
  <1>1. /\ UNCHANGED <<ue, grants>>
        /\ SameTransmissions
        /\ round'.far = round.far
        /\ round'.served = round.served
    BY PassingEffect
  <1>2. /\ UesOf(round.beam)' = UesOf(round.beam)
        /\ GrantsOf(round.beam)' = GrantsOf(round.beam)
    BY <1>1 DEF UesOf, GrantsOf, SameTransmissions
  <1>s. ASSUME Counted', HoldersServed', LoopSound', round'.stage # "idle"
        PROVE  OnceInv'
    BY <1>s, <1>1 DEF OnceInv, SpsOnly
  <1>3. CASE /\ round.stage = "reuse" /\ round'.stage = "activate"
             /\ round.todo = {} /\ round'.redirects = round.redirects
             /\ round'.todo = (UesOf(round.beam) \cap SpsUe) \ round.served
    <2>1. Counted /\ HoldersServed /\ LoopSound
      BY <1>3 DEF OnceInv
    <2>2. Counted'
      <3>1. \A v \in Ue :
              /\ HolderDone(v) => HolderDone(v)'
              /\ HomeDone(v) => HomeDone(v)'
        BY <1>1, <1>3 DEF HolderDone, HomeDone, SameTransmissions
      <3> QED BY <1>1, <2>1, <3>1, CountedSame
    <2>3. HoldersServed'
      BY <1>1, <1>2, <1>3, <2>1 DEF HoldersServed, SameTransmissions
    <2>4. LoopSound'
      BY <1>1, <1>2, <1>3, <2>1 DEF LoopSound
    <2> QED BY <1>3, <1>s, <2>2, <2>3, <2>4
  <1>4. CASE /\ round.stage = "activate" /\ round'.stage = "activate"
             /\ round'.todo \subseteq round.todo
             /\ round'.redirects = round.redirects
    <2>1. Counted /\ HoldersServed /\ LoopSound
      BY <1>4 DEF OnceInv
    <2>2. Counted'
      <3>1. \A v \in Ue :
              /\ HolderDone(v) => HolderDone(v)'
              /\ HomeDone(v) => HomeDone(v)'
        BY <1>1, <1>4 DEF HolderDone, HomeDone, SameTransmissions
      <3> QED BY <1>1, <2>1, <3>1, CountedSame
    <2>3. HoldersServed'
      BY <1>1, <1>2, <1>4, <2>1 DEF HoldersServed, SameTransmissions
    <2>4. LoopSound'
      BY <1>1, <1>2, <1>4, <2>1 DEF LoopSound
    <2> QED BY <1>4, <1>s, <2>2, <2>3, <2>4
  <1>5. ASSUME round.stage = "dynamic", round'.stage = "dynamic",
               NEW u \in round.todo,
               round'.todo = round.todo \ {u},
               \A v \in Ue \ {u} : round'.redirects[v] = round.redirects[v]
        PROVE  OnceInv'
    <2>1. /\ Counted /\ HoldersServed /\ LoopSound
          /\ u \in Ue /\ round.todo \subseteq Ue
          /\ round.beam \in Nat /\ ~(round.beam < round.beam)
          /\ \A v \in Ue : round.far[v] \subseteq Ue
      BY <1>5, OnceTypes DEF OnceInv
    <2>2. Counted'
      <3>1. ~HomeDone(u)
        BY <1>5, <2>1 DEF HomeDone, LoopSound, UesOf
      <3>2. \A v \in Ue :
              /\ HolderDone(v) => HolderDone(v)'
              /\ HomeDone(v) => HomeDone(v)'
        BY <1>1, <1>5, <3>1 DEF HolderDone, HomeDone, SameTransmissions
      <3> QED BY <1>1, <2>1, <3>2, CountedSame
    <2>3. HoldersServed'
      BY <1>1, <1>2, <1>5, <2>1 DEF HoldersServed, SameTransmissions
    <2>4. LoopSound'
      <3>1. ASSUME NEW v \in round'.todo
            PROVE  /\ round'.redirects[v] = 0
                   /\ \A far \in round'.far[v] : round'.redirects[far] = 0
        <4>1. /\ v \in Ue /\ v # u /\ v \in round.todo
              /\ round.far[v] \subseteq Ue /\ u \notin round.far[v]
          BY <1>5, <2>1, <3>1 DEF LoopSound
        <4>2. /\ round.redirects[v] = 0
              /\ \A far \in round.far[v] : round.redirects[far] = 0
          BY <1>5, <2>1, <4>1 DEF LoopSound
        <4> QED BY <1>1, <1>5, <4>1, <4>2
      <3>2. ASSUME NEW near \in Ue
            PROVE  /\ round'.far[near] \subseteq UesOf(round.beam) \ round'.served
                   /\ round'.far[near] \cap round'.todo = {}
                   /\ \A other \in Ue \ {near} :
                        round'.far[near] \cap round'.far[other] = {}
        BY <1>1, <1>5, <2>1 DEF LoopSound
      <3>3. round'.todo \subseteq UesOf(round.beam) \ round'.served
        BY <1>1, <1>5, <2>1 DEF LoopSound
      <3> QED BY <1>2, <1>5, <3>1, <3>2, <3>3 DEF LoopSound
    <2> QED BY <1>5, <1>s, <2>2, <2>3, <2>4
  <1> QED BY <1>3, <1>4, <1>5, PassingEffect

LEMMA OnceEndActivate ==
  ASSUME TypeInv, OnceInv, EndActivate
  PROVE  OnceInv'
  <1>1. /\ UNCHANGED <<ue, grants>>
        /\ SameTransmissions
        /\ round.stage = "activate" /\ round'.stage = "dynamic"
        /\ round'.redirects = round.redirects
        /\ round'.served = round.served
        /\ round'.todo \subseteq UesOf(round.beam) \ round.served
        /\ \A near \in Ue :
             /\ round'.far[near] \subseteq UesOf(round.beam) \ round.served
             /\ round'.far[near] \cap round'.todo = {}
             /\ \A other \in Ue \ {near} :
                  round'.far[near] \cap round'.far[other] = {}
    BY EndActivateEffect
  <1>2. /\ SpsOnly /\ Counted /\ HoldersServed /\ LoopSound
        /\ UesOf(round.beam) \subseteq Ue
        /\ UesOf(round.beam)' = UesOf(round.beam)
        /\ GrantsOf(round.beam)' = GrantsOf(round.beam)
    BY <1>1 DEF OnceInv, UesOf, GrantsOf, SameTransmissions
  <1>3. Counted'
    <2>1. \A v \in Ue :
            /\ HolderDone(v) => HolderDone(v)'
            /\ HomeDone(v) => HomeDone(v)'
      BY <1>1 DEF HolderDone, HomeDone, SameTransmissions
    <2> QED BY <1>1, <1>2, <2>1, CountedSame
  <1>4. HoldersServed'
    BY <1>1, <1>2 DEF HoldersServed, SameTransmissions
  <1>5. LoopSound'
    <2>1. \A v \in Ue : round'.redirects[v] = 0
      BY <1>1, <1>2 DEF LoopSound, NoRedirects
    <2>2. ASSUME NEW v \in round'.todo
          PROVE  /\ round'.redirects[v] = 0
                 /\ \A far \in round'.far[v] : round'.redirects[far] = 0
      <3>1. v \in Ue
        BY <1>1, <1>2, <2>2
      <3>2. round'.far[v] \subseteq Ue
        BY <1>1, <1>2, <3>1
      <3> QED BY <2>1, <3>1, <3>2
    <2> QED BY <1>1, <1>2, <2>2 DEF LoopSound
  <1> QED BY <1>1, <1>2, <1>3, <1>4, <1>5 DEF OnceInv, SpsOnly

LEMMA OnceSchedule ==
  ASSUME TypeInv, OnceInv, NEW u \in Ue, Schedule(u)
  PROVE  OnceInv'
  <1> DEFINE b == round.beam
             who == {u} \cup round.far[u]
  <1>1. /\ round'.stage = round.stage /\ round'.beam = b
        /\ round'.todo = round.todo \ {u}
        /\ round'.served = round.served
        /\ round'.far = round.far
        /\ round'.redirects = round.redirects
        /\ round'.granted = round.granted \cup who
        /\ round'.twice = round.twice \cup (round.granted \cap who)
        /\ grants' = grants
        /\ \A v \in Ue : ue'[v].beam = ue[v].beam
    BY ScheduleEffect
  <1>2. round.stage = "dynamic" /\ u \in round.todo
    BY DEF Schedule, Scheduling
  <1>3. /\ SpsOnly /\ Counted /\ HoldersServed /\ LoopSound
        /\ round.todo \subseteq Ue /\ b \in Nat /\ ~(b < b)
        /\ \A v \in Ue : round.far[v] \subseteq Ue /\ grants[v].beam \in Nat
        /\ UesOf(round.beam)' = UesOf(b)
        /\ GrantsOf(round.beam)' = GrantsOf(b)
    BY <1>1, <1>2, OnceTypes DEF OnceInv, UesOf, GrantsOf
  <1>4. Counted'
    <2>1. ASSUME NEW v \in Ue
          PROVE  /\ HolderDone(v) => /\ HolderDone(v)'
                                     /\ grants'[v].beam = grants[v].beam
                 /\ HomeDone(v) => /\ HomeDone(v)'
                                   /\ ue'[v].beam = ue[v].beam
      <3>1. HolderDone(v) => HolderDone(v)'
        BY <1>1, <1>2 DEF HolderDone
      <3>2. \A near \in round'.todo :
              near \in round.todo /\ round'.far[near] = round.far[near]
        BY <1>1
      <3>3. ue'[v].beam = ue[v].beam
        BY <1>1
      <3>4. HomeDone(v) => HomeDone(v)'
        BY <1>1, <1>2, <3>2, <3>3 DEF HomeDone
      <3> QED BY <1>1, <3>1, <3>3, <3>4
    <2>2. ASSUME NEW w \in who
          PROVE  /\ HomeDone(w)'
                 /\ w \in round.granted =>
                      HolderDone(w)' /\ grants'[w].beam # ue'[w].beam
      <3>1. /\ w \in Ue /\ ue[w].beam = b /\ ue'[w].beam = b
            /\ w \notin round.served /\ round.redirects[w] = 0
        BY <1>1, <1>2, <1>3, <2>2 DEF LoopSound, UesOf
      <3>2. /\ w \notin round'.todo
            /\ \A near \in round'.todo : w \notin round'.far[near]
        <4>1. CASE w = u
          BY <1>1, <1>2, <1>3, <4>1 DEF LoopSound
        <4>2. CASE w \in round.far[u]
          BY <1>1, <1>2, <1>3, <4>2 DEF LoopSound
        <4> QED BY <2>2, <4>1, <4>2
      <3>3. HomeDone(w)'
        BY <1>1, <1>2, <3>1, <3>2 DEF HomeDone
      <3>4. ~HomeDone(w)
        BY <1>2, <1>3, <2>2, <3>1 DEF HomeDone
      <3>5. ASSUME w \in round.granted
            PROVE  HolderDone(w)' /\ grants'[w].beam # ue'[w].beam
        <4>1. HolderDone(w)
          BY <1>3, <3>4, <3>5 DEF Counted
        <4>2. grants[w].beam # b
          BY <1>2, <1>3, <3>1, <4>1 DEF HolderDone, HoldersServed, GrantsOf
        <4> QED BY <1>1, <2>1, <3>1, <4>1, <4>2
      <3> QED BY <3>3, <3>5
    <2>3. round.granted \cup round.twice \subseteq Ue
      BY OnceTypes
    <2> HIDE DEF who
    <2> QED BY <1>1, <1>3, <2>1, <2>2, <2>3, CountedKept
  <1>5. HoldersServed'
    BY <1>1, <1>2, <1>3 DEF HoldersServed, GrantsOf
  <1>6. LoopSound'
    <2>1. /\ round'.todo \subseteq UesOf(b) \ round'.served
          /\ \A near \in Ue :
               /\ round'.far[near] \subseteq UesOf(b) \ round'.served
               /\ round'.far[near] \cap round'.todo = {}
               /\ \A other \in Ue \ {near} :
                    round'.far[near] \cap round'.far[other] = {}
          /\ \A v \in round'.todo :
               /\ round'.redirects[v] = 0
               /\ \A far \in round'.far[v] : round'.redirects[far] = 0
      BY <1>1, <1>2, <1>3 DEF LoopSound
    <2> QED BY <1>1, <1>2, <1>3, <2>1 DEF LoopSound
  <1> QED BY <1>1, <1>2, <1>3, <1>4, <1>5, <1>6 DEF OnceInv, SpsOnly

(* A new beam: what the loops of the last one left is behind.              *)
LEMMA OnceOpen ==
  ASSUME TypeInv, SpsOnly, NEW r \in Round, NEW b \in Beam, OpenBeam(r, b),
         \A v \in Ue : SameGrant(v),
         Counted'
  PROVE  OnceInv'
  <1>1. /\ round'.stage = "reuse" /\ round'.beam = b
        /\ round'.todo = GrantsOf(b) /\ round'.served = {}
        /\ round'.redirects = NoRedirects
    BY OpenBeamEffect
  <1>2. round'.toRelease = {}
    BY DEF OpenBeam, EnterBeam, Round
  <1>3. GrantsOf(round.beam)' = GrantsOf(b)
    BY <1>1 DEF GrantsOf, SameGrant
  <1>4. SpsOnly'
    BY DEF SpsOnly, SameGrant
  <1>5. HoldersServed' /\ LoopSound'
    BY <1>1, <1>2, <1>3 DEF HoldersServed, LoopSound
  <1> QED BY <1>1, <1>4, <1>5 DEF OnceInv

LEMMA OnceEndBeam ==
  ASSUME TypeInv, OnceInv, EndBeam
  PROVE  OnceInv'
  <1>1. /\ grants' = grants /\ ue' = Redirected /\ SpsOnly
        /\ round.stage = "dynamic"
        /\ Counted /\ LoopSound
    BY DEF EndBeam, OnceInv
  <1>2. CASE round' = IdleRound
    BY <1>1, <1>2 DEF IdleRound, OnceInv, SpsOnly
  <1>3. ASSUME NEW b \in LaterBeams, OpenBeam(round, b)
        PROVE  OnceInv'
    <2>1. /\ round'.stage = "reuse" /\ round'.beam = b
          /\ round'.granted = round.granted /\ round'.twice = round.twice
          /\ round'.redirects = NoRedirects
          /\ b \in Beam /\ b \in Nat /\ round.beam \in Nat /\ round.beam < b
          /\ round \in Round
      <3>1. b \in Beam /\ round.beam < b /\ round \in Round
        BY <1>3 DEF LaterBeams, TypeInv, TypeOK
      <3>2. b \in Nat
        BY <3>1, DlSchedulerAssumption
      <3> QED BY <1>1, <1>3, <3>1, <3>2, OpenBeamEffect, OnceTypes
    <2>2. ASSUME NEW v \in Ue
          PROVE  /\ HolderDone(v) => HolderDone(v)'
                 /\ HomeDone(v) => HomeDone(v)' /\ ue'[v].beam = ue[v].beam
      <3>1. ue[v].beam \in Nat /\ grants[v].beam \in Nat
        BY OnceTypes
      <3>2. HolderDone(v) => HolderDone(v)'
        BY <1>1, <2>1, <3>1 DEF HolderDone
      <3>3. round.redirects[v] = 0 => ue'[v] = ue[v]
        BY <1>1 DEF Redirected
      <3>4. HomeDone(v) => HomeDone(v)' /\ ue'[v].beam = ue[v].beam
        BY <2>1, <3>1, <3>3 DEF HomeDone, NoRedirects
      <3> QED BY <3>2, <3>4
    <2>3. round.granted \subseteq Ue /\ round.twice \subseteq Ue
      BY OnceTypes
    <2>4. \A v \in round'.granted : HolderDone(v)' \/ HomeDone(v)'
      BY <1>1, <2>1, <2>2, <2>3 DEF Counted
    <2>5. \A v \in round'.twice :
            HolderDone(v)' /\ HomeDone(v)' /\ grants'[v].beam # ue'[v].beam
      BY <1>1, <2>1, <2>2, <2>3 DEF Counted
    <2>6. Counted'
      BY <2>4, <2>5 DEF Counted
    <2>7. \A v \in Ue : SameGrant(v)
      BY <1>1 DEF SameGrant
    <2> QED BY <1>1, <1>3, <2>1, <2>6, <2>7, OnceOpen
  <1> QED BY <1>2, <1>3 DEF EndBeam

LEMMA OnceStep == TypeInv /\ FarBoundOnce /\ OnceInv /\ [Next]_vars => OnceInv'
  <1> SUFFICES ASSUME TypeInv, FarBoundOnce, OnceInv, [Next]_vars
               PROVE  OnceInv'
    OBVIOUS
  <1>1. CASE Environment
    BY <1>1, EnvironmentEffect DEF OnceInv, SpsOnly
  <1>2. CASE StartRound
    <2>1. PICK b \in Beam : OpenBeam(IdleRound, b)
      BY <1>2 DEF StartRound
    <2>2. round'.granted = {} /\ round'.twice = {}
      BY <2>1, IdleRoundType, OpenBeamEffect DEF IdleRound
    <2>3. Counted'
      BY <2>2 DEF Counted
    <2> QED BY <1>2, <2>1, <2>3, IdleRoundType, StartRoundEffect, OnceOpen
            DEF OnceInv
  <1>3. CASE UNCHANGED vars
    BY <1>3 DEF vars, OnceInv, SpsOnly, Counted, HolderDone, HomeDone,
                HoldersServed, LoopSound, GrantsOf, UesOf
  <1> QED BY <1>1, <1>2, <1>3, OnceSkip, OnceReuse, OnceRelease, OnceActivate,
             OncePassing, OnceEndActivate, OnceSchedule, OnceEndBeam, StepCases

(* A UE gets at most one transmission in a round, but for those that left  *)
(* a grant behind in another beam: whoever is served by a configured grant *)
(* is passed over afterwards, and a UE that is redirected to another beam  *)
(* got nothing in the one it leaves.                                       *)
THEOREM GrantedOnceCorrect == Spec => []GrantedOnce
  <1>1. Init => OnceInv
    <2> SUFFICES ASSUME Init PROVE OnceInv
      OBVIOUS
    <2>1. 0 \notin SpsUe
      BY DlSchedulerAssumption
    <2>2. \A u \in Ue : ~grants[u].active /\ grants[u].partner = 0
      BY DEF Init, NoGrant
    <2>3. round.stage = "idle" /\ round.twice = {}
      BY DEF Init, IdleRound
    <2> QED BY <2>1, <2>2, <2>3 DEF OnceInv, SpsOnly
  <1>2. Init => FarBoundOnce
    BY DEF Init, NoGrant, FarBoundOnce
  <1> QED BY <1>1, <1>2, TypeInit, TypeStep, FarBoundStep, OnceStep,
             OnceInvImplies, PTL DEF Spec

-----------------------------------------------------------------------------
(* The sum of the grants of a beam, as the number of their blocks.         *)

(* The blocks of the grants of S, told apart.                              *)
Blocks(g, S) == UNION {{u} \X (1..g[u].rbgSize) : u \in S}

LEMMA BlocksFinite ==
  ASSUME NEW g, NEW S \in SUBSET Ue, \A u \in S : g[u].rbgSize \in Nat
  PROVE  /\ IsFiniteSet(Blocks(g, S))
         /\ Cardinality(Blocks(g, S)) \in Nat
  <1> DEFINE parts == {{u} \X (1..g[u].rbgSize) : u \in S}
             part == [u \in S |-> {u} \X (1..g[u].rbgSize)]
  <1>1. IsFiniteSet(S)
    BY FS_Subset, DlSchedulerAssumption
  <1>2. IsFiniteSet(parts)
    <2>1. part \in Surjection(S, parts)
      BY DEF Surjection
    <2> QED BY <1>1, <2>1, FS_Surjection
  <1>3. ASSUME NEW p \in parts PROVE IsFiniteSet(p)
    <2>1. PICK u \in S : p = {u} \X (1..g[u].rbgSize)
      OBVIOUS
    <2>2. \A n \in Nat : IsFiniteSet(1..n)
      BY FS_Interval
    <2>3. IsFiniteSet({u}) /\ IsFiniteSet(1..g[u].rbgSize)
      BY <2>2, FS_Singleton
    <2> QED BY <2>1, <2>3, FS_Product
  <1>4. IsFiniteSet(UNION parts)
    BY <1>2, <1>3, FS_UNION
  <1> QED BY <1>4, FS_CardinalityType DEF Blocks

(* One grant more, or taken away.                                          *)
LEMMA BlocksMore ==
  ASSUME NEW g, NEW S \in SUBSET Ue, NEW u \in Ue \ S,
         \A v \in S \cup {u} : g[v].rbgSize \in Nat
  PROVE  Cardinality(Blocks(g, S \cup {u}))
           = Cardinality(Blocks(g, S)) + g[u].rbgSize
  <1> DEFINE own == {u} \X (1..g[u].rbgSize)
  <1>1. /\ IsFiniteSet(own)
        /\ Cardinality(own) = g[u].rbgSize
    <2>1. \A n \in Nat : IsFiniteSet(1..n) /\ Cardinality(1..n) = n
      BY FS_Interval
    <2>2. IsFiniteSet({u}) /\ Cardinality({u}) = 1
      BY FS_Singleton
    <2>3. /\ IsFiniteSet(own)
          /\ Cardinality(own) = Cardinality({u}) * Cardinality(1..g[u].rbgSize)
      BY <2>1, <2>2, FS_Product
    <2> QED BY <2>1, <2>2, <2>3
  <1>2. /\ IsFiniteSet(Blocks(g, S)) /\ Cardinality(Blocks(g, S)) \in Nat
    BY BlocksFinite
  <1>3. /\ Blocks(g, S \cup {u}) = Blocks(g, S) \cup own
        /\ Blocks(g, S) \cap own = {}
    BY DEF Blocks
  <1> HIDE DEF own
  <1>4. Cardinality(Blocks(g, S) \cup own)
          = Cardinality(Blocks(g, S)) + Cardinality(own) - Cardinality({})
    BY <1>1, <1>2, <1>3, FS_Union
  <1>5. Cardinality({}) = 0
    BY FS_EmptySet
  <1>6. g[u].rbgSize \in Nat
    OBVIOUS
  <1>7. Cardinality(Blocks(g, S \cup {u})) = Cardinality(Blocks(g, S) \cup own)
    BY <1>3
  <1> QED BY <1>1, <1>2, <1>4, <1>5, <1>6, <1>7

LEMMA BlocksSame ==
  ASSUME NEW g, NEW h, NEW S, \A u \in S : h[u].rbgSize = g[u].rbgSize
  PROVE  Blocks(h, S) = Blocks(g, S)
  BY DEF Blocks

LEMMA BlocksNone == \A g : Cardinality(Blocks(g, {})) = 0
  BY FS_EmptySet DEF Blocks

(* Induction over a finite set, for sets: what holds of {}, and of a set    *)
(* whenever it holds of the set without some member, holds of all subsets.  *)
LEMMA SubsetInduction ==
  ASSUME NEW S, IsFiniteSet(S), NEW T, {} \in T,
         \A A \in SUBSET S : A # {} /\ (\A x \in A : A \ {x} \in T) => A \in T
  PROVE  SUBSET S \subseteq T
  <1> DEFINE Bad == {A \in FiniteSubsetsOf(S) : A \notin T}
  <1>1. SUBSET S = FiniteSubsetsOf(S)
    BY FS_Subset DEF FiniteSubsetsOf
  <1>2. SUFFICES ASSUME Bad # {} PROVE FALSE
    BY <1>1
  <1>3. IsWellFoundedOn(StrictSubsetOrdering(S), FiniteSubsetsOf(S))
    BY FS_StrictSubsetOrderingWellFounded
  <1>4. PICK A \in Bad : \A B \in Bad : ~(<<B, A>> \in StrictSubsetOrdering(S))
    BY <1>2, <1>3, WFMin
  <1>5. ASSUME NEW x \in A PROVE A \ {x} \in T
    <2>1. A \ {x} \in SUBSET S /\ A \in SUBSET S
      BY <1>1
    <2>2. <<A \ {x}, A>> \in StrictSubsetOrdering(S)
      BY <2>1, <1>5 DEF StrictSubsetOrdering
    <2> QED BY <1>1, <1>4, <2>1, <2>2
  <1>6. A \in T
    BY <1>1, <1>5
  <1> QED BY <1>6

(* The equation that the sum over S is defined by, for its subsets.        *)
SumStep(g, f, s) ==
  IF s = {} THEN 0
  ELSE LET u == CHOOSE x \in s : TRUE IN g[u].rbgSize + f[s \ {u}]

LEMMA SumUnfolded ==
  ASSUME NEW g, NEW S
  PROVE  MapThenSumSet(LAMBDA u : g[u].rbgSize, S) =
         LET f[s \in SUBSET S] == SumStep(g, f, s) IN f[S]
  BY DEF MapThenSumSet, MapThenFoldSet, SumStep

(* The number of blocks solves it, and nothing else does.                  *)
LEMMA SumIsBlocks ==
  ASSUME NEW g, NEW S \in SUBSET Ue, \A u \in S : g[u].rbgSize \in Nat
  PROVE  MapThenSumSet(LAMBDA u : g[u].rbgSize, S) = Cardinality(Blocks(g, S))
  <1> DEFINE count == [s \in SUBSET S |-> Cardinality(Blocks(g, s))]
             f == CHOOSE f : f = [s \in SUBSET S |-> SumStep(g, f, s)]
             T == {s \in SUBSET S : f[s] = count[s]}
  <1>1. ASSUME NEW s \in SUBSET S, NEW h,
               s # {} => h[s \ {CHOOSE x \in s : TRUE}]
                           = count[s \ {CHOOSE x \in s : TRUE}]
        PROVE  SumStep(g, h, s) = count[s]
    <2>1. CASE s = {}
      BY <2>1, BlocksNone DEF SumStep
    <2>2. CASE s # {}
      <3> DEFINE u == CHOOSE x \in s : TRUE
      <3>1. u \in s
        BY <2>2
      <3>2. SumStep(g, h, s) = g[u].rbgSize + h[s \ {u}]
        BY <2>2 DEF SumStep
      <3>3. h[s \ {u}] = count[s \ {u}]
        BY <1>1, <2>2
      <3> HIDE DEF u
      <3>4. s \ {u} \in SUBSET Ue /\ u \in Ue \ (s \ {u}) /\ s = (s \ {u}) \cup {u}
        BY <3>1
      <3>5. Cardinality(Blocks(g, s))
              = Cardinality(Blocks(g, s \ {u})) + g[u].rbgSize
        BY <3>4, BlocksMore
      <3>6. Cardinality(Blocks(g, s \ {u})) \in Nat /\ g[u].rbgSize \in Nat
        BY <3>1, <3>4, BlocksFinite
      <3> QED BY <3>2, <3>3, <3>5, <3>6
    <2> QED BY <2>1, <2>2
  <1>2. count = [s \in SUBSET S |-> SumStep(g, count, s)]
    <2>1. \A s \in SUBSET S : SumStep(g, count, s) = count[s]
      BY <1>1
    <2> QED BY <2>1
  <1>3. f = [s \in SUBSET S |-> SumStep(g, f, s)]
    <2> HIDE DEF count
    <2> QED BY <1>2
  <1>4. MapThenSumSet(LAMBDA u : g[u].rbgSize, S) = f[S]
    BY SumUnfolded
  <1> HIDE DEF f, count
  <1>5. {} \in T
    BY <1>1, <1>3
  <1>6. ASSUME NEW s \in SUBSET S, s # {}, \A x \in s : s \ {x} \in T
        PROVE  s \in T
    <2>1. f[s \ {CHOOSE x \in s : TRUE}] = count[s \ {CHOOSE x \in s : TRUE}]
      BY <1>6
    <2> QED BY <1>1, <1>3, <2>1
  <1>7. IsFiniteSet(S)
    BY FS_Subset, DlSchedulerAssumption
  <1>8. S \in T
    <2> HIDE DEF T
    <2> QED BY <1>5, <1>6, <1>7, SubsetInduction
  <1> QED BY <1>4, <1>8 DEF count

-----------------------------------------------------------------------------
(* The admission account.  Who was activated holds a grant in the beam of  *)
(* the round, and only holders of that beam are released.                  *)

AdmittedInv ==
  \A b \in Beam :
    /\ usage[b].spsAdmitted = Cardinality(Blocks(grants, GrantsOf(b)))
    /\ usage[b].spsAdmitted <= SpsAdmitCapRbs

LEMMA CapType == SpsAdmitCapRbs \in Nat
  <1>1. SpsRegionRbs * OverbookPercent \in Nat
    BY ResourceAssumption
  <1> DEFINE product == SpsRegionRbs * OverbookPercent
  <1> HIDE DEF product
  <1>2. product \in Nat => product \div 100 \in Nat
    BY Z3
  <1> QED BY <1>1, <1>2 DEF product, SpsAdmitCapRbs

LEMMA GrantTypes ==
  ASSUME TypeInv
  PROVE  \A u \in Ue : /\ grants[u].active \in BOOLEAN
                       /\ grants[u].rbgSize \in Nat
  BY DEF TypeInv, TypeOK, Grant

(* The account and its grants as they were: nothing has changed.           *)
LEMMA AdmittedSame ==
  ASSUME AdmittedInv,
         \A b \in Beam : usage'[b].spsAdmitted = usage[b].spsAdmitted,
         \A v \in Ue : /\ grants'[v].active = grants[v].active
                       /\ grants'[v].beam = grants[v].beam
                       /\ grants'[v].rbgSize = grants[v].rbgSize
  PROVE  AdmittedInv'
  <1>1. ASSUME NEW b \in Beam
        PROVE  /\ GrantsOf(b)' = GrantsOf(b)
               /\ Blocks(grants, GrantsOf(b))' = Blocks(grants, GrantsOf(b))
    <2>1. GrantsOf(b)' = GrantsOf(b)
      BY DEF GrantsOf
    <2>2. \A v \in GrantsOf(b) : grants'[v].rbgSize = grants[v].rbgSize
      BY DEF GrantsOf
    <2>3. Blocks(grants', GrantsOf(b)) = Blocks(grants, GrantsOf(b))
      BY <2>2, BlocksSame
    <2>4. Blocks(grants, GrantsOf(b))' = Blocks(grants', GrantsOf(b)')
      BY DEF Blocks
    <2> QED BY <2>1, <2>3, <2>4
  <1>2. \A b \in Beam : Cardinality(Blocks(grants, GrantsOf(b)))'
                          = Cardinality(Blocks(grants, GrantsOf(b)))
    BY <1>1
  <1> QED BY <1>2 DEF AdmittedInv, SpsAdmitCapRbs

(* What the steps that use resource blocks do to the account.              *)
LEMMA AccountKept ==
  ASSUME TypeInv, NEW u \in Ue, Reuse(u) \/ Schedule(u)
  PROVE  \A b \in Beam : usage'[b].spsAdmitted = usage[b].spsAdmitted
  <1>t. usage \in [Beam -> Usage] /\ round.beam \in Beam
    BY DEF TypeInv, TypeOK, BeamOpen, Reuse, Due, Schedule, Scheduling
  <1>1. \/ \E rbgs : usage' = [usage EXCEPT ![round.beam] = ClaimSpsRbgs(@, rbgs)]
        \/ \E n : usage' = [usage EXCEPT ![round.beam] = AllocateSpectrum(@, n)]
    BY DEF Reuse, Schedule
  <1>2. \A used \in Usage :
          /\ \A rbgs : ClaimSpsRbgs(used, rbgs).spsAdmitted = used.spsAdmitted
          /\ \A n : AllocateSpectrum(used, n).spsAdmitted = used.spsAdmitted
    BY DEF ClaimSpsRbgs, AllocateSpectrum, Usage
  <1>3. ASSUME NEW b \in Beam PROVE usage'[b].spsAdmitted = usage[b].spsAdmitted
    <2>1. \/ usage'[b] = usage[b]
          \/ \E rbgs : usage'[b] = ClaimSpsRbgs(usage[b], rbgs)
          \/ \E n : usage'[b] = AllocateSpectrum(usage[b], n)
      <3>1. CASE b = round.beam
        BY <1>t, <1>1, <3>1
      <3>2. CASE b # round.beam
        BY <1>t, <1>1, <3>2
      <3> QED BY <3>1, <3>2
    <2> QED BY <1>t, <1>2, <2>1
  <1> QED BY <1>3

LEMMA AccountOpened ==
  ASSUME TypeInv, NEW r, NEW c \in Beam, OpenBeam(r, c)
  PROVE  \A b \in Beam : usage'[b].spsAdmitted = usage[b].spsAdmitted
  <1>1. usage \in [Beam -> Usage]
    BY DEF TypeInv, TypeOK
  <1>2. \A b \in Beam : \/ usage'[b] = usage[b]
                        \/ usage'[b] = ResetBeamAllocation(usage[b])
    BY <1>1 DEF OpenBeam
  <1>3. \A used \in Usage :
          ResetBeamAllocation(used).spsAdmitted = used.spsAdmitted
    BY DEF ResetBeamAllocation, Usage
  <1> QED BY <1>1, <1>2, <1>3

LEMMA AccountRaised ==
  ASSUME TypeInv, NEW u \in Ue, NEW size \in 1..SpsClassRbs, Activate(u, size)
  PROVE  /\ round.beam \in Beam /\ ~grants[u].active
         /\ usage'[round.beam].spsAdmitted = usage[round.beam].spsAdmitted + size
         /\ usage[round.beam].spsAdmitted + size <= SpsAdmitCapRbs
         /\ \A b \in Beam \ {round.beam} : usage'[b] = usage[b]
  <1>t. usage \in [Beam -> Usage] /\ round.beam \in Beam /\ size \in Nat
    BY ConstantTypes DEF TypeInv, TypeOK, BeamOpen, Activate, Activating
  <1>1. PICK rbgs : usage' = [usage EXCEPT ![round.beam] =
                                ClaimSpsRbgs(AdmitSpsGrant(@, size), rbgs)]
    BY DEF Activate
  <1>2. /\ usage'[round.beam]
             = ClaimSpsRbgs(AdmitSpsGrant(usage[round.beam], size), rbgs)
        /\ \A b \in Beam \ {round.beam} : usage'[b] = usage[b]
    BY <1>t, <1>1
  <1>3. AdmitSpsGrant(usage[round.beam], size) \in Usage
    BY <1>t DEF AdmitSpsGrant, Usage
  <1>4. \A used \in Usage : ClaimSpsRbgs(used, rbgs).spsAdmitted = used.spsAdmitted
    BY DEF ClaimSpsRbgs, Usage
  <1>5. AdmitSpsGrant(usage[round.beam], size).spsAdmitted
          = usage[round.beam].spsAdmitted + size
    BY <1>t DEF AdmitSpsGrant, Usage
  <1>6. /\ ~grants[u].active
        /\ usage[round.beam].spsAdmitted + size <= SpsAdmitCapRbs
    BY DEF Activate, Activatable, AdmitsSpsGrant
  <1> QED BY <1>t, <1>2, <1>3, <1>4, <1>5, <1>6

LEMMA AccountLowered ==
  ASSUME TypeInv, NEW u \in Ue, ReleaseDlSpsGrant(u), grants[u].beam \in Beam
  PROVE  LET b == grants[u].beam
             n == grants[u].rbgSize IN
         /\ usage'[b].spsAdmitted = IF usage[b].spsAdmitted > n
                                    THEN usage[b].spsAdmitted - n ELSE 0
         /\ \A c \in Beam \ {b} : usage'[c] = usage[c]
  <1>t. usage \in [Beam -> Usage]
    BY DEF TypeInv, TypeOK
  <1> DEFINE b == grants[u].beam
             n == grants[u].rbgSize
  <1>1. /\ usage'[b] = ReleaseSpsAdmission(usage[b], n)
        /\ \A c \in Beam \ {b} : usage'[c] = usage[c]
    BY <1>t DEF ReleaseDlSpsGrant
  <1>2. usage[b] \in Usage
    BY <1>t
  <1> HIDE DEF b, n
  <1>3. ReleaseSpsAdmission(usage[b], n).spsAdmitted
          = IF usage[b].spsAdmitted > n THEN usage[b].spsAdmitted - n ELSE 0
    BY <1>2 DEF ReleaseSpsAdmission, Usage
  <1>4. QED
    BY <1>1, <1>3 DEF b, n

LEMMA AdmittedActivate ==
  ASSUME TypeInv, TypeInv', AdmittedInv, NEW u \in Ue,
         NEW size \in 1..SpsClassRbs, Activate(u, size)
  PROVE  AdmittedInv'
  <1>b. PICK b \in Beam : b = round.beam
    BY AccountRaised
  <1>1. /\ grants'[u].active /\ grants'[u].beam = b
        /\ grants'[u].rbgSize = size
        /\ \A v \in Ue \ {u} : grants'[v] = grants[v]
    BY <1>b, ActivateEffect DEF Claiming
  <1>2. /\ ~grants[u].active
        /\ usage'[b].spsAdmitted = usage[b].spsAdmitted + size
        /\ usage[b].spsAdmitted + size <= SpsAdmitCapRbs
        /\ \A c \in Beam \ {b} : usage'[c] = usage[c]
    BY <1>b, AccountRaised
  <1>3. /\ \A v \in Ue : grants'[v].rbgSize \in Nat
        /\ \A c \in Beam : GrantsOf(c) \in SUBSET Ue /\ u \notin GrantsOf(c)
    BY <1>2, GrantTypes DEF GrantsOf, TypeInv, TypeOK, Grant
  <1>4. ASSUME NEW c \in Beam
        PROVE  Cardinality(Blocks(grants', GrantsOf(c)))
                 = Cardinality(Blocks(grants, GrantsOf(c)))
    <2>1. \A v \in GrantsOf(c) : grants'[v].rbgSize = grants[v].rbgSize
      BY <1>1, <1>3
    <2> QED BY <2>1, BlocksSame
  <1>5. /\ GrantsOf(b)' = GrantsOf(b) \cup {u}
        /\ \A c \in Beam \ {b} : GrantsOf(c)' = GrantsOf(c)
    BY <1>1, <1>2 DEF GrantsOf
  <1>6. Cardinality(Blocks(grants', GrantsOf(b) \cup {u}))
          = Cardinality(Blocks(grants', GrantsOf(b))) + size
    BY <1>1, <1>2, <1>3, BlocksMore
  <1>7. \A c \in Beam : Blocks(grants, GrantsOf(c))' = Blocks(grants', GrantsOf(c)')
    BY DEF Blocks
  <1>8. ASSUME NEW c \in Beam
        PROVE  /\ usage'[c].spsAdmitted = Cardinality(Blocks(grants, GrantsOf(c)))'
               /\ usage'[c].spsAdmitted <= SpsAdmitCapRbs
    <2>1. CASE c = b
      BY <1>2, <1>4, <1>5, <1>6, <1>7, <2>1 DEF AdmittedInv
    <2>2. CASE c # b
      BY <1>2, <1>4, <1>5, <1>7, <2>2 DEF AdmittedInv
    <2> QED BY <2>1, <2>2
  <1> QED BY <1>8 DEF AdmittedInv, SpsAdmitCapRbs

LEMMA AdmittedRelease ==
  ASSUME TypeInv, OnceInv, AdmittedInv, NEW u \in Ue, ReleaseDlSpsGrant(u)
  PROVE  AdmittedInv'
  <1>1. /\ grants'[u] = NoGrant
        /\ \A v \in Ue \ {u} : grants'[v] = grants[v]
        /\ round.stage = "reuse"
    BY ReleaseEffect
  <1>2. u \in round.toRelease
    BY ReleaseReleases
  <1>b. u \in GrantsOf(round.beam) /\ round.beam \in Beam
    <2>1. u \in GrantsOf(round.beam)
      BY <1>1, <1>2 DEF OnceInv, LoopSound
    <2>2. round.beam \in Beam
      BY <1>1 DEF TypeInv, BeamOpen
    <2> QED BY <2>1, <2>2
  <1>3. PICK b \in Beam, n \in Nat : b = grants[u].beam /\ n = grants[u].rbgSize
    BY <1>b, GrantTypes DEF GrantsOf
  <1>4. /\ usage'[b].spsAdmitted = IF usage[b].spsAdmitted > n
                                   THEN usage[b].spsAdmitted - n ELSE 0
        /\ \A c \in Beam \ {b} : usage'[c] = usage[c]
    BY <1>3, AccountLowered
  <1>5. /\ \A v \in Ue : grants[v].rbgSize \in Nat
        /\ \A c \in Beam : GrantsOf(c) \in SUBSET Ue
    BY GrantTypes DEF GrantsOf
  <1>6. /\ GrantsOf(b)' = GrantsOf(b) \ {u}
        /\ \A c \in Beam \ {b} : GrantsOf(c)' = GrantsOf(c)
        /\ \A c \in Beam : u \notin GrantsOf(c)'
    BY <1>1, <1>3 DEF GrantsOf, NoGrant
  <1>7. ASSUME NEW c \in Beam
        PROVE  Cardinality(Blocks(grants, GrantsOf(c)))'
                 = Cardinality(Blocks(grants, GrantsOf(c)'))
    <2>1. \A v \in GrantsOf(c)' : grants'[v].rbgSize = grants[v].rbgSize
      BY <1>1, <1>6 DEF GrantsOf
    <2>2. Blocks(grants', GrantsOf(c)') = Blocks(grants, GrantsOf(c)')
      BY <2>1, BlocksSame
    <2>3. Blocks(grants, GrantsOf(c))' = Blocks(grants', GrantsOf(c)')
      BY DEF Blocks
    <2> QED BY <2>2, <2>3
  <1>8. /\ Cardinality(Blocks(grants, GrantsOf(b)))
             = Cardinality(Blocks(grants, GrantsOf(b) \ {u})) + n
        /\ Cardinality(Blocks(grants, GrantsOf(b) \ {u})) \in Nat
    <2>1. /\ GrantsOf(b) \ {u} \in SUBSET Ue /\ u \in Ue \ (GrantsOf(b) \ {u})
          /\ (GrantsOf(b) \ {u}) \cup {u} = GrantsOf(b)
      BY <1>b, <1>3, <1>5 DEF GrantsOf
    <2>2. Cardinality(Blocks(grants, (GrantsOf(b) \ {u}) \cup {u}))
            = Cardinality(Blocks(grants, GrantsOf(b) \ {u})) + grants[u].rbgSize
      BY <1>5, <2>1, BlocksMore
    <2>3. Cardinality(Blocks(grants, GrantsOf(b) \ {u})) \in Nat
      BY <1>5, <2>1, BlocksFinite
    <2> QED BY <1>3, <2>1, <2>2, <2>3
  <1>9. ASSUME NEW c \in Beam
        PROVE  /\ usage'[c].spsAdmitted = Cardinality(Blocks(grants, GrantsOf(c)))'
               /\ usage'[c].spsAdmitted <= SpsAdmitCapRbs
    <2>1. CASE c = b
      <3> DEFINE K == Cardinality(Blocks(grants, GrantsOf(b) \ {u}))
      <3>1. Cardinality(Blocks(grants, GrantsOf(b)))' = K
        BY <1>6, <1>7
      <3>2. usage[b].spsAdmitted = K + n /\ K \in Nat
        BY <1>8 DEF AdmittedInv
      <3>3. K + n <= SpsAdmitCapRbs
        BY <3>2 DEF AdmittedInv
      <3> HIDE DEF K
      <3>4. usage'[b].spsAdmitted = K
        BY <1>4, <3>2
      <3>5. K <= SpsAdmitCapRbs
        BY <3>2, <3>3, CapType
      <3> QED BY <2>1, <3>1, <3>4, <3>5
    <2>2. CASE c # b
      BY <1>4, <1>6, <1>7, <2>2 DEF AdmittedInv
    <2> QED BY <2>1, <2>2
  <1> QED BY <1>9 DEF AdmittedInv, SpsAdmitCapRbs

LEMMA AdmittedStep ==
  TypeInv /\ OnceInv /\ AdmittedInv /\ [Next]_vars => AdmittedInv'
  <1> SUFFICES ASSUME TypeInv, OnceInv, AdmittedInv, [Next]_vars
               PROVE  AdmittedInv'
    OBVIOUS
  <1>t. TypeInv'
    BY TypeStep
  <1>1. CASE UNCHANGED <<grants, usage>>
    BY <1>1, AdmittedSame
  <1>2. CASE StartRound
    BY <1>2, AdmittedSame, AccountOpened, StartRoundEffect DEF SameGrant
  <1>3. ASSUME NEW u \in Ue, Skipping(u) PROVE AdmittedInv'
    BY <1>3, AdmittedSame, SkippingEffect DEF SameGrant
  <1>4. ASSUME NEW u \in Ue, Reuse(u) PROVE AdmittedInv'
    <2>1. \A v \in Ue : /\ grants'[v].active = grants[v].active
                        /\ grants'[v].beam = grants[v].beam
                        /\ grants'[v].rbgSize = grants[v].rbgSize
      BY <1>4, ReuseEffect DEF Claiming
    <2> QED BY <1>4, <2>1, AdmittedSame, AccountKept
  <1>5. ASSUME NEW u \in Ue, Schedule(u) PROVE AdmittedInv'
    BY <1>5, AdmittedSame, AccountKept, ScheduleEffect
  <1>6. CASE EndBeam
    BY <1>6, <1>1, AdmittedSame, AccountOpened DEF EndBeam, LaterBeams
  <1> QED BY <1>t, <1>1, <1>2, <1>3, <1>4, <1>5, <1>6, AdmittedActivate,
             AdmittedRelease, EnvironmentEffect, PassingEffect,
             EndActivateEffect, StepCases DEF vars

(* The admission account of a beam is the sum of the grants in it, and     *)
(* never above the overbooked capacity: a grant is accounted for when it   *)
(* is activated and taken off when it is released, in the beam it is in.   *)
THEOREM AdmittedIsSumCorrect == Spec => []AdmittedIsSum
  <1>1. Init => AdmittedInv
    <2> SUFFICES ASSUME Init, NEW b \in Beam
                 PROVE  /\ usage[b].spsAdmitted
                             = Cardinality(Blocks(grants, GrantsOf(b)))
                        /\ usage[b].spsAdmitted <= SpsAdmitCapRbs
      BY DEF AdmittedInv
    <2>1. GrantsOf(b) = {}
      BY DEF Init, GrantsOf, NoGrant
    <2>2. usage[b].spsAdmitted = 0
      BY DEF Init, Unused
    <2> QED BY <2>1, <2>2, BlocksNone, CapType
  <1>2. Init => OnceInv /\ FarBoundOnce
    <2> SUFFICES ASSUME Init PROVE OnceInv /\ FarBoundOnce
      OBVIOUS
    <2>1. 0 \notin SpsUe
      BY DlSchedulerAssumption
    <2>2. \A u \in Ue : ~grants[u].active /\ grants[u].partner = 0
      BY DEF Init, NoGrant
    <2>3. round.stage = "idle" /\ round.twice = {}
      BY DEF Init, IdleRound
    <2> QED BY <2>1, <2>2, <2>3 DEF OnceInv, SpsOnly, FarBoundOnce
  <1>3. TypeInv /\ AdmittedInv => AdmittedIsSum
    <2> SUFFICES ASSUME TypeInv, AdmittedInv, NEW b \in Beam
                 PROVE  usage[b].spsAdmitted =
                          MapThenSumSet(LAMBDA u : grants[u].rbgSize,
                                        GrantsOf(b))
      BY DEF AdmittedIsSum, AdmittedInv, GrantsOf
    <2>1. GrantsOf(b) \in SUBSET Ue /\ \A u \in GrantsOf(b) : grants[u].rbgSize \in Nat
      BY GrantTypes DEF GrantsOf
    <2>2. MapThenSumSet(LAMBDA u : grants[u].rbgSize, GrantsOf(b))
            = Cardinality(Blocks(grants, GrantsOf(b)))
      BY <2>1, SumIsBlocks
    <2> QED BY <2>2 DEF AdmittedInv
  <1> QED BY <1>1, <1>2, <1>3, TypeInit, TypeStep, FarBoundStep, OnceStep,
             AdmittedStep, PTL DEF Spec

=============================================================================
