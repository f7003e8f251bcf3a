---------------------------- MODULE DlScheduler ----------------------------
(***************************************************************************)
(* The downlink rounds of the gateway's scheduler in SPS_CONFIGURED mode   *)
(* (RunScheduler of model/geo-beam-scheduler.cc): reuse of configured      *)
(* grants, activation of new ones, and dynamic scheduling of whoever is    *)
(* left, with power-domain NOMA and with redirection to another beam.      *)
(*                                                                         *)
(* A round is one event of the simulator: while it runs only the next      *)
(* iteration of its loops is enabled.  An iteration is an action, so that  *)
(* each is as short as the loop body it stands for.  Buffers hold data or  *)
(* do not, and a grant may or may not empty one; admission control admits, *)
(* refuses or redirects at will; classes, weights, MCS and power are left  *)
(* out, as is HARQ, which has a module of its own.                         *)
(***************************************************************************)
EXTENDS Integers, FiniteSets, FiniteSetsExt, ResourceManager

CONSTANTS
  Ue,              (* The RNTIs.                                           *)
  SpsUe,           (* The UEs of a periodic class: IsSpsEligible.          *)
  SpsClassRbs,     (* GetSpsClassRbs, the most a configured grant takes.   *)
  Beam,            (* The beams the gateway serves.                        *)
  Cqi,             (* The channel qualities reports distinguish.           *)
  NomaMinCqiGap,   (* m_nomaMinCqiGap.                                     *)
  NomaMaxFar,      (* m_nomaMaxFar, 0 when dynamic NOMA is off.            *)
  PrachRbs,        (* m_prachReservedRbs.                                  *)
  SpsPeriod,       (* m_spsGrantPeriod, in rounds.                         *)
  Stagger,         (* m_spsStaggerEnabled.                                 *)
  ReleaseAfter,    (* m_spsImplicitReleaseAfter.                           *)
  Moves            (* Which of add, remove and handover occur.             *)

ASSUME DlSchedulerAssumption ==
  /\ Ue \subseteq Nat \ {0}
  /\ IsFiniteSet(Ue)
  /\ SpsUe \subseteq Ue
  /\ SpsClassRbs \in Nat \ {0}
  /\ Beam \subseteq Nat \ {0}
  /\ Cqi \subseteq Nat
  /\ {NomaMaxFar, PrachRbs} \subseteq Nat
  /\ {NomaMinCqiGap, SpsPeriod, ReleaseAfter} \subseteq Nat \ {0}
  /\ Stagger \in BOOLEAN
  /\ Moves \subseteq {"add", "remove", "handover"}

VARIABLES
  ue,        (* m_ueContextMap                                             *)
  grants,    (* m_dlSpsGrants                                              *)
  usage,     (* m_beamUsageMap, downlink                                   *)
  round      (* the locals of RunScheduler                                 *)

vars == <<ue, grants, usage, round>>

(* A UE's context exists or not; a missing one is in no beam.              *)
Context == [beam : {0} \cup Beam, hasData : BOOLEAN, cqi : Cqi]

(* `next` is the number of rounds until the grant is due.  The bitmap of a *)
(* grant is claimed anew before each use: see round.claimed.               *)
Grant == [active : BOOLEAN, beam : {0} \cup Beam, rbgSize : Nat, next : Nat,
          emptyTx : Nat, conflict : Nat, partner : {0} \cup Ue]

NoGrant == [active |-> FALSE, beam |-> 0, rbgSize |-> 0, next |-> 0,
            emptyTx |-> 0, conflict |-> 0, partner |-> 0]

(* `served` is spsServed, `far` maps a dynamically scheduled UE to the UEs *)
(* to overlay on it, `redirects` those to move to their next beam.  Two    *)
(* histories: the slots `claimed` in this beam and the UEs `granted` a     *)
(* transmission in this round, and `twice` those granted a second one.     *)
Round == [stage : {"idle", "reuse", "activate", "dynamic"},
          beam : {0} \cup Beam,
          todo : SUBSET Ue,
          served : SUBSET Ue,
          toRelease : SUBSET Ue,
          available : Nat,
          far : [Ue -> SUBSET Ue],
          redirects : [Ue -> {0} \cup Beam],
          claimed : [Ue -> SUBSET Slot],
          granted : SUBSET Ue,
          twice : SUBSET Ue]

NoFar == [u \in Ue |-> {}]
NoRedirects == [u \in Ue |-> 0]
NoClaims == [u \in Ue |-> {}]

IdleRound ==
  [stage |-> "idle", beam |-> 0, todo |-> {}, served |-> {}, toRelease |-> {},
   available |-> 0, far |-> NoFar, redirects |-> NoRedirects,
   claimed |-> NoClaims, granted |-> {}, twice |-> {}]

Init ==
  /\ ue \in [Ue -> [beam : Beam, hasData : {FALSE}, cqi : Cqi]]
  /\ grants = [u \in Ue |-> NoGrant]
  /\ usage = [b \in Beam |-> Unused]
  /\ round = IdleRound

UesOf(b) == {u \in Ue : ue[u].beam = b}     (* m_beamToUesMap *)

GrantsOf(b) == {u \in Ue : grants[u].active /\ grants[u].beam = b}

(* The history of a round after `who` got a transmission.                  *)
Granting(r, who) ==
  [r EXCEPT !.granted = @ \cup who, !.twice = @ \cup (r.granted \cap who)]

-----------------------------------------------------------------------------
(* Between rounds.                                                         *)

Idle == round.stage = "idle"

UpdateUeDlBufferStatus(u) ==
  /\ Idle
  /\ ue[u].beam # 0
  /\ ue' = [ue EXCEPT ![u].hasData = ~@]
  /\ UNCHANGED <<grants, usage, round>>

UpdateUeDlCqi(u) ==
  /\ Idle
  /\ ue[u].beam # 0
  /\ \E cqi \in Cqi \ {ue[u].cqi} : ue' = [ue EXCEPT ![u].cqi = cqi]
  /\ UNCHANGED <<grants, usage, round>>

(* AddUeContext and AddUeInfo.                                             *)
AddUe(u) ==
  /\ Idle
  /\ "add" \in Moves
  /\ ue[u].beam = 0
  /\ \E b \in Beam : ue' = [ue EXCEPT ![u].beam = b]
  /\ UNCHANGED <<grants, usage, round>>

(* The UE leaves for the ground network.  Its grant stays.                 *)
RemoveUt(u) ==
  /\ Idle
  /\ "remove" \in Moves
  /\ ue[u].beam # 0
  /\ ue' = [ue EXCEPT ![u].beam = 0, ![u].hasData = FALSE]
  /\ UNCHANGED <<grants, usage, round>>

ExecuteHandover(u) ==
  /\ Idle
  /\ "handover" \in Moves
  /\ ue[u].beam # 0
  /\ \E b \in Beam \ {ue[u].beam} : ue' = [ue EXCEPT ![u].beam = b]
  /\ UNCHANGED <<grants, usage, round>>

-----------------------------------------------------------------------------
(* A round visits the beams in ascending order.                            *)

IsLeast(x, S) == x \in S /\ \A y \in S : x <= y

EnterBeam(r, b) ==
  [r EXCEPT !.stage = "reuse", !.beam = b, !.todo = GrantsOf(b),
            !.served = {}, !.toRelease = {}, !.available = 0,
            !.far = NoFar, !.redirects = NoRedirects, !.claimed = NoClaims]

OpenBeam(r, b) ==
  /\ round' = EnterBeam(r, b)
  /\ usage' = [usage EXCEPT ![b] = ResetBeamAllocation(@)]

StartRound ==
  /\ Idle
  /\ \E b \in Beam : IsLeast(b, Beam) /\ OpenBeam(IdleRound, b)
  /\ grants' = [u \in Ue |->
       [grants[u] EXCEPT !.next = IF @ > 0 THEN @ - 1 ELSE 0]]
  /\ UNCHANGED ue

(* First serve the grants that are due, in the order of their RNTIs.       *)

Due(u) ==
  /\ round.stage = "reuse"
  /\ IsLeast(u, round.todo)
  /\ ue[u].beam # 0
  /\ grants[u].next = 0

(* Handling one UE of a loop.                                              *)
Handled(r, u) == [r EXCEPT !.todo = @ \ {u}]

(* A holder is served, so that dynamic scheduling passes it over.          *)
Holding(u) == [Handled(round, u) EXCEPT !.served = @ \cup {u}]

SkipGone(u) ==
  /\ round.stage = "reuse"
  /\ IsLeast(u, round.todo)
  /\ ue[u].beam = 0
  /\ round' = [Handled(round, u) EXCEPT !.toRelease = @ \cup {u}]
  /\ UNCHANGED <<ue, grants, usage>>

SkipNotDue(u) ==
  /\ round.stage = "reuse"
  /\ IsLeast(u, round.todo)
  /\ ue[u].beam # 0
  /\ grants[u].next > 0
  /\ round' = Holding(u)
  /\ UNCHANGED <<ue, grants, usage>>

ReleasedAt(r, u, count) ==
  [r EXCEPT !.toRelease = IF count >= ReleaseAfter THEN @ \cup {u} ELSE @]

(* Faulty variant: an empty occasion forgets the conflicts counted so far. *)
SkipEmptyForgiving(u) ==
  /\ Due(u)
  /\ ~ue[u].hasData
  /\ grants' = [grants EXCEPT ![u].next = SpsPeriod, ![u].emptyTx = @ + 1,
                              ![u].conflict = 0]
  /\ round' = ReleasedAt(Holding(u), u, grants'[u].emptyTx)
  /\ UNCHANGED <<ue, usage>>

SkipEmpty(u) ==
  /\ Due(u)
  /\ ~ue[u].hasData
  /\ grants' = [grants EXCEPT ![u].next = SpsPeriod, ![u].emptyTx = @ + 1]
  /\ round' = ReleasedAt(Holding(u), u, grants'[u].emptyTx)
  /\ UNCHANGED <<ue, usage>>

ClaimsOf(u) == Claims(usage[round.beam], grants[u].rbgSize)

SkipConflict(u) ==
  /\ Due(u)
  /\ ue[u].hasData
  /\ ClaimsOf(u) = {}
  /\ grants' = [grants EXCEPT ![u].next = SpsPeriod, ![u].emptyTx = 0,
                              ![u].conflict = @ + 1]
  /\ round' = ReleasedAt(Holding(u), u, grants'[u].conflict)
  /\ UNCHANGED <<ue, usage>>

HasGap(near, far) == ue[near].cqi - ue[far].cqi >= NomaMinCqiGap

BoundFar == {grants[u].partner : u \in Ue} \ {0}

(* FindSpsNomaFar: a UE of the beam with the worst channel.                *)
FarCandidates(b, near, exclude) ==
  {far \in (UesOf(b) \ SpsUe) \ (exclude \cup BoundFar) :
     ue[far].hasData /\ HasGap(near, far)}

FindSpsNomaFar(b, near, exclude) ==
  LET candidates == FarCandidates(b, near, exclude)
      worst == {far \in candidates :
                  \A other \in candidates : ue[far].cqi <= ue[other].cqi}
  IN  IF worst = {} THEN {0} ELSE worst

(* The partner overlaid on a grant of beam b this time.                    *)
Overlaid(partner, b) ==
  {far \in {partner} \cap Ue : ue[far].beam = b /\ ue[far].hasData}

(* A transmission may leave data in the buffer.                            *)
Drain(who) ==
  \E emptied \in SUBSET who :
    ue' = [u \in Ue |-> IF u \in emptied
                        THEN [ue[u] EXCEPT !.hasData = FALSE] ELSE ue[u]]

(* Faulty variant: the far UE of the pair is not marked as served.        *)
ServedAlone(r, u, far, rbgs) ==
  Granting([r EXCEPT !.served = @ \cup {u}, !.claimed[u] = rbgs],
           {u} \cup far)

ServedWith(r, u, far, rbgs) ==
  Granting([r EXCEPT !.served = @ \cup {u} \cup far, !.claimed[u] = rbgs],
           {u} \cup far)

(* MaybeRepairSpsNomaPair, called at every m_nomaRepairPeriod-th reuse:    *)
(* the grant may keep its partner, and changes it only if the pair is no   *)
(* longer valid.  A UE whose buffer this reuse emptied is no candidate.    *)
PartnerValid(u) ==
  LET far == grants[u].partner IN
  /\ far # 0
  /\ ue[far].beam = grants[u].beam
  /\ HasGap(u, far)

Repaired(u, served) ==
  {grants[u].partner} \cup
  IF PartnerValid(u) THEN {} ELSE FindSpsNomaFar(grants[u].beam, u, served)

Reuse(u) ==
  LET far == Overlaid(grants[u].partner, grants[u].beam) IN
  /\ Due(u)
  /\ ue[u].hasData
  /\ \E rbgs \in ClaimsOf(u) :
       /\ usage' = [usage EXCEPT ![round.beam] = ClaimSpsRbgs(@, rbgs)]
       /\ round' = ServedWith(Handled(round, u), u, far, rbgs)
  /\ \E partner \in Repaired(u, round.served \cup {u} \cup far) :
       grants' = [grants EXCEPT ![u].next = SpsPeriod, ![u].emptyTx = 0,
                                ![u].conflict = 0, ![u].partner = partner]
  /\ Drain({u} \cup far)

(* What the loop found empty, gone or in conflict.                         *)
ReleaseDlSpsGrant(u) ==
  /\ round.stage = "reuse"
  /\ round.todo = {}
  /\ u \in round.toRelease
  /\ grants' = [grants EXCEPT ![u] = NoGrant]
  /\ usage' = [usage EXCEPT ![grants[u].beam] =
                 ReleaseSpsAdmission(@, grants[u].rbgSize)]
  /\ round' = [round EXCEPT !.toRelease = @ \ {u}]
  /\ UNCHANGED ue

EndReuse ==
  /\ round.stage = "reuse"
  /\ round.todo = {}
  /\ round.toRelease = {}
  /\ round' = [round EXCEPT !.stage = "activate",
       !.todo = (UesOf(round.beam) \cap SpsUe) \ round.served]
  /\ UNCHANGED <<ue, grants, usage>>

-----------------------------------------------------------------------------
(* Then give eligible UEs a grant, in the order of the admission queue.    *)

Activating(u) == round.stage = "activate" /\ u \in round.todo

(* Faulty variant: a grant left in another beam is overwritten.            *)
ActivatableAgain(u) == ue[u].hasData

Activatable(u) == ~grants[u].active /\ ue[u].hasData

SkipActivation(u) ==
  /\ Activating(u)
  /\ ~Activatable(u)
  /\ round' = Handled(round, u)
  /\ UNCHANGED <<ue, grants, usage>>

(* Refused by the account, or admitted and revoked for want of slots.      *)
RefuseActivation(u, size) ==
  /\ Activating(u)
  /\ Activatable(u)
  /\ \/ ~AdmitsSpsGrant(usage[round.beam], size)
     \/ Claims(usage[round.beam], size) = {}
  /\ round' = Handled(round, u)
  /\ UNCHANGED <<ue, grants, usage>>

(* Where in its period a UE's grant falls: a stable offset per UE, for     *)
(* which the code hashes the RNTI.                                         *)
Phase(u) == IF Stagger THEN u % SpsPeriod ELSE 0

Activate(u, size) ==
  LET b == round.beam IN
  /\ Activating(u)
  /\ Activatable(u)
  /\ AdmitsSpsGrant(usage[b], size)
  /\ \E rbgs \in Claims(usage[b], size), partner \in FindSpsNomaFar(b, u, round.served) :
       /\ usage' = [usage EXCEPT ![b] =
                      ClaimSpsRbgs(AdmitSpsGrant(@, size), rbgs)]
       /\ grants' = [grants EXCEPT ![u] =
            [active |-> TRUE, beam |-> b, rbgSize |-> size,
             next |-> SpsPeriod + Phase(u), emptyTx |-> 0, conflict |-> 0,
             partner |-> partner]]
       /\ round' = ServedWith(Handled(round, u), u, Overlaid(partner, b), rbgs)
       /\ Drain({u} \cup Overlaid(partner, b))

-----------------------------------------------------------------------------
(* Then schedule the others dynamically, outside the PRACH's blocks.       *)

(* BuildNomaPairs sorts the candidates by channel and overlays the weakest *)
(* on the strongest.  Here: any disjoint groups with the gap of channels.  *)
NomaPairings(candidates) ==
  {pairing \in [Ue -> SUBSET candidates] :
     \A near \in Ue :
       /\ pairing[near] # {} => near \in candidates
       /\ Cardinality(pairing[near]) <= NomaMaxFar
       /\ \A far \in pairing[near] : HasGap(near, far) /\ pairing[far] = {}
       /\ \A other \in Ue \ {near} : pairing[near] \cap pairing[other] = {}}

(* Faulty variant: the blocks kept for random access are not set aside.   *)
AvailableAll(remaining) == remaining

AvailableRbs(remaining) == IF remaining > PrachRbs THEN remaining - PrachRbs ELSE 0

EndActivate ==
  LET rest == {u \in UesOf(round.beam) \ round.served : ue[u].hasData} IN
  /\ round.stage = "activate"
  /\ round.todo = {}
  /\ \E pairing \in NomaPairings(rest) :
       round' = [round EXCEPT !.stage = "dynamic",
         !.todo = rest \ UNION {pairing[near] : near \in Ue},
         !.far = pairing,
         !.available = AvailableRbs(RemainingRbs(usage[round.beam]))]
  /\ UNCHANGED <<ue, grants, usage>>

Scheduling(u) == round.stage = "dynamic" /\ u \in round.todo

(* Queued or refused by admission control, or no HARQ process, or no RBs.  *)
Defer(u) ==
  /\ Scheduling(u)
  /\ round' = Handled(round, u)
  /\ UNCHANGED <<ue, grants, usage>>

Redirect(u) ==
  /\ Scheduling(u)
  /\ \E b \in Beam \ {round.beam} :
       round' = [Handled(round, u) EXCEPT !.redirects[u] = b]
  /\ UNCHANGED <<ue, grants, usage>>

Schedule(u) ==
  /\ Scheduling(u)
  /\ \E requested \in 1..round.available :
       LET approved == ApprovedRbs(usage[round.beam], requested) IN
       /\ approved > 0
       /\ usage' = [usage EXCEPT ![round.beam] = AllocateSpectrum(@, requested)]
       /\ round' = Granting([Handled(round, u) EXCEPT !.available = @ - approved],
                            {u} \cup round.far[u])
  /\ Drain({u} \cup round.far[u])
  /\ UNCHANGED grants

(* Redirections are executed when the beam's queues are done; a UE moved   *)
(* to a later beam is scheduled there in the same round.                   *)
Redirected ==
  [u \in Ue |-> IF round.redirects[u] # 0
                THEN [ue[u] EXCEPT !.beam = round.redirects[u]] ELSE ue[u]]

LaterBeams == {b \in Beam : b > round.beam}

EndBeam ==
  /\ round.stage = "dynamic"
  /\ round.todo = {}
  /\ ue' = Redirected
  /\ UNCHANGED grants
  /\ \/ /\ LaterBeams = {}
        /\ round' = IdleRound
        /\ UNCHANGED usage
     \/ \E b \in LaterBeams : IsLeast(b, LaterBeams) /\ OpenBeam(round, b)

-----------------------------------------------------------------------------
ReuseStep ==
  \/ \E u \in Ue : \/ SkipGone(u) \/ SkipNotDue(u) \/ SkipEmpty(u)
                   \/ SkipConflict(u) \/ Reuse(u) \/ ReleaseDlSpsGrant(u)
  \/ EndReuse

ActivateStep ==
  \/ \E u \in Ue : \/ SkipActivation(u)
                   \/ \E size \in 1..SpsClassRbs :
                        RefuseActivation(u, size) \/ Activate(u, size)
  \/ EndActivate

DynamicStep ==
  \/ \E u \in Ue : Defer(u) \/ Redirect(u) \/ Schedule(u)
  \/ EndBeam

RunScheduler == StartRound \/ ReuseStep \/ ActivateStep \/ DynamicStep

Next ==
  \/ \E u \in Ue : \/ UpdateUeDlBufferStatus(u) \/ UpdateUeDlCqi(u)
                   \/ AddUe(u) \/ RemoveUt(u) \/ ExecuteHandover(u)
  \/ RunScheduler

Spec == Init /\ [][Next]_vars

(* The gateway triggers a round in every slot, and a round runs to its end.*)
FairSpec == Spec /\ WF_vars(RunScheduler)

-----------------------------------------------------------------------------
(* PROPERTIES.                                                             *)

TypeOK ==
  /\ ue \in [Ue -> Context]
  /\ grants \in [Ue -> Grant]
  /\ usage \in [Beam -> Usage]
  /\ round \in Round

(* The admission account of a beam is the sum of its grants, whatever was  *)
(* activated, refused, revoked, left behind by a handover or released, and *)
(* never more than the overbooked capacity.                                *)
AdmittedIsSum ==
  \A b \in Beam :
    /\ usage[b].spsAdmitted =
         MapThenSumSet(LAMBDA u : grants[u].rbgSize,
                       {u \in Ue : grants[u].active /\ grants[u].beam = b})
    /\ usage[b].spsAdmitted <= SpsAdmitCapRbs

(* However much the region is overbooked, no two UEs transmit on the same  *)
(* SPS slot in a round, and each gets as many as its grant says.           *)
SlotsExclusive ==
  /\ \A u, v \in Ue : u # v => round.claimed[u] \cap round.claimed[v] = {}
  /\ \A u \in Ue : round.claimed[u] # {} =>
       /\ round.claimed[u] \subseteq usage[round.beam].spsBusy
       /\ grants[u].active =>
            Cardinality(round.claimed[u]) = grants[u].rbgSize

(* Dynamic scheduling never touches the blocks reserved for the PRACH: it  *)
(* uses no more than the SPS claims leave of the rest of the budget.       *)
PrachKept ==
  \A b \in Beam :
    /\ usage[b].used <= BudgetRbs
    /\ usage[b].used > Cardinality(usage[b].spsBusy) =>
         usage[b].used + PrachRbs <= BudgetRbs

(* A UE gets at most one transmission in a round: as the holder of a       *)
(* grant, as the far UE overlaid on one, or dynamically, in one beam.  The *)
(* exceptions are the UEs that have left a grant behind in another beam.   *)
GrantedOnce ==
  \A u \in round.twice : grants[u].active /\ grants[u].beam # ue[u].beam

(* The comment in ScheduleDlSpsReuse: a UE that holds a configured grant   *)
(* never goes through dynamic scheduling, be its grant due or not.         *)
HolderNeverDynamic ==
  round.stage = "dynamic" => \A u \in round.todo : ~grants[u].active

(* A far UE is bound to one configured grant at most.                      *)
FarBoundOnce ==
  \A u, v \in Ue :
    (u # v /\ grants[u].partner # 0) => grants[u].partner # grants[v].partner

(* A grant in conflict does not stay so: it gets its slots in some round   *)
(* or is released, even if its buffer runs empty every now and then.       *)
ConflictsEnd ==
  \A u \in Ue :
    (grants[u].conflict > 0) ~> (round.claimed[u] # {} \/ ~grants[u].active)

=============================================================================
