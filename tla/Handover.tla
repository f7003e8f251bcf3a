------------------------------- MODULE Handover -------------------------------
(***************************************************************************)
(* Handover as the gateway does it: the gateway's RRC                      *)
(* (model/ntn-gw-rrc.cc) with its record of the serving object of each UE, *)
(* the contexts and the lists of UEs per beam of the scheduler             *)
(* (model/geo-beam-scheduler.cc) and the registrations of admission        *)
(* control.  The UEs are those of UeReporting, which UtRrc implements.     *)
(*                                                                         *)
(* Which RBs remain of a beam, and how many a UE needs, may be anything    *)
(* whenever admission control is asked.  Asking it for a beam may make it  *)
(* balance the load: it then has the scheduler move UEs to other beams,    *)
(* past the RRCs.  So does the scheduler by itself when a round finds no   *)
(* room for a UE in its beam.                                              *)
(***************************************************************************)
EXTENDS UeReporting, AdmitControl

CONSTANT
  MaxHandovers     (* Bound: handovers and moves executed.                 *)

ASSUME HandoverAssumption ==
  /\ IsFiniteSet(Ue) /\ IsFiniteSet(Beam)
  /\ MaxHandovers \in Nat

VARIABLES
  ueServingObject,   (* m_ueServingObjectMap, 0 for no entry               *)
  groundAvailable,   (* m_groundAvailability, both RRC and admission       *)
  scheduler,         (* contexts of the UEs and lists of the beams         *)
  account,           (* registrations of admission control                 *)
  moved,             (* UEs moved past the RRC since their last handover   *)
  handovers,         (* handovers and moves executed so far                *)
  endless            (* a rebalancing has begun that does not end          *)

gatewayVars ==
  <<ueServingObject, groundAvailable, scheduler, account, moved, handovers, endless>>
vars == <<reportingVars, gatewayVars>>

(* known: the UEs with a context; beam: its currentBeamId; ues: how often a *)
(* beam's list holds a UE.                                                 *)
Scheduler ==
  [known : SUBSET Ue, beam : [Ue -> Beam \cup {0}], ues : [Beam -> [Ue -> Nat]]]

HandoverInit ==
  /\ Init
  /\ ueServingObject = [u \in Ue |-> 0]
  /\ groundAvailable = [g \in Ground |-> TRUE]
  /\ scheduler = [known |-> {}, beam |-> [u \in Ue |-> 0],
                  ues |-> [b \in Beam |-> [u \in Ue |-> 0]]]
  /\ account = EmptyAccount
  /\ moved = {}
  /\ handovers = 0
  /\ endless = FALSE

-----------------------------------------------------------------------------
(* The scheduler and the registrations it makes, on a record of all that   *)
(* the gateway keeps of the UEs.                                           *)

Gateway == [scheduler |-> scheduler, account |-> account, serving |-> ueServingObject]

AddUeContext(gw, u) ==
  IF u \in gw.scheduler.known
  THEN gw
  ELSE [gw EXCEPT !.scheduler.known = @ \cup {u}, !.scheduler.beam[u] = 0]

(* The RNTI is appended to the list of the beam. *)
AddUeInfo(gw, u, b) ==
  [gw EXCEPT !.scheduler.known = @ \cup {u},
             !.scheduler.beam[u] = b,
             !.scheduler.ues[b][u] = @ + 1,
             !.account = RegisterUeToBeam(@, u, b)]

(* All entries of the UE in its beam's list go, and its context. *)
RemoveUt(gw, u) ==
  LET beam == gw.scheduler.beam[u]
  IN [gw EXCEPT !.scheduler.known = @ \ {u},
                !.scheduler.beam[u] = 0,
                !.scheduler.ues = [b \in Beam |-> IF b = beam THEN [@[b] EXCEPT ![u] = 0]
                                                  ELSE @[b]],
                !.account = UnregisterUeFromBeam(@, u, beam)]

(* ExportUeContext and ImportUeContext. *)
MoveUe(gw, u, b) == AddUeInfo(RemoveUt(gw, u), u, b)

(* The scheduler moves several UEs.  The RRC is not told and keeps its     *)
(* record.                                                                 *)
Rebalanced(gw, move) ==
  LET balanced == FoldSet(LAMBDA u, g : MoveUe(g, u, move[u]), gw, DOMAIN move)
  IN [gw EXCEPT !.scheduler = balanced.scheduler, !.account = balanced.account]

-----------------------------------------------------------------------------
(* What the gateway's RRC does with a report.                              *)

(* Without a context the UE gets one where it says it is served, and is    *)
(* registered there; with one the RRC's record follows the report.         *)
EnsureUeContextFromReport(gw, u, report) ==
  LET served == [gw EXCEPT !.serving[u] = report.from]
  IN IF u \in gw.scheduler.known
     THEN served
     ELSE IF report.from \in Beam
     THEN AddUeInfo(AddUeContext(served, u), u, report.from)
     ELSE [AddUeContext(served, u) EXCEPT !.account = RegisterUeToGround(@, u, report.from)]

(* The UE is unregistered from the reported source and registered to the   *)
(* target once more.                                                       *)
ExecuteBeamHandover(gw, u, report) ==
  [MoveUe(gw, u, report.to) EXCEPT
     !.serving[u] = report.to,
     !.account = RegisterUeToBeam(UnregisterUeFromBeam(@, u, report.from), u, report.to)]

ExecuteGroundToSatHandover(gw, u, report) ==
  LET left == [gw EXCEPT !.account = UnregisterUeFromGround(@, u, report.from)]
  IN [AddUeInfo(left, u, report.to) EXCEPT
        !.serving[u] = report.to,
        !.account = RegisterUeToBeam(@, u, report.to)]

(* The context is exported and erased. *)
ExecuteSatToGroundHandover(gw, u, report) ==
  [RemoveUt(gw, u) EXCEPT
     !.serving[u] = report.to,
     !.account = RegisterUeToGround(@, u, report.to)]

ExecuteHandover(gw, u, report) ==
  IF report.to \in Ground
  THEN ExecuteSatToGroundHandover(gw, u, report)
  ELSE IF report.from \in Ground
  THEN ExecuteGroundToSatHandover(gw, u, report)
  ELSE ExecuteBeamHandover(gw, u, report)

(* 0 for a UE that is not on record. *)
GetServingObjectForUe(gw, u) == gw.serving[u]

(* Faulty variant: the scheduler is asked where the UE is served. *)
AnswerOfScheduler(gw, u, report) ==
  IF gw.scheduler.beam[u] = report.to THEN Command(report.from, report.to) ELSE Nothing

(* A command goes out if the UE is on record with the object reported. *)
AnswerTo(gw, u, report) ==
  IF GetServingObjectForUe(gw, u) = report.to THEN Command(report.from, report.to) ELSE Nothing

(* What DecideHandoverTarget may make of a report, for all that may remain *)
(* of the beams and be needed by the UEs.  From ground to ground there is  *)
(* no path.                                                                *)
Decisions(gw, u, report) ==
  IF report.to \in Ground
  THEN {[admit |-> /\ report.from \in Beam
                   /\ CanAdmitGroundUe(gw.account, groundAvailable, report.to),
         move |-> <<>>, returns |-> TRUE]}
  ELSE UNION {CanHandoverUe(gw.account, remaining, rbs, report.from, report.to, u, asked) :
                remaining \in [Beam -> RemainingRbs],
                rbs \in Requests,
                asked \in EstimateRequiredRbs(u)}

Executed(decision) ==
  Cardinality(DOMAIN decision.move) + (IF decision.admit THEN 1 ELSE 0)

(* A report arrives, is decided upon and answered. *)
ReceiveMeasReport(u) ==
  LET report == flight[u]
      ensured == EnsureUeContextFromReport(Gateway, u, report)
  IN /\ report.kind = "report"
     /\ \E decision \in Decisions(ensured, u, report) :
          LET balanced == Rebalanced(ensured, decision.move)
              gw == IF decision.admit THEN ExecuteHandover(balanced, u, report) ELSE balanced
          IN /\ decision.returns
             /\ handovers + Executed(decision) <= MaxHandovers
             /\ handovers' = handovers + Executed(decision)
             /\ scheduler' = gw.scheduler
             /\ account' = gw.account
             /\ ueServingObject' = gw.serving
             /\ moved' = (moved \cup DOMAIN decision.move) \ (IF decision.admit THEN {u} ELSE {})
             /\ flight' = [flight EXCEPT ![u] = AnswerTo(gw, u, report)]
     /\ UNCHANGED <<serving, pending, groundAvailable, endless>>

(* A report arrives and sets off a rebalancing that does not end. *)
RebalanceForEver(u) ==
  /\ flight[u].kind = "report"
  /\ \E decision \in Decisions(EnsureUeContextFromReport(Gateway, u, flight[u]), u, flight[u]) :
       ~decision.returns
  /\ endless' = TRUE
  /\ UNCHANGED <<reportingVars, ueServingObject, groundAvailable, scheduler, account, moved,
                 handovers>>

(* The redirections of a round in beam `b`: each UE of its list with data    *)
(* may be sent elsewhere, as admission control finds the beams when its    *)
(* turn comes; they are moved together when the beam's round is over.      *)
Redirections(b) ==
  LET listed == {u \in Ue : scheduler.ues[b][u] > 0}
      Target(u) == UNION {RedirectTargets(account, remaining, b, u, rbs) :
                            remaining \in [Beam -> RemainingRbs], rbs \in EstimateRequiredRbs(u)}
  IN UNION {{move \in [movers -> Beam] : \A u \in movers : move[u] \in Target(u)} :
              movers \in SUBSET listed \ {{}}}

RunScheduler(b) ==
  /\ \E move \in Redirections(b) :
       LET gw == Rebalanced(Gateway, move)
       IN /\ handovers + Cardinality(DOMAIN move) <= MaxHandovers
          /\ handovers' = handovers + Cardinality(DOMAIN move)
          /\ scheduler' = gw.scheduler
          /\ account' = gw.account
          /\ moved' = moved \cup DOMAIN move
  /\ UNCHANGED <<reportingVars, ueServingObject, groundAvailable, endless>>

(* The scenario gives a UE a context in the beam that serves it. *)
Attach(u) ==
  /\ serving[u] \in Beam /\ u \notin scheduler.known /\ ueServingObject[u] = 0
  /\ LET gw == AddUeInfo(AddUeContext(Gateway, u), u, serving[u])
     IN scheduler' = gw.scheduler /\ account' = gw.account
  /\ UNCHANGED <<reportingVars, ueServingObject, groundAvailable, moved, handovers,
                 endless>>

SetGroundAvailability(g) ==
  /\ groundAvailable' = [groundAvailable EXCEPT ![g] = ~@]
  /\ UNCHANGED <<reportingVars, ueServingObject, scheduler, account, moved, handovers, endless>>

-----------------------------------------------------------------------------

(* What a UE does by itself. *)
UeStep(u) ==
  /\ \/ \E o \in Object : Adopt(u, o) \/ SendReport(u, o)
     \/ Reconfigure(u)
     \/ GiveUp(u)
  /\ UNCHANGED gatewayVars

HandoverNext ==
  \/ /\ ~endless
     /\ \/ \E u \in Ue :
            UeStep(u) \/ ReceiveMeasReport(u) \/ RebalanceForEver(u) \/ Attach(u)
        \/ \E b \in Beam : RunScheduler(b)
        \/ \E g \in Ground : SetGroundAvailability(g)
  \/ endless /\ UNCHANGED vars

HandoverSpec == HandoverInit /\ [][HandoverNext]_vars

-----------------------------------------------------------------------------
(* Properties.                                                             *)

(* The variables have the values their C++ types and roles allow. *)
TypeOK ==
  /\ serving \in [Ue -> Object \cup {0}]
  /\ pending \in [Ue -> BOOLEAN]
  /\ flight \in [Ue -> Message]
  /\ ueServingObject \in [Ue -> Object \cup {0}]
  /\ groundAvailable \in [Ground -> BOOLEAN]
  /\ scheduler \in Scheduler
  /\ account \in Account
  /\ moved \subseteq Ue
  /\ handovers \in Nat
  /\ endless \in BOOLEAN

(* The list of a beam holds the UEs whose context is in the beam, each     *)
(* once: a UE listed twice would be scheduled twice in a round.            *)
ListedOnce ==
  \A u \in Ue, b \in Beam :
    scheduler.ues[b][u] = (IF u \in scheduler.known /\ scheduler.beam[u] = b THEN 1 ELSE 0)

(* Admission control has a UE registered to the beam of its context. *)
RegisteredWhereServed ==
  \A u \in Ue, b \in Beam :
    account.place[u] = b <=> u \in scheduler.known /\ scheduler.beam[u] = b

(* A UE that was not moved past the RRC has its context where the gateway's *)
(* RRC has it on record, and in no beam if that is a ground cell.          *)
ServedWhereRecorded ==
  \A u \in Ue \ moved :
    ueServingObject[u] # 0 =>
      scheduler.beam[u] = (IF ueServingObject[u] \in Beam THEN ueServingObject[u] ELSE 0)

(* The scheduler's contexts and lists, the registrations of admission      *)
(* control and the RRC's record agree on where a UE is, through handovers  *)
(* in every direction, load balancing and redirections; for a UE that one  *)
(* of the latter moved past the RRC, all but the RRC's record agree.       *)
ContextsAgree == ListedOnce /\ RegisteredWhereServed /\ ServedWhereRecorded

(* While no command is under way the gateway's record of the serving       *)
(* object is the UE's own: no report is so old that it puts back what a    *)
(* handover has changed.                                                   *)
RecordAgrees ==
  \A u \in Ue :
    ueServingObject[u] # 0 =>
      \/ flight[u].kind # "command" /\ ueServingObject[u] = serving[u]
      \/ flight[u].kind = "command" /\ ueServingObject[u] = flight[u].to

(* All who know where a UE is know the same, but for the UEs moved past the *)
(* RRC, of which the RRC and the UE keep another idea than the scheduler.  *)
RecordsAgree == ContextsAgree /\ RecordAgrees

(* What the beams of an account count together, as many as the sum of the  *)
(* counts.                                                                 *)
Counted(of) == UNION {{b} \X (1..of.active[b]) : b \in Beam}

(* No registration is missing from the counts: the beams together count at *)
(* least the UEs registered to beams, a ground cell those registered to    *)
(* it, although a handover between beams unregisters and registers twice.  *)
CountsCover ==
  /\ Cardinality({u \in Ue : account.place[u] \in Beam}) <= Cardinality(Counted(account))
  /\ \A g \in Ground : Cardinality({u \in Ue : account.place[u] = g}) <= account.active[g]

(* Load balancing, asked for from inside the decision on a handover, comes *)
(* to its end unless a beam counts as many emergency UEs as it may have:   *)
(* what a UE may ask for is so little that a beam with low load takes it   *)
(* and the move from a beam with high load is worth while.                 *)
BalancingEnds ==
  endless =>
    \E b \in Beam : account.emergency[b] + Cardinality(EmergencyUe) > EmergencyUserCap

(* The RRC keeps the serving object of each UE (ntn-gw-rrc.h:7): the beam  *)
(* on record is the one whose scheduler has the context of the UE.         *)
RecordIsWhereServed ==
  \A u \in scheduler.known :
    ueServingObject[u] \in Beam => scheduler.beam[u] = ueServingObject[u]

(* A beam counts the UEs registered to it (admit-control.h:47:             *)
(* activeUeCount is the number of active users).                           *)
BeamCountIsExact ==
  \A b \in Beam : account.active[b] = Cardinality({u \in Ue : account.place[u] = b})
=============================================================================
