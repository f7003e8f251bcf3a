------------------------------- MODULE Uplink -------------------------------
(***************************************************************************)
(* The uplink of one beam: the UEs' MACs, the gateway's uplink scheduler   *)
(* in SPS_CONFIGURED mode (model/geo-beam-scheduler.cc) and the air in     *)
(* between.  A UE asks with an SR, reports its buffer when a grant comes   *)
(* and transmits some time later; the gateway counts what it has granted   *)
(* against what was reported and keeps a round's grants within the budget. *)
(* What the PHY measures of the grants is the subject of LinkControl.      *)
(*                                                                         *)
(* No code of the repository connects the two ends: that each of the UE's  *)
(* callbacks reaches the scheduler's entry of the same type, with the RNTI *)
(* and the MAC header filled in, is this module's assumption.  Each UE's   *)
(* uplink is a queue, since its delay is constant.  Bytes are in units of  *)
(* which a block carries BytesPerRb; link adaptation, power values and     *)
(* admission control (optional in the code) are left out.                  *)
(***************************************************************************)
EXTENDS UtMac, Sequences, SequencesExt, FiniteSetsExt, ResourceManager

CONSTANTS
  Emergency,       (* The UEs by their class of traffic.                   *)
  Voice,
  Normal,
  SpsClassRbs,     (* GetSpsClassRbs of emergency and voice UEs.           *)
  SpsPeriod,       (* m_spsGrantPeriod, in slots.                          *)
  ReleaseAfter,    (* m_spsImplicitReleaseAfter                            *)
  BytesPerRb,
  SrGrantRbs,      (* m_srGrantRbs                                         *)
  PowerRbs,        (* GetMaxPowerLimitedUlRbs, the same for each UE.       *)
  MaxBytes,        (* Bound on a UE's buffer.                              *)
  Downlink,        (* The UEs with downlink traffic.                       *)
  MaxUp,           (* Bound on the messages under way from the UEs.        *)
  MaxDown,         (* Bound on the grants under way to a UE.               *)
  MaxCalls         (* Bound on the calls a UE has scheduled of one kind.   *)

Ue == Emergency \cup Voice \cup Normal

SpsUe == Emergency \cup Voice        (* IsSpsEligible *)

ASSUME UplinkAssumption ==
  /\ {SpsClassRbs, SpsPeriod, ReleaseAfter, BytesPerRb, SrGrantRbs, PowerRbs,
      MaxBytes, MaxUp, MaxDown, MaxCalls} \subseteq Nat \ {0}
  /\ Downlink \subseteq Ue
  /\ Emergency \cap Voice = {} /\ SpsUe \cap Normal = {}
  /\ IsFiniteSet(Ue)

VARIABLES
  mac,       (* The UE's side: see UtMac.                                  *)
  up,        (* SRs, BSRs and PDUs under way from each UE.                 *)
  down,      (* The number of uplink grants under way to each UE.          *)
  ctx,       (* m_ueContextMap, its uplink part                            *)
  usage,     (* m_beamUsageMap, uplink                                     *)
  grants,    (* m_ulSpsGrants                                              *)
  round      (* Whether the beam has a round, and two histories.           *)

vars == <<mac, up, down, ctx, usage, grants, round>>

Context == [buffer : Nat, pendingBytes : Nat, pendingRbs : Nat, sr : BOOLEAN]

(* `wait` is the number of slots until the grant is due.                   *)
Grant == [active : BOOLEAN, rbgSize : Nat, wait : Nat, emptyTx : Nat,
          conflict : Nat]

NoGrant ==
  [active |-> FALSE, rbgSize |-> 0, wait |-> 0, emptyTx |-> 0, conflict |-> 0]

Message == [kind : {"sr", "bsr", "pdu"}, bytes : Nat]

(* `opened` is that m_ulSchedulingRoundIdByBeam has the beam.  Histories:  *)
(* the blocks `granted` since the last trigger, and the bytes `issued` to  *)
(* a UE since the gateway last heard of its buffer.                        *)
Round == [opened : BOOLEAN, granted : Nat, issued : [Ue -> Nat]]

Init ==
  /\ mac = [u \in Ue |-> IdleMac]
  /\ up = [u \in Ue |-> <<>>]
  /\ down = [u \in Ue |-> 0]
  /\ ctx = [u \in Ue |-> [buffer |-> 0, pendingBytes |-> 0, pendingRbs |-> 0,
                          sr |-> FALSE]]
  /\ usage = Unused
  /\ grants = [u \in Ue |-> NoGrant]
  /\ round = [opened |-> FALSE, granted |-> 0, issued |-> [u \in Ue |-> 0]]

-----------------------------------------------------------------------------
(* The scheduler's view of a UE.                                           *)

(* GetEffectiveUlDemandBytes                                               *)
Demand(c) == IF c.buffer > c.pendingBytes THEN c.buffer - c.pendingBytes ELSE 0

RbsForBytes(bytes) ==
  Smaller((bytes + BytesPerRb - 1) \div BytesPerRb, BudgetRbs)

RefreshPendingUlGrantEstimate(c) ==
  LET bytes == Smaller(c.pendingBytes, c.buffer)
  IN [c EXCEPT !.pendingBytes = bytes,
               !.pendingRbs = IF bytes = 0 THEN 0 ELSE RbsForBytes(bytes)]

ReceiveBsr(c, bytes) ==
  RefreshPendingUlGrantEstimate([c EXCEPT !.buffer = bytes, !.sr = FALSE])

(* Faulty variant: a PDU that does not lower the backlog.                  *)
ReceiveUlMacPduUncounted(c, bytes) ==
  RefreshPendingUlGrantEstimate(
    [c EXCEPT !.pendingBytes = @ - Smaller(bytes, @), !.sr = FALSE])

ReceiveUlMacPdu(c, bytes) ==
  LET delivered == Smaller(bytes, c.buffer)
  IN RefreshPendingUlGrantEstimate(
       [c EXCEPT !.buffer = @ - delivered,
                 !.pendingBytes = @ - Smaller(delivered, @),
                 !.sr = FALSE])

NeedsBootstrapGrant(c) == c.sr /\ c.buffer = 0 /\ c.pendingRbs = 0

NeedsGrant(c) == Demand(c) > 0 \/ NeedsBootstrapGrant(c)

NeededRbs(c) ==
  Smaller(PowerRbs, IF Demand(c) > 0 THEN RbsForBytes(Demand(c)) ELSE SrGrantRbs)

-----------------------------------------------------------------------------
(* The scheduler proper.  A run is one event of the simulator; its state   *)
(* is a record of the variables it changes, with the UEs `served` by SPS.  *)

Run == [ctx |-> ctx, usage |-> usage, grants |-> grants, down |-> down,
        round |-> round, served |-> {}]

Granted(c, rbs) ==
  [RefreshPendingUlGrantEstimate(
     [c EXCEPT !.pendingBytes = @ + rbs * BytesPerRb, !.pendingRbs = @ + rbs])
   EXCEPT !.sr = FALSE]

(* What ProcessUlGrant does once it has its blocks.                        *)
CompleteGrant(run, u, rbs, sendDci) ==
  [run EXCEPT !.ctx[u] = Granted(@, rbs),
              !.down[u] = @ + (IF sendDci THEN 1 ELSE 0),
              !.round.granted = @ + rbs,
              !.round.issued[u] = @ + rbs * BytesPerRb]

ProcessUlGrant(run, u, requested) ==
  LET approved == ApprovedRbs(run.usage, Smaller(requested, PowerRbs)) IN
  IF approved = 0
  THEN run
  ELSE CompleteGrant([run EXCEPT !.usage = AllocateSpectrum(@, approved)],
                     u, approved, TRUE)

(* ServeUlSpsGrant, on blocks just claimed.                                *)
ServeUlSpsGrant(run, u, rbgs, sendDci) ==
  CompleteGrant([run EXCEPT !.usage = ClaimSpsRbgs(@, rbgs)],
                u, Cardinality(rbgs), sendDci)

(* The release is a DCI too, which the UE takes for a grant.               *)
ReleaseUlSpsGrant(run, u) ==
  [run EXCEPT !.usage = ReleaseSpsAdmission(@, run.grants[u].rbgSize),
              !.grants[u] = NoGrant,
              !.down[u] = @ + 1]

Conflict(run, u) ==
  IF run.grants[u].conflict + 1 >= ReleaseAfter
  THEN ReleaseUlSpsGrant(run, u)
  ELSE [run EXCEPT !.grants[u].conflict = @ + 1]

EmptyTx(run, u) ==
  IF run.grants[u].emptyTx + 1 >= ReleaseAfter
  THEN ReleaseUlSpsGrant(run, u)
  ELSE [run EXCEPT !.grants[u].emptyTx = @ + 1]

(* One grant of ScheduleUlSpsReuse: its holder is not scheduled            *)
(* dynamically, whether it is due or not.  The UE is told only if its MCS  *)
(* changed.                                                                *)
ReuseGrant(run, u, sendDci) ==
  LET c == run.ctx[u]
      grant == run.grants[u]
      claims == Claims(run.usage, grant.rbgSize)
      held == [run EXCEPT !.served = @ \cup {u}]
      due == [held EXCEPT !.grants[u].wait = SpsPeriod]
      used == [due EXCEPT !.grants[u].emptyTx = 0]
  IN CASE ~grant.active -> run
       [] grant.active /\ grant.wait > 0 -> held
       [] grant.active /\ grant.wait = 0 /\ Demand(c) = 0 /\ ~c.sr -> EmptyTx(due, u)
       [] OTHER ->
            IF claims = {}
            THEN Conflict(used, u)
            ELSE ServeUlSpsGrant([used EXCEPT !.grants[u].conflict = 0], u,
                                 CHOOSE rbgs \in claims : TRUE, sendDci)

(* One UE of ActivateUlSpsGrants.                                          *)
ActivateGrant(run, u) ==
  LET demand == Demand(run.ctx[u])
      size == Smaller(Smaller(RbsForBytes(demand), SpsClassRbs), PowerRbs)
      claims == Claims(run.usage, size)
  IN IF \/ u \in run.served
        \/ demand = 0
        \/ ~AdmitsSpsGrant(run.usage, size)
        \/ claims = {}
     THEN run
     ELSE ServeUlSpsGrant(
            [run EXCEPT !.served = @ \cup {u},
                        !.usage = AdmitSpsGrant(@, size),
                        !.grants[u] = [active |-> TRUE, rbgSize |-> size,
                                       wait |-> SpsPeriod, emptyTx |-> 0,
                                       conflict |-> 0]],
            u, CHOOSE rbgs \in claims : TRUE, TRUE)

(* scheduleUlClassQueue: the class's UEs in the order of their metric,     *)
(* each from what the class has left.                                      *)
ScheduleQueue(run, ranking, class, budget) ==
  LET Serve(r, u) ==
        LET left == budget - (r.round.granted - run.round.granted)
        IN IF u \in class \ r.served /\ NeedsGrant(r.ctx[u])
           THEN ProcessUlGrant(r, u, Smaller(NeededRbs(r.ctx[u]), left))
           ELSE r
  IN FoldLeft(Serve, run, ranking)

(* ScheduleUlSpsReuse and ActivateUlSpsGrants.                             *)
RunSps(run, order, reconfigured) ==
  LET Reuse(r, u) == ReuseGrant(r, u, u \in reconfigured)
  IN FoldLeft(ActivateGrant, FoldLeft(Reuse, run, order), order)

(* RunUlSchedulerForBeam, once SPS has had its blocks.  Emergency UEs that *)
(* want a grant and waited too long, `late`, get a larger share; what the  *)
(* first two classes leave is for normal traffic.                          *)
RunQueues(run, ranking, late) ==
  LET available == RemainingRbs(run.usage)
      urgency == late /\ \E u \in Emergency \ run.served : NeedsGrant(run.ctx[u])
      emergencyBudget == Smaller(available, IF urgency THEN 3 ELSE 1)
      voiceBudget == Smaller(available - emergencyBudget, 2)
      urgent == ScheduleQueue(run, ranking, Emergency, emergencyBudget)
      spoken == ScheduleQueue(urgent, ranking, Voice, voiceBudget)
      left == available - (spoken.round.granted - run.round.granted)
  IN ScheduleQueue(spoken, ranking, Normal, left)

(* One run, from `run` on, with whatever metrics and MCS changes.          *)
Schedule(run) ==
  \E order \in SetToSeqs(SpsUe), ranking \in SetToSeqs(Ue), late \in BOOLEAN,
     reconfigured \in SUBSET SpsUe :
    LET ran == RunQueues(RunSps(run, order, reconfigured), ranking, late) IN
    /\ ctx' = ran.ctx
    /\ usage' = ran.usage
    /\ grants' = ran.grants
    /\ down' = ran.down
    /\ round' = ran.round

Bounded == \A u \in Ue : down[u] < MaxDown

(* DoSchedUlTriggerReq and RunUlSchedulingRound, once for each slot.       *)
Trigger ==
  /\ Bounded
  /\ Schedule([Run EXCEPT
       !.usage = ResetBeamAllocation(@),
       !.grants = [u \in Ue |->
                     [grants[u] EXCEPT !.wait = IF @ > 0 THEN @ - 1 ELSE 0]],
       !.round.opened = TRUE,
       !.round.granted = 0])
  /\ UNCHANGED <<mac, up>>

(* Faulty variant: a run that is not triggered opens a round of its own.   *)
BeginUlSchedulingPeriodAnew(run) ==
  [run EXCEPT !.usage = ResetBeamAllocation(@), !.round.opened = TRUE]

(* BeginUlSchedulingPeriod without a round's number: only the very first   *)
(* resets.                                                                 *)
BeginUlSchedulingPeriod(run) ==
  IF run.round.opened
  THEN run
  ELSE [run EXCEPT !.usage = ResetBeamAllocation(@), !.round.opened = TRUE]

-----------------------------------------------------------------------------
(* What arrives at the gateway.                                            *)

Arrives(u, kind) == up[u] # <<>> /\ Head(up[u]).kind = kind

Consume(u) == up' = [up EXCEPT ![u] = Tail(@)]

(* DoSchedUlSrInfoReq, or a PUCCH of format 0.                             *)
ReceiveSr(u) ==
  /\ Arrives(u, "sr")
  /\ Bounded
  /\ Consume(u)
  /\ Schedule(BeginUlSchedulingPeriod([Run EXCEPT !.ctx[u].sr = TRUE]))
  /\ UNCHANGED mac

(* The gateway heard of the UE's buffer.                                   *)
Heard(u, c) ==
  /\ ctx' = [ctx EXCEPT ![u] = c]
  /\ round' = [round EXCEPT !.issued[u] = c.pendingBytes]

ReceiveUlReport(u) ==
  /\ Arrives(u, "bsr")
  /\ Consume(u)
  /\ Heard(u, ReceiveBsr(ctx[u], Head(up[u]).bytes))
  /\ UNCHANGED <<mac, down, usage, grants>>

ReceiveUlPdu(u) ==
  /\ Arrives(u, "pdu")
  /\ Consume(u)
  /\ Heard(u, ReceiveUlMacPdu(ctx[u], Head(up[u]).bytes))
  /\ UNCHANGED <<mac, down, usage, grants>>

-----------------------------------------------------------------------------
(* The UE.                                                                 *)

RoomOnAir == MapThenSumSet(LAMBDA u : Len(up[u]), Ue) < MaxUp

Send(u, messages) == up' = [up EXCEPT ![u] = @ \o messages]

Sr == [kind |-> "sr", bytes |-> 0]
Bsr(bytes) == [kind |-> "bsr", bytes |-> bytes]
Pdu(bytes) == [kind |-> "pdu", bytes |-> bytes]

DataArrives(u) ==
  \E bytes \in 1..(MaxBytes - mac[u].buffer) :
    /\ RoomOnAir
    /\ mac' = [mac EXCEPT ![u] = NotifyDataBuffered(@, bytes)]
    /\ Send(u, IF RequestsGrant(mac[u]) THEN <<Sr>> ELSE <<>>)
    /\ UNCHANGED <<down, ctx, usage, grants, round>>

ReceiveUlGrant(u) ==
  /\ down[u] > 0
  /\ RoomOnAir
  /\ mac[u].grants < MaxCalls
  /\ down' = [down EXCEPT ![u] = @ - 1]
  /\ mac' = [mac EXCEPT ![u] = ProcessUplinkDci(@)]
  /\ Send(u, IF mac[u].buffer > 0 THEN <<Bsr(mac[u].buffer)>> ELSE <<>>)
  /\ UNCHANGED <<ctx, usage, grants, round>>

(* One block's worth of padding goes when the buffer is empty.             *)
TransmitUl(u) ==
  /\ mac[u].grants > 0
  /\ RoomOnAir
  /\ mac[u].ends < MaxCalls
  /\ mac' = [mac EXCEPT ![u] = DoTransmit(@)]
  /\ Send(u, <<Pdu(PduBytes(mac[u], BytesPerRb))>>)
  /\ UNCHANGED <<down, ctx, usage, grants, round>>

(* A downlink assignment, of which the downlink scheduler decides.         *)
ReceiveDlDci(u) ==
  /\ u \in Downlink
  /\ mac[u].receptions = 0
  /\ mac' = [mac EXCEPT ![u] = ProcessDownlinkDci(@)]
  /\ UNCHANGED <<up, down, ctx, usage, grants, round>>

ReceiveDlData(u) ==
  /\ mac[u].receptions > 0
  /\ mac[u].ends < MaxCalls
  /\ mac' = [mac EXCEPT ![u] = ReceiveData(@)]
  /\ UNCHANGED <<up, down, ctx, usage, grants, round>>

EndTransfer(u) ==
  /\ mac[u].ends > 0
  /\ mac' = [mac EXCEPT ![u] = SwitchState(@)]
  /\ UNCHANGED <<up, down, ctx, usage, grants, round>>

Next ==
  \/ Trigger
  \/ \E u \in Ue :
       \/ ReceiveSr(u) \/ ReceiveUlReport(u) \/ ReceiveUlPdu(u)
       \/ DataArrives(u) \/ ReceiveUlGrant(u) \/ TransmitUl(u)
       \/ ReceiveDlDci(u) \/ ReceiveDlData(u) \/ EndTransfer(u)

Spec == Init /\ [][Next]_vars

(* Slots come, what is sent arrives, and scheduled calls are made: all of  *)
(* them events the simulator runs at their time.                           *)
FairSpec ==
  /\ Spec
  /\ WF_vars(Trigger)
  /\ \A u \in Ue :
       /\ WF_vars(ReceiveSr(u)) /\ WF_vars(ReceiveUlReport(u))
       /\ WF_vars(ReceiveUlPdu(u)) /\ WF_vars(ReceiveUlGrant(u))
       /\ WF_vars(TransmitUl(u)) /\ WF_vars(ReceiveDlData(u))
       /\ WF_vars(EndTransfer(u))

-----------------------------------------------------------------------------
(* Properties.                                                             *)

(* The state has its types.                                                *)
TypeOK ==
  /\ mac \in [Ue -> Mac]
  /\ up \in [Ue -> Seq(Message)]
  /\ down \in [Ue -> Nat]
  /\ ctx \in [Ue -> Context]
  /\ usage \in Usage
  /\ grants \in [Ue -> Grant]
  /\ round \in Round

(* Between two triggers the beam grants no more blocks than its budget,    *)
(* over the trigger's own run, the runs that SRs cause and the configured  *)
(* grants, whose blocks are claimed on another path.                       *)
RoundWithinBudget == round.granted <= BudgetRbs

(* What is granted and has not come never exceeds the backlog it is for,   *)
(* and there are blocks pending exactly when there are bytes: else a UE    *)
(* with an empty picture gets no grant for its SR.                         *)
PendingIsCovered ==
  \A u \in Ue :
    /\ ctx[u].pendingBytes <= ctx[u].buffer
    /\ ctx[u].pendingRbs = 0 <=> ctx[u].pendingBytes = 0

(* "UL scheduler should stop granting once in-flight capacity covers the   *)
(* stale BSR backlog": between two reports of its buffer a UE of normal    *)
(* traffic is granted what it reported, up to the last block's rounding,   *)
(* or what an SR is worth.                                                 *)
GrantsMatchBacklog ==
  \A u \in Normal :
    \/ round.issued[u] < ctx[u].buffer + BytesPerRb
    \/ round.issued[u] <= SrGrantRbs * BytesPerRb

(* Grants are sound: a round keeps to the budget, and nothing is granted   *)
(* without a backlog behind it, in either sense.                           *)
GrantsAreSound == RoundWithinBudget /\ PendingIsCovered /\ GrantsMatchBacklog

(* Once nothing is under way the gateway believes a UE to have no more     *)
(* than it has, however SRs, BSRs, grants and PDUs crossed.                *)
PictureSettles ==
  \A u \in Ue : up[u] = <<>> => ctx[u].buffer <= mac[u].buffer

(* "Data arrival triggers an SR (called when the terminal has data to      *)
(* send)": data of a UE without a configured grant is sent.                *)
DataIsSent == \A u \in Normal : mac[u].buffer > 0 ~> mac[u].buffer = 0
=============================================================================
