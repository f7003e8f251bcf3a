--------------------------- MODULE LinkAdaptation ---------------------------
(***************************************************************************)
(* The MCS of new blocks, from the CQI reports that set it, half a round   *)
(* trip old, to the outcomes that correct it.  Two paths do this with the  *)
(* same controller (CqiAmc): "loop", the closed loop of                    *)
(* examples/ntn-amc-closed-loop.cc, which may ask HarqPolicy how to send   *)
(* each block, and "system", the scheduler with the HarqManager            *)
(* (geo-beam-scheduler.cc).  Which controller the reports reach, and which *)
(* one the MCS is read from, is up to how the scheduler was wired.  MCSs   *)
(* are named by the CQI they are for.                                      *)
(***************************************************************************)
EXTENDS HarqPolicy, Sequences, SequencesExt, FiniteSets

CONSTANTS
  Ue,            (* The UEs.                                               *)
  Paths,         (* Of "loop" and "system", those considered.              *)
  Schemes,       (* g_harqScheme: a traditional, b no HARQ, c AMC by       *)
                 (* prediction, d the policy too.                          *)
  FixedN,        (* g_fixedN, also the HARQ limit of the scheduler.        *)
  Margin,        (* An MCS so many steps above the channel may do.         *)
  MaxFlight,     (* Bound on the blocks in flight, half RTT / CQI period.  *)
  MaxFades       (* Bound on the changes of the channels and on the        *)
                 (* measurement reports.                                   *)

ASSUME LinkAssumption ==
  /\ Paths \subseteq {"loop", "system"}
  /\ Schemes \subseteq {"a", "b", "c", "d"}
  /\ {FixedN, Margin, MaxFades} \subseteq Nat /\ MaxFlight \in Nat \ {0}

VARIABLES
  path, scheme,  (* Which path, and g_harqScheme of "loop".                *)
  voice,         (* The UEs with voice service: g_voiceFraction.           *)
  useAdapter,    (* m_useCqiAmcPredictor                                   *)
  applied,       (* m_cqiAmcPredictorApplied                               *)
  adapter,       (* m_cqiPredictor: "direct", or the CqiAmcPredictor by    *)
                 (* its DL controller: its "own" or the "external" one.    *)
  amc,           (* Whether m_cqiAmc is set, to the "external" one.        *)
  controller,    (* The state of both controllers, for each UE.            *)
  chan,          (* The CQI that the channel of a UE is good for.          *)
  fades,         (* Channel changes and measurement reports so far.        *)
  reports,       (* CQI reports on their way, for each UE.                 *)
  latest,        (* latestDlCqi, None before the first report.             *)
  gate,          (* m_thLow and the moving average of the policy.          *)
  blocks,        (* The blocks in flight, g_policyTb.                      *)
  acked          (* Whether the last first attempt of a UE got through.    *)

wiring == <<useAdapter, applied, adapter, amc>>
setup == <<path, scheme, voice>>
adaptVars == <<setup, wiring, controller, chan, fades, reports, latest, gate,
          blocks, acked>>

(* No CQI, and none that could be reported.                                *)
None == -MaxStray - 1

(* g_predictEnabled: the traditional scheme has no prediction.             *)
Predicting == scheme # "a"

(* A loop initialises its scheduler before it hands it the controller.     *)
AdaptInit ==
  /\ path \in Paths
  /\ scheme \in (IF path = "loop" THEN Schemes ELSE {"c"})
  /\ voice \in SUBSET (IF scheme = "d" THEN Ue ELSE {})
  /\ useAdapter \in BOOLEAN
  /\ applied = (path = "loop")
  /\ adapter = IF applied /\ useAdapter THEN "own" ELSE "direct"
  /\ amc = (path = "loop" /\ Predicting)
  /\ controller = [c \in {"own", "external"} |-> [u \in Ue |-> Unfed]]
  /\ chan \in [Ue -> 1..MaxCqi] /\ fades = 0
  /\ reports = [u \in Ue |-> <<>>] /\ latest = [u \in Ue |-> None]
  /\ gate = Healed
  /\ blocks = <<>>
  /\ acked = [u \in Ue |-> FALSE]

-----------------------------------------------------------------------------
(* The scheduler.                                                          *)

(* MaybeApplyCqiAmcPredictor: the adapter that is in place afterwards.     *)
AdapterOnceApplied ==
  IF applied \/ ~useAdapter THEN adapter ELSE IF amc THEN "external" ELSE "own"

(* UpdateUeDlCqi: the controller that a report is fed to: that of the      *)
(* adapter if there is one, m_cqiAmc otherwise.                            *)
FedByReport ==
  IF adapter # "direct" THEN {adapter} ELSE IF amc THEN {"external"} ELSE {}

(* HandleDlHarqFeedbackResult: the outcome goes where the reports go.      *)
FedByOutcome == FedByReport

(* What the controllers may be after a report z of u.                      *)
UpdateUeDlCqi(u, z) ==
  IF FedByReport = {} THEN {controller}
  ELSE UNION {{[controller EXCEPT ![c][u] = n] : n \in OnCqiReport(controller[c][u], z)} :
                c \in FedByReport}

(* GetMcsForNewTx: from m_cqiAmc if it is set, whatever the adapter.       *)
GetMcsForNewTx(ctrl, u, bias) ==
  AsCqi((IF amc THEN GetEffectiveCqi(ctrl["external"][u]) ELSE latest'[u]) + bias)

(* GetSchedulingCqi, for the adapter in place: a report is always fresh    *)
(* enough here, for they do not stop.  Without a positive one the CQI of   *)
(* the uplink does, or 1.                                                  *)
GetSchedulingCqi(a, u) ==
  {Clamp(q, 1, MaxCqi) :
     q \in IF a # "direct" /\ HasFreshEstimate(controller[a][u])
           THEN {GetEffectiveCqi(controller[a][u])}
           ELSE IF latest[u] > 0 THEN {latest[u]} ELSE Cqis}

-----------------------------------------------------------------------------
(* Actions.                                                                *)

(* Initialize, ConfigPrachResources.                                       *)
Initialize ==
  /\ ~applied
  /\ applied' = TRUE /\ adapter' = AdapterOnceApplied
  /\ UNCHANGED <<setup, useAdapter, amc, controller, chan, fades, reports, latest,
                 gate, blocks, acked>>

(* The scheduler is wired before UEs report, as the examples do it.        *)
SettingUp == path = "system" /\ \A u \in Ue : latest[u] = None

SetCqiAmcController ==
  /\ SettingUp /\ ~amc
  /\ amc' = TRUE
  /\ UNCHANGED <<setup, useAdapter, applied, adapter, controller, chan, fades,
                 reports, latest, gate, blocks, acked>>

(* A predictor of the user's: one that passes reports on, or an adapter.   *)
SetCqiPredictor ==
  /\ SettingUp /\ ~applied
  /\ applied' = TRUE /\ adapter' \in {"direct", "own"}
  /\ UNCHANGED <<setup, useAdapter, amc, controller, chan, fades, reports, latest,
                 gate, blocks, acked>>

(* UpdateChannel.                                                          *)
Fade(u) ==
  /\ fades < MaxFades
  /\ chan' \in {[chan EXCEPT ![u] = q] : q \in 1..MaxCqi \ {chan[u]}}
  /\ fades' = fades + 1
  /\ UNCHANGED <<setup, wiring, controller, reports, latest, gate, blocks, acked>>

(* The UE reports its CQI; the report takes half a round trip.             *)
SampleCqiAtUe(u) ==
  /\ Len(reports[u]) < MaxFlight
  /\ reports' = [reports EXCEPT ![u] = Append(@, chan[u])]
  /\ UNCHANGED <<setup, wiring, controller, chan, fades, latest, gate, blocks, acked>>

Block(u, mcs, off, maxRetx) ==
  [ue |-> u, mcs |-> mcs, off |-> off, maxRetx |-> maxRetx, attempt |-> 1]

InFlight(u) == {i \in DOMAIN blocks : blocks[i].ue = u}

Recorded(u, z) ==
  /\ latest' = [latest EXCEPT ![u] = z]
  /\ controller' \in UpdateUeDlCqi(u, z)

Arrival(u) ==
  /\ reports[u] # <<>>
  /\ reports' = [reports EXCEPT ![u] = Tail(@)]
  /\ Recorded(u, Head(reports[u]))

(* How a new block is to be sent.                                          *)
Policies(u) ==
  CASE scheme = "b" -> {[MakeOff EXCEPT !.target = "nominal"]}
    [] scheme \in {"a", "c"} -> {[MakeReactive("nominal") EXCEPT !.maxRetx = FixedN]}
    [] scheme = "d" ->
         {Decide(HasFreshEstimate(controller'["external"][u]), u \in voice, r, gate.thLow) :
            r \in ComputeRisk}

(* OnCqiAtGw of the loop: every report sends a block.                      *)
OnCqiAtGw(u) ==
  /\ path = "loop" /\ Cardinality(InFlight(u)) < MaxFlight
  /\ Arrival(u)
  /\ \E p \in Policies(u) :
       LET mcs == GetMcsForNewTx(controller', u, BlerTargetToCqiOffset(p.target))
       IN blocks' = Append(blocks, Block(u, mcs, p.off, p.maxRetx))
  /\ UNCHANGED <<setup, wiring, chan, fades, gate, acked>>

(* ReceivePucchInfo, DoSchedDlCqiInfoReq.                                  *)
ReceivePucchInfo(u) ==
  /\ path = "system"
  /\ Arrival(u)
  /\ UNCHANGED <<setup, wiring, chan, fades, gate, blocks, acked>>

(* ReceiveMeasReport of the gateway's RRC gives UpdateUeCsi the metric of  *)
(* a beam, often a neighbour's, for a CQI, which the scheduler records     *)
(* over the UE's own.  It is in dBm and may be no CQI at all.              *)
UpdateUeCsi(u) ==
  /\ path = "system" /\ fades < MaxFades
  /\ fades' = fades + 1
  /\ \E z \in -MaxStray..(MaxCqi + MaxStray) : Recorded(u, z)
  /\ UNCHANGED <<setup, wiring, chan, reports, gate, blocks, acked>>

(* RunScheduler, as far as the MCS goes.                                   *)
RunScheduler(u) ==
  /\ path = "system" /\ Cardinality(InFlight(u)) < MaxFlight
  /\ applied' = TRUE /\ adapter' = AdapterOnceApplied
  /\ \E mcs \in GetSchedulingCqi(adapter', u) :
       blocks' = Append(blocks, Block(u, mcs, FALSE, FixedN))
  /\ UNCHANGED <<setup, useAdapter, amc, controller, chan, fades, reports, latest,
                 gate, acked>>

(* What may become of block b: a retransmission adds what it carries.      *)
Outcomes(b) ==
  LET reach == chan[b.ue] + b.attempt - 1 IN
  IF b.mcs <= reach THEN {TRUE}
  ELSE IF b.mcs <= reach + Margin THEN BOOLEAN ELSE {FALSE}

(* Blocks of a UE that are equally old in attempts come in turn.           *)
IsNext(i) ==
  \A j \in 1..(i - 1) : blocks[j].ue # blocks[i].ue \/ blocks[j].attempt # blocks[i].attempt

SentAgain(i) == Append(RemoveAt(blocks, i), [blocks[i] EXCEPT !.attempt = @ + 1])

Steer(cs, u, ack) ==
  controller' = [c \in DOMAIN controller |->
    IF c \in cs THEN [controller[c] EXCEPT ![u] = OnHarqFeedback(@, ack)]
    ELSE controller[c]]

(* Faulty variant: every attempt counts.                                   *)
IsNewTxAlways(b) == TRUE

(* Only the first attempt may steer the outer loop.                        *)
IsNewTx(b) == b.attempt = 1

(* PolicyDecode and FinalizePolicyTb of the loop.                          *)
PolicyDecode(i, ack) ==
  LET b == blocks[i] IN
  /\ path = "loop" /\ IsNext(i) /\ ack \in Outcomes(b)
  /\ Steer(IF IsNewTx(b) /\ Predicting THEN {"external"} ELSE {}, b.ue, ack)
  /\ acked' = [acked EXCEPT ![b.ue] = IF b.attempt = 1 THEN ack ELSE @]
  /\ IF ~ack /\ ~b.off /\ b.attempt <= b.maxRetx
     THEN blocks' = SentAgain(i) /\ UNCHANGED gate
     ELSE /\ blocks' = RemoveAt(blocks, i)
          /\ gate' = IF scheme = "d" THEN OnOutcome(gate, b.off, ack) ELSE gate
  /\ UNCHANGED <<setup, wiring, chan, fades, reports, latest>>

(* HandleDlHarqFeedbackResult: at the end of a HARQ process its first      *)
(* attempt is judged.                                                      *)
HandleDlHarqFeedback(i, ack) ==
  LET b == blocks[i]
      initialAck == ack /\ b.attempt = 1
  IN
  /\ path = "system" /\ IsNext(i) /\ ack \in Outcomes(b)
  /\ IF ~ack /\ b.attempt <= b.maxRetx
     THEN blocks' = SentAgain(i) /\ UNCHANGED <<controller, acked>>
     ELSE /\ blocks' = RemoveAt(blocks, i)
          /\ Steer(FedByOutcome, b.ue, initialAck)
          /\ acked' = [acked EXCEPT ![b.ue] = initialAck]
  /\ UNCHANGED <<setup, wiring, chan, fades, reports, latest, gate>>

Decode(i, ack) == PolicyDecode(i, ack) \/ HandleDlHarqFeedback(i, ack)

AdaptNext ==
  \/ Initialize \/ SetCqiAmcController \/ SetCqiPredictor
  \/ \E u \in Ue : \/ Fade(u) \/ SampleCqiAtUe(u)
                   \/ OnCqiAtGw(u) \/ ReceivePucchInfo(u) \/ UpdateUeCsi(u) \/ RunScheduler(u)
  \/ \E i \in DOMAIN blocks, ack \in BOOLEAN : Decode(i, ack)

AdaptSpec == AdaptInit /\ [][AdaptNext]_adaptVars

(* UEs report periodically, the gateway answers every report and the       *)
(* scheduler runs in every slot; every block in flight is decoded.         *)
DecodeOf(u) == \E i \in DOMAIN blocks, ack \in BOOLEAN : blocks[i].ue = u /\ Decode(i, ack)

AdaptFairSpec ==
  AdaptSpec /\ \A u \in Ue : /\ WF_adaptVars(SampleCqiAtUe(u))
                             /\ WF_adaptVars(OnCqiAtGw(u)) /\ WF_adaptVars(ReceivePucchInfo(u))
                             /\ WF_adaptVars(RunScheduler(u)) /\ WF_adaptVars(DecodeOf(u))

-----------------------------------------------------------------------------
(* Properties.                                                             *)

(* The state has its types: whatever the filter and the reports do, the CQI *)
(* taken for a UE and the MCS of a block are some CQI's.                   *)
AdaptTypeOK ==
  /\ adapter \in {"direct", "own", "external"}
  /\ {useAdapter, applied, amc} \subseteq BOOLEAN
  /\ \A c \in DOMAIN controller, u \in Ue :
       /\ controller[c][u] \in [level: Int, trend: Trends, initialized: BOOLEAN,
                                 delta: -DeltaMax..DeltaMax]
       /\ GetEffectiveCqi(controller[c][u]) \in Cqis
  /\ chan \in [Ue -> 1..MaxCqi]
  /\ \A u \in Ue : Len(reports[u]) <= MaxFlight /\ Cardinality(InFlight(u)) <= MaxFlight
  /\ \A i \in DOMAIN blocks :
       blocks[i].mcs \in Cqis /\ blocks[i].attempt <= blocks[i].maxRetx + 1

(* Blocks whose first attempt has yet to be judged.                        *)
Unjudged(u) ==
  Cardinality({i \in InFlight(u) : path = "loop" => blocks[i].attempt = 1})

(* "IR combining must not pollute the outer loop": the offset of a UE      *)
(* moves only as a block of its own is judged, once for each block however *)
(* many attempts it takes and however attempts of several blocks mix.      *)
EachBlockSteersOnce ==
  [][\A u \in Ue, c \in DOMAIN controller :
       controller'[c][u].delta # controller[c][u].delta => Unjudged(u)' = Unjudged(u) - 1]_adaptVars

(* "One source of DL CQI" (geo-beam-scheduler.cc:403): with the adapter    *)
(* that UseCqiAmcPredictor asks for and with m_cqiAmc, what                *)
(* GetSchedulingCqi and GetMcsForNewTx read of a UE is the same.           *)
OneSourceOfCqi ==
  useAdapter /\ amc /\ adapter # "direct" => controller[adapter] = controller["external"]

(* The controller that the MCS of a UE is read from, if any.               *)
Reader == IF path = "system" THEN adapter ELSE IF amc THEN "external" ELSE "direct"

(* The forecast is wrong by no more than the offset can make good.         *)
WithinReach(u) ==
  Reader # "direct" =>
    PredictCqi(controller[Reader][u]) + (IF scheme = "d" THEN AggrBias ELSE 0)
      <= chan[u] + DeltaMax

(* The loop settles: once the channels are steady no UE is left sending    *)
(* blocks that always fail at first, however the filter errs and whatever  *)
(* biases there are, as long as the offset reaches; also where the reports *)
(* are fed to one controller and the MCS is read from another.             *)
LoopSettles == \A u \in Ue : []<>(acked[u] \/ ~WithinReach(u))

(* "Healthy, it goes back to its initial value": m_thLow recovers if       *)
(* blocks sent without HARQ no longer fail and keep being sent.            *)
EndsOff(ack) == \E i \in DOMAIN blocks : blocks[i].off /\ PolicyDecode(i, ack)

GateHeals ==
  scheme = "d" /\ <>[][~EndsOff(FALSE)]_adaptVars /\ []<><<EndsOff(TRUE)>>_adaptVars
    => <>[](gate.thLow = ThInit)
=============================================================================
