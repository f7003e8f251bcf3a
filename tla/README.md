# A TLA+ verification project for geo-sat

`src/` is an ns-3 module that simulates a non-terrestrial network: UEs, a bent-pipe
GEO satellite with many beams, and a gateway that runs the whole radio protocol stack.
This directory holds TLA+ models of its logic, configurations that check them with TLC, and
theorems about them with proofs checked by TLAPS. What is modelled, what is checked and what
is proved is listed machine-readably in `PROJECT.json`; this file explains it.

ns-3 is a discrete-event simulator: one thread runs one event handler after another. The
concurrency of this code is therefore the interleaving of *events*: timers, delayed calls,
messages that take 300 ms to the other end, rounds of the scheduler. A handler is atomic and
is one action of a model (the scheduler's downlink round, one very long handler, is cut into
the iterations of its loops, and nothing else may happen in between).

## 1. Inventory

| Component | Source | State | Operations and interactions | Module |
|---|---|---|---|---|
| RLC bearer | `ntn-rlc` | next SNs, transmission and reorder buffers, missing SNs, two timers | `TransmitPdcpPdu` from PDCP; `ReceiveRlcPdu` from the MAC of either side; t-PollRetransmit and the STATUS prohibit timer; delivers to PDCP by callback | `NtnRlc` |
| Downlink HARQ | `harq-manager`, parts of `geo-beam-scheduler` | process table keyed by (RNTI, process), a timer per process, counters; the scheduler's cache of DCIs | `NewTransmission` from the scheduler; `ReceiveFeedback` from the PUCCH; timeouts; calls back into the scheduler | `HarqManager` |
| Random access | `sat-ut-mac`, `geo-beam-scheduler`, `prach-detection-model`, `msg4-demod-model` | UE: MAC state, attempt count, RA-RNTI, preamble, RNTIs, four timers; gateway: aggregation windows, TC-RNTI counter, UE contexts | Msg1-Msg4 and MsgA/MsgB with propagation delay; broadcasts reach every UE; retries after a random backoff | `RandomAccess` |
| Resource manager | `resource-manager` | per beam and direction: used RBs, busy SPS slots, admitted SPS RBs | called by the scheduler only | `ResourceManager` |
| Downlink scheduler | `geo-beam-scheduler` | UE contexts, UEs per beam, configured grants, pairs | a round per slot; admission control, resource manager, HARQ, redirections | `DlScheduler` |
| Uplink scheduler | `geo-beam-scheduler` | SR and BSR state, pending grants, configured grants, a ledger of grants measured, a power offset per UE | triggered per slot, per SR, and by Msg3 grants; power control in a loop of one round trip | `Uplink`, `LinkControl` |
| UE MAC data path | `sat-ut-mac` | SR pending, buffer, MAC state, SINR that judges a PDU | SR/BSR, transmission in a grant, reception, ACK | `UtMac`, `UserPlane` |
| Gateway MAC | `ntn-gw-mac` | queues per UE, round-robin cursor | a PDU per tick, tags, counts ACKs | `UserPlane` |
| PHY and channel | `sat-phy`, `sat-ut-phy`, `ntn-gw-phy`, `sat-channel` | attached PHYs, SINR | who hears, relays and filters what; the SINR itself is numerical | `UserPlane` (who), none (how well) |
| UE RRC | `sat-ut-rrc` | filtered measurements, time to trigger, last report, pending flag, guard, connection state | measures, reports, applies reconfigurations; inactivity and paging | `UtRrc` |
| Gateway RRC | `ntn-gw-rrc` | serving object per UE | decides and executes handovers; drives scheduler and admission control | `Handover` |
| Admission control | `admit-control` | UE contexts, counters per beam and ground cell | `CanAdmitUe`, `CanHandoverUe`, registrations, load balancing | `AdmitControl`, `Handover` |
| Link adaptation | `cqi-amc-*`, `cqi-predictor`, `harq-policy-controller`, `ntn-amc-closed-loop` | per UE an estimate and an offset; a gate shared by all UEs | CQI reports and HARQ outcomes in, an MCS and a HARQ mode out | `CqiAmc`, `HarqPolicy`, `LinkAdaptation` |
| SDAP, PDCP, collectors of the layers | `ntn-sdap`, `ntn-pdcp`, `sat-*-stats-collector` | accounts per flow and bearer, samples, times in states | each layer's trace feeds its collector | `LayerStats` |
| Statistics of a simulation | `sat-stats-collector` | rates in windows, access, HARQ, a report | recorders wired by the scenario | `RateStats` |
| Traffic generator | `traffic-models` | files, VoIP sessions, HTTP servers, clients, sockets, a rate multiplier | drives applications; a queue report changes every rate | `FtpDriver`, `UdpFlows`, `HttpTraffic`, `TrafficRate`, `TrafficAccounts`, `Traffic` |
| Header compression, helpers, examples, result files | `rohc-compressor`, `helper/*`, `examples/*`, `result-writer` | scenario | build or print | none, see section 6 |

What is hard in each, and what makes it correct:

* **RLC.** PDUs are lost, reordered and repeated; SNs wrap; STATUS PDUs are lost. Correct: AM
  hands up exactly what was submitted, in order, and everything in the end; UM never goes
  back; no missing SN is forgotten; a NACK can be answered.
* **HARQ.** Feedback races the timeout; the pool of processes is finite; the manager's table
  and the scheduler's cache must agree while UEs leave and return and the configuration
  changes. Correct: each packet is reported exactly once, a process waits exactly as long as
  its timer runs, no DCI outlives its process, only decoded data is ACKed.
* **Random access.** Collisions, missed preambles, false alarms, late answers to abandoned
  attempts, event handles that are overwritten. Correct: C-RNTIs are unique, a connected UE
  has a context and stays connected, no attempt hangs, every access comes to an end.
* **Downlink scheduler.** Four ways to be served in several beams of one round, an overbooked
  SPS region, grants that outlive the UE's stay in a beam. Correct: one transmission per UE
  and round, disjoint slots, reserved PRACH blocks, balanced accounts, conflicts that end.
* **Uplink.** SRs run the scheduler several times per slot; grants, reports and data cross.
  Correct: a round keeps to the budget, no more is granted than the backlog explains, the
  gateway's picture settles on the truth. Of the power control: a measurement is credited to
  the grant measured. That the loop, one round trip late, also converges is more than the code
  keeps when several grants are measured within that round trip.
* **Measurement and handover.** Reports and reconfigurations cross; who serves a UE is kept
  in four places; load balancing and the scheduler's redirections move UEs past the RRC, and
  load balancing calls itself. Correct: one report at a time, all records agree but the RRC's
  of a UE moved past it, counts cover the registrations, balancing ends.
* **Data path.** Everything on a channel is heard by all on it. Correct: nothing is relayed
  twice, an ACK is earned by one reception of the UE's own, no queue starves.
* **Link adaptation.** Reports and outcomes arrive half a round trip late and out of step;
  several controllers may be wired; the filter may overshoot. Correct: one source of CQI, if the
  controller is set before the adapter is put in place; one correction per block, the loop
  settles, the gate that takes HARQ off recovers.
* **Traffic and statistics.** Watchdogs race socket closings, two legs advance one session,
  resets meet scheduled arrivals; what is counted in several places must agree. Correct: no
  file counted twice or lost, turns alternate, installations survive resets, layers agree on
  what passed them, peaks are peaks of a window.

`PROJECT.json` lists the hazards one by one, at their lines, with the properties that cover
them, or the reason why none does.

## 2. Modules

```
RlcDelivery <- NtnRlc, Traffic <- NtnRlc_proofs
HarqManager, LinkAdaptation <- HarqManager_proofs
ResourceManager <- DlScheduler <- DlScheduler_proofs          RandomAccess <- RandomAccess_proofs
ResourceManager, UtMac <- Uplink, LinkControl <- Uplink_proofs      UserPlane <- UserPlane_proofs
ServiceObjects <- UeReporting <- Handover, UtRrc <- Handover_proofs
                              (Handover -> AdmitControl; UtRrc refines UeReporting)
CqiAmc <- HarqPolicy <- LinkAdaptation
TrafficRate <- UdpFlows, HttpTraffic;  FtpDriver;  TrafficAccounts;
                              LayerStats;  RateStats  <- Traffic <- Statistics_proofs
```

Four modules of proofs serve two components that meet in the system: a bearer and the traffic
it carries, HARQ and the link adaptation its outcomes steer, uplink grants and what is measured
of them, the RRC of a UE and the gateway it reports to. So that one module can extend both,
`LinkControl`, `LinkAdaptation`, `Traffic` and `UtRrc` call their specifications `LinkSpec`,
`AdaptSpec`, `TrafficSpec`, `RrcSpec` (with fairness `LinkFairSpec`, `AdaptFairSpec`,
`TrafficFairSpec`, `RrcFairSpec`) where the others have `Spec` (`FairSpec`).

### NtnRlc, RlcDelivery

The sending half of one entity, the receiving half of its peer, and the PDUs in flight. The
variables bear the names of the members without `m_`. The actions are the handlers:
`TransmitPdcpPdu`, `AmReceiveStatusPdu`, `AmPollRetransmitTimeout`, `UmReceive`,
`AmReceiveDataPdu` (`AmDropData`, `AmDiscardDuplicate`, `AmAcceptData`: its three outcomes),
`AmSendStatusReport`. PDUs in flight form a set, so they overtake each other; a retransmission
may leave a copy in flight, which stands for several of them. Whether the PHY may lose PDUs
on arrival is chosen once (`lossy`, from `PhyLoss`); the receiver's own simulated loss is
always there.

`RlcDelivery` says what a bearer promises: AM delivers the next SDUs, UM some SDU later than
all before. `NtnRlc` implements it (`ImplementsDelivery`; the variables of the abstract
specification are histories of the detailed one, so the refinement mapping is the identity).

### HarqManager

`HarqManager` of the gateway and the scheduler's half of the interface: `NewTransmission`
includes the caching of the DCI, `Finalize` the callback that drops it, `Retransmit` the
callback that sends the cached DCI again or does nothing without one. `SetProcessCount`
models the snapping of counts and the clearing of the table, `ResetStatistics` its silent
loss of processes, `RemoveUt`/`AddUeContext` the scheduler's forgetting of a UE. The packet
buffered for a process lives exactly as long as the process waits and is left out. `copy` and
`generation` of a feedback are histories: the code's feedback names the process only.

### RandomAccess

A UE is a record of the random-access members of `SatUtMac`. A timer that is always cancelled
before it is started again is a Boolean; `m_contentionResolutionTimer` and `m_msg3TxEvent` are
overwritten without a Cancel, so they are numbers of pending events: of those, the ones that
are lost to the handle (`contentionLost`, `msg3Lost`) no Cancel reaches, and a second Cancel
does nothing. Messages are sets; an aggregation window takes any of the messages waiting for
it, in the order of their millisecond (constant delays: nothing overtakes what was sent in an
earlier millisecond, `IsInOrder`, `IsOldest`). UEs that learnt one TC-RNTI from one broadcast
send Msg3 at the same instant and fall into the same window (`IsWhole`; when a handle has
been overwritten, four UEs would be needed for a Msg3 to stray). RARs, Msg4s and MsgBs reach
every UE and each matches what the code compares. The detector of preambles and the
demodulation of Msg4 and MsgB draw by probabilities, so each draw may go either way
(`DetectActivePreamble`, `DetectFalseAlarm`, `DecodeMsg4`). A RA-RNTI repeats after 65 s, far
longer than any message lives, so occasions are never reused. By the default timers an answer,
603 ms after the request, is in time; for the UEs in `AnswerLate` the timers may expire at any
moment. All UEs of a cell use one `rachType`, as the examples do; a cell that mixes both
types, where a 2-step UE could match a RAR, is not modelled.

### ResourceManager, DlScheduler

`ResourceManager` is the account of one beam as operators on a record. `Claims` is the set of
the one claim first fit can make, or the empty set.

`DlScheduler` is `RunScheduler` in SPS_CONFIGURED mode. Between rounds (`Idle`) buffers fill
and empty, CQIs change, UEs enter, leave and are handed over. `StartRound` begins a round;
then for each beam, in ascending order, the grants of the beam are reused in the order of
their RNTIs (`SkipGone`, `SkipNotDue`, `SkipEmpty`, `SkipConflict`, `Reuse`), those that ran
empty or in conflict too often are released (`ReleaseDlSpsGrant`), eligible UEs get new ones
(`Activate` or one of its refusals), and the rest is scheduled dynamically within what
`AvailableRbs` leaves (`EndActivate`, `Defer`, `Redirect`, `Schedule`); `EndBeam` executes the
redirections. Abstractions, each of which allows more than the code does:

* a buffer holds data or does not, and a transmission may or may not empty it;
* admission control admits, queues, refuses or redirects at will; the order of the UEs in
  the queues is arbitrary;
* dynamic NOMA pairs (`NomaPairings`) are any disjoint groups with the required gap of CQI;
* the partner of a grant is checked at any reuse, not at every `m_nomaRepairPeriod`-th;
* the size of a new grant is any from 1 to `SpsClassRbs`;
* every beam is visited; for one without UEs the code does nothing that is kept.

`Phase` offsets a grant by the RNTI where the code hashes it. Deadlines count rounds. HARQ,
power and MCS are left out; a UE holds at most one downlink grant (the code uses one logical
channel). Histories in `round`: `claimed`, `granted`, `twice`.

### UtMac, Uplink

`UtMac` is the data path of a UE's MAC as operators on a record: what `NotifyDataBuffered`,
the two DCIs, `DoTransmit`, `ReceiveData` and the scheduled `SwitchState` calls do to state,
buffer and SR flag. `Uplink` composes one such record per UE with the uplink half of the
scheduler: `Trigger` (the slot), the rounds an SR sets off, configured grants, the demand
worked out from reports and what is pending, and the answers in flight. A run of the scheduler
is one action: `RunSps` takes the configured grants one after another and `RunQueues` the
three classes, each UE in the order of its metric, which may be any; both are folds over a
sequence of UEs, as the loops of the code are. The uplink of a UE is a queue, for its delay is
constant. The repository connects the callbacks of the UE to no
entry of the scheduler; that each reaches the entry of its type with the RNTI filled in is an
assumption of the module (the UE's own CQI reports and HARQ answers carry RNTI 0). UEs do not
implement configured grants: the gateway's blocks for them go unused, which the model keeps.
Conflicts of configured grants are in the model but not reached at the bounds of its run;
`DlScheduler_conflict` covers the same code in the downlink.

### LinkControl

What comes after a grant: an entry in the ledger `m_ulCqiAllocationMap` by slot and symbol,
the PHY's report for it, which may come late or not at all, the scheduler's own feedback, and
the closed-loop power control that turns it into steps of -1, 1 or 3 dB applied a round trip
later. Power and SINR are whole decibels, relative to the target. `misled` is a history. No
run claims that power control converges: see the disagreements below.

### UeReporting, UtRrc

`UtRrc` is the RRC of one UE: filtered metrics of a ground cell and beams, availability, the
A3 event with time to trigger and dwell, the emergency branch, the guard timer, and the
connection states with inactivity timer and paging. A metric is one of a few levels, and the
filter moves it towards the measurement. `UeReporting` is what the network may rely on: a UE
sends one report at a time and then waits for a command or for its guard. `UtRrc` refines it
(`ImplementsReporting`; the mapping takes serving object and pending flag out of the record, and
what is under way, `signal` here, is its `flight`; `Decide` and `TakeOn` are its `Answer` and
`Reconfigure`).
The guard is 1500 ms and a message takes 300 ms, so it expires when nothing is under way.

### ServiceObjects, AdmitControl, Handover

`AdmitControl` holds the registrations and the answers of admission control as operators.
Ratios are compared as integers, multiplied out. `Handover` composes UEs that report as
`UeReporting` says (not the details of `UtRrc`, which is what that refinement is for) with the
gateway's RRC, the contexts and lists of the scheduler and the account of admission control.
What remains of each beam and what each UE asks for may be anything in the given sets each time a
decision is made. A decision may balance the load, which moves other UEs past the RRCs; when a
move is refused or brings nothing, the code balances again from within, with the same picture,
and never returns: `RebalanceForEver` is that, and sets `endless`. `RunScheduler` is the round of
a beam as far as it moves UEs: those with data that admission control would send elsewhere
(`Redirections`) may be moved, together, when the beam is done. The RRC is told neither of these
moves nor of those of load balancing; `moved` has the UEs concerned until their next handover.

### UserPlane

The gateway MAC's queues and round robin, the feeder channel shared by all beams, a satellite
with a pair of PHYs per beam that relays what it hears, the user channels, and the UE MACs
that filter by RNTI, judge a PDU and acknowledge it. Everything on a channel is received by
all on it, in order. UEs register, are given an RNTI, and move between beams. Left out: PDUs
without tags (`SendDlPdu`) and the broadcast of SSBs, which no UE filters for.

### CqiAmc, HarqPolicy, LinkAdaptation

`CqiAmc` is the controller of one UE: the outer loop on integer steps, and the Kalman filter
reduced to what its equations guarantee. `KalmanPredictTo` carries the level on along its rate,
past the report or away from it and beyond the CQIs, which nothing clamps; `Corrected` takes it to
somewhere between there and the report and corrects the rate in the same direction; the forecast
adds a bounded trend and is clamped. The gains are real numbers, so that the level may be wrong
for ever: that the filter converges to a steady CQI is not modelled. `HarqPolicy` decides per
block whether HARQ is used and how careful the MCS is, and adapts the threshold. `LinkAdaptation`
composes them on two paths: `loop` is `examples/ntn-amc-closed-loop.cc`, `system` the scheduler
with the HARQ manager. Reports and blocks are in flight; the wiring (own predictor, external
controller, in which order) is part of the state and any order in which the scheduler's setters
may be called before UEs report may happen, for a scheduler may run before it is handed its
controller. `UpdateUeCsi` is the way a measurement report takes: the gateway's RRC passes the
metric of a beam, often a neighbour's, for a CQI.

### FtpDriver, UdpFlows, HttpTraffic, TrafficRate, TrafficAccounts, LayerStats, RateStats, Traffic

`Traffic` is the traffic generator of one user and, as alternatives, its accounts and the
collectors: `service` is chosen once. `FtpDriver` starts file after file in the three models of TR
37.901; the end of a file is noticed by its socket or by a watchdog. Files that were started may
be started at any later time. `UdpFlows` are the two legs of a VoIP session that share its state,
and a full-buffer flow. `HttpTraffic` has servers, clients, scheduled arrivals, managed sockets
and `ResetStats` between windows; it assumes that a scenario installs before a window opens and
opens the next after a reset. The client of an arrival runs at once, also before the window; the
100 ms by which servers start before clients are left out. `TrafficRate` is the multiplier that
all of them follow.

`TrafficAccounts` is what the generator counts itself: `AccountTx` where a UDP flow sends and
where IPv4 sends a TCP segment, `RecordReceivedPacket` at the sinks, windows and peaks, all
emptied by `ResetStats` while packets and TCP flows from before are still under way. TCP may
repeat a segment until it arrives, and is then counted again, also when the flow is older than
the reset and its source has a new one. `AccountsAreReal` (`AccountsBalance`, `SentIsLogged`,
`PeaksAreReal`) is part of `RatesAreReal`. Bytes delivered are kept by the node that receives,
peaks by the node that sends: the peak "per user" of a downlink is that of its server.

`LayerStats` passes PDUs through SDAP, PDCP (without header compression) and RLC and has each
layer's collector count them, with repetition and loss between; IMSIs are unknown to the
collectors, as in all examples, or all registered before any traffic; were only some registered
(nothing calls `SetImsiForRnti`), the RNTI of a UE could be the IMSI of another, and their
accounts would fall together, which is left out. One direction is modelled,
since the other has the same code and accounts of its own; the clock starts at 1, because the
RRC collector ignores a transition at time 0. `RateStats` is `SatStatsCollector`: windows,
peaks, access, HARQ and the final report, in the three wirings found in the examples. A fourth,
`OnUdpServerRxForThroughput` (`sat-stats-collector.cc:305`), is connected by nothing and left
out: it credits the bytes of all UEs to the first RNTI that has an entry, so that the peak of a
UE would not be its own.

## 3. Runs

| Run | Question | Bounds |
|---|---|---|
| `NtnRlc` | UM and AM with simulated receiver loss, over a PHY that loses PDUs or not: order, no repetition, no gap, refinement of `RlcDelivery`; without PHY loss everything is delivered in the end | 3 SDUs, 4 SNs, 2 STATUS PDUs in flight |
| `HarqManager` | tables and timers agree, each packet is reported once, ACKed data was decoded, none waits for ever | 1 UE, 2 processes, counts 0 and 3 (both snap), 2 retransmissions, 2 packets |
| `RandomAccess` | identity, no hang, finality of 4-step access, completion | 2 UEs, the timers of one shorter than the round trip, 2 preambles, 2 attempts, 4 TC-RNTIs, as many as grants are made, both types |
| `DlScheduler` | accounts balance, the PRACH keeps its blocks, one transmission per UE and round | 3 UEs (2 periodic), 2 beams, handovers, NOMA |
| `DlScheduler_conflict` | overbooked region: disjoint slots, conflicts end | 3 periodic UEs, 1 beam, region 2, factor 1.5, UEs that come and go |
| `Uplink` | a round keeps to the budget, grants match the backlog, the gateway's picture settles | a voice UE and a data UE with downlink traffic, budget 2, buffers of 2 |
| `LinkControl` | measurements are credited to their grants, the ledger does not grow | 2 UEs, 3 dB above target, corrections of -2 to 0 dB, 2 slot numbers, 2 unsettled grants of each, 1 lost report |
| `UtRrc` | watches are warranted, one report at a time, a lasting A3 condition is reported again and again | 1 UE, 1 ground cell, 2 beams, 3 levels |
| `Handover` | all records agree, counts cover registrations, load balancing ends | an emergency UE and one of high capacity, 1 ground cell, 2 beams, 5 handovers, redirections and moves of load balancing |
| `UserPlane` | nothing is relayed twice, an ACK is earned by one reception, queues are served | 2 UEs, 2 beams, one PDU per queue and direction |
| `LinkAdaptation` | the closed loop and the scheduler: one correction per block, the loop settles, the gate heals | 1 UE, CQIs 0 to 2, levels and metrics one step beyond them, 2 reports and 2 blocks in flight, 1 change of channel or measurement report, all schemes, all wirings |
| `Traffic` | files follow one another, VoIP legs agree, installations survive resets, collectors agree, rates are real, traffic goes on | 3 files; spurts of 1, 3 or 4 and gaps of 1 or 2 units; 2 nodes, 5 applications, 2 windows; 2 UEs, 3 flows, 3 events; accounts of an FTP and a VoIP source over 3 ticks |

Why the bounds suffice to see the interesting cases:

* *RLC, HARQ, access, downlink.* Three SDUs are the least with a gap, an SDU behind it and one
  behind that; two copies after the first exercise both the retransmission of a retransmission
  and the last failure; two processes show the choice among free ones; two UEs collide and two
  attempts let the first meet the answers to an abandoned one, which takes no more than four
  grants: TC-RNTIs do not return in the run, nor is the handle of an event overwritten, for
  which a third UE is needed; three UEs are the least for a near UE, its far UE and another near UE
  that would like to have it, two beams the least for grants left behind and for redirection
  within a round; a factor of 1.5 on two slots admits three blocks, one more than fits. The
  run of `RandomAccess` has no false alarms: with one (`MaxGhosts = 1`), a TC-RNTI more for it
  (`RntiSpace = MaxRnti = 5`) and timers that outlast the answers (`AnswerLate = {}`) its
  properties hold too, on 924,384 states; with both a false
  alarm and late answers the state space is too large to be finished.
* *Uplink, LinkControl.* The budget is one configured block and one more, so a round can run
  out; two units of buffer are one more than an SR is worth. The ledger
  does not depend on what the correction comes to, so its range is kept small. Two slot numbers
  return while a lost report has left its entry behind; two grants of a UE wait for their
  feedback in one slot and in different ones.
* *UtRrc, Handover.* Three levels with a hysteresis of one are the least for a neighbour that
  meets A3 and one that beats it. Two beams and a ground cell give every direction; the RBs
  remaining, 4, 10 and 25 of 25, are on both sides of the marks for high load (more than 20
  used), low load (fewer than 10 used), of the PRACH's reserve and of the thresholds; 16 as a
  fourth value reaches the same states. Five handovers are a round trip over all three objects
  and two moves past the RRC in between, and the least after which a beam counts so many emergency
  UEs that balancing does not end. With all values of 0 to 25 for what remains, evaluated apart
  from the behaviour, admission control refuses a rebalancing only for its cap of emergency UEs,
  as `BalancingEnds` says.
* *LinkAdaptation.* The offset spans two steps, a NACK costs two, so one failure takes back what
  two successes gained. With two reports and two blocks each block is judged by a channel other
  than the one it was made for. Between two reports the level may drift by one step (`MaxDrift`)
  in either direction, and so past a report or away from it, as far as one step beyond the CQIs
  (`MaxStray`): a level further out is clamped to the same forecast, and takes longer to return.
  The forecast with the bias of the policy may be wrong by more than the offset can make good
  (3.19 to 3 CQIs by the defaults of the code, and also here): then nothing is claimed until it is
  no more (`WithinReach`). With three CQIs the back-off of blocks sent without HARQ is less than a
  step (`SafeBackOff = 0`): a fade must exceed it, or these blocks would never fail and the gate
  never close. With four CQIs and a back-off of one step the closed loop by itself (`Paths =
  {"loop"}`, `MaxCqi = 3`, `DefaultCqi = 2`) keeps its properties too, on 338,790 states.
* *Traffic.* Three files are the least for one in flight, one queued and one whose predecessor
  is closed by the watchdog. A turn may be shorter than a silence interval (2 < 5), so that a
  leg sleeps through it. Two windows have one reset between them. In three ticks and events
  the accounts see a send, a reset and a repetition, and windows of a source that do not begin
  together; with four events they hold too, on 1,179,487 states.

All bounds are guards of the actions that would exceed them, never constraints on states, so
they do not disturb the checking of liveness. In RLC and random access the system stops when
everything is delivered, or everybody is connected or has given up, and in `Traffic` when the
last application is done: these runs do not check for deadlock. All others do.

Every property of these runs has a mutant in `PROJECT.json`: an operator with a plausible
mistake, defined before the right one in the module and commented as a faulty variant, with
which TLC finds the property violated. Where a conjunction gathers several conditions
(`IdentityIsOwn`, `WatchesAreSound`, `RecordsAgree`, `GrantsAreSound`, `FilesFollow`,
`MeasuredOnce`, `RatesAreReal`, `TrafficGoesOn`), each is named and commented in its module.

### Fairness

Fairness comes from the simulator, which runs every event it has scheduled: timers expire,
messages in flight arrive, windows close, slots and ticks come, rounds run to their end (`WF`).
In two places more is assumed, or less obvious:

* `NtnRlc`: a PDU that is sent again and again gets through some time although a receiver
  drops PDUs with a probability below one (`SF` on the acceptance of the next SN and on the
  STATUS PDU that NACKs it).
* `UtRrc`: `WF` on measuring each object at the level it has: measurements are periodic, and
  a level that stays is measured some time.

In `LinkAdaptation` UEs report periodically, every report is answered and the scheduler runs
in every slot. Nothing is assumed about applications, channels, moves or the network's
answer: no fairness on `TransmitPdcpPdu`, `StartAccess`, `Fade`, buffers, availability.

### Disagreements between code and comments

The runs are set up beside these disagreements. Each can be reproduced with the
constants named, the others as in the run of its module, and the property, which the module keeps:

* `ntn-gw-rrc.h:7` has the gateway's RRC keep the serving object of each UE. The scheduler
  redirects a UE in a round (`geo-beam-scheduler.cc:3171`) or is made to move it by load balancing
  (`admit-control.cc:743`), and nobody tells the RRC, which goes on naming the beam that was
  left (`RecordIsWhereServed` of `Handover`). `RecordsAgree` claims of such a UE that all others agree.
* `geo-beam-scheduler.cc:1250` says that the CLPC converges to the target. Every grant is measured
  and answered by itself 300 ms later, so that with three grants in that time the same error is
  corrected three times: 2 dB too much become 1 dB too little, 2 dB too much and so on
  (`ClpcConverges` under `LinkFairSpec` with `Above = {2}`, `MaxCut = MaxBoost = 10`,
  `LoopDelay = PhyReports = FALSE`, `MaxUnsettled = 3`; it assumes that a UE which keeps sending is
  granted again and again). If the PHY reports as well (`PhyReports = TRUE`) each grant is answered
  twice, and two grants suffice. So they do for fractions of a decibel, which the
  model does not have: a UE that lacks 0.5 to 1 dB is given 2 dB, which is more than 1 dB too much.
* `geo-beam-scheduler.cc:403` promises a single source of the DL CQI. A controller handed to the
  scheduler after the adapter was put in place is never fed, while `GetMcsForNewTx` reads it: the
  two drift apart (`OneSourceOfCqi` of `LinkAdaptation` under `AdaptSpec` with
  `Paths = {"system"}`). Blocks of the scheduler follow the one that is fed, so that `LoopSettles`
  holds all the same.
* `ntn-rlc.cc:425`: t-PollRetransmit repairs only the lowest SN, so with `PhyLoss = {TRUE}` the
  tail of a transmission is lost for good (`ReliableDelivery`). With as many SDUs as SNs
  (`SnMod = MaxSdu = 3`) the duplicate check does not survive the wrap (`InOrderExactlyOnce`).
* `harq-manager.cc:202`: with `FeedbackLate = TRUE` an outdated answer is applied to whatever
  the process now waits for (`OutdatedFeedbackIgnored`).
* `sat-ut-mac.cc`: success by MsgB leaves a Msg3 and a timer behind, which can take a
  connected UE down (`AccessIsFinal`, in a 2-step cell of three UEs).
* `geo-beam-scheduler.cc`: a handover leaves the configured grant with the old beam
  (`HolderNeverDynamic`); `GrantedOnce` excepts the UEs concerned.
* `sat-ut-mac.h:129`: data of a connected UE is said to trigger an SR; `sat-ut-mac.cc:449` never
  clears `m_srPending`, so that later data stays silent (`DataIsSent` of `Uplink`). A lost
  uplink PDU leaves what is pending equal to what was reported, and the demand at zero.
* `sat-ut-rrc.cc:638`: reports are suppressed "until" the guard elapses, but in the emergency
  branch an object once reported is not reported again (`OutageReportsRepeat`).
* `admit-control.h:47`: a beam's count grows by one too many on each trip to the ground and
  back (`BeamCountIsExact`). `admit-control.cc:733`: the next target is said to be tried after a
  refusal; instead the balancing recurses. The threshold "benefit too low" never blocks a
  handover, and a recommendation applies the factor for high capacity twice.
* `sat-ut-mac.cc:238`: once a packet's own SINR has been put into the error model the channel's
  is never used again (`JudgedByOwnSignal` of `UserPlane` with `Injected = {}`).
* `ntn-gw-rrc.cc:222`: the metric of a measurement report, in dBm and often a neighbour's, is
  recorded as the UE's CQI until the next CQI report (`UpdateUeCsi`). The loop recovers;
  `LoopSettles` includes it.
* `geo-beam-scheduler.cc:3832`: TC-RNTIs return without a look at the contexts in use. In a cell
  with fewer of them than grants (`RntiSpace = 3`, `MaxRnti = 4`) a late answer to the first use
  reaches a UE of the second, and `FourStepAccessIsFinal` fails.
* With data traffic only, the HARQ policy may lower its gate and never try again
  without HARQ, for the gate opens only through such blocks; `GateHeals` requires that they
  keep being sent. The careful MCS of the policy is undone by the outer loop, which corrects
  it away.
* `traffic-models.cc`: the hook that notices a closed FTP socket gives up after 170 ms, well
  before a reading time of seconds is over, and leaves the rest to the watchdog
  (`CloseIsNoticed`); an HTTP arrival that was pending at a reset reuses the index of a new
  chain (`OneChain`); a leg of VoIP that is woken early advances its RTP time by a whole frame.
* `rohc-compressor.cc`: the test for a header is inverted. With compression on nothing is
  compressed and every packet is altered by the decompressor.
* `sat-stats-collector.cc`: rates are kept by RNTI and, when `RecordDlDataForwarding` is wired,
  by IMSI as well, so connected UEs may be counted twice; the time base of the report differs by
  0.1 s from the clock's in `ntn-system-sim`; first transmissions of HARQ stay at zero.

## 4. Proofs

The theorems hold for every value of the constants that satisfies the named assumptions of the
modules. Each is an inductive invariant: implied by `Init`, preserved by each action (one step of
the proof per action), implying the property; `PTL` combines the three.

* **NtnRlc_proofs.** `TypeCorrect`. `InOrderCorrect`, `NackIsAnswerableCorrect`: while no SN is
  used twice (`MaxSdu < SnMod`), by `RlcInv`: SN k carries SDU k+1 everywhere it occurs, in the
  buffers of both sides and in flight, and the receiver's next SN is the number of SDUs
  delivered. In-order delivery alone is not inductive: it says nothing of what is in the
  buffers. `MissingIsReportedCorrect` needs no such assumption. `RlcImplementsDelivery`: the
  refinement of `RlcDelivery`, by the same invariant. `NoSduForgottenCorrect`: over a PHY
  that loses nothing, every SDU is received, in flight, NACKed or noted as missing; its
  strengthening adds that the gaps below the highest buffered SN are noted.
  Three services of `Traffic`, each with an invariant that only its own steps can disturb:
  `FilesFollowCorrect`, by `FtpInv`: a file that is not in flight any more is closed or has no
  watchdog left (`OneAtATime` says so of earlier files only, which is not inductive: the current
  one becomes an earlier one when the next is spawned), and before the driver starts there is
  but the first file. `LegsAgreeCorrect`, by `LegsInv`: a leg that runs wakes no later than its
  session changes, so that whichever leg advances the session, the other is due in the same
  instant; until then it sends as the session was before. `InstallationsAreWholeCorrect`, by
  `HttpInv`: a node is in the registry of traces when it has a server, and contexts exist only
  while arrivals are active, so that an arrival that ends its chain is never that of a context.
* **HarqManager_proofs.** `TypeCorrect`, `TimerIffWaitingCorrect`, `EachReportedOnceCorrect`
  (by the cardinality of the set of waiting processes, which each action changes by at most
  one element), `EveryNackActedOnCorrect`, `CacheIsLiveCorrect`, `EverRetxAgreesCorrect`, and
  `AckedCopyWasDecodedCorrect`, which rests on `FeedbackInv`: while answers beat the
  timeout, a waiting process has at most one answer under way, for its last copy, and a free
  process has none. Of `LinkAdaptation`: `AdaptTypeCorrect` (the CQI taken for a UE and the MCS of a
  block are CQIs, wherever the level strays) and the
  action property `EachBlockSteersOnceCorrect`, by `AdaptInv`: types, the bound on blocks in
  flight, and that no block has had more attempts than its retransmissions allow. The offset of
  a UE may move only in `PolicyDecode` and `HandleDlHarqFeedback`, where the number of its
  blocks not yet judged falls by one (`RemovedCount`, `AppendCount`: what removing a block and
  appending its retransmission do to a count); a report moves the level and the
  rate of the controller it feeds and leaves offsets alone (`ReportKeeps`).
* **DlScheduler_proofs.** `TypeCorrect`, with `BeamOpen` (inside a round the beam in hand is a
  beam); `FarBoundOnceCorrect`; `SlotsExclusiveCorrect`; `PrachKeptCorrect`, by `PrachInv`: outside
  dynamic scheduling all that is used of a beam is what was claimed, and in it what is
  available fits between what is used and the PRACH's reserve. `GrantedOnceCorrect`, by
  `OnceInv`: a UE may be served twice, as the holder of a grant in the grant's beam and at home
  in its own, and each of the two ends for good; whoever got a transmission is past one
  (`HolderDone`, `HomeDone`), who got two is past both, in different beams. That nobody served
  enters a later loop of the beam (`LoopSound`), that a holder at home is served before dynamic
  scheduling begins (`HoldersServed`) and `FarBoundOnce` make it inductive. The lemmas named
  `...Effect` say what each action does to grants, accounts and the round, so that the
  invariants are proved from them and not from the actions' text. `AdmittedIsSumCorrect`: what a
  beam has admitted is the sum of its grants, and within the cap. The sum is stated as the
  cardinality of the set of admitted blocks, and `AdmittedInv` needs that an activated UE
  holds its grant in the beam of the round and that only holders of that beam are released.
* **RandomAccess_proofs.** `TypeCorrect` and `AttemptIsTimedCorrect`, which needs two things more:
  that an attempt without a grant is timed by the timer of the response, and that a sender of Msg3
  has a contention timer. `IdentityIsOwnCorrect`, by the *life* of an RNTI: it is offered by a RAR
  or MsgB, then asked for by the UEs that took the offer, then confirmed to one of them, and while
  it is at one stage it is at no later one. `UniqueCrnti` alone knows nothing of the confirmations
  under way. Below the wrap of the counter, distinct grants are distinct RNTIs and a new one is
  above the counter; a window of Msg3s takes all that ask for an RNTI, so what it confirms is not
  asked for again. `FourStepAccessIsFinalCorrect`, while RNTIs last (`MaxRnti <= RntiSpace`): in a
  4-step cell a UE has one thing under way at a time, a RAR, the instant of its Msg3, or a Msg4,
  and none once its attempt is over (`Tidy`); so nothing is left that could take a connected UE
  down. When an RNTI is used a second time a confirmation of its first use may reach a UE that is
  still waiting to send Msg3, `Tidy` fails, and with late answers so does the property (section
  3). `AccessIsFinalWhileRntisLast` is the same as an invariant of states with no assumption on
  the constants. The lemmas named `...Typed` say what each action does to types and identities,
  those named `...Keep(s)` what follows for lives. The wholeness of a Msg3 window is a guard of
  the model (section 2) and so a premise here.
* **Handover_proofs.** Of `UtRrc`: `UtRrcTypeCorrect`, `WatchesAreSoundCorrect` and the refinement
  `ImplementsReportingCorrect`. The invariant adds to the watches that a UE whose message is under
  way waits for it, that the message speaks of its serving object and of another one, and that a
  UE without a serving object has measured nothing. `FindBestNeighborObject` breaks ties by the
  least number, so the lemmas begin with the least member of a set. Of `Handover`:
  `HandoverKeepsToReporting`: what the gateway does to the messages is what `UeReporting` allows,
  so that the composition and `UtRrc` meet in one specification. `RecordAgreesCorrect`, the part
  of `RecordsAgree` about the serving object: while no command is under way the gateway's record
  is the UE's own. Its invariant adds that a message is under way only to or from a UE that waits,
  and speaks of its serving object and of another. `HandoverTypeCorrect`, `RecordsAgreeCorrect`
  and `CountsCoverCorrect` rest on `AgreeInv`: `Located` says of each UE which of the records
  speak of it and what they say, by whether it is known, has an entry of the RRC, was moved past
  it, and what is under way to it; `Covers`, that the counters of active UEs are no fewer than the
  registrations. `Covers` is not inductive by itself: leaving the ground lowers the counter of the
  ground cell on the RRC's record, and it is `Located` that says the UE was registered there. Each
  operator of the gateway has a lemma named `...Effect`; that one rebalancing, a fold over the UEs
  it moves, keeps all of it is an induction over finite sets. `BalancingEndsCorrect` assumes
  `RequestsAreSmall`: what a UE asks for, with what is reserved, is at most 60 % of the budget of
  a beam, and by itself at most 39 %. The defaults of the code and the constants of the run
  satisfy it; with larger requests a beam of low load may refuse a UE for want of blocks, and the
  recursion of `admit-control.cc:733` does not end.
* **Statistics_proofs.** `RatesAreRealCorrect`, by `RatesInv` and `AccountsInv`, one for each
  collector. A window of `SatStatsCollector` holds what its UE received since it began, and the
  peak is the largest of the windows before it: windows are counted from the present one
  (`Window`), so that one that ends moves all by the same number. For each UE and process,
  retransmissions and NACKs differ by what waits now (`BlockBalances`). In the generator's
  accounts, what is due (in flight, to a sink that is traced) is covered by what its service sent
  since the reset (`DueCovered`); a sink that is traced was installed after the reset, so that
  every flow to it is younger too and its source is traced (`FlowsTraced`): without this,
  delivered bytes could exceed those generated. A window that is over ends with the present tick,
  and whatever was sent lies before its end (`WindowIsReal`), so that its bytes are those of an
  interval of the log. The sums are all the values of one function (`SumOn`), whatever the order
  in which a fold takes its members (`SumIsAdder`, `SumUpToIsAdder`), likewise maxima (`MostOn`).
  `MeasuredOnceCorrect`, by `LayersInv`. The accounts of a bearer are kept under different keys
  (RNTI and flow, RNTI and bearer, IMSI or RNTI and bearer). What was sent agrees field by field
  over SDAP and PDCP, what was received down to RLC (`CountsAgree`, `ReceivedAgree`); this needs
  that two UEs never share a key (`KeysApart`), for IMSIs are registered before any traffic or not
  at all. What RLC has sent is what it has received, what was wasted, and what is still under way,
  a count over the places of the sequence in flight (`RepeatsAreWaste`). As many delays are kept
  as PDUs are counted, and the largest delay of a flow is among them (`DelaysCounted`,
  `DelaysShown`). The sum of a UE's times and the first of its transitions make up the last
  (`TimesFit`), and the entries of all states and the events left are no more than all events
  (`TimesHold`). A pool of samples has as many as the UEs have together, and the same values, in
  whatever order the fold takes the UEs (`PoolHolds`); the value at a place of a sample is one of
  its values (`SampleAtPlace`).
* **UserPlane_proofs.** `TypeCorrect`. `NothingIsRelayedTwiceCorrect`, by `RoutedInv`: on the
  feeder send only the gateway, downlink, and the satellite, uplink; on a beam's channel only
  the satellite, downlink, and UEs, uplink under the RNTI they have, ACKs only with one of
  their own. `AcksAreEarnedCorrect`, by
  `DueInv`: for a UE with an RNTI of its own, copies the satellite has still to bring down and
  ACKs still to come are as many as were sent and neither missed nor counted, on all channels
  together (`Total`, a sum over the channels, again as a cardinality). UEs without an RNTI
  share one, so for them only `>=` holds.
* **Uplink_proofs.** `TypeCorrect`, `GrantsAreSoundCorrect`, `PictureSettlesCorrect`, by
  `UplinkInv`. `StateInv`: what the round granted is what the account of the beam has used, and no
  more than the budget; what is pending of a UE is what was issued to it, capped by its backlog
  (`Picture`), from which `PendingIsCovered` and `GrantsMatchBacklog` follow. `AskInv`: a UE asks
  once, and as long as its SR is under way, or not yet sent, the gateway has granted it nothing
  and knows nothing of it; else an SR could find a picture that contradicts it. `HeardInv`: the
  reports and PDUs under way, applied in their order to what the gateway believes, lead to no more
  than the UE has (`Settles`). A run of the scheduler changes many UEs in one step: `Sound(base)`
  is the set of runs that may come of a state, each UE's turn stays in it (`Touches`,
  `SoundReuse`, `SoundActivate`, `SoundServe`), and the lemmas about `Solves` carry that over to
  the folds: that the function `FoldLeft` chooses exists, and that a set closed under the step
  contains its values. Of `LinkControl`: `LinkControlTypeCorrect` (the correction of a UE stays
  between its limits) and `LedgerIsSoundCorrect`, by `LedgerInv`: the entry at the place of a
  measurement, if there is one, is the entry of the grant that was measured, and the entries of
  the current slot are kept. Both are needed: the slot number returns while a report is under way,
  and a new grant gets one symbol beyond the last of its slot (`BoundedMax`: a bounded set of
  numbers has a maximum), which is a place of its own only as long as the measured grants of that
  slot are still in the ledger.

Some of these properties (`NackIsAnswerable`, `MissingIsReported`, `NoSduForgotten`,
`TimerIffWaiting`, `EverRetxAgrees`, `FarBoundOnce`, `RecordAgrees` by itself, the type
invariants) are left to the proofs and are in no run.

Sums and folds over finite sets of any size are proved by `SubsetInduction`, which each of these
modules derives from the well-foundedness of strict inclusion on finite sets; the induction
theorems of the library, which take an operator as a parameter, are not used. For this the sets of
UEs and beams are assumed finite (`HandoverAssumption`, `UserPlaneAssumption`,
`DlSchedulerAssumption`, `UplinkAssumption`, `TrafficAssumption`: UEs, flows, processes, nodes,
services), as the lists and maps of the code are.

Only model-checked: liveness, for TLAPS proves no fairness argument here (`EventualDelivery`,
`EventuallyResolved`, `AccessCompletes`, `ConflictsEnd`, `QueuesAreServed`, `A3ReportsRepeat`,
`LoopSettles`, `GateHeals`, `TrafficGoesOn`).

## 5. Plan

In the order of importance for the system.

1. *(done)* `NtnRlc`, `HarqManager`, `DlScheduler` with their proofs; `RandomAccess`; the uplink;
   measurement and handover; the data path; link adaptation; traffic and statistics.
2. *(done)* The proofs: every invariant and action property that a passing run checks.
3. To prove: that grants are held by known UEs only in `DlScheduler`; that a `Handover` which
   moves nobody past the RRC keeps every UE where its RRC says; that access of 4 steps is
   final after RNTIs return, if answers beat their timers.
4. To model: PDCP with header compression once its test for a header is right; cells that mix
   2-step and 4-step access; conflicts of configured grants in `Uplink` at larger bounds.

## 6. Not modelled

* The numerical parts: SINR, gains, link budgets, propagation, PSDs, frequency reuse, error
  curves, the gains of the Kalman filter, TBS tables, scheduling metrics and weights. They are
  real arithmetic; where an outcome depends on them, every outcome is possible in the models.
* Header compression, see section 3. TM mode of RLC keeps no state.
* Topology and terminal helpers, examples, result files: they build a scenario once or print.
* The legacy SPS mode of the scheduler, superseded by SPS_CONFIGURED; `SendDlPdu` and SSBs of
  the gateway MAC; the outcome statistics of handovers, which nothing reads.
* Recorders of `SatStatsCollector` that no code calls or wires (`RecordAccessAttempt` and its
  kin, `RecordHarqTransmission`, `RecordDlTxPdu`, `OnUdpServerRxForThroughput`), the statistics of
  beams, the texts of files.
* Sizes of packets and headers, ARP pings, profiles of terminals and of HTTP objects.

## 7. Running

    tlc -config NtnRlc.cfg NtnRlc
    tlapm NtnRlc_proofs.tla

and likewise for the other runs and the other `_proofs` modules. The longest runs take two to
three minutes with two workers.
