------------------------------ MODULE LayerStats ------------------------------
(***************************************************************************)
(* The collectors of the layers (helper/sat-*-stats-collector.cc), wired   *)
(* to the traces of the layers as examples/ntn-layer-stats-demo.cc does: a *)
(* PDU of a flow passes SDAP, PDCP (without header compression) and RLC    *)
(* down and up again, and each collector keeps its own account of it.      *)
(*                                                                         *)
(* What RLC does to a PDU is in NtnRlc; here it is repeated, lost or       *)
(* received in the order of its bearer.  Downlink and uplink have the same *)
(* code and separate accounts; one direction is modelled.  Of the tables   *)
(* of samples of PHY and MAC, filled and read alike, one each is modelled. *)
(***************************************************************************)
EXTENDS Naturals, Sequences, SequencesExt

CONSTANTS
  Ue,             (* By RNTI.                                              *)
  Qfi, Size,      (* Flows and PDU sizes.                                  *)
  MaxTime,        (* Bound on the clock.                                   *)
  MaxEvents       (* Bound on what happens in that time.                   *)

LayerStatsAssumption ==
  /\ Ue \subseteq Nat /\ IsFiniteSet(Ue) /\ Qfi \subseteq Nat /\ IsFiniteSet(Qfi)
  /\ Size \subseteq Nat \ {0} /\ MaxTime \in Nat /\ MaxEvents \in Nat

VARIABLES
  now, left,      (* The clock, and the events left.                       *)
  imsi,           (* m_rntiToImsi, of PDCP's and RLC's collectors.         *)
  flight,         (* PDUs on their way.                                    *)
  qfiStats, drbStats,    (* SDAP, per RNTI and flow or bearer.             *)
  pdcpStats, rlcStats,   (* Per IMSI and bearer.                           *)
  phySamples, macSamples, e2eSamples,
  rrcState,       (* The state of each UE.                                 *)
  rrcStats,       (* m_ueStats of RRC.                                     *)
  wasted,         (* History: RLC transmissions that delivered nothing.    *)
  firstSeen       (* History: time of each UE's first transition, or 0.    *)

flowVars == <<flight, qfiStats, drbStats, pdcpStats, rlcStats, e2eSamples, wasted>>
sampleVars == <<phySamples, macSamples>>
rrcVars == <<rrcState, rrcStats, firstSeen>>
vars == <<now, left, imsi, flowVars, sampleVars, rrcVars>>

(* MapQfiToDrb, as the demo calls it, and m_defaultLcid.                   *)
GetDrbForQfi(q) == IF q = 5 THEN 4 ELSE 3
Drb == {GetDrbForQfi(q) : q \in Qfi}

RrcState == {"IDLE_RANDOM_ACCESS", "CONNECTED_NORMALLY", "RRC_INACTIVE"}

EmptyAccount == [txBytes |-> 0, txPdus |-> 0, rxBytes |-> 0, rxPdus |-> 0, maxDelay |-> 0]
EmptyTimes == [entries |-> [s \in RrcState |-> 0], time |-> [s \in RrcState |-> 0],
               last |-> 0, paging |-> 0]

(* The IMSIs are unknown to the collectors, or all registered beforehand.  *)
(* Nothing in the repository calls SetImsiForRnti.  With some registered   *)
(* and others not, the RNTI of a UE can be the IMSI of another, and their  *)
(* accounts would fall together: that case is left out.                    *)
Init ==
  /\ now = 1 /\ left = MaxEvents
  /\ imsi \in {<<>>} \cup {f \in [Ue -> Ue] : \A u, v \in Ue : f[u] = f[v] => u = v}
  /\ flight = <<>>
  /\ qfiStats = [k \in Ue \X Qfi |-> EmptyAccount]
  /\ drbStats = [k \in Ue \X Drb |-> EmptyAccount]
  /\ pdcpStats = [k \in Ue \X Drb |-> EmptyAccount]
  /\ rlcStats = [k \in Ue \X Drb |-> EmptyAccount]
  /\ phySamples = [u \in Ue |-> <<>>] /\ macSamples = [u \in Ue |-> <<>>]
  /\ e2eSamples = [u \in Ue |-> <<>>]
  /\ rrcState = [u \in Ue |-> "IDLE_RANDOM_ACCESS"]
  /\ rrcStats = [u \in Ue |-> EmptyTimes]
  /\ wasted = [k \in Ue \X Drb |-> 0] /\ firstSeen = [u \in Ue |-> 0]

-----------------------------------------------------------------------------
(* Accounts.                                                               *)

Larger(a, b) == IF a > b THEN a ELSE b

(* DoSendData of SDAP: a PDU carries the time and the flow.                *)
NewPdu(u, q, size) == [ue |-> u, qfi |-> q, size |-> size, time |-> now, sent |-> 1]
(* DoReceiveData of SDAP, of PDCP and DeliverToUpper of RLC.               *)
Delay(p) == now - p.time

Sent(a, p) == [a EXCEPT !.txBytes = @ + p.size, !.txPdus = @ + 1]
Got(a, p) == [a EXCEPT !.rxBytes = @ + p.size, !.rxPdus = @ + 1,
                       !.maxDelay = Larger(@, Delay(p))]

(* Faulty variant: the IMSI is taken for the RNTI, but not the bearer's.   *)
MakeKeyOfDefault(u, lcid) == <<IF u \in DOMAIN imsi THEN imsi[u] ELSE u, 3>>
(* MakeKey: the IMSI where it is known, the RNTI otherwise.                *)
MakeKey(u, lcid) == <<IF u \in DOMAIN imsi THEN imsi[u] ELSE u, lcid>>

OnTxSdap(p) ==
  /\ qfiStats' = [qfiStats EXCEPT ![<<p.ue, p.qfi>>] = Sent(@, p)]
  /\ drbStats' = [drbStats EXCEPT ![<<p.ue, GetDrbForQfi(p.qfi)>>] = Sent(@, p)]
OnRxSdap(p) ==
  /\ qfiStats' = [qfiStats EXCEPT ![<<p.ue, p.qfi>>] = Got(@, p)]
  /\ drbStats' = [drbStats EXCEPT ![<<p.ue, GetDrbForQfi(p.qfi)>>] = Got(@, p)]

PdcpTxPdu(p) == pdcpStats' = [pdcpStats EXCEPT ![MakeKey(p.ue, GetDrbForQfi(p.qfi))] = Sent(@, p)]
PdcpRxPdu(p) == pdcpStats' = [pdcpStats EXCEPT ![MakeKey(p.ue, GetDrbForQfi(p.qfi))] = Got(@, p)]
RlcTxPdu(p) == rlcStats' = [rlcStats EXCEPT ![MakeKey(p.ue, GetDrbForQfi(p.qfi))] = Sent(@, p)]
RlcRxPdu(p) == rlcStats' = [rlcStats EXCEPT ![MakeKey(p.ue, GetDrbForQfi(p.qfi))] = Got(@, p)]

(* GetQfiStats, GetDrbStats: a flow or bearer of all UEs.                  *)
Total(stats, field, keys) == FoldSet(LAMBDA k, n : stats[k][field] + n, 0, keys)
GetQfiStats(q, field) == Total(qfiStats, field, Ue \X {q})
GetDrbStats(d, field) == Total(drbStats, field, Ue \X {d})

(* GetDlBearerStats, of PDCP and of RLC.                                   *)
GetPdcpBearerStats(k, field) == pdcpStats[k][field]
GetRlcBearerStats(k, field) == rlcStats[k][field]

GetEstimatedRetxCount(k) ==
  IF rlcStats[k].txPdus > rlcStats[k].rxPdus THEN rlcStats[k].txPdus - rlcStats[k].rxPdus ELSE 0

-----------------------------------------------------------------------------
(* Samples.                                                                *)

(* The value at place k of the sorted samples.                             *)
AtPlace(s, k) ==
  CHOOSE x \in ToSet(s) : /\ Cardinality({i \in DOMAIN s : s[i] < x}) < k
                          /\ Cardinality({i \in DOMAIN s : s[i] <= x}) >= k

(* ComputeStats of MAC and E2E, with the 95th percentile.                  *)
ComputeStats(s) ==
  IF s = <<>> THEN [count |-> 0, min |-> 0, max |-> 0, p95 |-> 0]
  ELSE [count |-> Len(s), min |-> Min(ToSet(s)), max |-> Max(ToSet(s)),
        p95 |-> AtPlace(s, (95 * Len(s) + 99) \div 100)]

(* All UEs' samples.                                                       *)
Pooled(samples) == FoldSet(LAMBDA u, all : all \o samples[u], <<>>, Ue)

GetAggregateE2eStats == ComputeStats(Pooled(e2eSamples))
GetAggregateQueueDelayStats == ComputeStats(Pooled(macSamples))

(* Of PHY: no percentile, but the square of the deviation, times count^2.  *)
PhyStats(s) ==
  LET sum == FoldLeft(LAMBDA a, b : a + b, 0, s)
      squares == FoldLeft(LAMBDA a, b : a + b * b, 0, s)
  IN [count |-> Len(s), variance |-> Len(s) * squares - sum * sum]
GetAggregateRsrpStats == PhyStats(Pooled(phySamples))

-----------------------------------------------------------------------------
(* Actions.                                                                *)

Event == left > 0 /\ left' = left - 1 /\ UNCHANGED <<now, imsi>>

(* DoSendData of PDCP after SDAP's, and RLC's transmission.                *)
Send(u, q, size) ==
  LET p == NewPdu(u, q, size) IN
  /\ Event
  /\ OnTxSdap(p) /\ PdcpTxPdu(p) /\ RlcTxPdu(p)
  /\ flight' = Append(flight, p)
  /\ UNCHANGED <<e2eSamples, wasted, sampleVars, rrcVars>>

(* AmDoTransmit again: RLC's trace sees every transmission.                *)
Retransmit(i) ==
  /\ Event
  /\ RlcTxPdu(flight[i])
  /\ flight' = [flight EXCEPT ![i].sent = @ + 1]
  /\ UNCHANGED <<qfiStats, drbStats, pdcpStats, e2eSamples, wasted, sampleVars, rrcVars>>

SameBearer(p, r) == p.ue = r.ue /\ GetDrbForQfi(p.qfi) = GetDrbForQfi(r.qfi)
Waste(p, n) == wasted' = [wasted EXCEPT ![MakeKey(p.ue, GetDrbForQfi(p.qfi))] = @ + n]

RecordE2eDelay(u, delay) == e2eSamples' = [e2eSamples EXCEPT ![u] = Append(@, delay)]

(* DeliverToUpper of RLC, DoReceiveData of PDCP, then of SDAP.             *)
Receive(i) ==
  LET p == flight[i] IN
  /\ \A j \in 1..(i - 1) : ~SameBearer(flight[j], p)
  /\ OnRxSdap(p) /\ PdcpRxPdu(p) /\ RlcRxPdu(p)
  /\ RecordE2eDelay(p.ue, Delay(p))
  /\ flight' = RemoveAt(flight, i)
  /\ Waste(p, p.sent - 1)
  /\ UNCHANGED <<now, left, imsi, sampleVars, rrcVars>>

Lose(i) ==
  /\ flight' = RemoveAt(flight, i)
  /\ Waste(flight[i], flight[i].sent)
  /\ UNCHANGED <<now, left, imsi, qfiStats, drbStats, pdcpStats, rlcStats, e2eSamples,
                 sampleVars, rrcVars>>

OnRsrp(u, x) ==
  /\ Event /\ phySamples' = [phySamples EXCEPT ![u] = Append(@, x)]
  /\ UNCHANGED <<macSamples, flowVars, rrcVars>>

OnQueueDelay(u, x) ==
  /\ Event /\ macSamples' = [macSamples EXCEPT ![u] = Append(@, x)]
  /\ UNCHANGED <<phySamples, flowVars, rrcVars>>

(* OnStateTransition; the demo makes no transition at time 0, from which   *)
(* the collector would not count.                                          *)
AfterTransition(a, old, new) ==
  [entries |-> [a.entries EXCEPT ![new] = @ + 1],
   time |-> IF a.last > 0 THEN [a.time EXCEPT ![old] = @ + now - a.last] ELSE a.time,
   last |-> now,
   paging |-> a.paging + (IF old = "RRC_INACTIVE" /\ new = "IDLE_RANDOM_ACCESS" THEN 1 ELSE 0)]

(* Access, inactivity and paging.                                          *)
NextState(s) == CASE s = "IDLE_RANDOM_ACCESS" -> "CONNECTED_NORMALLY"
                  [] s = "CONNECTED_NORMALLY" -> "RRC_INACTIVE"
                  [] s = "RRC_INACTIVE" -> "IDLE_RANDOM_ACCESS"
OnStateTransition(u) ==
  LET old == rrcState[u]  new == NextState(old) IN
  /\ Event
  /\ rrcState' = [rrcState EXCEPT ![u] = new]
  /\ rrcStats' = [rrcStats EXCEPT ![u] = AfterTransition(@, old, new)]
  /\ firstSeen' = [firstSeen EXCEPT ![u] = IF @ = 0 THEN now ELSE @]
  /\ UNCHANGED <<flowVars, sampleVars>>

GetTotalTransitions ==
  FoldSet(LAMBDA k, n : rrcStats[k[1]].entries[k[2]] + n, 0, Ue \X RrcState)

Elapse ==
  /\ now < MaxTime /\ now' = now + 1
  /\ UNCHANGED <<left, imsi, flowVars, sampleVars, rrcVars>>

Next ==
  \/ \E u \in Ue : \/ \E q \in Qfi, size \in Size : Send(u, q, size)
                   \/ \E x \in 1..2 : OnRsrp(u, x) \/ OnQueueDelay(u, x)
                   \/ OnStateTransition(u)
  \/ \E i \in DOMAIN flight : Receive(i) \/ Lose(i) \/ Retransmit(i)
  \/ Elapse

-----------------------------------------------------------------------------
(* Properties.                                                             *)

(* The key under which a UE should be found.                               *)
Identity(u) == IF imsi = <<>> THEN u ELSE imsi[u]

(* What SDAP counts for the flows of a bearer, SDAP for the bearer, PDCP   *)
(* and (of what is received) RLC is the same, for every bearer of every UE.*)
AccountsAgree ==
  \A u \in Ue, d \in Drb :
    LET k == <<Identity(u), d>> IN
    /\ \A field \in {"txBytes", "txPdus", "rxBytes", "rxPdus"} :
         LET ofFlows == Total(qfiStats, field, {u} \X {q \in Qfi : GetDrbForQfi(q) = d})
         IN ofFlows = drbStats[u, d][field] /\ ofFlows = GetPdcpBearerStats(k, field)
    /\ \A field \in {"rxBytes", "rxPdus", "maxDelay"} :
         GetPdcpBearerStats(k, field) = GetRlcBearerStats(k, field)
    /\ GetPdcpBearerStats(k, "maxDelay") = drbStats[u, d].maxDelay

(* What RLC's collector takes for retransmissions is what delivered nothing*)
(* so far: repeated, lost, or on its way.                                  *)
RetransmissionsAreWaste ==
  \A u \in Ue, d \in Drb :
    GetEstimatedRetxCount(<<Identity(u), d>>) =
      wasted[Identity(u), d] +
      FoldLeft(LAMBDA n, p : n + (IF p.ue = u /\ GetDrbForQfi(p.qfi) = d THEN p.sent ELSE 0),
               0, flight)

(* The delays of all UEs are those the layers counted, one for each PDU.   *)
DelaysAgree ==
  /\ GetAggregateE2eStats.count = FoldSet(LAMBDA q, n : n + GetQfiStats(q, "rxPdus"), 0, Qfi)
  /\ GetAggregateE2eStats.count = FoldSet(LAMBDA d, n : n + GetDrbStats(d, "rxPdus"), 0, Drb)
  /\ GetAggregateE2eStats.max =
       FoldSet(LAMBDA k, m : Larger(qfiStats[k].maxDelay, m), 0, Ue \X Qfi)

(* Pooled samples: the percentile lies between the extremes of the UEs,    *)
(* and samples do not vary if, and only if, they are all the same.         *)
PoolsAreWhole ==
  /\ LET pool == GetAggregateQueueDelayStats IN
     /\ pool.count = FoldSet(LAMBDA u, n : n + ComputeStats(macSamples[u]).count, 0, Ue)
     /\ \A u \in Ue : macSamples[u] # <<>> => /\ pool.min <= ComputeStats(macSamples[u]).min
                                              /\ pool.max >= ComputeStats(macSamples[u]).max
     /\ pool.min <= pool.p95 /\ pool.p95 <= pool.max
  /\ (GetAggregateRsrpStats.variance = 0) =
       (\A a, b \in UNION {ToSet(phySamples[u]) : u \in Ue} : a = b)

(* The time a UE spent in its states is that since its first transition,   *)
(* and it was paged once for each time it left RRC_INACTIVE.               *)
TimesAddUp ==
  /\ \A u \in Ue :
       LET t == rrcStats[u] IN
       /\ FoldSet(LAMBDA s, n : t.time[s] + n, 0, RrcState) = t.last - firstSeen[u]
       /\ t.entries["RRC_INACTIVE"] - t.paging = (IF rrcState[u] = "RRC_INACTIVE" THEN 1 ELSE 0)
       /\ t.time["RRC_INACTIVE"] > 0 => t.paging > 0
  /\ GetTotalTransitions <= MaxEvents

MeasuredOnce ==
  AccountsAgree /\ RetransmissionsAreWaste /\ DelaysAgree /\ PoolsAreWhole /\ TimesAddUp
=============================================================================
