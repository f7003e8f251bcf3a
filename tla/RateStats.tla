------------------------------ MODULE RateStats ------------------------------
(***************************************************************************)
(* The collector of a simulation (SatStatsCollector): access, HARQ and the *)
(* rates of the UEs, and the report at the end.  Which recorder of received*)
(* bytes is connected is the scenario's choice; those that count a PDU in  *)
(* the window of its arrival are one here.  RecordDlRxPdu counts first and *)
(* advances the window then; RecordDlDataForwarding, which ntn-system-sim  *)
(* connects, keeps no window and has IMSIs where the others have RNTIs.    *)
(*                                                                         *)
(* OnUdpServerRxForThroughput, which nothing connects, is left out: it     *)
(* credits the bytes of every UE to the first RNTI with an entry, so of    *)
(* what is stated here only BytesAreCounted would survive it.              *)
(*                                                                         *)
(* Rates are bytes per window or run.  The statistics of beams, which no   *)
(* code feeds, and the text of the report are left out.                    *)
(***************************************************************************)
EXTENDS Naturals, Sequences, SequencesExt

CONSTANTS
  Ue,             (* By RNTI.                                              *)
  Size,           (* PDU sizes.                                            *)
  Process,        (* HARQ processes of a UE.                               *)
  WindowSize,     (* m_slidingWindowSize                                   *)
  MaxTime,        (* End of the simulation.                                *)
  MaxEvents       (* Bound on what happens until then.                     *)

RateStatsAssumption ==
  /\ Ue \subseteq Nat \ {0} /\ Size \subseteq Nat \ {0}
  /\ IsFiniteSet(Ue) /\ IsFiniteSet(Process)
  /\ WindowSize \in Nat \ {0} /\ MaxTime \in Nat /\ MaxEvents \in Nat

VARIABLES
  now, left,      (* The clock, and the events left.                       *)
  wiring,         (* The recorder of received PDUs that is connected.      *)
  imsi,           (* The IMSI of each UE.                                  *)
  rates,          (* m_ueRateStats                                         *)
  harq,           (* m_ueHarqStats                                         *)
  processState,   (* m_harqProcessState                                    *)
  access,         (* m_accessStats                                         *)
  channel,        (* m_ueChannelContext                                    *)
  connected,      (* m_udpServerConnectedUes                               *)
  report,         (* What ExportStatsToFiles wrote, once.                  *)
  received        (* History: [ue, time, size] of the PDUs received.       *)

harqVars == <<harq, processState>>
accessVars == <<access, channel, connected>>
vars == <<now, left, wiring, imsi, rates, harqVars, accessVars, report, received>>

Larger(a, b) == IF a > b THEN a ELSE b

EmptyTally == [ack |-> 0, nack |-> 0, retransmissions |-> 0, total |-> 0]
EmptyAccess == [attempts |-> 0, success |-> 0, poor |-> 0]

Init ==
  /\ now = 0 /\ left = MaxEvents
  /\ wiring \in {"advance first", "RecordDlRxPdu", "RecordDlDataForwarding"}
  /\ imsi \in {f \in [Ue -> Ue] : \A u, v \in Ue : f[u] = f[v] => u = v}
  /\ wiring # "RecordDlDataForwarding" => imsi = [u \in Ue |-> u]  (* Not read. *)
  /\ rates = <<>>
  /\ harq = [u \in Ue |-> EmptyTally]
  /\ processState = [u \in Ue |-> [p \in Process |-> 0]]
  /\ access = EmptyAccess
  /\ channel = [u \in Ue |-> "unknown"]
  /\ connected = {} /\ report = <<>> /\ received = <<>>

-----------------------------------------------------------------------------
(* Rates: bytes are counted in windows that follow one another.            *)

NewEntry == [windowStart |-> now, bytes |-> 0, peak |-> 0, rx |-> 0, average |-> 0]
Entry(k) == IF k \in DOMAIN rates THEN rates[k] ELSE NewEntry
WithEntry(k, e) == [l \in DOMAIN rates \cup {k} |-> IF l = k THEN e ELSE rates[l]]

(* Faulty variant: one window at a time, however many have passed.         *)
AdvanceWindowOnce(e) ==
  IF now - e.windowStart < WindowSize THEN e
  ELSE [e EXCEPT !.windowStart = @ + WindowSize, !.peak = Larger(@, e.bytes), !.bytes = 0]

(* AdvanceWindow: the loop over the windows that are over.                 *)
AdvanceWindow(e) ==
  LET over == (now - e.windowStart) \div WindowSize IN
  IF over = 0 THEN e
  ELSE [e EXCEPT !.windowStart = @ + over * WindowSize,
                 !.peak = Larger(@, e.bytes), !.bytes = 0]

CheckAndUpdatePeakRate(e) == [e EXCEPT !.peak = Larger(@, e.bytes)]

Counted(e, size) == [e EXCEPT !.bytes = @ + size, !.rx = @ + size]

(* OnLtePdcpDlRx, OnLtePdcpUlRx, OnLteRlcDlRx, OnLteRlcUlRx,               *)
(* OnNrRrcDlRxPdu, RecordUlRxPdu.                                          *)
CountedInWindow(u, size) ==
  WithEntry(u, CheckAndUpdatePeakRate(Counted(AdvanceWindow(Entry(u)), size)))

RecordDlRxPdu(u, size) ==
  WithEntry(u, CheckAndUpdatePeakRate(AdvanceWindow(Counted(Entry(u), size))))

RecordDlDataForwarding(u, size) ==
  WithEntry(imsi[u], [Entry(imsi[u]) EXCEPT !.rx = @ + size])

GetTotalDlRxBytes(table) == FoldSet(LAMBDA k, n : n + table[k].rx, 0, DOMAIN table)
GetSystemPeakRate(table) == FoldSet(LAMBDA k, m : Larger(m, table[k].peak), 0, DOMAIN table)

(* The first with the highest peak, or 0.                                  *)
GetPeakRateUeRnti(table) ==
  IF GetSystemPeakRate(table) = 0 THEN 0
  ELSE CHOOSE k \in DOMAIN table :
         /\ table[k].peak = GetSystemPeakRate(table)
         /\ \A l \in DOMAIN table : table[l].peak = table[k].peak => k <= l

(* The highest peak, or, of a UE without windows, its average.             *)
GetPeakRateUeThroughput(table) ==
  FoldSet(LAMBDA k, m : Larger(m, IF table[k].peak > 0 THEN table[k].peak ELSE table[k].rx),
          0, DOMAIN table)

(* The calculator of ns-3, asked when there is none, is left out.          *)
GetSystemTotalThroughput(table) == GetTotalDlRxBytes(table)

UpdateRateStatistics == [k \in DOMAIN rates |-> [rates[k] EXCEPT !.average = rates[k].rx]]

(* Times the number of entries.                                            *)
GetSystemAverageRate(table) ==
  FoldSet(LAMBDA k, n : n + (IF table[k].average > 0 THEN table[k].average ELSE table[k].rx),
          0, DOMAIN table)

-----------------------------------------------------------------------------
(* HARQ: a process is idle (0) or waits for a retransmission's outcome (2).*)

(* One transport block of a feedback.                                      *)
HarqFeedback(t, ack) ==
  [state |-> IF ack THEN 0 ELSE 2,
   tally |-> [ack |-> t.tally.ack + (IF ack THEN 1 ELSE 0),
              nack |-> t.tally.nack + (IF ack THEN 0 ELSE 1),
              retransmissions |-> t.tally.retransmissions + (IF t.state = 2 THEN 1 ELSE 0),
              total |-> t.tally.total + (IF ack THEN 1 ELSE 0)]]

SumOver(field) == FoldSet(LAMBDA u, n : n + harq[u][field], 0, Ue)

(* Estimates take the place of counts when nothing was acknowledged: of    *)
(* eleven transmissions for each ten packets of a UE, one is repeated.     *)
GetTotalHarqStatistics ==
  IF SumOver("total") = 0 /\ rates # <<>>
  THEN LET packets == 10 * MaxTime * Cardinality(DOMAIN rates) IN
       [ack |-> 11 * packets, nack |-> packets, retransmissions |-> packets, total |-> 11 * packets]
  ELSE [f \in DOMAIN EmptyTally |-> SumOver(f)]

-----------------------------------------------------------------------------
(* Actions.                                                                *)

Event == left > 0 /\ left' = left - 1 /\ report = <<>> /\ UNCHANGED <<now, wiring, imsi, report>>

Receive(u, size) ==
  /\ Event
  /\ rates' = CASE wiring = "advance first" -> CountedInWindow(u, size)
                [] wiring = "RecordDlRxPdu" -> RecordDlRxPdu(u, size)
                [] wiring = "RecordDlDataForwarding" -> RecordDlDataForwarding(u, size)
  /\ received' = Append(received, [ue |-> u, time |-> now, size |-> size])
  /\ UNCHANGED <<harqVars, accessVars>>

RecordNrHarqFeedback(u, p, acks) ==
  LET t == FoldLeft(HarqFeedback, [state |-> processState[u][p], tally |-> harq[u]], acks) IN
  /\ Event
  /\ harq' = [harq EXCEPT ![u] = t.tally]
  /\ processState' = [processState EXCEPT ![u][p] = t.state]
  /\ UNCHANGED <<rates, accessVars, received>>

ResetHarqStats ==
  /\ Event
  /\ harq' = [u \in Ue |-> EmptyTally]
  /\ processState' = [u \in Ue |-> [p \in Process |-> 0]]
  /\ UNCHANGED <<rates, accessVars, received>>

UpdateUeChannelQuality(u, quality) ==
  /\ Event /\ channel[u] # quality
  /\ channel' = [channel EXCEPT ![u] = quality]
  /\ UNCHANGED <<rates, harqVars, access, connected, received>>

(* A UE without a measurement passes.                                      *)
IsChannelQualitySufficient(u) == channel[u] # "poor"

OnNrRandomAccessSuccess(u) ==
  /\ Event
  /\ rates' = WithEntry(u, Entry(u))
  /\ access' = IF IsChannelQualitySufficient(u)
               THEN [access EXCEPT !.attempts = @ + 1, !.success = @ + 1]
               ELSE [access EXCEPT !.attempts = @ + 1, !.poor = @ + 1]
  /\ UNCHANGED <<harqVars, channel, connected, received>>

(* Each UE is counted once.                                                *)
OnUdpServerRx(u) ==
  /\ Event /\ u \notin connected
  /\ connected' = connected \cup {u}
  /\ access' = [access EXCEPT !.attempts = @ + 1, !.success = @ + 1]
  /\ UNCHANGED <<rates, harqVars, channel, received>>

ResetAccessStats ==
  /\ Event
  /\ access' = EmptyAccess
  /\ UNCHANGED <<rates, harqVars, channel, connected, received>>

Elapse ==
  /\ now < MaxTime /\ now' = now + 1
  /\ UNCHANGED <<left, wiring, imsi, rates, harqVars, accessVars, report, received>>

(* UpdateRateStatistics, SetSimulationTime and ExportStatsToFiles.         *)
Report ==
  /\ now = MaxTime /\ report = <<>>
  /\ rates' = UpdateRateStatistics
  /\ report' = <<[access |-> access, harq |-> GetTotalHarqStatistics,
                  peakRnti |-> GetPeakRateUeRnti(rates'), peak |-> GetPeakRateUeThroughput(rates'),
                  throughput |-> GetSystemTotalThroughput(rates'),
                  average |-> GetSystemAverageRate(rates'),
                  connected |-> Cardinality(DOMAIN rates')]>>
  /\ UNCHANGED <<now, left, wiring, imsi, harqVars, accessVars, received>>

Next ==
  \/ \E u \in Ue : \/ \E size \in Size : Receive(u, size)
                   \/ \E p \in Process, acks \in {<<TRUE>>, <<FALSE>>, <<FALSE, TRUE>>} :
                        RecordNrHarqFeedback(u, p, acks)
                   \/ \E quality \in {"good", "poor"} : UpdateUeChannelQuality(u, quality)
                   \/ OnNrRandomAccessSuccess(u) \/ OnUdpServerRx(u)
  \/ ResetHarqStats \/ ResetAccessStats \/ Elapse \/ Report

-----------------------------------------------------------------------------
(* Properties.                                                             *)

(* The window of a time, the present one being the MaxTime-th, and what a  *)
(* UE received in a window.                                                *)
Window(start, t) == (t + MaxTime * WindowSize - start) \div WindowSize
Bytes(u, start, w) ==
  FoldLeft(LAMBDA n, r : n + (IF r.ue = u /\ Window(start, r.time) = w THEN r.size ELSE 0),
           0, received)

(* The peak of a UE is the most it received in one of the windows counted  *)
(* from its first entry, however long it was silent between them.          *)
PeakIsOfAWindow ==
  wiring = "advance first" =>
    \A u \in DOMAIN rates :
      LET start == rates[u].windowStart IN
      rates[u].peak =
        FoldLeft(LAMBDA m, r : Larger(m, IF r.ue = u THEN Bytes(u, start, Window(start, r.time)) ELSE 0),
                 0, received)

(* No byte is lost or counted twice, whichever recorder is connected, and  *)
(* under whichever key.                                                    *)
BytesAreCounted ==
  GetTotalDlRxBytes(rates) = FoldLeft(LAMBDA n, r : n + r.size, 0, received)

(* Every NACK is followed by one retransmission that has been counted, or  *)
(* is still awaited; every access was good or poor.                        *)
TalliesBalance ==
  /\ \A u \in Ue :
       /\ harq[u].nack = harq[u].retransmissions +
                         Cardinality({p \in Process : processState[u][p] = 2})
       /\ harq[u].ack = harq[u].total
  /\ access.attempts = access.success + access.poor

(* The files of the report agree with each other: average rates add up to  *)
(* the throughput, the peak is that of the UE named, invented HARQ totals  *)
(* balance like real ones.                                                 *)
ReportAgrees ==
  report # <<>> =>
    LET r == Head(report) IN
    /\ r.average = r.throughput
    /\ wiring # "RecordDlDataForwarding" =>
         /\ (r.peakRnti = 0) = (r.throughput = 0)
         /\ r.peakRnti # 0 => r.peak = rates[r.peakRnti].peak
         /\ r.connected <= Cardinality(Ue)
    /\ r.harq.ack = r.harq.total /\ r.harq.nack >= r.harq.retransmissions

RatesAreReal == PeakIsOfAWindow /\ BytesAreCounted /\ TalliesBalance /\ ReportAgrees
=============================================================================
