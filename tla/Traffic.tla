------------------------------- MODULE Traffic -------------------------------
(***************************************************************************)
(* The traffic of a user (SatTrafficGenerator): one of the services, as a  *)
(* scenario attaches it; the accounts the generator keeps of them; and the *)
(* two kinds of collectors that measure what comes of traffic.  What the   *)
(* services share is the rate multiplier, what accounts and collectors     *)
(* share is the clock; apart from that they do not meet, and are composed  *)
(* as alternatives.                                                        *)
(***************************************************************************)
EXTENDS Naturals, Sequences

CONSTANTS
  Models, FtpRetries, MaxFiles,
  FrameInterval, SilenceInterval, Talk, Gap, FullBufferInterval,
  Node, MaxApps, MaxInstalls, MaxWindows, SocketRetries,
  MaxReports,  (* Bound on the queue reports. *)
  Ue, Qfi, Size, Process, WindowSize, MaxTime, LayerTime, AccountTime, MaxEvents,
  Tcp, Voip, Udp, Payload, RtpHeader, IpHeader, Second, RateUnit

VARIABLES
  service,     (* What AttachUserToBeam installed, or what measures. *)
  multiplier, reports,
  (* FtpDriver *)
  model, active, started, fileInFlight, current, pending, completed, timedOut,
  transfer, looks, hooked, watchdog,
  (* UdpFlows *)
  installed, flows, session,
  (* HttpTraffic *)
  phase, windows, gen, apps, traces, buffers, lookups, arrivals,
  (* LayerStats *)
  now, left, imsi,
  flight, qfiStats, drbStats, pdcpStats, rlcStats, phySamples, macSamples, e2eSamples,
  rrcState, rrcStats, wasted, firstSeen,
  (* RateStats *)
  wiring, rates, harq, processState, access, channel, connected, report, received,
  (* TrafficAccounts *)
  sinks, listening, sources, registry, traced, book, window, rxBytes, log

Ftp == INSTANCE FtpDriver WITH Retries <- FtpRetries
UdpLegs == INSTANCE UdpFlows
Http == INSTANCE HttpTraffic WITH Retries <- SocketRetries
Layers == INSTANCE LayerStats WITH MaxTime <- LayerTime
Rates == INSTANCE RateStats
Accounts == INSTANCE TrafficAccounts WITH flows <- sources, MaxTime <- AccountTime

ASSUME TrafficAssumption ==
  /\ MaxReports \in Nat
  /\ Ftp!FtpAssumption /\ UdpLegs!UdpAssumption /\ Http!HttpAssumption
  /\ Layers!LayerStatsAssumption /\ Rates!RateStatsAssumption
  /\ Accounts!TrafficAccountsAssumption

ftpVars == <<model, active, started, fileInFlight, current, pending, completed, timedOut,
             transfer, looks, hooked, watchdog>>
udpVars == <<installed, flows, session>>
httpVars == <<phase, windows, gen, apps, traces, buffers, lookups, arrivals>>
trafficVars == <<multiplier, reports, ftpVars, udpVars, httpVars>>
clockVars == <<now, left>>
layerVars == <<qfiStats, drbStats, pdcpStats, rlcStats, phySamples, macSamples,
               e2eSamples, rrcState, rrcStats, wasted, firstSeen>>
rateVars == <<wiring, rates, harq, processState, access, channel, connected, report, received>>
accountVars == <<sinks, listening, sources, registry, traced, book, window, rxBytes, log>>
statsVars == <<clockVars, imsi, flight, layerVars, rateVars, accountVars>>
allVars == <<service, trafficVars, statsVars>>

NoFtp ==
  /\ model = 1 /\ current = 0
  /\ active = FALSE /\ started = FALSE /\ fileInFlight = FALSE
  /\ pending = 0 /\ completed = 0 /\ timedOut = 0
  /\ transfer = <<>> /\ looks = <<>> /\ hooked = {} /\ watchdog = {}
NoUdp == installed = {} /\ flows = <<>> /\ session = <<>>

NoClock == now = 0 /\ left = 0 /\ flight = <<>> /\ imsi = <<>>
NoLayers ==
  /\ qfiStats = <<>> /\ drbStats = <<>> /\ pdcpStats = <<>> /\ rlcStats = <<>>
  /\ phySamples = <<>> /\ macSamples = <<>> /\ e2eSamples = <<>>
  /\ rrcState = <<>> /\ rrcStats = <<>> /\ wasted = <<>> /\ firstSeen = <<>>
NoRates ==
  /\ wiring = "none" /\ rates = <<>> /\ harq = <<>> /\ processState = <<>> /\ access = <<>>
  /\ channel = <<>> /\ connected = {} /\ report = <<>> /\ received = <<>>

NoAccounts ==
  /\ sinks = {} /\ listening = {} /\ sources = {} /\ registry = {} /\ traced = <<>>
  /\ book = <<>> /\ window = <<>> /\ rxBytes = <<>> /\ log = <<>>
NoStats == NoClock /\ NoLayers /\ NoRates /\ NoAccounts

(* AttachUserToBeam, or the set-up of the collectors. *)
TrafficInit ==
  /\ multiplier = 100 /\ reports = MaxReports
  /\ Http!Init
  /\ \/ service = "ftp" /\ Ftp!Init /\ NoUdp /\ NoStats
     \/ service = "udp" /\ UdpLegs!Init /\ NoFtp /\ NoStats
     \/ service = "http" /\ NoFtp /\ NoUdp /\ NoStats
     \/ service = "layers" /\ NoFtp /\ NoUdp /\ Layers!Init /\ NoRates /\ NoAccounts
     \/ service = "rates" /\ NoFtp /\ NoUdp /\ Rates!Init /\ flight = <<>> /\ NoLayers /\ NoAccounts
     \/ service = "accounts" /\ NoFtp /\ NoUdp /\ Accounts!Init /\ imsi = <<>>
                             /\ NoLayers /\ NoRates

FtpStep(A) ==
  service = "ftp" /\ A /\ UNCHANGED <<service, multiplier, reports, udpVars, httpVars, statsVars>>
UdpStep(A) == service = "udp" /\ A /\ UNCHANGED <<service, ftpVars, httpVars, statsVars>>
HttpStep(A) == service = "http" /\ A /\ UNCHANGED <<service, ftpVars, udpVars, statsVars>>
LayerStep(A) == service = "layers" /\ A /\ UNCHANGED <<service, trafficVars, rateVars, accountVars>>
RateStep(A) ==
  service = "rates" /\ A /\ UNCHANGED <<service, trafficVars, flight, layerVars, accountVars>>
AccountStep(A) ==
  service = "accounts" /\ A /\ UNCHANGED <<service, trafficVars, imsi, layerVars, rateVars>>

TrafficNext ==
  \/ FtpStep(Ftp!Next) \/ UdpStep(UdpLegs!Next) \/ HttpStep(Http!Next)
  \/ LayerStep(Layers!Next) \/ RateStep(Rates!Next) \/ AccountStep(Accounts!Next)

(* The simulator runs what is scheduled: the start of a driver and every   *)
(* watchdog, the flows when they are due, and time goes on.                *)
TrafficFairness ==
  /\ WF_allVars(FtpStep(Ftp!Start))
  /\ \A f \in 1..MaxFiles : WF_allVars(FtpStep(f \in Ftp!Files /\ Ftp!FtpWatchdog(f)))
  /\ WF_allVars(UdpStep(UdpLegs!Elapse))
  /\ \A f \in {"A", "B"} :
       WF_allVars(UdpStep(f \in DOMAIN flows /\ (UdpLegs!Start(f) \/ UdpLegs!Wake(f))))

TrafficSpec == TrafficInit /\ [][TrafficNext]_allVars

TrafficFairSpec == TrafficSpec /\ TrafficFairness

-----------------------------------------------------------------------------
(* Properties.                                                             *)

(* FTP: files follow one another, none too early, none twice, none         *)
(* uncounted, in all three models.                                         *)
FilesFollow == Ftp!FilesFollow

(* VoIP: both legs see the same state of their session at every change of  *)
(* turn, though whichever wakes first advances it; never do both talk.     *)
LegsAgree == service = "udp" => UdpLegs!LegsAgree

(* HTTP: the buffers of every managed socket are those of the present      *)
(* rate, however it came to be registered; a packet is counted once, and   *)
(* arrivals go on, through resets and new installations.                   *)
InstallationsAreWhole == Http!BuffersFollowRate /\ Http!InstallationsAreWhole

(* The layers' collectors count the same for every bearer of every UE:     *)
(* bytes, PDUs, delays, repetitions, time in each state.                   *)
MeasuredOnce == service = "layers" => Layers!MeasuredOnce

(* The simulation's collector reports what was received: no byte lost, the *)
(* peak of a window, one retransmission for each NACK.  The generator's    *)
(* accounts balance: each packet once across resets, peaks of real windows.*)
RatesAreReal ==
  /\ service = "rates" => Rates!RatesAreReal
  /\ service = "accounts" => Accounts!AccountsAreReal

(* The driver of FTP is never stuck, and the legs of a session take turns  *)
(* for as long as it lasts.                                                *)
TrafficGoesOn == Ftp!DriverGoesOn /\ UdpLegs!TurnsAlternate
=============================================================================
