--------------------------- MODULE TrafficAccounts ---------------------------
(***************************************************************************)
(* What the traffic generator itself counts (SatTrafficGenerator): bytes   *)
(* and packets sent, sends blocked, bytes delivered and peak rates, in all *)
(* and for each service, across ResetStats.                                *)
(*                                                                         *)
(* UDP flows are counted where they send, TCP where IPv4 sends a segment,  *)
(* so that what TCP repeats is counted again; everything received is       *)
(* counted at the sinks.  HTTP is counted like FTP, at its clients; its    *)
(* traces are in HttpTraffic.  When each service sends is in FtpDriver,    *)
(* UdpFlows and HttpTraffic; here, whenever it may.  The average interval, *)
(* which nothing reads, and DumpStats's text are left out.                 *)
(***************************************************************************)
EXTENDS Naturals, Sequences, SequencesExt

CONSTANTS
  Node,           (* Sources and sinks.                                    *)
  Tcp, Voip, Udp, (* Services over TCP, over RTP, and over bare UDP.       *)
  Payload,        (* Payloads of a packet; TCP also sends headers only.    *)
  RtpHeader, IpHeader,   (* The latter with UDP's or TCP's.                *)
  Second,         (* Ticks of a second.                                    *)
  RateUnit,       (* Rates are per so many ticks, which every interval divides. *)
  MaxTime,        (* Bound on the clock, which starts at m_appStartTime.   *)
  MaxEvents       (* Bound on what happens in that time.                   *)

Service == Tcp \cup Voip \cup Udp

TrafficAccountsAssumption ==
  /\ Payload \subseteq Nat \ {0} /\ RtpHeader \in Nat /\ IpHeader \in Nat \ {0}
  /\ Second \in Nat \ {0} /\ MaxTime \in Nat \ {0} /\ MaxEvents \in Nat
  /\ RateUnit \in Nat \ {0} /\ \A i \in 1..MaxTime : RateUnit % i = 0
  /\ IsFiniteSet(Node) /\ IsFiniteSet(Service)
  /\ Tcp \cap Voip = {} /\ (Tcp \cup Voip) \cap Udp = {} /\ "total" \notin Service

VARIABLES
  now, left,      (* The clock, and the events left.                       *)
  sinks,          (* Nodes with sinks.                                     *)
  listening,      (* Of those, the ones whose "Rx" is traced.              *)
  flows,          (* [service, source, sink] of those that send.           *)
  registry,       (* m_ipv4TcpTxTraceRegistry                              *)
  traced,         (* How often "SendOutgoing" is connected, by that key.   *)
  flight,         (* Packets and segments on their way.                    *)
  book,           (* m_totalStats and m_statsByType                        *)
  window,         (* m_total... and m_typeWindow...By..., of each sender.  *)
  rxBytes,        (* m_rxBytesByType                                       *)
  log             (* History: [time, service, node, useful] of what was    *)
                  (* sent since the reset.                                 *)

traceVars == <<sinks, listening, flows, registry, traced>>
bookVars == <<book, window, rxBytes>>
vars == <<now, left, traceVars, flight, bookVars, log>>

Account == {"total"} \cup Service

(* TrafficModelStats.                                                      *)
EmptyAccount ==
  [generated |-> 0, sent |-> 0, packets |-> 0, blocked |-> 0, delivered |-> 0,
   user |-> [n \in Node |-> 0], userPeak |-> [n \in Node |-> 0], peak |-> 0]

(* A window that starts at 0 has not started.                              *)
NoWindow == [start |-> 0, bytes |-> 0, peak |-> 0]

EmptyBook == [a \in Account |-> EmptyAccount]
NoWindows == [k \in Account \X Node |-> NoWindow]
NothingReceived == [k \in Service \X Node |-> 0]
NotTraced == [k \in Tcp \X Node |-> 0]

Init ==
  /\ now = 1 /\ left = MaxEvents
  /\ sinks = {} /\ listening = {} /\ flows = {}
  /\ registry = {} /\ traced = NotTraced
  /\ flight = <<>> /\ log = <<>>
  /\ book = EmptyBook /\ window = NoWindows /\ rxBytes = NothingReceived

-----------------------------------------------------------------------------
(* Accounts.                                                               *)

Larger(a, b) == IF a > b THEN a ELSE b

Rate(bytes, ticks) == (bytes * RateUnit) \div ticks

(* UpdatePeakStats: the window has lasted for a second.                    *)
IsOver(w) == w.start # 0 /\ now - w.start >= Second

UpdateTxStats(a, wire, useful) ==
  [a EXCEPT !.generated = @ + useful, !.sent = @ + wire, !.packets = @ + 1]

(* UpdatePeakStats, of the account and of the window.                      *)
WithPeak(a, n, w) ==
  IF ~IsOver(w) THEN a
  ELSE LET rate == Rate(w.bytes, now - w.start) IN
       [a EXCEPT !.userPeak[n] = Larger(@, rate), !.peak = Larger(@, rate)]
NextWindow(w, useful) ==
  IF IsOver(w)
  THEN [start |-> now, bytes |-> useful, peak |-> Larger(w.peak, Rate(w.bytes, now - w.start))]
  ELSE [w EXCEPT !.start = IF @ = 0 THEN now ELSE @, !.bytes = @ + useful]

(* AccountTx, as often as the packet is seen.                              *)
AccountTx(s, n, wire, useful, times) ==
  LET Once(b, i) ==
        [books |-> [a \in Account |->
                      IF a \in {"total", s}
                      THEN WithPeak(UpdateTxStats(b.books[a], wire, useful), n, b.windows[a, n])
                      ELSE b.books[a]],
         windows |-> [k \in Account \X Node |->
                        IF k \in {<<"total", n>>, <<s, n>>}
                        THEN NextWindow(b.windows[k], useful) ELSE b.windows[k]]]
      after == FoldLeft(Once, [books |-> book, windows |-> window], [i \in 1..times |-> i])
  IN book' = after.books /\ window' = after.windows

(* A packet of VoIP carries an RTP header.                                 *)
WithHeader(s, payload) == IF s \in Voip THEN payload + RtpHeader ELSE payload
WithoutHeader(s, size) ==
  IF s \notin Voip THEN size ELSE IF size > RtpHeader THEN size - RtpHeader ELSE 0

RecordReceivedPacket(n, s, size) ==
  LET effective == WithoutHeader(s, size)
      Received(a) == [a EXCEPT !.delivered = @ + effective, !.user[n] = @ + effective]
  IN /\ rxBytes' = [rxBytes EXCEPT ![<<s, n>>] = @ + effective]
     /\ book' = [book EXCEPT !["total"] = Received(@), ![s] = Received(@)]

GetNodeReceivedBytes(n, s) == rxBytes[s, n]
GetStats(a) == book[a]

-----------------------------------------------------------------------------
(* Actions.                                                                *)

Installed == UNCHANGED <<now, left, flight, bookVars, log>>
Event == left > 0 /\ left' = left - 1 /\ UNCHANGED now

(* The ports of a node are free once.                                      *)
InstallSink(n) ==
  /\ n \notin sinks
  /\ sinks' = sinks \cup {n} /\ listening' = listening \cup {n}
  /\ UNCHANGED <<flows, registry, traced>> /\ Installed

(* Once for each source and service.                                       *)
RegisterIpv4TcpTxTrace(s, n) ==
  /\ registry' = registry \cup {<<s, n>>}
  /\ traced' = [traced EXCEPT ![<<s, n>>] = @ + (IF <<s, n>> \in registry THEN 0 ELSE 1)]

InstallFtp(s, n, to) ==
  /\ s \in Tcp /\ to \in sinks \ {n}
  /\ flows' = flows \cup {<<s, n, to>>}
  /\ RegisterIpv4TcpTxTrace(s, n)
  /\ UNCHANGED <<sinks, listening>> /\ Installed

InstallUdp(s, n, to) ==
  /\ s \notin Tcp /\ to \in sinks \ {n}
  /\ flows' = flows \cup {<<s, n, to>>}
  /\ UNCHANGED <<sinks, listening, registry, traced>> /\ Installed

Packet(f, payload) == [flow |-> f, size |-> WithHeader(f[1], payload)]
Entry(f, payload) == [time |-> now, service |-> f[1], node |-> f[2], useful |-> payload]

(* The driver of a UDP flow.                                               *)
SendUdp(f, payload) ==
  /\ Event /\ f[1] \notin Tcp
  /\ AccountTx(f[1], f[2], WithHeader(f[1], payload) + IpHeader, payload, 1)
  /\ flight' = Append(flight, Packet(f, payload))
  /\ log' = Append(log, Entry(f, payload))
  /\ UNCHANGED <<traceVars, rxBytes>>

SendBlocked(f) ==
  /\ Event /\ f[1] \notin Tcp
  /\ book' = [book EXCEPT !["total"].blocked = @ + 1, ![f[1]].blocked = @ + 1]
  /\ UNCHANGED <<traceVars, flight, window, rxBytes, log>>

(* NotifyIpv4TcpTx, if IPv4 is traced, which it is not for a flow from     *)
(* before a reset, unless its source has a new one.                        *)
Outgoing(f, payload) ==
  /\ AccountTx(f[1], f[2], payload + IpHeader, payload, traced[f[1], f[2]])
  /\ log' = IF traced[f[1], f[2]] = 0 THEN log ELSE Append(log, Entry(f, payload))

(* A segment; without payload when a connection is opened.                 *)
SendTcp(f, payload) ==
  /\ Event /\ f[1] \in Tcp
  /\ Outgoing(f, payload)
  /\ flight' = IF payload = 0 THEN flight ELSE Append(flight, Packet(f, payload))
  /\ UNCHANGED <<traceVars, rxBytes>>

(* Before it arrives: so it does but once.                                 *)
Retransmit(i) ==
  /\ Event /\ flight[i].flow[1] \in Tcp
  /\ Outgoing(flight[i].flow, flight[i].size)
  /\ UNCHANGED <<traceVars, flight, rxBytes>>

(* NotifyPacketRx, if the sink is traced.  What is lost stays in flight.   *)
Receive(i) ==
  LET f == flight[i].flow IN
  /\ flight' = RemoveAt(flight, i)
  /\ IF f[3] \in listening THEN RecordReceivedPacket(f[3], f[1], flight[i].size)
                           ELSE UNCHANGED <<book, rxBytes>>
  /\ UNCHANGED <<now, left, traceVars, window, log>>

(* Traces are disconnected, accounts are emptied, flows over UDP end; TCP  *)
(* still has what it was given, and nodes keep their sinks.                *)
ResetStats ==
  /\ Event
  /\ flows' = {f \in flows : f[1] \in Tcp}
  /\ listening' = {} /\ registry' = {} /\ traced' = NotTraced
  /\ book' = EmptyBook /\ window' = NoWindows /\ rxBytes' = NothingReceived
  /\ log' = <<>>
  /\ UNCHANGED <<sinks, flight>>

Elapse ==
  /\ now < MaxTime /\ now' = now + 1
  /\ UNCHANGED <<left, traceVars, flight, bookVars, log>>

Next ==
  \/ \E n \in Node : InstallSink(n)
  \/ \E s \in Service, n, to \in Node : InstallFtp(s, n, to) \/ InstallUdp(s, n, to)
  \/ \E f \in flows : \/ \E payload \in Payload : SendUdp(f, payload)
                     \/ \E payload \in Payload \cup {0} : SendTcp(f, payload)
                     \/ SendBlocked(f)
  \/ \E i \in DOMAIN flight : Retransmit(i) \/ Receive(i)
  \/ ResetStats \/ Elapse

-----------------------------------------------------------------------------
(* Properties.                                                             *)

SumOf(K, V(_)) == FoldSet(LAMBDA k, n : n + V(k), 0, K)
Bytes(a, n, from, to) ==
  FoldLeft(LAMBDA b, e : b + (IF /\ a \in {"total", e.service} /\ e.node = n
                                 /\ from <= e.time /\ e.time < to THEN e.useful ELSE 0), 0, log)

(* The account of all is the sum of those of the services, that of each is *)
(* the sum over its users, in both tables, and what was delivered was sent *)
(* since the reset: nothing from before it, nothing twice.                 *)
AccountsBalance ==
  /\ \A field \in {"generated", "sent", "packets", "blocked", "delivered"} :
       GetStats("total")[field] = SumOf(Service, LAMBDA s : GetStats(s)[field])
  /\ \A s \in Service :
       /\ \A n \in Node : GetStats(s).user[n] = GetNodeReceivedBytes(n, s)
       /\ GetStats(s).delivered = SumOf(Node, LAMBDA n : GetNodeReceivedBytes(n, s))
       /\ GetStats(s).delivered <= GetStats(s).generated

(* A packet or segment is counted once, whatever was installed twice.      *)
SentIsLogged ==
  /\ GetStats("total").packets = Len(log)
  /\ \A s \in Service :
       GetStats(s).generated = SumOf(Node, LAMBDA n : Bytes(s, n, 0, MaxTime + 1))

(* The peak of a source is its rate over some interval of a second or      *)
(* more, and no interval since then is forgotten.                          *)
PeaksAreReal ==
  \A a \in Account :
    /\ GetStats(a).peak = FoldSet(LAMBDA n, m : Larger(m, GetStats(a).userPeak[n]), 0, Node)
    /\ \A n \in Node :
         LET w == window[a, n] IN
         /\ GetStats(a).userPeak[n] = w.peak
         /\ w.peak > 0 => \E t1, t2 \in 1..now :
              t2 - t1 >= Second /\ t2 <= w.start /\ w.peak = Rate(Bytes(a, n, t1, t2), t2 - t1)
         /\ w.start # 0 => w.bytes = Bytes(a, n, w.start, now + 1)

AccountsAreReal == AccountsBalance /\ SentIsLogged /\ PeaksAreReal
=============================================================================
