----------------------------- MODULE HttpTraffic -----------------------------
(***************************************************************************)
(* HTTP traffic (helper/traffic-models.cc): servers, one per node and      *)
(* reused, clients, the Poisson arrivals that add clients of their own,    *)
(* the TCP sockets whose buffers closed-loop control scales, and the       *)
(* traces that count packets; with the reset between two windows.          *)
(*                                                                         *)
(* What a scenario installs runs within the window, the client of an       *)
(* arrival from its arrival on; all stop when they are told to.  A         *)
(* scenario installs before the window opens and sets a new window after a *)
(* reset.  Objects, profiles and ARP pings are left out.                   *)
(***************************************************************************)
EXTENDS TrafficRate, Sequences, Functions

CONSTANTS
  Node,        (* Each may be a server or a client.                        *)
  MaxApps,     (* Bound on the applications ever installed.                *)
  MaxInstalls, (* Bound on the calls of InstallHttp in a window.           *)
  MaxWindows,  (* Bound on the windows.                                    *)
  Retries      (* How often a listening socket is looked for again.        *)

HttpAssumption == {MaxApps, MaxInstalls, MaxWindows, Retries} \subseteq Nat

VARIABLES
  multiplier,  (* m_currentRateMultiplier                                  *)
  reports,     (* Queue reports left.                                      *)
  phase,       (* Of the window: "before", "open" or "over".               *)
  windows,     (* How many there have been.                                *)
  gen,         (* The generator's tables, see Init.                        *)
  apps,        (* ns-3's applications: [kind, node, runs, hooked].       *)
  traces,      (* Of each node: how many SendOutgoing traces are connected.*)
  buffers,     (* m_managedTcpSockets: the multiplier of their buffers.    *)
  lookups,     (* Of the servers whose socket is looked for: retries left. *)
  arrivals     (* Of each context index: arrivals scheduled.               *)

vars == <<multiplier, reports, phase, windows, gen, apps, traces, buffers, lookups,
          arrivals>>

None == 0

(* The contexts of m_httpArrivalContexts are the nodes of their clients.   *)
EmptyTables ==
  [contexts |-> <<>>, arrivalActive |-> FALSE, servers |-> [n \in Node |-> None],
   registry |-> {}]

Init ==
  /\ phase = "before" /\ windows = 1
  /\ gen = EmptyTables
  /\ apps = <<>>
  /\ traces = [n \in Node |-> 0]
  /\ buffers = <<>> /\ lookups = <<>>
  /\ arrivals = [i \in 1..MaxInstalls |-> 0]

Apps == 1..Len(apps)
Running(a) == apps[a].runs

(* The sockets: one to listen on, one of a client, one it was accepted by. *)
Listening(a) == <<"listening", a>>
Client(a) == <<"client", a>>
Accepted(a) == <<"accepted", a>>

-----------------------------------------------------------------------------
(* The steps inside a handler.                                             *)

(* A map with one more entry.                                              *)
With(f, k, v) == [x \in DOMAIN f \cup {k} |-> IF x = k THEN v ELSE f[x]]

NewApp(kind, node, runs) == [kind |-> kind, node |-> node, runs |-> runs, hooked |-> TRUE]

(* RegisterManagedTcpSocket, and once only.                                *)
RegisterManagedTcpSocket(socket) ==
  buffers' = IF socket \in DOMAIN buffers THEN buffers ELSE With(buffers, socket, multiplier)

(* EnsureHttpServer, RegisterIpv4TcpTxTrace and RegisterHttpSessionArrival *)
(* on the tables.                                                          *)
WithInstalled(tables, c, s, server, rate) ==
  [tables EXCEPT !.servers[s] = server,
                 !.registry = @ \cup {s},
                 !.contexts = IF rate > 0 THEN Append(@, c) ELSE @,
                 !.arrivalActive = @ \/ rate > 0]

-----------------------------------------------------------------------------
(* Actions.                                                                *)

(* InstallHttpInternal, up or down: a client on node c of a server on s.   *)
InstallHttp(c, s, rate) ==
  LET isNew == gen.servers[s] = None
      server == IF isNew THEN Len(apps) + 1 ELSE gen.servers[s]
      index == Len(gen.contexts) + 1
  IN /\ phase = "before" /\ c # s /\ index <= MaxInstalls
     /\ Len(apps) + (IF isNew THEN 2 ELSE 1) <= MaxApps
     /\ apps' = apps \o (IF isNew THEN <<NewApp("server", s, FALSE)>> ELSE <<>>)
                     \o <<NewApp("client", c, FALSE)>>
     /\ lookups' = IF isNew THEN With(lookups, server, Retries) ELSE lookups
     /\ traces' = [traces EXCEPT ![s] = @ + (IF s \in gen.registry THEN 0 ELSE 1)]
     /\ gen' = WithInstalled(gen, c, s, server, rate)
     /\ arrivals' = [arrivals EXCEPT ![index] = @ + rate]
     /\ UNCHANGED <<multiplier, reports, phase, windows, buffers>>

(* HttpScheduleNextSessionArrival: one arrival is over, another scheduled. *)
Chain(i) == UNCHANGED arrivals

(* HttpOnSessionArrival: one more client on the node of its context, which *)
(* does not wait for the window to open.                                   *)
HttpOnSessionArrival(i) ==
  /\ arrivals[i] > 0
  /\ \/ /\ gen.arrivalActive /\ i <= Len(gen.contexts) /\ phase # "over"
        /\ Len(apps) < MaxApps
        /\ apps' = Append(apps, NewApp("client", gen.contexts[i], TRUE))
        /\ Chain(i)
     \/ /\ ~gen.arrivalActive \/ i > Len(gen.contexts) \/ phase = "over"
        /\ arrivals' = [arrivals EXCEPT ![i] = @ - 1]
        /\ UNCHANGED apps
  /\ UNCHANGED <<multiplier, reports, phase, windows, gen, traces, buffers, lookups>>

(* ScheduleManagedTcpSocketRegistration: not before the window opens.      *)
LookUpSocket(a) ==
  /\ a \in DOMAIN lookups /\ phase # "before"
  /\ IF Running(a)
     THEN /\ RegisterManagedTcpSocket(Listening(a))
          /\ lookups' = Restrict(lookups, DOMAIN lookups \ {a})
     ELSE /\ lookups' = IF lookups[a] = 0 THEN Restrict(lookups, DOMAIN lookups \ {a})
                        ELSE [lookups EXCEPT ![a] = @ - 1]
          /\ UNCHANGED buffers
  /\ UNCHANGED <<multiplier, reports, phase, windows, gen, apps, traces, arrivals>>

(* A client is accepted by server s: OnHttpServerConnectionEstablished.    *)
Accept(s, a) ==
  /\ Running(s) /\ Running(a) /\ apps[s].kind = "server" /\ apps[a].kind = "client"
  /\ apps[s].hooked /\ apps[s].node # apps[a].node
  /\ RegisterManagedTcpSocket(Accepted(a))
  /\ UNCHANGED <<multiplier, reports, phase, windows, gen, apps, traces, lookups, arrivals>>

(* Its connection is established: OnHttpClientConnectionEstablished.       *)
Connect(a) ==
  /\ Running(a) /\ apps[a].kind = "client" /\ apps[a].hooked
  /\ \E s \in Apps : Running(s) /\ apps[s].kind = "server" /\ apps[s].node # apps[a].node
  /\ RegisterManagedTcpSocket(Client(a))
  /\ UNCHANGED <<multiplier, reports, phase, windows, gen, apps, traces, lookups, arrivals>>

(* AdjustRateForClosedLoop, ApplyManagedTcpSocketRateControl.              *)
ReportQueueUtilization ==
  /\ reports > 0
  /\ reports' = reports - 1
  /\ \E level \in Levels : multiplier' = Adjusted(multiplier, level)
  /\ buffers' = [s \in DOMAIN buffers |-> multiplier']
  /\ UNCHANGED <<phase, windows, gen, apps, traces, lookups, arrivals>>

(* Faulty variant: the node is still taken for traced.                     *)
TablesButRegistry == [EmptyTables EXCEPT !.registry = gen.registry]

TablesAfterReset == EmptyTables

(* SetStopTime may come too late to stop an application that was started.  *)
ResetStats ==
  /\ gen # EmptyTables \/ buffers # <<>> \/ multiplier # 100
  /\ gen' = TablesAfterReset
  /\ multiplier' = 100
  /\ \E late \in BOOLEAN :
       apps' = [a \in Apps |-> [apps[a] EXCEPT !.hooked = FALSE, !.runs = @ /\ late]]
  /\ traces' = [n \in Node |-> 0]
  /\ buffers' = <<>>
  /\ UNCHANGED <<reports, phase, windows, lookups, arrivals>>

(* Its 100 ms in which only the servers run are left out.                  *)
OpenWindow ==
  /\ phase = "before" /\ apps # <<>>
  /\ phase' = "open"
  /\ apps' = [a \in Apps |-> [apps[a] EXCEPT !.runs = @ \/ apps[a].hooked]]
  /\ UNCHANGED <<multiplier, reports, windows, gen, traces, buffers, lookups, arrivals>>

(* m_appStopTime.                                                          *)
CloseWindow ==
  /\ phase = "open"
  /\ phase' = "over"
  /\ apps' = [a \in Apps |-> [apps[a] EXCEPT !.runs = FALSE]]
  /\ UNCHANGED <<multiplier, reports, windows, gen, traces, buffers, lookups, arrivals>>

SetApplicationWindow ==
  /\ phase = "over" /\ windows < MaxWindows /\ gen = EmptyTables
  /\ phase' = "before" /\ windows' = windows + 1
  /\ UNCHANGED <<multiplier, reports, gen, apps, traces, buffers, lookups, arrivals>>

Next ==
  \/ \E c, s \in Node, rate \in {0, 1} : InstallHttp(c, s, rate)
  \/ \E i \in 1..MaxInstalls : HttpOnSessionArrival(i)
  \/ \E a \in Apps : \/ LookUpSocket(a) \/ Connect(a)
                     \/ \E s \in Apps : Accept(s, a)
  \/ ReportQueueUtilization \/ ResetStats
  \/ OpenWindow \/ CloseWindow \/ SetApplicationWindow

-----------------------------------------------------------------------------
(* Properties.                                                             *)

TypeOK ==
  /\ phase \in {"before", "open", "over"} /\ windows \in 1..MaxWindows
  /\ \A a \in Apps : apps[a] \in [kind : {"server", "client"}, node : Node, hooked : BOOLEAN,
                                  runs : BOOLEAN]
  /\ DOMAIN lookups \subseteq Apps
  /\ arrivals \in [1..MaxInstalls -> Nat]

(* Every managed socket has the buffers of the present rate, whether it    *)
(* was registered by a callback or a late look-up, before or after the     *)
(* rate was changed or reset.                                              *)
BuffersFollowRate == \A s \in DOMAIN buffers : buffers[s] = multiplier

(* What is installed is whole: the packets of a server are counted by one  *)
(* trace ("one packet would be accounted twice otherwise"), and the        *)
(* arrivals of every context go on while the window lasts, through resets  *)
(* and new installations.                                                  *)
InstallationsAreWhole ==
  /\ \A n \in Node : traces[n] = (IF gen.servers[n] = None THEN 0 ELSE 1)
  /\ phase # "over" => \A i \in 1..Len(gen.contexts) : arrivals[i] > 0

(* A context has one chain of arrivals.                                    *)
OneChain == \A i \in 1..Len(gen.contexts) : arrivals[i] <= 1
=============================================================================
