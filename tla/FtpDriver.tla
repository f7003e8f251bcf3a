------------------------------ MODULE FtpDriver ------------------------------
(***************************************************************************)
(* The driver of an FTP user in the three models of TR 37.901              *)
(* (helper/traffic-models.cc): one file after another is handed to a       *)
(* BulkSendApplication of its own; the end of a file is noticed by its     *)
(* socket closing or, failing that, by a watchdog, and starts what the     *)
(* model asks for.  Arrivals, reading times, transfers and watchdogs take  *)
(* any time.  Sizes and bytes sent are left out: nothing depends on them.  *)
(***************************************************************************)
EXTENDS Naturals, Sequences

CONSTANTS
  Models,      (* m_ftpModel: 1 concurrent, 2 serial, 3 arrivals in a queue. *)
  Retries,     (* How often the hook looks for the socket again.           *)
  MaxFiles     (* Bound on the files that arrive.                          *)

FtpAssumption ==
  /\ Models \subseteq 1..3
  /\ Retries \in Nat /\ MaxFiles \in Nat \ {0}

VARIABLES
  model,         (* m_ftpModel                                             *)
  active,        (* FtpDriverState::active                                 *)
  started,       (* Whether StartCallback has run.                         *)
  fileInFlight,  (* fileInFlight                                           *)
  current,       (* currentFileId; nextFileId is one more                  *)
  pending,       (* pendingArrivals                                        *)
  completed,     (* filesCompleted                                         *)
  timedOut,      (* filesTimedOut                                          *)
  transfer,      (* The BulkSendApplication of each file spawned.          *)
  looks,         (* How often its close hook may yet look for the socket.  *)
  hooked,        (* The files whose socket has it.                         *)
  watchdog       (* The files whose watchdog has yet to fire.              *)

vars == <<model, active, started, fileInFlight, current, pending, completed,
          timedOut, transfer, looks, hooked, watchdog>>

Files == 1..current

(* What is left of MaxFiles.                                               *)
Room == current + pending < MaxFiles

(* InstallFtpDriver: the first file is there before the driver is active.  *)
Init ==
  /\ model \in Models
  /\ active = FALSE /\ started = FALSE
  /\ fileInFlight = TRUE
  /\ current = 1
  /\ pending = 0 /\ completed = 0 /\ timedOut = 0
  /\ transfer = <<"waiting">>
  /\ looks = <<Retries + 1>> /\ hooked = {}
  /\ watchdog = {1}

-----------------------------------------------------------------------------
(* The steps inside a handler; `apps` is what transfer is by then.         *)

(* A file is handed to a new application, which starts when it will.       *)
FtpSpawnFile(apps) ==
  /\ current' = current + 1
  /\ fileInFlight' = TRUE
  /\ transfer' = Append(apps, "waiting")
  /\ looks' = Append(looks, Retries + 1)

NoSpawn(apps) == transfer' = apps /\ UNCHANGED <<current, looks>>

(* Faulty variant: the queue is not looked at.                             *)
FtpOnFileCompleteForgetful(apps) ==
  /\ fileInFlight' = FALSE /\ NoSpawn(apps) /\ UNCHANGED pending

(* What the end of a file starts: in Model 2 the next one, in Model 3 the  *)
(* next one in the queue.                                                  *)
FtpOnFileComplete(apps) ==
  \/ /\ model = 2 /\ Room
     /\ FtpSpawnFile(apps)
     /\ UNCHANGED pending
  \/ /\ model = 3 /\ pending > 0
     /\ pending' = pending - 1
     /\ FtpSpawnFile(apps)
  \/ /\ model = 1 \/ (model = 3 /\ pending = 0)
     /\ fileInFlight' = FALSE
     /\ NoSpawn(apps)
     /\ UNCHANGED pending

(* With every file spawned goes a watchdog.                                *)
WithWatchdogs(left) == watchdog' = left \cup (1..current' \ Files)

(* Faulty variant: a file ends whether it has ended already or not.        *)
ConcernsCurrent(f) == active /\ f = current

(* "Protection against late events": only the end of the current file.     *)
Concerns(f) == active /\ fileInFlight /\ f = current

-----------------------------------------------------------------------------
(* Actions.                                                                *)

(* StartCallback, at m_appStartTime, as the first file starts.             *)
Start ==
  /\ ~started
  /\ started' = TRUE /\ active' = TRUE
  /\ transfer' = [transfer EXCEPT ![1] = "sending"]
  /\ UNCHANGED <<model, fileInFlight, current, pending, completed, timedOut, looks,
                 hooked, watchdog>>

(* StopCallback, or ResetStats of the generator.                           *)
Stop ==
  /\ active
  /\ active' = FALSE
  /\ UNCHANGED <<model, started, fileInFlight, current, pending, completed,
                 timedOut, transfer, looks, hooked, watchdog>>

MustQueue == model = 3 /\ fileInFlight

FtpOnArrival ==
  /\ active /\ model # 2 /\ Room
  /\ IF MustQueue
     THEN pending' = pending + 1 /\ NoSpawn(transfer) /\ UNCHANGED fileInFlight
     ELSE FtpSpawnFile(transfer) /\ UNCHANGED pending
  /\ WithWatchdogs(watchdog)
  /\ UNCHANGED <<model, active, started, completed, timedOut, hooked>>

(* The application of a file starts, after its reading time if it has one. *)
StartApplication(f) ==
  /\ started /\ transfer[f] = "waiting"
  /\ transfer' = [transfer EXCEPT ![f] = "sending"]
  /\ UNCHANGED <<model, active, started, fileInFlight, current, pending, completed,
                 timedOut, looks, hooked, watchdog>>

(* FtpScheduleCloseHook: every 10 ms until there is a socket to hook.      *)
LookForSocket(f) ==
  /\ started /\ looks[f] > 0
  /\ IF active /\ f = current /\ transfer[f] = "waiting"
     THEN looks' = [looks EXCEPT ![f] = @ - 1] /\ UNCHANGED hooked
     ELSE /\ looks' = [looks EXCEPT ![f] = 0]
          /\ hooked' = IF active /\ f = current THEN hooked \cup {f} ELSE hooked
  /\ UNCHANGED <<model, active, started, fileInFlight, current, pending, completed,
                 timedOut, transfer, watchdog>>

(* The last of the file is out and its socket closes, well or badly, which *)
(* calls FtpOnSocketClose if it is hooked.  The hook has had its 10 ms    *)
(* by then: a transfer takes a GEO round trip.                             *)
Close(f) ==
  LET apps == [transfer EXCEPT ![f] = "closed"] IN
  /\ transfer[f] = "sending" /\ looks[f] = 0
  /\ IF f \in hooked /\ Concerns(f)
     THEN completed' = completed + 1 /\ FtpOnFileComplete(apps)
     ELSE NoSpawn(apps) /\ UNCHANGED <<completed, fileInFlight, pending>>
  /\ WithWatchdogs(watchdog)
  /\ UNCHANGED <<model, active, started, timedOut, hooked>>

(* A file that is overdue counts as failed; its application is left alone. *)
FtpWatchdog(f) ==
  /\ started /\ f \in watchdog
  /\ IF Concerns(f)
     THEN timedOut' = timedOut + 1 /\ FtpOnFileComplete(transfer)
     ELSE NoSpawn(transfer) /\ UNCHANGED <<timedOut, fileInFlight, pending>>
  /\ WithWatchdogs(watchdog \ {f})
  /\ UNCHANGED <<model, active, started, completed, hooked>>

Next ==
  \/ Start \/ Stop \/ FtpOnArrival
  \/ \E f \in Files : \/ StartApplication(f) \/ LookForSocket(f)
                      \/ Close(f) \/ FtpWatchdog(f)

-----------------------------------------------------------------------------
(* Properties.                                                             *)

(* The state has its types and keeps to MaxFiles.                          *)
TypeOK ==
  /\ model \in Models
  /\ {active, started, fileInFlight} \subseteq BOOLEAN
  /\ current \in 1..MaxFiles
  /\ pending \in 0..(MaxFiles - current)
  /\ {completed, timedOut} \subseteq 0..current
  /\ transfer \in [Files -> {"waiting", "sending", "closed"}]
  /\ looks \in [Files -> 0..(Retries + 1)] /\ hooked \subseteq Files
  /\ watchdog \subseteq Files

(* "Only one active transfer at a time" (FtpOnFileComplete, Models 2 and   *)
(* 3), as far as it goes: a file gives way to the next only when its       *)
(* transfer is over or it is overdue by its own watchdog, however the ends *)
(* and watchdogs of earlier files fall; and nothing queues behind nothing. *)
OneAtATime ==
  model # 1 =>
    /\ \A f \in Files \ {current} : transfer[f] # "closed" => f \notin watchdog
    /\ pending > 0 => fileInFlight

(* Every file of Models 2 and 3 is counted once, as completed or as timed  *)
(* out, though both ends may come, late and in any order; in Model 1 files *)
(* that others have superseded are not counted.                            *)
EachFileCountedOnce ==
  LET ended == completed + timedOut + (IF fileInFlight THEN 1 ELSE 0) IN
  IF model = 1 THEN ended <= current ELSE ended = current

(* Files follow one another: none too early, none twice, none uncounted.   *)
FilesFollow == OneAtATime /\ EachFileCountedOnce

(* The watchdog "keeps fileInFlight from staying true for ever, the driver *)
(* from being stuck and pendingArrivals from piling up": what is queued is *)
(* served and a serial driver goes on, though no socket ever closes.       *)
DriverGoesOn ==
  /\ pending > 0 ~> (pending = 0 \/ ~active)
  /\ \A n \in 1..(MaxFiles - 1) :
       model = 2 /\ current = n ~> (current > n \/ (started /\ ~active))

(* filesCompleted counts "the files really completed (NormalClose)": the   *)
(* close of the current file is noticed.                                   *)
CloseIsNoticed ==
  model # 1 /\ active /\ fileInFlight => transfer[current] # "closed"
=============================================================================
