----------------------------- MODULE FmHandoff ------------------------------
(***************************************************************************)
(* How the FM application gets /dev/radio0: fminit/fminit.c, the daemon    *)
(* that opens the device once, loads the firmware and hands duplicates of  *)
(* its descriptor out over a socket; fmAcquireFdNative() of                *)
(* patches/frameworks_base_android_hardware_fm_qcom.cpp, which asks for    *)
(* one and falls back to opening the device itself; and the service of     *)
(* patches/packages_apps_FM.patch, which execs the daemon.                 *)
(*                                                                         *)
(* The device admits one open file, and every open resets the chip and     *)
(* wipes its firmware.  `holders` are the processes with a descriptor of   *)
(* that file; the file is closed when the last of them lets go.  Both the  *)
(* daemon and the application may be killed at any time.                   *)
(***************************************************************************)
EXTENDS Naturals, FiniteSets

CONSTANTS
  Daemons,          \* slots for running fminit processes
  Clients,          \* threads of the FM application that acquire the device
  Nobody,
  MaxAttempts,      \* connection attempts of one acquire (60 in the code)
  MaxKills          \* bound on the times an fminit is killed

ASSUME HandoffAssumption ==
  /\ Daemons \cap Clients = {}
  /\ Nobody \notin Daemons \cup Clients
  /\ MaxAttempts \in Nat \ {0}
  /\ MaxKills \in Nat

VARIABLES
  service,      \* FMRadioService has been created
  execPending,  \* its thread "fminit-preload" has yet to exec
  initProp,     \* the property hw.fm.init
  dpc,          \* point an fminit process has reached
  cpc,          \* point of each acquire
  tries,        \* failed attempts of this acquire
  peer,         \* the daemon whose backlog holds the connection
  holders, firmware,
  opens,        \* times the driver's open() ran, counted up to 2
  late,         \* a client gave up while an fminit was on its way
  kills

daemon == <<dpc, initProp>>
app    == <<service, execPending>>
client == <<cpc, tries, peer, late>>
device == <<holders, firmware, opens>>
vars   == <<daemon, app, client, device, kills>>

DaemonPoint == {"none", "started", "bound", "opened", "loading", "serving"}
ClientPoint == {"idle", "connect", "waiting", "fallback", "on"}

TypeOK ==
  /\ service \in BOOLEAN /\ execPending \in BOOLEAN
  /\ initProp \in {"", "0", "1"}
  /\ dpc \in [Daemons -> DaemonPoint]
  /\ cpc \in [Clients -> ClientPoint]
  /\ tries \in [Clients -> 0..(MaxAttempts - 1)]
  /\ peer \in [Clients -> Daemons \cup {Nobody}]
  /\ holders \in SUBSET (Daemons \cup Clients)
  /\ firmware \in BOOLEAN
  /\ opens \in 0..2
  /\ late \in BOOLEAN
  /\ kills \in 0..MaxKills

Init ==
  /\ service = FALSE /\ execPending = FALSE
  /\ initProp = ""
  /\ dpc = [d \in Daemons |-> "none"]
  /\ cpc = [c \in Clients |-> "idle"]
  /\ tries = [c \in Clients |-> 0]
  /\ peer = [c \in Clients |-> Nobody]
  /\ holders = {} /\ firmware = FALSE /\ opens = 0
  /\ late = FALSE /\ kills = 0

\* The abstract-namespace socket exists while its daemon runs.
Listening(d) == dpc[d] \in {"bound", "opened", "loading", "serving"}

-----------------------------------------------------------------------------
(* The driver, radio-tavarua.                                              *)

\* open() of a free device by process p.
OpenDevice(p) ==
  /\ holders = {}
  /\ holders' = {p}
  /\ firmware' = FALSE
  /\ opens' = IF opens < 2 THEN opens + 1 ELSE 2

Busy == holders # {}

-----------------------------------------------------------------------------
(* fminit: main().                                                         *)

\* The process ends: the kernel closes its descriptors, and a connection in
\* its backlog is reset.
Exit(d) ==
  /\ dpc' = [dpc EXCEPT ![d] = "none"]
  /\ holders' = holders \ {d}
  /\ peer' = [c \in Clients |-> IF peer[c] = d THEN Nobody ELSE peer[c]]
  /\ UNCHANGED <<firmware, opens, cpc, tries, late, initProp>>

\* A second instance exits quietly.
Bind(d) ==
  /\ dpc[d] = "started"
  /\ \/ /\ ~ \E e \in Daemons : Listening(e)
        /\ dpc' = [dpc EXCEPT ![d] = "bound"]
        /\ UNCHANGED <<initProp, client, device>>
     \/ /\ \E e \in Daemons : Listening(e)
        /\ Exit(d)
  /\ UNCHANGED <<app, kills>>

\* Mutant: the result of open() is not looked at.
OpenUnchecked(d) ==
  /\ dpc[d] = "bound"
  /\ dpc' = [dpc EXCEPT ![d] = "opened"]
  /\ OpenDevice(d) \/ (Busy /\ UNCHANGED device)
  /\ UNCHANGED <<initProp, client, app, kills>>

Open(d) ==
  /\ dpc[d] = "bound"
  /\ \/ /\ OpenDevice(d)
        /\ dpc' = [dpc EXCEPT ![d] = "opened"]
        /\ UNCHANGED <<initProp, client>>
     \/ Busy /\ Exit(d)
  /\ UNCHANGED <<app, kills>>

\* load_firmware(): the property is reset, fm_qsoc_patches runs, and the
\* property is set when it succeeds.
BeginLoad(d) ==
  /\ dpc[d] = "opened"
  /\ dpc' = [dpc EXCEPT ![d] = "loading"]
  /\ initProp' = "0"
  /\ UNCHANGED <<app, client, device, kills>>

\* Mutant: the daemon before its redesign, that closed the device once the
\* firmware was loaded.
LoadAndClose(d) ==
  /\ dpc[d] = "loading"
  /\ dpc' = [dpc EXCEPT ![d] = "serving"]
  /\ firmware' = TRUE /\ initProp' = "1"
  /\ holders' = holders \ {d}
  /\ UNCHANGED <<app, client, opens, kills>>

\* "Serve the fd regardless of firmware-load success."
EndLoad(d) ==
  /\ dpc[d] = "loading"
  /\ dpc' = [dpc EXCEPT ![d] = "serving"]
  /\ \/ firmware' = TRUE /\ initProp' = "1"
     \/ UNCHANGED <<firmware, initProp>>
  /\ UNCHANGED <<app, client, holders, opens, kills>>

\* accept(), send_fd() and close(): recvmsg() returns a duplicate of the
\* daemon's descriptor, or nothing if sendmsg(), which nobody checks, failed.
Serve(d, c) ==
  /\ dpc[d] = "serving" /\ cpc[c] = "waiting" /\ peer[c] = d
  /\ peer' = [peer EXCEPT ![c] = Nobody]
  /\ \/ /\ d \in holders
        /\ holders' = holders \cup {c}
        /\ cpc' = [cpc EXCEPT ![c] = "on"]
     \/ UNCHANGED <<holders, cpc>>
  /\ UNCHANGED <<daemon, app, tries, late, firmware, opens, kills>>

\* The process is killed, wherever it is.
Kill(d) ==
  /\ dpc[d] # "none" /\ kills < MaxKills
  /\ kills' = kills + 1
  /\ Exit(d)
  /\ UNCHANGED app

-----------------------------------------------------------------------------
(* FMRadioService.                                                         *)

\* onCreate(): a thread is started to exec fminit unless hw.fm.init is "1".
OnCreate ==
  /\ ~service
  /\ service' = TRUE
  /\ execPending' = (initProp # "1")
  /\ UNCHANGED <<daemon, client, device, kills>>

Exec ==
  /\ execPending
  /\ execPending' = FALSE
  /\ \E d \in Daemons : /\ dpc[d] = "none"
                        /\ dpc' = [dpc EXCEPT ![d] = "started"]
  /\ UNCHANGED <<service, initProp, client, device, kills>>

\* The application is killed: its descriptors are closed, and the acquires
\* its threads were in are gone.  The daemon runs on.
AppDies ==
  /\ service
  /\ service' = FALSE /\ execPending' = FALSE
  /\ cpc' = [c \in Clients |-> "idle"]
  /\ tries' = [c \in Clients |-> 0]
  /\ peer' = [c \in Clients |-> Nobody]
  /\ holders' = holders \cap Daemons
  /\ UNCHANGED <<daemon, late, firmware, opens, kills>>

-----------------------------------------------------------------------------
(* fmAcquireFdNative() and fmCloseFdNative().                              *)

Acquire(c) ==
  /\ service /\ cpc[c] = "idle"
  /\ cpc' = [cpc EXCEPT ![c] = "connect"]
  /\ UNCHANGED <<daemon, app, tries, peer, late, device, kills>>

\* connect() succeeds as soon as the socket exists: "it queues in the backlog".
Connect(c) ==
  /\ cpc[c] = "connect"
  /\ \E d \in Daemons : /\ Listening(d)
                        /\ peer' = [peer EXCEPT ![c] = d]
  /\ cpc' = [cpc EXCEPT ![c] = "waiting"]
  /\ tries' = [tries EXCEPT ![c] = 0]
  /\ UNCHANGED <<daemon, app, late, device, kills>>

FminitStarting == execPending \/ \E d \in Daemons : dpc[d] = "started"

\* Mutant: no retry.
GiveUpAtOnce(c) ==
  /\ cpc[c] = "connect"
  /\ cpc' = [cpc EXCEPT ![c] = "fallback"]
  /\ UNCHANGED <<daemon, app, tries, peer, late, device, kills>>

NoSocket == ~ \E d \in Daemons : Listening(d)

\* Mutant: the attempts are not bounded.
TryForever(c) ==
  /\ cpc[c] = "connect" /\ NoSocket
  /\ UNCHANGED vars

\* Mutant: one attempt too many.
OneMoreAttempt(c) ==
  /\ cpc[c] = "connect" /\ NoSocket
  /\ tries' = [tries EXCEPT ![c] = @ + 1]
  /\ tries[c] < MaxAttempts
  /\ UNCHANGED <<daemon, app, cpc, peer, late, device, kills>>

\* An attempt without a socket; the last one leads to the fallback.
FailedAttempt(c) ==
  /\ cpc[c] = "connect" /\ NoSocket
  /\ \/ /\ tries[c] + 1 < MaxAttempts
        /\ tries' = [tries EXCEPT ![c] = @ + 1]
        /\ UNCHANGED <<cpc, late>>
     \/ /\ tries[c] + 1 = MaxAttempts
        /\ tries' = [tries EXCEPT ![c] = 0]
        /\ cpc' = [cpc EXCEPT ![c] = "fallback"]
        /\ late' = (late \/ FminitStarting)
  /\ UNCHANGED <<daemon, app, peer, device, kills>>

\* recvmsg() returns 0: the daemon went away with the connection queued.
HangUp(c) ==
  /\ cpc[c] = "waiting" /\ peer[c] = Nobody
  /\ cpc' = [cpc EXCEPT ![c] = "fallback"]
  /\ UNCHANGED <<daemon, app, tries, peer, late, device, kills>>

\* "falling back to direct open()": EBUSY when another file is open.
DirectOpen(c) ==
  /\ cpc[c] = "fallback"
  /\ \/ /\ OpenDevice(c)
        /\ cpc' = [cpc EXCEPT ![c] = "on"]
     \/ /\ Busy
        /\ cpc' = [cpc EXCEPT ![c] = "idle"]
        /\ UNCHANGED device
  /\ UNCHANGED <<daemon, app, tries, peer, late, kills>>

Close(c) ==
  /\ cpc[c] = "on"
  /\ cpc' = [cpc EXCEPT ![c] = "idle"]
  /\ holders' = holders \ {c}
  /\ UNCHANGED <<daemon, app, tries, peer, late, firmware, opens, kills>>

-----------------------------------------------------------------------------

DaemonStep(d) == Bind(d) \/ Open(d) \/ BeginLoad(d) \/ EndLoad(d)

AcquireStep(c) == Connect(c) \/ FailedAttempt(c) \/ HangUp(c) \/ DirectOpen(c)

Next ==
  \/ OnCreate \/ Exec \/ AppDies
  \/ \E d \in Daemons : DaemonStep(d) \/ Kill(d) \/ \E c \in Clients : Serve(d, c)
  \/ \E c \in Clients : Acquire(c) \/ AcquireStep(c) \/ Close(c)

Spec == Init /\ [][Next]_vars

\* Processes and threads that can run do; fm_qsoc_patches ends; accept() takes
\* the connections in turn.  Nobody is obliged to press the power button, to
\* switch the radio off or to die.
Fairness ==
  /\ WF_vars(Exec)
  /\ \A d \in Daemons : /\ WF_vars(DaemonStep(d))
                        /\ \A c \in Clients : WF_vars(Serve(d, c))
  /\ \A c \in Clients : WF_vars(AcquireStep(c))

FairSpec == Spec /\ Fairness

-----------------------------------------------------------------------------
(* Properties.                                                             *)

\* "the kernel driver's .open() is only ever invoked this one time": as long as
\* no fminit is killed, and no client runs out of attempts while an fminit is
\* on its way, the device is opened once - through restarts of the application,
\* second instances, clients that race the startup, failed firmware loads and
\* failed sends.
OpenedOnce == (~late /\ kills = 0) => opens <= 1

\* Firmware, once loaded, stays as long as a daemon serves, or as long as anyone
\* keeps the descriptor it was loaded through or was handed: no fallback, second
\* instance or late client wipes it, even when the daemon that loaded it died.
FirmwareKept ==
  [][(/\ firmware
      /\ \/ holders \cap holders' # {}
         \/ \E d \in Daemons : dpc[d] = "serving" /\ dpc'[d] = "serving")
     => firmware']_vars

Radio == INSTANCE RadioDevice WITH Process <- Daemons \cup Clients

\* Whoever has the device has it through one open file, and the firmware is only
\* ever loaded through it: every step of the daemon, of its clients and of those
\* who kill them opens the free device, passes the file on, lets go of it, loads
\* the firmware or leaves the device alone.
SharesOneFile == Radio!Spec

\* Every acquire ends: with a descriptor, with an error, or with the application.
\* The retries are bounded, a queued connection is answered after the firmware
\* load, and a daemon that exits or dies resets the connections it had queued.
AcquireReturns ==
  \A c \in Clients : cpc[c] \in {"connect", "waiting", "fallback"}
                     ~> cpc[c] \in {"idle", "on"}

\* fminit.c on a second instance: "FMRadioService re-execs us on every
\* onCreate()".  In particular a service created while no fminit runs starts one.
ReexecOnCreate ==
  [][(~service /\ service' /\ \A d \in Daemons : dpc[d] = "none") => execPending']_vars
=============================================================================
