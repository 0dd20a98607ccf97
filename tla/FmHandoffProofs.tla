-------------------------- MODULE FmHandoffProofs ---------------------------
(***************************************************************************)
(* The device is opened once, for every number of fminit processes,        *)
(* acquiring threads and attempts.                                         *)
(*                                                                         *)
(* While no fminit is killed and nobody gave up too early, the invariant   *)
(* says that a live service always has an fminit on its way or listening,  *)
(* that the listening one is unique and, from its open() on, has the       *)
(* device, and that nobody reaches the fallback before that.               *)
(***************************************************************************)
EXTENDS FmHandoff, TLAPS

\* An fminit that has opened the device and not ended.
Opened(d) == dpc[d] \in {"opened", "loading", "serving"}

\* One socket, one owner.
OneListener == \A d, e \in Daemons : (Listening(d) /\ Listening(e)) => d = e

\* Who is in a backlog is in the backlog of a daemon that listens.
BacklogInv ==
  \A c \in Clients : peer[c] # Nobody => (cpc[c] = "waiting" /\ Listening(peer[c]))

\* The application is let down by a live daemon only after its send failed.
NoFallbackYet ==
  \A c \in Clients :
    (cpc[c] = "fallback" \/ (cpc[c] = "waiting" /\ peer[c] = Nobody))
    => \E d \in Daemons : Opened(d)

\* Nobody has the device without the daemon that opened it.
DaemonHolds ==
  /\ \A d \in Daemons : Opened(d) => d \in holders
  /\ holders # {} => \E d \in Daemons : Opened(d)

\* The count agrees with the daemon's progress.
OpensInv ==
  /\ opens <= 1
  /\ opens = 1 => \E d \in Daemons : Opened(d)

\* A live service has an fminit, or will.
ServedInv ==
  /\ service => (FminitStarting \/ \E d \in Daemons : Listening(d))
  /\ initProp = "1" => \E d \in Daemons : Opened(d)
  /\ \A c \in Clients : cpc[c] # "idle" => service

Quiet == ~late /\ kills = 0

QuietInv == NoFallbackYet /\ DaemonHolds /\ OpensInv /\ ServedInv

HInv == TypeOK /\ OneListener /\ BacklogInv /\ (Quiet => QuietInv)

-----------------------------------------------------------------------------
(* Types, the socket and the backlog.                                      *)

\* The end of an fminit process, whatever ends it.
LEMMA ExitType ==
  ASSUME TypeOK, NEW d \in Daemons, Exit(d)
  PROVE  /\ dpc' \in [Daemons -> DaemonPoint]
         /\ holders' \in SUBSET (Daemons \cup Clients)
         /\ peer' \in [Clients -> Daemons \cup {Nobody}]
<1>1. dpc' \in [Daemons -> DaemonPoint]
  BY DEF Exit, TypeOK, DaemonPoint
<1>2. holders' \in SUBSET (Daemons \cup Clients)
  BY DEF Exit, TypeOK
<1>3. peer' \in [Clients -> Daemons \cup {Nobody}]
  BY DEF Exit, TypeOK
<1>. QED
  BY <1>1, <1>2, <1>3

\* A successful open() of the device.
LEMMA OpenDeviceType ==
  ASSUME TypeOK, NEW p \in Daemons \cup Clients, OpenDevice(p)
  PROVE  /\ holders' \in SUBSET (Daemons \cup Clients)
         /\ firmware' \in BOOLEAN /\ opens' \in 0..2
<1>1. opens \in 0..2
  BY DEF TypeOK
<1>2. opens' \in 0..2
  BY <1>1 DEF OpenDevice
<1>. QED
  BY <1>2 DEF OpenDevice

\* An attempt number is a natural below the limit.
LEMMA TriesType ==
  ASSUME TypeOK, NEW c \in Clients
  PROVE  /\ [tries EXCEPT ![c] = 0] \in [Clients -> 0..(MaxAttempts - 1)]
         /\ [x \in Clients |-> 0] \in [Clients -> 0..(MaxAttempts - 1)]
         /\ tries[c] + 1 < MaxAttempts =>
              [tries EXCEPT ![c] = @ + 1] \in [Clients -> 0..(MaxAttempts - 1)]
<1>1. 0 \in 0..(MaxAttempts - 1)
  BY HandoffAssumption
<1>2. tries[c] \in 0..(MaxAttempts - 1)
  BY DEF TypeOK
<1>3. tries[c] + 1 < MaxAttempts => tries[c] + 1 \in 0..(MaxAttempts - 1)
  BY <1>2, HandoffAssumption
<1>. QED
  BY <1>1, <1>3 DEF TypeOK

\* Every step keeps the types.
LEMMA HandoffTypeNext ==
  ASSUME TypeOK, [Next]_vars
  PROVE  TypeOK'
<1>1. CASE OnCreate
  BY <1>1 DEF OnCreate, TypeOK, DaemonPoint, ClientPoint, daemon, app, client, device
<1>2. CASE Exec
  BY <1>2 DEF Exec, TypeOK, DaemonPoint, ClientPoint, daemon, app, client, device
<1>3. CASE AppDies
  <2>1. tries' \in [Clients -> 0..(MaxAttempts - 1)]
    BY <1>3, HandoffAssumption DEF AppDies
  <2>2. peer' \in [Clients -> Daemons \cup {Nobody}] /\ holders' \in SUBSET (Daemons \cup Clients)
    BY <1>3 DEF AppDies, TypeOK
  <2>3. cpc' \in [Clients -> ClientPoint]
    BY <1>3 DEF AppDies, ClientPoint
  <2>. QED
    BY <1>3, <2>1, <2>2, <2>3 DEF AppDies, TypeOK, daemon
<1>4. ASSUME NEW d \in Daemons, Bind(d) PROVE TypeOK'
  BY <1>4 DEF Bind, Exit, TypeOK, DaemonPoint, ClientPoint, daemon, app, client, device
<1>5. ASSUME NEW d \in Daemons, Open(d) PROVE TypeOK'
  <2>1. CASE Exit(d)
    <3>1. UNCHANGED <<firmware, opens, cpc, tries, late, initProp, app, kills>>
      BY <1>5, <2>1 DEF Open, Exit
    <3>. QED
      BY <2>1, <3>1, ExitType DEF TypeOK, app
  <2>2. CASE OpenDevice(d) /\ dpc' = [dpc EXCEPT ![d] = "opened"]
             /\ UNCHANGED <<initProp, client>>
    <3>1. dpc' \in [Daemons -> DaemonPoint]
      BY <2>2 DEF TypeOK, DaemonPoint
    <3>2. UNCHANGED <<app, kills>>
      BY <1>5 DEF Open
    <3>. QED
      BY <2>2, <3>1, <3>2, OpenDeviceType DEF TypeOK, app, client
  <2>. QED
    BY <1>5, <2>1, <2>2 DEF Open
<1>6. ASSUME NEW d \in Daemons, BeginLoad(d) PROVE TypeOK'
  BY <1>6 DEF BeginLoad, TypeOK, DaemonPoint, ClientPoint, daemon, app, client, device
<1>7. ASSUME NEW d \in Daemons, EndLoad(d) PROVE TypeOK'
  BY <1>7 DEF EndLoad, TypeOK, DaemonPoint, ClientPoint, daemon, app, client, device
<1>8. ASSUME NEW d \in Daemons, Kill(d) PROVE TypeOK'
  <2>1. kills' \in 0..MaxKills
    <3>1. kills \in 0..MaxKills
      BY DEF TypeOK
    <3>2. kills < MaxKills /\ kills' = kills + 1
      BY <1>8 DEF Kill
    <3>. QED
      BY <3>1, <3>2, HandoffAssumption
  <2>2. Exit(d) /\ UNCHANGED app
    BY <1>8 DEF Kill
  <2>3. UNCHANGED <<firmware, opens, cpc, tries, late, initProp>>
    BY <2>2 DEF Exit
  <2>. QED
    BY <2>1, <2>2, <2>3, ExitType DEF TypeOK, app
<1>9. ASSUME NEW d \in Daemons, NEW c \in Clients, Serve(d, c) PROVE TypeOK'
  BY <1>9 DEF Serve, TypeOK, DaemonPoint, ClientPoint, daemon, app, client, device
<1>10. ASSUME NEW c \in Clients, Acquire(c) PROVE TypeOK'
  BY <1>10 DEF Acquire, TypeOK, DaemonPoint, ClientPoint, daemon, app, client, device
<1>11. ASSUME NEW c \in Clients, Connect(c) PROVE TypeOK'
  <2>1. tries' \in [Clients -> 0..(MaxAttempts - 1)]
    BY <1>11, TriesType DEF Connect
  <2>. QED
    BY <1>11, <2>1 DEF Connect, TypeOK, ClientPoint, daemon, app, device
<1>12. ASSUME NEW c \in Clients, FailedAttempt(c) PROVE TypeOK'
  <2>1. tries' \in [Clients -> 0..(MaxAttempts - 1)]
    BY <1>12, TriesType DEF FailedAttempt
  <2>2. cpc' \in [Clients -> ClientPoint]
    BY <1>12 DEF FailedAttempt, TypeOK, ClientPoint
  <2>3. late' \in BOOLEAN
    BY <1>12, Zenon DEF FailedAttempt, TypeOK, FminitStarting
  <2>. QED
    BY <1>12, <2>1, <2>2, <2>3 DEF FailedAttempt, TypeOK, daemon, app, device
<1>13. ASSUME NEW c \in Clients, HangUp(c) PROVE TypeOK'
  BY <1>13 DEF HangUp, TypeOK, DaemonPoint, ClientPoint, daemon, app, client, device
<1>14. ASSUME NEW c \in Clients, DirectOpen(c) PROVE TypeOK'
  <2>1. cpc' \in [Clients -> ClientPoint]
    BY <1>14 DEF DirectOpen, TypeOK, ClientPoint
  <2>2. CASE OpenDevice(c)
    BY <1>14, <2>1, <2>2, OpenDeviceType DEF DirectOpen, TypeOK, daemon, app
  <2>3. CASE UNCHANGED device
    BY <1>14, <2>1, <2>3 DEF DirectOpen, TypeOK, daemon, app, device
  <2>. QED
    BY <1>14, <2>2, <2>3 DEF DirectOpen
<1>15. ASSUME NEW c \in Clients, Close(c) PROVE TypeOK'
  BY <1>15 DEF Close, TypeOK, DaemonPoint, ClientPoint, daemon, app, client, device
<1>16. CASE UNCHANGED vars
  BY <1>16 DEF TypeOK, vars, daemon, app, client, device
<1>. QED
  BY <1>1, <1>2, <1>3, <1>4, <1>5, <1>6, <1>7, <1>8,
     <1>9, <1>10, <1>11, <1>12, <1>13, <1>14, <1>15, <1>16 DEF Next, DaemonStep, AcquireStep

\* bind() of a bound name fails: there is one listener at most.
LEMMA OneListenerNext ==
  ASSUME TypeOK, OneListener, [Next]_vars
  PROVE  OneListener'
<1>1. CASE OnCreate
  BY <1>1 DEF OnCreate, OneListener, Listening, daemon
<1>2. CASE Exec
  BY <1>2 DEF Exec, TypeOK, OneListener, Listening
<1>3. CASE AppDies
  BY <1>3 DEF AppDies, OneListener, Listening, daemon
<1>4. ASSUME NEW d \in Daemons, Bind(d) PROVE OneListener'
  BY <1>4 DEF Bind, Exit, TypeOK, OneListener, Listening
<1>5. ASSUME NEW d \in Daemons, Open(d) PROVE OneListener'
  BY <1>5 DEF Open, Exit, OpenDevice, TypeOK, OneListener, Listening
<1>6. ASSUME NEW d \in Daemons, BeginLoad(d) PROVE OneListener'
  BY <1>6 DEF BeginLoad, TypeOK, OneListener, Listening
<1>7. ASSUME NEW d \in Daemons, EndLoad(d) PROVE OneListener'
  BY <1>7 DEF EndLoad, TypeOK, OneListener, Listening
<1>8. ASSUME NEW d \in Daemons, Kill(d) PROVE OneListener'
  BY <1>8 DEF Kill, Exit, TypeOK, OneListener, Listening
<1>9. ASSUME NEW d \in Daemons, NEW c \in Clients, Serve(d, c) PROVE OneListener'
  BY <1>9 DEF Serve, OneListener, Listening, daemon
<1>10. ASSUME NEW c \in Clients, Acquire(c) PROVE OneListener'
  BY <1>10 DEF Acquire, OneListener, Listening, daemon
<1>11. ASSUME NEW c \in Clients, Connect(c) PROVE OneListener'
  BY <1>11 DEF Connect, OneListener, Listening, daemon
<1>12. ASSUME NEW c \in Clients, FailedAttempt(c) PROVE OneListener'
  BY <1>12 DEF FailedAttempt, OneListener, Listening, daemon
<1>13. ASSUME NEW c \in Clients, HangUp(c) PROVE OneListener'
  BY <1>13 DEF HangUp, OneListener, Listening, daemon
<1>14. ASSUME NEW c \in Clients, DirectOpen(c) PROVE OneListener'
  BY <1>14 DEF DirectOpen, OneListener, Listening, daemon
<1>15. ASSUME NEW c \in Clients, Close(c) PROVE OneListener'
  BY <1>15 DEF Close, OneListener, Listening, daemon
<1>16. CASE UNCHANGED vars
  BY <1>16 DEF vars, daemon, OneListener, Listening
<1>. QED
  BY <1>1, <1>2, <1>3, <1>4, <1>5, <1>6, <1>7, <1>8,
     <1>9, <1>10, <1>11, <1>12, <1>13, <1>14, <1>15, <1>16 DEF Next, DaemonStep, AcquireStep

\* The kernel resets the connections queued with a process that ends.
LEMMA ExitBacklog ==
  ASSUME TypeOK, BacklogInv, NEW d \in Daemons, Exit(d)
  PROVE  BacklogInv'
<1>. SUFFICES ASSUME NEW c \in Clients, peer'[c] # Nobody
              PROVE  /\ cpc'[c] = "waiting"
                     /\ dpc'[peer'[c]] \in {"bound", "opened", "loading", "serving"}
  BY DEF BacklogInv, Listening
<1>1. peer'[c] = peer[c] /\ peer[c] # d /\ cpc' = cpc
  BY DEF Exit
<1>2. cpc[c] = "waiting" /\ Listening(peer[c])
  BY <1>1 DEF BacklogInv
<1>3. peer[c] \in Daemons
  BY <1>1 DEF TypeOK
<1>. QED
  BY <1>1, <1>2, <1>3 DEF Exit, TypeOK, Listening

\* A connection is reset when its daemon ends, never left behind.
LEMMA BacklogNext ==
  ASSUME TypeOK, BacklogInv, [Next]_vars
  PROVE  BacklogInv'
<1>1. CASE OnCreate
  BY <1>1, HandoffAssumption DEF OnCreate, TypeOK, BacklogInv, Listening, daemon, app, client, device
<1>2. CASE Exec
  BY <1>2, HandoffAssumption DEF Exec, TypeOK, BacklogInv, Listening, daemon, app, client, device
<1>3. CASE AppDies
  BY <1>3, HandoffAssumption DEF AppDies, TypeOK, BacklogInv, Listening, daemon, app, client, device
<1>4. ASSUME NEW d \in Daemons, Bind(d) PROVE BacklogInv'
  <2>1. CASE Exit(d)
    BY <2>1, ExitBacklog
  <2>2. CASE dpc' = [dpc EXCEPT ![d] = "bound"] /\ UNCHANGED client
    BY <2>2 DEF TypeOK, BacklogInv, Listening, client
  <2>. QED
    BY <1>4, <2>1, <2>2 DEF Bind
<1>5. ASSUME NEW d \in Daemons, Open(d) PROVE BacklogInv'
  <2>1. CASE Exit(d)
    BY <2>1, ExitBacklog
  <2>2. CASE dpc' = [dpc EXCEPT ![d] = "opened"] /\ UNCHANGED client
    BY <2>2 DEF TypeOK, BacklogInv, Listening, client
  <2>. QED
    BY <1>5, <2>1, <2>2 DEF Open
<1>6. ASSUME NEW d \in Daemons, BeginLoad(d) PROVE BacklogInv'
  BY <1>6, HandoffAssumption DEF BeginLoad, TypeOK, BacklogInv, Listening, daemon, app, client, device
<1>7. ASSUME NEW d \in Daemons, EndLoad(d) PROVE BacklogInv'
  BY <1>7, HandoffAssumption DEF EndLoad, TypeOK, BacklogInv, Listening, daemon, app, client, device
<1>8. ASSUME NEW d \in Daemons, Kill(d) PROVE BacklogInv'
  BY <1>8, ExitBacklog DEF Kill
<1>9. ASSUME NEW d \in Daemons, NEW c \in Clients, Serve(d, c) PROVE BacklogInv'
  BY <1>9, HandoffAssumption DEF Serve, TypeOK, BacklogInv, Listening, daemon, app, client, device
<1>10. ASSUME NEW c \in Clients, Acquire(c) PROVE BacklogInv'
  BY <1>10, HandoffAssumption DEF Acquire, TypeOK, BacklogInv, Listening, daemon, app, client, device
<1>11. ASSUME NEW c \in Clients, Connect(c) PROVE BacklogInv'
  BY <1>11, HandoffAssumption DEF Connect, TypeOK, BacklogInv, Listening, daemon, app, client, device
<1>12. ASSUME NEW c \in Clients, FailedAttempt(c) PROVE BacklogInv'
  BY <1>12, HandoffAssumption DEF FailedAttempt, TypeOK, BacklogInv, Listening, daemon, app, client, device
<1>13. ASSUME NEW c \in Clients, HangUp(c) PROVE BacklogInv'
  BY <1>13, HandoffAssumption DEF HangUp, TypeOK, BacklogInv, Listening, daemon, app, client, device
<1>14. ASSUME NEW c \in Clients, DirectOpen(c) PROVE BacklogInv'
  BY <1>14, HandoffAssumption DEF DirectOpen, TypeOK, BacklogInv, Listening, daemon, app, client, device
<1>15. ASSUME NEW c \in Clients, Close(c) PROVE BacklogInv'
  BY <1>15, HandoffAssumption DEF Close, TypeOK, BacklogInv, Listening, daemon, app, client, device
<1>16. CASE UNCHANGED vars
  BY <1>16 DEF vars, BacklogInv, Listening, daemon, app, client, device
<1>. QED
  BY <1>1, <1>2, <1>3, <1>4, <1>5, <1>6, <1>7, <1>8,
     <1>9, <1>10, <1>11, <1>12, <1>13, <1>14, <1>15, <1>16 DEF Next, DaemonStep, AcquireStep

-----------------------------------------------------------------------------
(* One open().                                                             *)

\* A kill is counted.
LEMMA KillCounted ==
  ASSUME TypeOK, NEW d \in Daemons, Kill(d)
  PROVE  kills' # 0
<1>1. kills \in Nat
  <2>1. kills \in 0..MaxKills
    BY DEF TypeOK
  <2>. QED
    BY <2>1, HandoffAssumption
<1>2. kills' = kills + 1
  BY DEF Kill
<1>. QED
  BY <1>1, <1>2

\* A disturbance, once it happened, is not forgotten.
LEMMA QuietBefore ==
  ASSUME TypeOK, [Next]_vars, Quiet'
  PROVE  Quiet
<1>1. CASE UNCHANGED <<late, kills>>
  BY <1>1 DEF Quiet
<1>2. ASSUME NEW d \in Daemons, Kill(d) PROVE FALSE
  BY <1>2, KillCounted DEF Quiet
<1>3. ASSUME NEW c \in Clients, FailedAttempt(c) PROVE Quiet
  <2>1. late => late'
    BY <1>3, Zenon DEF FailedAttempt
  <2>2. UNCHANGED kills
    BY <1>3 DEF FailedAttempt
  <2>. QED
    BY <2>1, <2>2 DEF Quiet
<1>4. ASSUME NEW d \in Daemons, DaemonStep(d) \/ \E c \in Clients : Serve(d, c)
      PROVE  UNCHANGED <<late, kills>>
  BY <1>4 DEF DaemonStep, Bind, Open, BeginLoad, EndLoad, Serve, Exit, client
<1>5. ASSUME NEW c \in Clients,
             Acquire(c) \/ Connect(c) \/ HangUp(c) \/ DirectOpen(c) \/ Close(c)
      PROVE  UNCHANGED <<late, kills>>
  BY <1>5 DEF Acquire, Connect, HangUp, DirectOpen, Close
<1>6. ASSUME OnCreate \/ Exec \/ AppDies
      PROVE  UNCHANGED <<late, kills>>
  BY <1>6 DEF OnCreate, Exec, AppDies, client
<1>7. CASE UNCHANGED vars
  BY <1>1, <1>7 DEF vars, client
<1>. QED
  BY <1>1, <1>2, <1>3, <1>4, <1>5, <1>6, <1>7 DEF Next, AcquireStep

\* Every quiet step keeps the daemon that will open, or has opened, the device.
LEMMA QuietNext ==
  ASSUME HInv, [Next]_vars, Quiet'
  PROVE  QuietInv'
<1>. TypeOK /\ OneListener /\ BacklogInv /\ QuietInv
  BY QuietBefore DEF HInv
<1>1. CASE OnCreate
  BY <1>1, HandoffAssumption DEF OnCreate, TypeOK, OneListener, BacklogInv,
     QuietInv, NoFallbackYet, DaemonHolds, OpensInv, ServedInv, Opened, Listening, FminitStarting, daemon, app, client, device
<1>2. CASE Exec
  <2>1. PICK d \in Daemons : dpc[d] = "none" /\ dpc' = [dpc EXCEPT ![d] = "started"]
    BY <1>2 DEF Exec
  <2>2. \A e \in Daemons : dpc'[e] = IF e = d THEN "started" ELSE dpc[e]
    BY <2>1 DEF TypeOK
  <2>3. \A e \in Daemons : Opened(e)' <=> Opened(e)
    BY <2>1, <2>2 DEF Opened
  <2>4. UNCHANGED <<client, service, initProp, holders, opens>>
    BY <1>2 DEF Exec, device
  <2>5. FminitStarting'
    BY <2>2 DEF FminitStarting
  <2>6. NoFallbackYet' /\ DaemonHolds' /\ OpensInv'
    BY <2>3, <2>4 DEF QuietInv, NoFallbackYet, DaemonHolds, OpensInv, client
  <2>7. ServedInv'
    BY <2>3, <2>4, <2>5 DEF QuietInv, ServedInv, client
  <2>. QED
    BY <2>6, <2>7 DEF QuietInv
<1>3. CASE AppDies
  BY <1>3, HandoffAssumption DEF AppDies, TypeOK, OneListener, BacklogInv,
     QuietInv, NoFallbackYet, DaemonHolds, OpensInv, ServedInv, Opened, Listening, FminitStarting, daemon, app, client, device
<1>4. ASSUME NEW d \in Daemons, Bind(d) PROVE QuietInv'
  <2>1. CASE \E e \in Daemons : Listening(e)
    <3>1. dpc[d] = "started" /\ Exit(d)
      BY <1>4, <2>1 DEF Bind
    <3>2. \A e \in Daemons : dpc'[e] = IF e = d THEN "none" ELSE dpc[e]
      BY <3>1 DEF Exit, TypeOK
    <3>3. \A e \in Daemons : /\ Opened(e)' <=> Opened(e)
                             /\ Listening(e)' <=> Listening(e)
                             /\ Opened(e) => e # d
      BY <3>1, <3>2 DEF Opened, Listening
    <3>4. \A c \in Clients : peer'[c] = peer[c]
      BY <3>1 DEF Exit, BacklogInv, Listening, TypeOK
    <3>5. holders' = holders \ {d} /\ UNCHANGED <<app, cpc, opens, initProp>>
      BY <1>4, <3>1 DEF Bind, Exit
    <3>6. NoFallbackYet' /\ DaemonHolds' /\ OpensInv'
      BY <3>3, <3>4, <3>5 DEF QuietInv, NoFallbackYet, DaemonHolds, OpensInv
    <3>7. ServedInv'
      BY <2>1, <3>3, <3>5 DEF QuietInv, ServedInv, app
    <3>. QED
      BY <3>6, <3>7 DEF QuietInv
  <2>2. CASE ~ \E e \in Daemons : Listening(e)
    <3>1. /\ dpc[d] = "started" /\ dpc' = [dpc EXCEPT ![d] = "bound"]
          /\ UNCHANGED <<initProp, client, device, app>>
      BY <1>4, <2>2 DEF Bind
    <3>2. \A e \in Daemons : dpc'[e] = IF e = d THEN "bound" ELSE dpc[e]
      BY <3>1 DEF TypeOK
    <3>3. \A e \in Daemons : Opened(e)' <=> Opened(e)
      BY <3>1, <3>2 DEF Opened
    <3>4. Listening(d)'
      BY <3>2 DEF Listening
    <3>5. NoFallbackYet' /\ DaemonHolds' /\ OpensInv'
      BY <3>1, <3>3 DEF QuietInv, NoFallbackYet, DaemonHolds, OpensInv, client, device
    <3>6. ServedInv'
      BY <3>1, <3>3, <3>4 DEF QuietInv, ServedInv, client, app
    <3>. QED
      BY <3>5, <3>6 DEF QuietInv
  <2>. QED
    BY <2>1, <2>2
<1>5. ASSUME NEW d \in Daemons, Open(d) PROVE QuietInv'
  <2>1. dpc[d] = "bound" /\ UNCHANGED app
    BY <1>5 DEF Open
  <2>2. \A e \in Daemons : ~Opened(e)
    BY <2>1 DEF OneListener, Listening, Opened
  <2>3. OpenDevice(d) /\ dpc' = [dpc EXCEPT ![d] = "opened"] /\ UNCHANGED <<initProp, client>>
    BY <1>5, <2>2 DEF Open, Busy, QuietInv, DaemonHolds
  <2>4. \A e \in Daemons : dpc'[e] = IF e = d THEN "opened" ELSE dpc[e]
    BY <2>3 DEF TypeOK
  <2>5. Opened(d)' /\ Listening(d)' /\ \A e \in Daemons : Opened(e)' => e = d
    BY <2>2, <2>4 DEF Opened, Listening
  <2>6. opens = 0
    <3>1. opens \in 0..2
      BY DEF TypeOK
    <3>2. opens <= 1 /\ opens # 1
      BY <2>2 DEF QuietInv, OpensInv
    <3>. QED
      BY <3>1, <3>2
  <2>7. holders' = {d} /\ opens' = 1
    BY <2>3, <2>6 DEF OpenDevice
  <2>8. NoFallbackYet' /\ DaemonHolds' /\ OpensInv'
    BY <2>5, <2>7 DEF NoFallbackYet, DaemonHolds, OpensInv
  <2>9. ServedInv'
    BY <2>1, <2>3, <2>5 DEF QuietInv, ServedInv, client, app
  <2>. QED
    BY <2>8, <2>9 DEF QuietInv
<1>6. ASSUME NEW d \in Daemons, BeginLoad(d) PROVE QuietInv'
  <2>1. \A e \in Daemons : dpc'[e] = IF e = d THEN "loading" ELSE dpc[e]
    BY <1>6 DEF BeginLoad, TypeOK
  <2>2. \A e \in Daemons : /\ Opened(e)' <=> Opened(e)
                           /\ Listening(e)' <=> Listening(e)
                           /\ dpc'[e] = "started" <=> dpc[e] = "started"
    BY <1>6, <2>1 DEF BeginLoad, Opened, Listening
  <2>3. UNCHANGED <<client, app, holders, opens>>
    BY <1>6 DEF BeginLoad, device
  <2>4. NoFallbackYet'
    BY <2>2, <2>3 DEF QuietInv, NoFallbackYet, client
  <2>5. DaemonHolds'
    BY <2>2, <2>3 DEF QuietInv, DaemonHolds
  <2>6. OpensInv'
    BY <2>2, <2>3 DEF QuietInv, OpensInv
  <2>7. ServedInv'
    <3>1. service' => (FminitStarting' \/ \E e \in Daemons : Listening(e)')
      BY <2>2, <2>3 DEF QuietInv, ServedInv, FminitStarting, app
    <3>2. \E e \in Daemons : Opened(e)'
      BY <1>6, <2>1 DEF BeginLoad, Opened
    <3>. QED
      BY <2>3, <3>1, <3>2 DEF QuietInv, ServedInv, client, app
  <2>. QED
    BY <2>4, <2>5, <2>6, <2>7 DEF QuietInv
<1>7. ASSUME NEW d \in Daemons, EndLoad(d) PROVE QuietInv'
  <2>1. \A e \in Daemons : dpc'[e] = IF e = d THEN "serving" ELSE dpc[e]
    BY <1>7 DEF EndLoad, TypeOK
  <2>2. \A e \in Daemons : /\ Opened(e)' <=> Opened(e)
                           /\ Listening(e)' <=> Listening(e)
                           /\ dpc'[e] = "started" <=> dpc[e] = "started"
    BY <1>7, <2>1 DEF EndLoad, Opened, Listening
  <2>3. UNCHANGED <<client, app, holders, opens>>
    BY <1>7 DEF EndLoad, device
  <2>4. NoFallbackYet'
    BY <2>2, <2>3 DEF QuietInv, NoFallbackYet, client
  <2>5. DaemonHolds'
    BY <2>2, <2>3 DEF QuietInv, DaemonHolds
  <2>6. OpensInv'
    BY <2>2, <2>3 DEF QuietInv, OpensInv
  <2>7. ServedInv'
    <3>1. service' => (FminitStarting' \/ \E e \in Daemons : Listening(e)')
      BY <2>2, <2>3 DEF QuietInv, ServedInv, FminitStarting, app
    <3>2. \E e \in Daemons : Opened(e)'
      BY <1>7, <2>1 DEF EndLoad, Opened
    <3>. QED
      BY <2>3, <3>1, <3>2 DEF QuietInv, ServedInv, client, app
  <2>. QED
    BY <2>4, <2>5, <2>6, <2>7 DEF QuietInv
<1>8. ASSUME NEW d \in Daemons, NEW c \in Clients, Serve(d, c) PROVE QuietInv'
  BY <1>8, HandoffAssumption DEF Serve, TypeOK, OneListener, BacklogInv,
     QuietInv, NoFallbackYet, DaemonHolds, OpensInv, ServedInv, Opened, Listening, FminitStarting, daemon, app, client, device
<1>9. ASSUME NEW c \in Clients, Acquire(c) PROVE QuietInv'
  BY <1>9, HandoffAssumption DEF Acquire, TypeOK, OneListener, BacklogInv,
     QuietInv, NoFallbackYet, DaemonHolds, OpensInv, ServedInv, Opened, Listening, FminitStarting, daemon, app, client, device
<1>10. ASSUME NEW c \in Clients, Connect(c) PROVE QuietInv'
  <2>1. PICK d \in Daemons : Listening(d) /\ peer' = [peer EXCEPT ![c] = d]
    BY <1>10 DEF Connect
  <2>2. /\ \A x \in Clients : cpc'[x] = IF x = c THEN "waiting" ELSE cpc[x]
        /\ \A x \in Clients : peer'[x] = IF x = c THEN d ELSE peer[x]
    BY <1>10, <2>1 DEF Connect, TypeOK
  <2>3. UNCHANGED <<daemon, app, device>> /\ cpc[c] = "connect" /\ d # Nobody
    BY <1>10, HandoffAssumption DEF Connect
  <2>4. NoFallbackYet'
    BY <2>2, <2>3 DEF QuietInv, NoFallbackYet, Opened, daemon
  <2>5. DaemonHolds' /\ OpensInv'
    BY <2>3 DEF QuietInv, DaemonHolds, OpensInv, Opened, daemon, device
  <2>6. ServedInv'
    BY <2>2, <2>3 DEF QuietInv, ServedInv, Opened, Listening, FminitStarting, daemon, app
  <2>. QED
    BY <2>4, <2>5, <2>6 DEF QuietInv
<1>11. ASSUME NEW c \in Clients, FailedAttempt(c) PROVE QuietInv'
  <2>1. /\ cpc[c] = "connect" /\ ~ \E d \in Daemons : Listening(d)
        /\ UNCHANGED <<daemon, app, peer, device>>
    BY <1>11 DEF FailedAttempt, NoSocket
  <2>2. FminitStarting
    BY <2>1 DEF QuietInv, ServedInv
  <2>3. UNCHANGED cpc
    <3>1. CASE UNCHANGED cpc
      BY <3>1
    <3>2. CASE late' = (late \/ FminitStarting)
      <4>1. late'
        BY <2>2, <3>2, Zenon
      <4>. QED
        BY <4>1 DEF Quiet
    <3>. QED
      BY <1>11, <3>1, <3>2 DEF FailedAttempt
  <2>. QED
    BY <2>1, <2>3 DEF QuietInv, NoFallbackYet, DaemonHolds, OpensInv, ServedInv,
       Opened, Listening, FminitStarting, daemon, app, device
<1>12. ASSUME NEW c \in Clients, HangUp(c) PROVE QuietInv'
  BY <1>12, HandoffAssumption DEF HangUp, TypeOK, OneListener, BacklogInv,
     QuietInv, NoFallbackYet, DaemonHolds, OpensInv, ServedInv, Opened, Listening, FminitStarting, daemon, app, client, device
<1>13. ASSUME NEW c \in Clients, DirectOpen(c) PROVE QuietInv'
  BY <1>13, HandoffAssumption DEF DirectOpen, OpenDevice, Busy, TypeOK, OneListener, BacklogInv,
     QuietInv, NoFallbackYet, DaemonHolds, OpensInv, ServedInv, Opened, Listening, FminitStarting, daemon, app, client, device
<1>14. ASSUME NEW c \in Clients, Close(c) PROVE QuietInv'
  <2>1. cpc[c] = "on" /\ holders' = holders \ {c} /\ UNCHANGED <<daemon, app, peer, opens>>
    BY <1>14 DEF Close
  <2>2. \A x \in Clients : cpc'[x] = IF x = c THEN "idle" ELSE cpc[x]
    BY <1>14 DEF Close, TypeOK
  <2>3. \A d \in Daemons : d # c
    BY HandoffAssumption
  <2>4. NoFallbackYet'
    BY <2>1, <2>2 DEF QuietInv, NoFallbackYet, Opened, daemon
  <2>5. DaemonHolds' /\ OpensInv'
    BY <2>1, <2>3 DEF QuietInv, DaemonHolds, OpensInv, Opened, daemon
  <2>6. ServedInv'
    BY <2>1, <2>2 DEF QuietInv, ServedInv, Opened, Listening, FminitStarting, daemon, app
  <2>. QED
    BY <2>4, <2>5, <2>6 DEF QuietInv
<1>15. ASSUME NEW d \in Daemons, Kill(d) PROVE FALSE
  BY <1>15, KillCounted DEF Quiet
<1>16. CASE UNCHANGED vars
  BY <1>16 DEF vars, daemon, app, client, device, QuietInv, NoFallbackYet, DaemonHolds, OpensInv, ServedInv, Opened, Listening, FminitStarting
<1>. QED
  BY <1>1, <1>2, <1>3, <1>4, <1>5, <1>6, <1>7, <1>8, <1>9,
     <1>10, <1>11, <1>12, <1>13, <1>14, <1>15, <1>16 DEF Next, DaemonStep, AcquireStep

-----------------------------------------------------------------------------

LEMMA HandoffInit ==
  ASSUME Init
  PROVE  HInv
<1>1. TypeOK
  <2>1. 0 \in 0..(MaxAttempts - 1) /\ 0 \in 0..MaxKills
    BY HandoffAssumption
  <2>2. /\ dpc \in [Daemons -> DaemonPoint]
        /\ cpc \in [Clients -> ClientPoint]
        /\ peer \in [Clients -> Daemons \cup {Nobody}]
    BY DEF Init, DaemonPoint, ClientPoint
  <2>3. tries \in [Clients -> 0..(MaxAttempts - 1)]
    BY <2>1 DEF Init
  <2>4. /\ service \in BOOLEAN /\ execPending \in BOOLEAN
        /\ firmware \in BOOLEAN /\ late \in BOOLEAN
    BY Zenon DEF Init
  <2>5. initProp \in {"", "0", "1"} /\ holders \in SUBSET (Daemons \cup Clients)
    BY DEF Init
  <2>6. opens = 0 /\ kills = 0
    BY DEF Init
  <2>7. opens \in 0..2 /\ kills \in 0..MaxKills
    BY <2>1, <2>6
  <2>. QED
    BY <2>2, <2>3, <2>4, <2>5, <2>7 DEF TypeOK
<1>2. OneListener /\ BacklogInv
  <2>1. \A d \in Daemons : ~Listening(d)
    BY DEF Init, Listening
  <2>2. \A c \in Clients : peer[c] = Nobody
    BY DEF Init
  <2>. QED
    BY <2>1, <2>2 DEF OneListener, BacklogInv
<1>3. QuietInv
  <2>1. \A d \in Daemons : ~Opened(d)
    BY DEF Init, Opened
  <2>2. NoFallbackYet /\ DaemonHolds
    BY <2>1 DEF Init, NoFallbackYet, DaemonHolds
  <2>3. OpensInv
    <3>1. opens = 0
      BY DEF Init
    <3>. QED
      BY <3>1 DEF OpensInv
  <2>4. ServedInv
    BY DEF Init, ServedInv
  <2>. QED
    BY <2>2, <2>3, <2>4 DEF QuietInv
<1>. QED
  BY <1>1, <1>2, <1>3 DEF HInv

\* The invariant of the handoff.
LEMMA HandoffInductive == Spec => []HInv
<1>1. Init => HInv
  BY HandoffInit
<1>2. HInv /\ [Next]_vars => HInv'
  <2>. SUFFICES ASSUME HInv, [Next]_vars PROVE HInv'
    OBVIOUS
  <2>1. TypeOK' /\ OneListener' /\ BacklogInv'
    BY HandoffTypeNext, OneListenerNext, BacklogNext DEF HInv
  <2>2. Quiet' => QuietInv'
    BY QuietNext
  <2>. QED
    BY <2>1, <2>2 DEF HInv
<1>. QED
  BY <1>1, <1>2, PTL DEF Spec

\* The attempts of an acquire stay below the limit, the descriptors belong to
\* live processes or threads, and everything else has its type: the bounds of
\* the retry loop of fmAcquireFdNative() for every limit.
THEOREM HandoffTypeCorrect == Spec => []TypeOK
<1>1. HInv => TypeOK
  BY DEF HInv
<1>. QED
  BY <1>1, HandoffInductive, PTL

\* At most one fminit listens: a second instance, whenever it is exec'd, ends
\* without touching the device.
THEOREM SingleInstance == Spec => []OneListener
<1>1. HInv => OneListener
  BY DEF HInv
<1>. QED
  BY <1>1, HandoffInductive, PTL

\* The driver's open() runs once, for any number of fminit processes, of
\* acquiring threads and of attempts, as long as no fminit is killed and no
\* thread runs out of attempts while one is on its way.
THEOREM DeviceOpenedOnce == Spec => []OpenedOnce
<1>1. HInv => OpenedOnce
  BY DEF HInv, Quiet, QuietInv, OpensInv, OpenedOnce
<1>. QED
  BY <1>1, HandoffInductive, PTL
-----------------------------------------------------------------------------
(* The refinement of RadioDevice.                                          *)

\* A daemon has the device from its open() to its end, killed or not, late
\* clients or not.
OpenedHold == \A d \in Daemons : Opened(d) => d \in holders

\* Every step keeps it.
LEMMA OpenedHoldNext ==
  ASSUME TypeOK, OpenedHold, [Next]_vars
  PROVE  OpenedHold'
<1>1. CASE OnCreate
  BY <1>1 DEF OnCreate, OpenedHold, Opened, daemon, device
<1>2. CASE Exec
  BY <1>2 DEF Exec, TypeOK, OpenedHold, Opened, device
<1>3. CASE AppDies
  BY <1>3 DEF AppDies, OpenedHold, Opened, daemon
<1>4. ASSUME NEW d \in Daemons, Exit(d) PROVE OpenedHold'
  BY <1>4 DEF Exit, TypeOK, OpenedHold, Opened
<1>5. ASSUME NEW d \in Daemons, Bind(d) PROVE OpenedHold'
  BY <1>4, <1>5 DEF Bind, TypeOK, OpenedHold, Opened, device
<1>6. ASSUME NEW d \in Daemons, Open(d) PROVE OpenedHold'
  <2>1. CASE OpenDevice(d) /\ dpc' = [dpc EXCEPT ![d] = "opened"]
    BY <2>1 DEF OpenDevice, TypeOK, OpenedHold, Opened
  <2>. QED
    BY <1>4, <1>6, <2>1 DEF Open
<1>7. ASSUME NEW d \in Daemons, BeginLoad(d) \/ EndLoad(d) PROVE OpenedHold'
  BY <1>7 DEF BeginLoad, EndLoad, TypeOK, OpenedHold, Opened, device
<1>8. ASSUME NEW d \in Daemons, Kill(d) PROVE OpenedHold'
  BY <1>4, <1>8 DEF Kill
<1>9. ASSUME NEW d \in Daemons, NEW c \in Clients, Serve(d, c) PROVE OpenedHold'
  BY <1>9 DEF Serve, OpenedHold, Opened, daemon
<1>10. ASSUME NEW c \in Clients,
              Acquire(c) \/ Connect(c) \/ FailedAttempt(c) \/ HangUp(c)
       PROVE  OpenedHold'
  BY <1>10 DEF Acquire, Connect, FailedAttempt, HangUp, OpenedHold, Opened, daemon, device
<1>11. ASSUME NEW c \in Clients, DirectOpen(c) PROVE OpenedHold'
  BY <1>11 DEF DirectOpen, OpenDevice, OpenedHold, Opened, daemon, device
<1>12. ASSUME NEW c \in Clients, Close(c) PROVE OpenedHold'
  BY <1>12, HandoffAssumption DEF Close, OpenedHold, Opened, daemon
<1>13. CASE UNCHANGED vars
  BY <1>13 DEF vars, OpenedHold, Opened, daemon, device
<1>. QED
  BY <1>1, <1>2, <1>3, <1>5, <1>6, <1>7, <1>8, <1>9, <1>10, <1>11, <1>12, <1>13
  DEF Next, DaemonStep, AcquireStep

\* A process that ends lets go of the file.
LEMMA ExitLetsGo ==
  ASSUME NEW d \in Daemons, Exit(d)
  PROVE  Radio!Next
<1>1. {d} \in SUBSET (Daemons \cup Clients)
  OBVIOUS
<1>2. Radio!LetGo({d})
  BY DEF Exit, Radio!LetGo
<1>. QED
  BY <1>1, <1>2 DEF Radio!Next

\* A successful open() opens the free device.
LEMMA OpenOpens ==
  ASSUME NEW p \in Daemons \cup Clients, OpenDevice(p)
  PROVE  Radio!Next
BY DEF OpenDevice, Radio!Next, Radio!OpenFile

\* Every step is one of RadioDevice, or leaves the device alone.
LEMMA RadioNext ==
  ASSUME TypeOK, OpenedHold, [Next]_vars
  PROVE  [Radio!Next]_(Radio!vars)
<1>1. CASE UNCHANGED <<holders, firmware>>
  BY <1>1 DEF Radio!vars
<1>2. CASE AppDies
  <2>1. Radio!LetGo(Clients)
    BY <1>2, HandoffAssumption DEF AppDies, TypeOK, Radio!LetGo
  <2>2. Clients \in SUBSET (Daemons \cup Clients)
    OBVIOUS
  <2>. QED
    BY <2>1, <2>2 DEF Radio!Next
<1>3. CASE OnCreate \/ Exec
  BY <1>1, <1>3 DEF OnCreate, Exec, device
<1>4. ASSUME NEW d \in Daemons, Bind(d) \/ Open(d) \/ Kill(d)
      PROVE  [Radio!Next]_(Radio!vars)
  BY <1>1, <1>4, ExitLetsGo, OpenOpens DEF Bind, Open, Kill, device
<1>5. ASSUME NEW d \in Daemons, BeginLoad(d) PROVE [Radio!Next]_(Radio!vars)
  BY <1>1, <1>5 DEF BeginLoad, device
<1>6. ASSUME NEW d \in Daemons, EndLoad(d) PROVE [Radio!Next]_(Radio!vars)
  <2>1. holders # {}
    BY <1>6 DEF EndLoad, OpenedHold, Opened
  <2>. QED
    BY <1>1, <1>6, <2>1 DEF EndLoad, Radio!Next, Radio!Load
<1>7. ASSUME NEW d \in Daemons, NEW c \in Clients, Serve(d, c)
      PROVE  [Radio!Next]_(Radio!vars)
  <2>1. CASE d \in holders /\ holders' = holders \cup {c}
    <3>1. Radio!PassOn(c)
      BY <1>7, <2>1 DEF Serve, Radio!PassOn
    <3>. QED
      BY <3>1 DEF Radio!Next
  <2>. QED
    BY <1>1, <1>7, <2>1 DEF Serve
<1>8. ASSUME NEW c \in Clients,
             Acquire(c) \/ Connect(c) \/ FailedAttempt(c) \/ HangUp(c)
      PROVE  [Radio!Next]_(Radio!vars)
  BY <1>1, <1>8 DEF Acquire, Connect, FailedAttempt, HangUp, device
<1>9. ASSUME NEW c \in Clients, DirectOpen(c) PROVE [Radio!Next]_(Radio!vars)
  BY <1>1, <1>9, OpenOpens DEF DirectOpen, device
<1>10. ASSUME NEW c \in Clients, Close(c) PROVE [Radio!Next]_(Radio!vars)
  <2>1. Radio!LetGo({c})
    BY <1>10 DEF Close, Radio!LetGo
  <2>. QED
    BY <2>1 DEF Radio!Next
<1>11. CASE UNCHANGED vars
  BY <1>1, <1>11 DEF vars, device
<1>. QED
  BY <1>2, <1>3, <1>4, <1>5, <1>6, <1>7, <1>8, <1>9, <1>10, <1>11
  DEF Next, DaemonStep, AcquireStep

\* The invariant of the refinement.
LEMMA RadioInductive == Spec => [](TypeOK /\ OpenedHold)
<1>1. Init => OpenedHold
  BY DEF Init, OpenedHold, Opened
<1>2. TypeOK /\ OpenedHold /\ [Next]_vars => OpenedHold'
  BY OpenedHoldNext
<1>. QED
  BY <1>1, <1>2, HandoffTypeCorrect, PTL DEF Spec

\* Kills, late clients, second instances and failed loads included, what the
\* daemon and its clients do to the device is what RadioDevice allows: one file,
\* passed on, and loaded only while it is open.
THEOREM ImplementsRadioDevice == Spec => SharesOneFile
<1>1. Init => Radio!Init
  BY DEF Init, Radio!Init
<1>2. TypeOK /\ OpenedHold /\ [Next]_vars => [Radio!Next]_(Radio!vars)
  BY RadioNext
<1>. QED
  BY <1>1, <1>2, RadioInductive, PTL DEF Spec, SharesOneFile, Radio!Spec

\* No fallback, second instance or late client wipes the firmware under a daemon
\* that serves or under anybody who keeps a descriptor: only an open() wipes it,
\* and the device is free then.
THEOREM LoadedFirmwareKept == Spec => FirmwareKept
<1>. DEFINE Kept == /\ firmware
                    /\ \/ holders \cap holders' # {}
                       \/ \E d \in Daemons : dpc[d] = "serving" /\ dpc'[d] = "serving"
<1>1. ASSUME TypeOK, OpenedHold, [Next]_vars, Kept
      PROVE  firmware'
  <2>1. holders # {}
    BY <1>1 DEF OpenedHold, Opened
  <2>2. [Radio!Next]_(Radio!vars)
    BY <1>1, RadioNext
  <2>. QED
    BY <1>1, <2>1, <2>2
    DEF Radio!Next, Radio!OpenFile, Radio!PassOn, Radio!LetGo, Radio!Load, Radio!vars
<1>2. TypeOK /\ OpenedHold /\ [Next]_vars => [Kept => firmware']_vars
  BY <1>1
<1>. QED
  BY <1>2, RadioInductive, PTL DEF Spec, FirmwareKept
=============================================================================
