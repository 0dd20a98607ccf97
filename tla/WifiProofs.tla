----------------------------- MODULE WifiProofs -----------------------------
(***************************************************************************)
(* The handshake over wlan.driver.status, for every choice of what may run *)
(* out and what may fail: an "ok" beside a loaded driver means that its    *)
(* interface is up; and a load that begins after the scripts of the last   *)
(* call have ended takes its own answer.                                   *)
(***************************************************************************)
EXTENDS WifiDriver, FiniteSetTheorems, TLAPS

\* What init may have been told to start: nothing twice.
QueuedOnce == \A i, j \in 1..Len(pending) : pending[i] = pending[j] => i = j

\* Nothing of a service is under way or asked for.
Absent(s) == spc[s] = "off" /\ \A i \in 1..Len(pending) : pending[i] # s

\* Each script writes its own values.
GoalInv ==
  /\ goal["load"] \in {"", "x", "insmod", "ok", "failed"}
  /\ goal["unload"] \in {"", "rmmod", "unloaded"}

\* During a load only the load script writes, and it writes "ok" when the
\* interface is up.
LoadInv ==
  fpc = "loading" =>
    /\ Absent("unload")
    /\ status = "ok" => up
    /\ (spc["load"] \in {"set", "check"} /\ goal["load"] = "ok") => up

\* Between the two writes that enclose its insmod the load script keeps "ok" out
\* of the property, and until the chip is up nothing is about to write it.
Inserting ==
  \/ spc["load"] \in {"probe", "insmod", "wait_module", "wait_up"}
  \/ spc["load"] \in {"set", "check"} /\ goal["load"] = "insmod"

AnsweringOk == spc["load"] \in {"set", "check"} /\ goal["load"] = "ok"

OkInv ==
  /\ up => module
  /\ Inserting => status # "ok"
  /\ (module /\ ~up) => status # "ok" /\ ~AnsweringOk

WInv == TypeOK /\ QueuedOnce /\ GoalInv

-----------------------------------------------------------------------------
(* The queue of init.                                                      *)

\* SetToSeq of the sets that are queued.
LEMMA FewToSeq ==
  /\ SetToSeq({}) = <<>>
  /\ \A s : SetToSeq({s}) = <<s>>
<1>1. SetToSeq({}) = <<>>
  <2>. DEFINE F == {f \in [1..Cardinality({}) -> {}] : IsInjective(f)}
  <2>1. Cardinality({}) = 0
    BY FS_EmptySet
  <2>2. \A f \in F : f = <<>>
    BY <2>1
  <2>3. <<>> \in F
    BY <2>1 DEF IsInjective
  <2>. QED
    BY <2>2, <2>3 DEF SetToSeq
<1>2. ASSUME NEW s PROVE SetToSeq({s}) = <<s>>
  <2>1. Cardinality({s}) = 1
    BY FS_Singleton
  <2>2. \A f \in [1..1 -> {s}] : f = <<s>>
    OBVIOUS
  <2>3. <<s>> \in [1..1 -> {s}] /\ IsInjective(<<s>>)
    BY DEF IsInjective
  <2>. QED
    BY <2>1, <2>2, <2>3 DEF SetToSeq
<1>. QED
  BY <1>1, <1>2

\* A value of the property queues the service it starts, unless it is queued.
LEMMA SetStatusQueues ==
  ASSUME pending \in Seq(Service), QueuedOnce, NEW value, SetStatus(value)
  PROVE  /\ pending' \in Seq(Service)
         /\ QueuedOnce'
         /\ \/ pending' = pending
            \/ \E s \in Triggered(value) : pending' = Append(pending, s)
<1>. DEFINE New == Triggered(value) \ ToSet(pending)
<1>1. New = {} \/ \E s \in Triggered(value) : New = {s}
  BY DEF Triggered
<1>2. CASE New = {}
  <2>1. pending' = pending \o <<>>
    BY <1>2, FewToSeq DEF SetStatus
  <2>2. pending' = pending
    BY <2>1
  <2>. QED
    BY <2>2 DEF QueuedOnce
<1>3. ASSUME NEW s \in Triggered(value), New = {s}
      PROVE  /\ pending' = Append(pending, s)
             /\ pending' \in Seq(Service) /\ QueuedOnce'
  <2>1. pending' = pending \o <<s>>
    BY <1>3, FewToSeq DEF SetStatus
  <2>2. s \in Service /\ s \notin ToSet(pending)
    BY <1>3 DEF Triggered
  <2>3. \A i \in 1..Len(pending) : pending[i] # s
    BY <2>2 DEF ToSet
  <2>4. pending' = Append(pending, s)
    BY <2>1, <2>2
  <2>5. pending' \in Seq(Service)
    BY <2>2, <2>4
  <2>6. QueuedOnce'
    BY <2>2, <2>3, <2>4 DEF QueuedOnce
  <2>. QED
    BY <2>4, <2>5, <2>6
<1>. QED
  BY <1>1, <1>2, <1>3

\* Setting another value than its trigger leaves an absent service absent.
LEMMA SetStatusAbsent ==
  ASSUME pending \in Seq(Service), QueuedOnce,
         NEW value, SetStatus(value),
         NEW s \in Service, s \notin Triggered(value), Absent(s), spc'[s] = spc[s]
  PROVE  Absent(s)'
<1>1. pending' = pending \/ \E r \in Triggered(value) : pending' = Append(pending, r)
  BY SetStatusQueues
<1>2. CASE pending' = pending
  BY <1>2 DEF Absent
<1>3. ASSUME NEW r \in Triggered(value), pending' = Append(pending, r)
      PROVE  Absent(s)'
  <2>1. r \in Service /\ r # s
    BY <1>3 DEF Triggered
  <2>2. \A i \in 1..Len(pending') : pending'[i] # s
    BY <1>3, <2>1 DEF Absent
  <2>. QED
    BY <2>2 DEF Absent
<1>. QED
  BY <1>1, <1>2, <1>3

-----------------------------------------------------------------------------
(* Types.                                                                  *)

\* The request, its trigger and its answer.
LEMMA SetStatusType ==
  ASSUME WInv, NEW value \in Status, SetStatus(value)
  PROVE  /\ status' \in Status
         /\ pending' \in Seq(Service) /\ Len(pending') <= 2 /\ QueuedOnce'
<1>1. pending \in Seq(Service) /\ QueuedOnce
  BY DEF WInv, TypeOK
<1>2. pending' \in Seq(Service) /\ QueuedOnce'
  BY <1>1, SetStatusQueues
<1>3. Len(pending') <= 2
  <2>. DEFINE q == pending'
  <2>. SUFFICES ASSUME Len(q) >= 3 PROVE FALSE
    BY <1>2
  <2>1. q[1] \in Service /\ q[2] \in Service /\ q[3] \in Service
    BY <1>2
  <2>2. q[1] # q[2] /\ q[1] # q[3] /\ q[2] # q[3]
    BY <1>2 DEF QueuedOnce
  <2>. QED
    BY <2>1, <2>2 DEF Service
<1>. QED
  BY <1>2, <1>3 DEF SetStatus

\* A step of a script between its writes.
LEMMA ScriptType ==
  ASSUME WInv, NEW s \in Service,
         \/ LoadStart \/ Probe \/ Insmod \/ WaitModule \/ WaitUp
         \/ Rmmod \/ WaitGone \/ WaitDown \/ CheckProp(s)
  PROVE  WInv'
<1>1. UNCHANGED <<status, pending, fpc, answer>>
  BY DEF LoadStart, Probe, Insmod, WaitModule, WaitUp, Rmmod, WaitGone, WaitDown,
         CheckProp, framework
<1>2. module' \in BOOLEAN /\ up' \in BOOLEAN
  BY DEF LoadStart, Probe, Insmod, WaitModule, WaitUp, Rmmod, WaitGone, WaitDown,
         CheckProp, WInv, TypeOK
<1>3. spc' \in [Service -> ScriptPoint]
  <2>1. ASSUME NEW r \in Service, NEW point \in ScriptPoint, Step(r, point)
        PROVE  spc' \in [Service -> ScriptPoint]
    BY <2>1 DEF Step, WInv, TypeOK
  <2>2. \A value : AfterSetProp(value) \in ScriptPoint
    BY DEF AfterSetProp, ScriptPoint
  <2>. QED
    BY <2>1, <2>2 DEF LoadStart, Probe, Insmod, WaitModule, WaitUp, Rmmod, WaitGone,
       WaitDown, CheckProp, SetProp, Verify, Service, ScriptPoint
<1>4. goal' \in [Service -> Status] /\ GoalInv'
  <2>1. goal \in [Service -> Status] /\ GoalInv
    BY DEF WInv, TypeOK
  <2>2. \/ goal' = goal
        \/ \E value \in {"x", "insmod", "ok", "failed"} :
             goal' = [goal EXCEPT !["load"] = value]
        \/ \E value \in {"rmmod", "unloaded"} :
             goal' = [goal EXCEPT !["unload"] = value]
    BY DEF LoadStart, Probe, Insmod, WaitModule, WaitUp, Rmmod, WaitGone, WaitDown,
           CheckProp, SetProp, Verify
  <2>. QED
    BY <2>1, <2>2 DEF GoalInv, Service, Status
<1>5. QueuedOnce'
  BY <1>1 DEF QueuedOnce, WInv
<1>. QED
  BY <1>1, <1>2, <1>3, <1>4, <1>5 DEF WInv, TypeOK

\* Every step keeps the types, and no start is queued twice.
LEMMA WifiTypeNext ==
  ASSUME WInv, [Next]_vars
  PROVE  WInv'
<1>1. CASE StartService
  <2>1. pending' \in Seq(Service) /\ Len(pending') <= 2
    BY <1>1 DEF StartService, WInv, TypeOK
  <2>2. QueuedOnce'
    BY <1>1 DEF StartService, WInv, TypeOK, QueuedOnce
  <2>3. spc' \in [Service -> ScriptPoint]
    BY <1>1 DEF StartService, WInv, TypeOK, ScriptPoint
  <2>. QED
    BY <1>1, <2>1, <2>2, <2>3 DEF StartService, WInv, TypeOK, GoalInv, framework
<1>2. CASE ChipUp
  BY <1>2 DEF ChipUp, WInv, TypeOK, GoalInv, QueuedOnce, framework, scripts
<1>3. ASSUME NEW value \in Status, SetStatus(value),
             module' = module /\ up' = up /\ goal' = goal,
             spc' \in [Service -> ScriptPoint],
             fpc' \in FrameworkPoint /\ answer' \in {0, -1}
      PROVE  WInv'
  BY <1>3, SetStatusType DEF WInv, TypeOK, GoalInv
<1>4. ASSUME UNCHANGED <<status, pending, module, up, scripts>>,
             fpc' \in FrameworkPoint /\ answer' \in {0, -1}
      PROVE  WInv'
  BY <1>4 DEF WInv, TypeOK, GoalInv, QueuedOnce, scripts
<1>5. CASE LoadDriver
  <2>1. CASE DriverLoaded
    BY <1>4, <1>5, <2>1 DEF LoadDriver, Returns, FrameworkPoint
  <2>2. CASE ~DriverLoaded
    BY <1>3, <1>5, <2>2 DEF LoadDriver, FrameworkPoint, Status, scripts, WInv, TypeOK
  <2>. QED
    BY <2>1, <2>2
<1>6. CASE UnloadDriver \/ LoadFailed \/ LoadTimeout \/ Undo
  BY <1>3, <1>6 DEF UnloadDriver, LoadFailed, LoadTimeout, Undo, FrameworkPoint, Status,
     scripts, WInv, TypeOK
<1>7. CASE LoadAnswered \/ UnloadAnswered \/ UnloadTimeout
  BY <1>4, <1>7 DEF LoadAnswered, UnloadAnswered, UnloadTimeout, Returns, FrameworkPoint
<1>8. ASSUME NEW s \in Service, DoSetProp(s) PROVE WInv'
  <2>1. goal[s] \in Status
    BY DEF WInv, TypeOK
  <2>2. spc' \in [Service -> ScriptPoint]
    BY <1>8 DEF DoSetProp, Step, WInv, TypeOK, ScriptPoint
  <2>. QED
    BY <1>3, <1>8, <2>1, <2>2 DEF DoSetProp, framework, WInv, TypeOK
<1>9. CASE UNCHANGED vars
  BY <1>4, <1>9 DEF vars, framework, WInv, TypeOK
<1>. QED
  BY <1>1, <1>2, <1>5, <1>6, <1>7, <1>8, <1>9, ScriptType DEF Next, Poll, Script

\* The invariant of the handshake, whenever calls begin.
LEMMA WifiInductive == Spec => []WInv
<1>1. Init => WInv
  <2>. SUFFICES ASSUME Init PROVE WInv
    OBVIOUS
  <2>1. pending = <<>>
    BY DEF Init
  <2>2. TypeOK
    <3>1. <<>> \in Seq(Service) /\ Len(<<>>) <= 2
      OBVIOUS
    <3>2. /\ status \in Status /\ fpc \in FrameworkPoint /\ answer \in {0, -1}
          /\ module \in BOOLEAN /\ up \in BOOLEAN
      BY DEF Init, Status, FrameworkPoint
    <3>3. spc \in [Service -> ScriptPoint] /\ goal \in [Service -> Status]
      BY DEF Init, Status, ScriptPoint
    <3>. QED
      BY <2>1, <3>1, <3>2, <3>3 DEF TypeOK
  <2>3. QueuedOnce
    BY <2>1 DEF QueuedOnce
  <2>. QED
    BY <2>2, <2>3 DEF Init, WInv, GoalInv, Service
<1>. QED
  BY <1>1, WifiTypeNext, PTL DEF Spec

\* The property, the queue of init and the points of both scripts keep their
\* types: no start is queued twice, so two places are enough for every sequence
\* of requests, retries and late answers.
THEOREM WifiTypeCorrect == Spec => []TypeOK
<1>1. WInv => TypeOK
  BY DEF WInv
<1>. QED
  BY <1>1, WifiInductive, PTL
-----------------------------------------------------------------------------
(* One call after the other.                                               *)

\* When nothing is busy both services are absent.
LEMMA NotBusy ==
  ASSUME TypeOK, ~Busy, NEW s \in Service
  PROVE  Absent(s)
<1>1. Len(pending) = 0
  BY DEF Busy, TypeOK
<1>. QED
  BY <1>1 DEF Busy, Absent

\* init starts no service that is absent.
LEMMA StartAbsent ==
  ASSUME TypeOK, StartService, NEW s \in Service, Absent(s)
  PROVE  Absent(s)' /\ spc'[s] = spc[s]
<1>1. /\ Head(pending) \in Service /\ Head(pending) # s
      /\ \A i \in 1..Len(pending') : pending'[i] # s
  BY DEF StartService, TypeOK, Absent
<1>. QED
  BY <1>1 DEF StartService, TypeOK, Absent

\* While a load polls, nothing takes the interface down, and "ok" is written by
\* the script that verified it.
LEMMA LoadNext ==
  ASSUME ~Overlap, WInv, LoadInv, [Next]_vars
  PROVE  LoadInv'
<1>. TypeOK /\ pending \in Seq(Service) /\ QueuedOnce /\ "load" \in Service /\ "unload" \in Service
  BY DEF WInv, TypeOK, Service
<1>. SUFFICES ASSUME fpc' = "loading" PROVE LoadInv'
  BY DEF LoadInv
<1>1. CASE StartService
  <2>1. fpc = "loading" /\ UNCHANGED <<status, up, goal>>
    BY <1>1 DEF StartService, framework
  <2>2. spc' = [spc EXCEPT ![Head(pending)] = "start"] \/ spc' = spc
    BY <1>1, Zenon DEF StartService
  <2>3. spc'["load"] \in {spc["load"], "start"}
    BY <2>2 DEF TypeOK
  <2>. QED
    BY <1>1, <2>1, <2>3, StartAbsent DEF LoadInv
<1>2. CASE ChipUp
  BY <1>2 DEF ChipUp, LoadInv, Absent, framework, scripts
<1>3. CASE LoadDriver
  <2>1. ~Busy /\ SetStatus("insmod") /\ UNCHANGED <<up, spc, goal>>
    BY <1>3 DEF LoadDriver, Called, Returns, scripts
  <2>2. Absent("load") /\ Absent("unload")
    BY <2>1, NotBusy
  <2>3. Absent("unload")'
    BY <2>1, <2>2, SetStatusAbsent DEF Triggered
  <2>. QED
    BY <2>1, <2>2, <2>3 DEF LoadInv, Absent, SetStatus
<1>4. CASE UnloadDriver \/ Poll
  BY <1>4 DEF UnloadDriver, Poll, LoadAnswered, LoadFailed, LoadTimeout, Undo,
              UnloadAnswered, UnloadTimeout, Returns
<1>5. ASSUME NEW s \in Service, DoSetProp(s) PROVE LoadInv'
  <2>1. fpc = "loading" /\ UNCHANGED <<up, goal>> /\ SetStatus(goal[s])
    BY <1>5 DEF DoSetProp, framework
  <2>2. s = "load" /\ Absent("unload")
    BY <1>5, <2>1 DEF DoSetProp, LoadInv, Absent, Service
  <2>3. spc'["unload"] = spc["unload"]
    BY <1>5, <2>2 DEF DoSetProp, Step, TypeOK
  <2>4. "unload" \notin Triggered(goal["load"])
    BY DEF WInv, GoalInv, Triggered
  <2>5. Absent("unload")'
    BY <2>1, <2>2, <2>3, <2>4, SetStatusAbsent
  <2>6. spc["load"] = "set" /\ status' = goal["load"]
    BY <1>5, <2>1, <2>2 DEF DoSetProp, SetStatus
  <2>. QED
    BY <2>1, <2>5, <2>6 DEF LoadInv
<1>6. ASSUME NEW s \in Service, CheckProp(s) PROVE LoadInv'
  <2>1. fpc = "loading" /\ UNCHANGED <<status, pending, up, goal>>
    BY <1>6 DEF CheckProp, framework
  <2>2. s = "load" /\ Absent("unload")
    BY <1>6, <2>1 DEF CheckProp, LoadInv, Absent, Service
  <2>3. spc["load"] = "check" /\ spc'["unload"] = spc["unload"]
    BY <1>6, <2>2 DEF CheckProp, Step, TypeOK
  <2>. QED
    BY <2>1, <2>2, <2>3 DEF LoadInv, Absent
<1>7. CASE LoadStart \/ Probe \/ Insmod \/ WaitModule \/ WaitUp
  <2>1. fpc = "loading" /\ UNCHANGED <<status, pending, up>>
    BY <1>7 DEF LoadStart, Probe, Insmod, WaitModule, WaitUp, framework
  <2>2. spc["load"] \notin {"set", "check"} /\ spc'["unload"] = spc["unload"]
    BY <1>7 DEF LoadStart, Probe, Insmod, WaitModule, WaitUp, Verify, SetProp, Step, TypeOK
  <2>3. \/ spc'["load"] \notin {"set", "check"}
        \/ goal'["load"] \in {"x", "insmod", "failed"}
        \/ goal'["load"] = "ok" /\ up
    BY <1>7 DEF LoadStart, Probe, Insmod, WaitModule, WaitUp, Verify, SetProp, Step, TypeOK
  <2>. QED
    BY <2>1, <2>2, <2>3 DEF LoadInv, Absent
<1>8. CASE Rmmod \/ WaitGone \/ WaitDown
  BY <1>8 DEF Rmmod, WaitGone, WaitDown, LoadInv, Absent, framework
<1>9. CASE UNCHANGED vars
  BY <1>9 DEF vars, LoadInv, Absent, framework, scripts
<1>. QED
  BY <1>1, <1>2, <1>3, <1>4, <1>5, <1>6, <1>7, <1>8, <1>9 DEF Next, Script

\* wifi_load_driver() returns 0 after a request only with the interface up -
\* whatever waits run out and whatever fails, as long as no call begins while a
\* script of an earlier one still runs (the run WifiLateAnswer shows why).
THEOREM LoadUp == ~Overlap => (Spec => LoadReturnsUp)
<1>. SUFFICES ASSUME ~Overlap PROVE Spec => LoadReturnsUp
  OBVIOUS
<1>1. Init => LoadInv
  BY DEF Init, LoadInv
<1>2. WInv /\ LoadInv /\ [Next]_vars => LoadInv'
  BY LoadNext
<1>3. LoadInv /\ [Next]_vars =>
        [(fpc = "loading" /\ fpc' = "idle" /\ answer' = 0) => up]_vars
  <2>. SUFFICES ASSUME LoadInv, Next, fpc = "loading", fpc' = "idle", answer' = 0
                PROVE  up
    BY Zenon
  <2>1. LoadAnswered
    BY DEF Next, StartService, ChipUp, LoadDriver, Called, UnloadDriver, Poll, LoadFailed,
       LoadTimeout, Undo, UnloadAnswered, UnloadTimeout, Script, DoSetProp, CheckProp,
       LoadStart, Probe, Insmod, WaitModule, WaitUp, Rmmod, WaitGone, WaitDown, framework
  <2>. QED
    BY <2>1 DEF LoadAnswered, LoadInv
<1>. QED
  BY <1>1, <1>2, <1>3, WifiInductive, PTL DEF Spec, LoadReturnsUp

-----------------------------------------------------------------------------
(* Calls that overlap.                                                     *)

\* Only the load script writes "ok".
LEMMA OtherValues ==
  ASSUME OkInv, NEW value, value # "ok", SetStatus(value), UNCHANGED <<module, up, scripts>>
  PROVE  OkInv'
BY DEF OkInv, Inserting, AnsweringOk, SetStatus, scripts

\* Every step keeps what an "ok" means, also when several calls' scripts run.
LEMMA OkNext ==
  ASSUME WInv, OkInv, [Next]_vars
  PROVE  OkInv'
<1>. TypeOK /\ GoalInv /\ "load" \in Service /\ "unload" \in Service
  BY DEF WInv, Service
<1>1. CASE StartService
  <2>1. UNCHANGED <<status, module, up, goal>>
    BY <1>1 DEF StartService, framework
  <2>2. spc'["load"] \in {spc["load"], "start"}
    <3>1. spc' = [spc EXCEPT ![Head(pending)] = "start"] \/ spc' = spc
      BY <1>1, Zenon DEF StartService
    <3>. QED
      BY <3>1 DEF TypeOK
  <2>. QED
    BY <2>1, <2>2 DEF OkInv, Inserting, AnsweringOk
<1>2. CASE ChipUp
  BY <1>2 DEF ChipUp, OkInv, Inserting, AnsweringOk, scripts
<1>3. CASE LoadDriver
  <2>1. CASE DriverLoaded
    BY <1>3, <2>1 DEF LoadDriver, OkInv, Inserting, AnsweringOk, scripts
  <2>2. CASE ~DriverLoaded
    BY <1>3, <2>2, OtherValues DEF LoadDriver
  <2>. QED
    BY <2>1, <2>2
<1>4. CASE UnloadDriver \/ LoadFailed \/ LoadTimeout \/ Undo
  BY <1>4, OtherValues DEF UnloadDriver, LoadFailed, LoadTimeout, Undo
<1>5. CASE LoadAnswered \/ UnloadAnswered \/ UnloadTimeout
  BY <1>5 DEF LoadAnswered, UnloadAnswered, UnloadTimeout, OkInv, Inserting, AnsweringOk, scripts
<1>6. ASSUME NEW s \in Service, DoSetProp(s) PROVE OkInv'
  <2>1. /\ spc[s] = "set" /\ status' = goal[s] /\ UNCHANGED <<module, up, goal>>
        /\ spc' = [spc EXCEPT ![s] = "check"]
    BY <1>6 DEF DoSetProp, SetStatus, Step
  <2>2. CASE s = "load"
    <3>1. spc["load"] = "set" /\ spc'["load"] = "check"
      BY <2>1, <2>2 DEF TypeOK
    <3>. QED
      BY <2>1, <2>2, <3>1 DEF OkInv, Inserting, AnsweringOk
  <2>3. CASE s = "unload"
    <3>1. spc'["load"] = spc["load"] /\ status' # "ok"
      BY <2>1, <2>3 DEF TypeOK, GoalInv
    <3>. QED
      BY <2>1, <3>1 DEF OkInv, Inserting, AnsweringOk
  <2>. QED
    BY <2>2, <2>3 DEF Service
<1>7. ASSUME NEW s \in Service, CheckProp(s) PROVE OkInv'
  <2>1. /\ spc[s] = "check" /\ UNCHANGED <<status, module, up, goal>>
        /\ spc' = [spc EXCEPT ![s] = IF status = goal[s] THEN AfterSetProp(goal[s]) ELSE "set"]
    BY <1>7 DEF CheckProp, Step
  <2>2. CASE s = "load"
    <3>1. spc'["load"] = IF status = goal["load"] THEN AfterSetProp(goal["load"]) ELSE "set"
      BY <2>1, <2>2 DEF TypeOK
    <3>2. CASE status # goal["load"]
      <4>1. spc["load"] = "check" /\ spc'["load"] = "set"
        BY <2>1, <2>2, <3>1, <3>2
      <4>. QED
        BY <2>1, <4>1 DEF OkInv, Inserting, AnsweringOk
    <3>3. CASE status = goal["load"]
      <4>1. spc'["load"] \in {"probe", "wait_module", "off"}
        BY <3>1, <3>3 DEF GoalInv, AfterSetProp
      <4>2. spc'["load"] # "off" => status # "ok"
        BY <3>1, <3>3 DEF GoalInv, AfterSetProp
      <4>. QED
        BY <2>1, <4>1, <4>2 DEF OkInv, Inserting, AnsweringOk
    <3>. QED
      BY <3>2, <3>3
  <2>3. CASE s = "unload"
    <3>1. spc'["load"] = spc["load"]
      BY <2>1, <2>3 DEF TypeOK
    <3>. QED
      BY <2>1, <3>1 DEF OkInv, Inserting, AnsweringOk
  <2>. QED
    BY <2>2, <2>3 DEF Service
<1>8. CASE LoadStart \/ Probe \/ WaitModule \/ WaitUp
  <2>1. UNCHANGED <<status, module, up>>
    BY <1>8 DEF LoadStart, Probe, WaitModule, WaitUp
  <2>2. \/ spc["load"] = "start" /\ goal'["load"] = "x" /\ spc'["load"] = "set"
        \/ Inserting /\ Inserting'
        \/ Inserting /\ goal'["load"] = "failed" /\ spc'["load"] = "set"
        \/ Inserting /\ goal'["load"] = "ok" /\ up /\ spc'["load"] = "set"
    BY <1>8 DEF LoadStart, Probe, WaitModule, WaitUp, Verify, SetProp, Step, Inserting, TypeOK
  <2>. QED
    BY <2>1, <2>2 DEF OkInv, Inserting, AnsweringOk
<1>9. CASE Insmod
  <2>1. Inserting /\ Inserting' /\ UNCHANGED <<status, up>>
    BY <1>9 DEF Insmod, SetProp, Step, Inserting, TypeOK
  <2>2. module' = TRUE \/ module' = module
    BY <1>9 DEF Insmod
  <2>3. ~AnsweringOk'
    BY <2>1 DEF Inserting, AnsweringOk
  <2>. QED
    BY <2>1, <2>2, <2>3 DEF OkInv
<1>10. CASE Rmmod \/ WaitGone \/ WaitDown
  <2>1. /\ UNCHANGED status /\ spc'["load"] = spc["load"] /\ goal'["load"] = goal["load"]
    BY <1>10 DEF Rmmod, WaitGone, WaitDown, SetProp, Step, TypeOK
  <2>2. (~module' /\ ~up') \/ UNCHANGED <<module, up>>
    BY <1>10 DEF Rmmod, WaitGone, WaitDown
  <2>. QED
    BY <2>1, <2>2 DEF OkInv, Inserting, AnsweringOk
<1>11. CASE UNCHANGED vars
  BY <1>11 DEF vars, OkInv, Inserting, AnsweringOk, scripts
<1>. QED
  BY <1>1, <1>2, <1>3, <1>4, <1>5, <1>6, <1>7, <1>8, <1>9, <1>10, <1>11
  DEF Next, Poll, Script

\* When check_driver_loaded() lets a load return at once the interface is up,
\* whatever waits run out and whatever fails, and however many scripts of
\* earlier calls are still running.
THEOREM LoadedUp == Spec => []LoadedMeansUp
<1>1. Init => OkInv
  BY DEF Init, OkInv, Inserting, AnsweringOk, Service
<1>2. OkInv => LoadedMeansUp
  BY DEF OkInv, LoadedMeansUp, DriverLoaded
<1>. QED
  BY <1>1, <1>2, OkNext, WifiInductive, PTL DEF Spec
=============================================================================
