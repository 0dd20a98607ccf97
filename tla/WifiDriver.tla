----------------------------- MODULE WifiDriver -----------------------------
(***************************************************************************)
(* Loading and unloading the AR6000 Wi-Fi driver.  wifi_load_driver() and  *)
(* wifi_unload_driver() of patches/hardware_libhardware_legacy.patch write *)
(* "insmod" or "rmmod" into wlan.driver.status; init starts one of the     *)
(* oneshot services wlan_tool_load and wlan_tool_unload on it (prebuilt/   *)
(* init.target.rc); the service, prebuilt/system/bin/wlan_tool, writes its *)
(* answer into the same property, which the caller polls until it gives up.*)
(*                                                                         *)
(* do_setprop in the script sets the property again as long as it reads    *)
(* back another value, at most 20 times.  The last time it does not look   *)
(* again, which differs in nothing from a look that finds its own value.   *)
(* Nothing in the tree sets wlan.driver.apmode to "ok", so checkapmode is  *)
(* taken to fail; CLK_HELPER is 0.                                         *)
(***************************************************************************)
EXTENDS Naturals, Sequences, SequencesExt

CONSTANTS
  Slow,           \* may a wait run out while its cause is still under way?
  Overlap,        \* may a call begin while a script of an earlier one runs?
  MayFail         \* which of "insmod" and "rmmod" may fail

ASSUME WifiAssumption ==
  /\ Slow \in BOOLEAN /\ Overlap \in BOOLEAN
  /\ MayFail \subseteq {"insmod", "rmmod"}

VARIABLES
  status,         \* the property wlan.driver.status
  pending,        \* services init has been triggered to start
  module, up,     \* the driver is loaded; its interface answers wmiconfig
  fpc,            \* where the framework's thread is
  answer,         \* what its last call returned
  spc, goal       \* where each script is; what its do_setprop writes

framework == <<fpc, answer>>
scripts   == <<spc, goal>>
vars == <<status, pending, module, up, framework, scripts>>

Service == {"load", "unload"}
Status == {"", "insmod", "rmmod", "timeout", "ok", "failed", "unloaded", "x"}
ScriptPoint == {"off", "start", "set", "check", "probe", "insmod", "wait_module",
                "wait_up", "wait_gone", "wait_down"}
FrameworkPoint == {"idle", "loading", "giving_up", "undoing", "unloading"}

TypeOK ==
  /\ status \in Status
  /\ pending \in Seq(Service) /\ Len(pending) <= 2
  /\ module \in BOOLEAN /\ up \in BOOLEAN
  /\ fpc \in FrameworkPoint /\ answer \in {0, -1}
  /\ spc \in [Service -> ScriptPoint]
  /\ goal \in [Service -> Status]

Init ==
  /\ status = "" /\ pending = <<>>
  /\ module = FALSE /\ up = FALSE
  /\ fpc = "idle" /\ answer = 0
  /\ spc = [s \in Service |-> "off"]
  /\ goal = [s \in Service |-> ""]

-----------------------------------------------------------------------------
(* The property service.                                                   *)

\* "on property:wlan.driver.status=...": the service a value starts.
Triggered(value) == {s \in Service : \/ s = "load" /\ value = "insmod"
                                     \/ s = "unload" /\ value = "rmmod"}

\* Mutant: a start that is already queued is queued again.
QueueAgain(value) ==
  /\ status' = value
  /\ pending' = pending \o SetToSeq(Triggered(value))

\* Setting the property queues the start, once.
SetStatus(value) ==
  /\ status' = value
  /\ pending' = pending \o SetToSeq(Triggered(value) \ ToSet(pending))

\* init: `start` of a service that runs does nothing.
StartService ==
  /\ pending # <<>>
  /\ pending' = Tail(pending)
  /\ spc' = IF spc[Head(pending)] = "off"
            THEN [spc EXCEPT ![Head(pending)] = "start"]
            ELSE spc
  /\ UNCHANGED <<status, module, up, goal, framework>>

\* The chip comes up some time after its module.
ChipUp ==
  /\ module /\ ~up
  /\ up' = TRUE
  /\ UNCHANGED <<status, pending, module, framework, scripts>>

-----------------------------------------------------------------------------
(* wlan_tool.                                                              *)

Step(s, point) == spc' = [spc EXCEPT ![s] = point]

\* do_setprop.
SetProp(s, value) ==
  /\ goal' = [goal EXCEPT ![s] = value]
  /\ Step(s, "set")

\* Where the script goes on.
AfterSetProp(value) ==
  CASE value = "x"      -> "probe"
    [] value = "insmod" -> "wait_module"
    [] value = "rmmod"  -> "wait_gone"
    [] OTHER            -> "off"

DoSetProp(s) ==
  /\ spc[s] = "set"
  /\ SetStatus(goal[s])
  /\ Step(s, "check")
  /\ UNCHANGED <<module, up, goal, framework>>

CheckProp(s) ==
  /\ spc[s] = "check"
  /\ Step(s, IF status = goal[s] THEN AfterSetProp(goal[s]) ELSE "set")
  /\ UNCHANGED <<status, pending, module, up, goal, framework>>

\* loaddriver begins by erasing the request.
LoadStart ==
  /\ spc["load"] = "start"
  /\ SetProp("load", "x")
  /\ UNCHANGED <<status, pending, module, up, framework>>

\* Mutant: the answer does not depend on wmiconfig.
AnswerOk == SetProp("load", "ok")

\* WLAN_ENABLE_CHECK decides the answer.
Verify == SetProp("load", IF up THEN "ok" ELSE "failed")

\* Mutant: a driver found loaded is not verified.
ProbeAnswersOk ==
  /\ spc["load"] = "probe"
  /\ \/ module /\ SetProp("load", "ok")
     \/ ~module /\ Step("load", "insmod") /\ UNCHANGED goal
  /\ UNCHANGED <<status, pending, module, up, framework>>

\* MODULE_CHECK: a driver found loaded is only enabled, and verified at once.
Probe ==
  /\ spc["load"] = "probe"
  /\ \/ module /\ Verify
     \/ ~module /\ Step("load", "insmod") /\ UNCHANGED goal
  /\ UNCHANGED <<status, pending, module, up, framework>>

\* do_insmod: when insmod fails the script asks for itself and waits.
Insmod ==
  /\ spc["load"] = "insmod"
  /\ \/ /\ module' = TRUE
        /\ Step("load", "wait_up")
        /\ UNCHANGED goal
     \/ /\ "insmod" \in MayFail
        /\ SetProp("load", "insmod")
        /\ UNCHANGED module
  /\ UNCHANGED <<status, pending, up, framework>>

WaitModule ==
  /\ spc["load"] = "wait_module"
  /\ Step("load", "wait_up")
  /\ UNCHANGED <<status, pending, module, up, goal, framework>>

WaitUp ==
  /\ spc["load"] = "wait_up"
  /\ up \/ ~module \/ Slow
  /\ Verify
  /\ UNCHANGED <<status, pending, module, up, framework>>

\* do_rmmod: rmmod of a driver that is not loaded fails as well.  When rmmod
\* fails the script asks for itself, as Insmod does; but init does not start a
\* service that runs.
Rmmod ==
  /\ spc["unload"] = "start"
  /\ \/ /\ module
        /\ module' = FALSE /\ up' = FALSE
        /\ Step("unload", "wait_down")
        /\ UNCHANGED goal
     \/ /\ ~module \/ "rmmod" \in MayFail
        /\ SetProp("unload", "rmmod")
        /\ UNCHANGED <<module, up>>
  /\ UNCHANGED <<status, pending, framework>>

WaitGone ==
  /\ spc["unload"] = "wait_gone"
  /\ Step("unload", "wait_down")
  /\ UNCHANGED <<status, pending, module, up, goal, framework>>

\* "unloaded" is written whether or not the driver has gone.
WaitDown ==
  /\ spc["unload"] = "wait_down"
  /\ SetProp("unload", "unloaded")
  /\ UNCHANGED <<status, pending, module, up, framework>>

Script(s) ==
  \/ DoSetProp(s) \/ CheckProp(s)
  \/ s = "load" /\ (LoadStart \/ Probe \/ Insmod \/ WaitModule \/ WaitUp)
  \/ s = "unload" /\ (Rmmod \/ WaitGone \/ WaitDown)

-----------------------------------------------------------------------------
(* wifi.c.  The framework makes one call at a time.                        *)

\* check_driver_loaded(): the property says so and the module is there.  (It
\* writes "unloaded" if only the property says so; "insmod" follows at once.)
DriverLoaded == status = "ok" /\ module

Busy == pending # <<>> \/ \E s \in Service : spc[s] # "off"

\* The polls of a load last 20 s, those of an unload 10 s.  Each poll sleeps
\* after it looks, so an answer that comes during the last sleep is too late.
GivesUp(answers) == Slow \/ (~Busy /\ status \notin answers)

Returns(result) == fpc' = "idle" /\ answer' = result

Called == fpc = "idle" /\ (Overlap \/ ~Busy)

LoadDriver ==
  /\ Called
  /\ \/ /\ DriverLoaded
        /\ Returns(0)
        /\ UNCHANGED <<status, pending>>
     \/ /\ ~DriverLoaded
        /\ SetStatus("insmod")
        /\ fpc' = "loading"
        /\ UNCHANGED answer
  /\ UNCHANGED <<module, up, scripts>>

LoadAnswered ==
  /\ fpc = "loading" /\ status = "ok"
  /\ Returns(0)
  /\ UNCHANGED <<status, pending, module, up, scripts>>

LoadFailed ==
  /\ fpc = "loading" /\ status = "failed"
  /\ SetStatus("rmmod")
  /\ fpc' = "undoing"
  /\ UNCHANGED <<module, up, answer, scripts>>

LoadTimeout ==
  /\ fpc = "loading" /\ GivesUp({"ok", "failed"})
  /\ SetStatus("timeout")
  /\ fpc' = "giving_up"
  /\ UNCHANGED <<module, up, answer, scripts>>

Undo ==
  /\ fpc = "giving_up"
  /\ SetStatus("rmmod")
  /\ fpc' = "undoing"
  /\ UNCHANGED <<module, up, answer, scripts>>

UnloadDriver ==
  /\ Called
  /\ SetStatus("rmmod")
  /\ fpc' = "unloading"
  /\ UNCHANGED <<module, up, answer, scripts>>

UnloadAnswered ==
  /\ fpc \in {"undoing", "unloading"} /\ status = "unloaded"
  /\ Returns(IF fpc = "undoing" THEN -1 ELSE 0)
  /\ UNCHANGED <<status, pending, module, up, scripts>>

UnloadTimeout ==
  /\ fpc \in {"undoing", "unloading"} /\ GivesUp({"unloaded"})
  /\ Returns(-1)
  /\ UNCHANGED <<status, pending, module, up, scripts>>

Poll == LoadAnswered \/ LoadFailed \/ LoadTimeout \/ Undo \/ UnloadAnswered \/ UnloadTimeout

-----------------------------------------------------------------------------

Next == \/ StartService \/ ChipUp
        \/ LoadDriver \/ UnloadDriver \/ Poll
        \/ \E s \in Service : Script(s)

Spec == Init /\ [][Next]_vars

-----------------------------------------------------------------------------
(* Properties.                                                             *)

\* wifi_load_driver(): "Route the request through wlan_tool so it can wait for
\* wmiconfig and bring up the real interface before the framework proceeds."
\* A load that returns 0 after asking wlan_tool returns with the interface up,
\* though the property it polls is also written by scripts of given-up loads
\* and by an unload.
LoadReturnsUp ==
  [][(fpc = "loading" /\ fpc' = "idle" /\ answer' = 0) => up]_vars

\* check_driver_loaded() lets wifi_load_driver() return 0 at once, without
\* wlan_tool.  What it sees, an "ok" of some earlier load and the module, is
\* enough: between the two the module may have been removed, or not, inserted
\* again and answered for by no one, by scripts of several calls.
LoadedMeansUp == DriverLoaded => up

\* wifi_unload_driver(): "wait at most 10 seconds for completion".  An unload
\* that returns 0 returns with the module gone.  The code does not keep this:
\* "unloaded" is written whether or not rmmod worked.
UnloadReturnsDown ==
  [][(fpc = "unloading" /\ fpc' = "idle" /\ answer' = 0) => ~module]_vars
=============================================================================
