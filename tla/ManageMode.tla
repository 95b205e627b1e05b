----------------------------- MODULE ManageMode -----------------------------
(***************************************************************************)
(* The satellite mode controller of test/opengeode/managemode: an SDL      *)
(* process compiled to Ada, run on the target with the environment of      *)
(* envstub.adb.  A provided interface (PI) starts a transition, which      *)
(* calls the required interfaces (RI) one after the other and ends in      *)
(* NEXT_STATE.  The bus voltage changes on its own between any two calls.  *)
(***************************************************************************)
EXTENDS Integers, Sequences

CONSTANTS
  Voltages,          \* the values of asn1SccVOLTAGE that occur
  InitialThreshold,  \* mode_voltage_threshold := 1.0
  InitialVoltage     \* mode_current_voltage := 0.0, and envstub.voltage := 0.0

ASSUME VoltageAssumption ==
  /\ Voltages \subseteq Int
  /\ InitialThreshold \in Voltages /\ InitialVoltage \in Voltages

VARIABLES
  state,                   \* ctxt.state
  mode_voltage_threshold,  \* ctxt.mode_voltage_threshold
  mode_current_voltage,    \* ctxt.mode_current_voltage, the last reading
  running,                 \* the PI being served, and its parameter
  todo,                    \* what is left of its transition
  voltage,                 \* the bus voltage get_current_voltage returns
  thermalEnabled, payloadEnabled,  \* the switches, as last commanded
  modeHk,                  \* the last housekeeping record stored
  executionReport          \* the last execution report

ctxt == <<state, mode_voltage_threshold, mode_current_voltage>>
devices == <<thermalEnabled, payloadEnabled>>
telemetry == <<modeHk, executionReport>>
vars == <<ctxt, running, todo, voltage, devices, telemetry>>

States == {"idle", "safe", "operational"}
Idling == [pi |-> "none"]
PIs == {Idling, [pi |-> "trigger_gather_mode_hk"]}
         \cup [pi : {"command_mode"}, mode : States]
         \cup [pi : {"command_voltage"}]
HkData == [mode : States, input_voltage : Voltages]
Reports ==
  [kind : {"none"}]
    \cup [kind : {"success"}, requestID : {"switch_mode", "set_threshold_voltage"}]
    \cup [kind : {"failed"}, notice : {"invalid_state"}]
    \cup [kind : {"failed"}, notice : {"invalid_mode"}, mode : States,
          input_voltage : Voltages]

VoltageOk == mode_current_voltage >= mode_voltage_threshold

(* The steps of a transition. *)
Get        == [op |-> "get_current_voltage"]
Store(m)   == [op |-> "mode_hk_store", mode |-> m]
Report(r)  == [op |-> "report", report |-> r]
Thermal(b) == [op |-> "switch_thermal", enabled |-> b]
Payload(b) == [op |-> "switch_payload", enabled |-> b]
Goto(s)    == [op |-> "NEXT_STATE", state |-> s]

Success(id)  == [kind |-> "success", requestID |-> id]
ReportSuccess == [kind |-> "success", requestID |-> "switch_mode"]
InvalidState == [kind |-> "failed", notice |-> "invalid_state"]
InvalidMode  == [kind |-> "failed", notice |-> "invalid_mode", mode |-> "safe",
                 input_voltage |-> mode_current_voltage]

SafeEntryKeepsPayload == <<Thermal(FALSE), Goto("safe")>>
IdleEntryStays == <<Thermal(TRUE), Payload(FALSE)>>
Safe_Entry        == <<Thermal(FALSE), Payload(FALSE), Goto("safe")>>
Operational_Entry == <<Thermal(TRUE), Payload(TRUE), Goto("operational")>>
Idle_Entry        == <<Thermal(TRUE), Payload(FALSE), Goto("idle")>>

Switched == Report(Success("switch_mode"))

(* Transitions 1, 5 and 9: the answer to command_mode in each state. *)
ModeInSafe(m) ==
  IF m = "idle" /\ VoltageOk THEN <<Switched>> \o Idle_Entry
  ELSE <<Report(InvalidMode), Goto("safe")>>
ModeInOperational(m) ==
  CASE m = "safe" -> <<Switched>> \o Safe_Entry
    [] m = "idle" -> <<Switched>> \o Idle_Entry
    [] m = "operational" -> <<Report(InvalidState), Goto("operational")>>
ModeInIdle(m) ==
  CASE m = "safe" -> <<Switched>> \o Safe_Entry
    [] m = "idle" -> <<Report(InvalidMode), Goto("idle")>>
    [] m = "operational" -> <<Switched>> \o Operational_Entry
ModeTransition(m) ==
  CASE state = "safe" -> ModeInSafe(m)
    [] state = "operational" -> ModeInOperational(m)
    [] state = "idle" -> ModeInIdle(m)

AlwaysIdle == "idle"
(* Transitions 2, 3 and 4: where command_voltage ends. *)
AfterCommandVoltage == IF state = "safe" THEN "safe" ELSE "idle"

StoreOldMode(reading) ==
  IF state # "safe" /\ ~(reading >= mode_voltage_threshold)
    THEN <<Store(state)>> \o Safe_Entry
    ELSE <<Store(state), Goto(state)>>
NoCheckInIdle(reading) ==
  IF state = "operational" /\ ~(reading >= mode_voltage_threshold)
    THEN <<Store("safe")>> \o Safe_Entry
    ELSE <<Store(state), Goto(state)>>
(* Transitions 6, 7 and 8 once the voltage was read. *)
AfterReading(reading) ==
  IF state # "safe" /\ ~(reading >= mode_voltage_threshold)
    THEN <<Store("safe")>> \o Safe_Entry
    ELSE <<Store(state), Goto(state)>>
-----------------------------------------------------------------------------
(* The elaboration of the package runs transition 0; envstub starts with   *)
(* the switches off.                                                       *)
Init ==
  /\ state = "idle"
  /\ mode_voltage_threshold = InitialThreshold
  /\ mode_current_voltage = InitialVoltage
  /\ running = Idling /\ todo = <<>>
  /\ voltage = InitialVoltage
  /\ thermalEnabled = FALSE /\ payloadEnabled = FALSE
  /\ modeHk \in HkData        \* not initialized by envstub
  /\ executionReport = [kind |-> "none"]

Start(pi, steps) ==
  /\ running = Idling
  /\ running' = pi
  /\ todo' = steps
  /\ UNCHANGED <<state, mode_current_voltage, voltage, devices, telemetry>>

trigger_gather_mode_hk ==
  /\ Start([pi |-> "trigger_gather_mode_hk"], <<Get>>)
  /\ UNCHANGED mode_voltage_threshold

command_mode(m) ==
  /\ Start([pi |-> "command_mode", mode |-> m], ModeTransition(m))
  /\ UNCHANGED mode_voltage_threshold

command_voltage(v) ==
  /\ Start([pi |-> "command_voltage"],
           <<Report(Success("set_threshold_voltage")), Goto(AfterCommandVoltage)>>)
  /\ mode_voltage_threshold' = v

(* The next step of the running transition is of the given kind. *)
Step(op) == todo # <<>> /\ Head(todo).op = op

get_current_voltage ==
  /\ Step("get_current_voltage")
  /\ mode_current_voltage' = voltage
  /\ todo' = AfterReading(voltage)
  /\ UNCHANGED <<state, mode_voltage_threshold, running, voltage, devices, telemetry>>

(* fill_param_mode_hk, then mode_hk_store. *)
mode_hk_store ==
  /\ Step("mode_hk_store")
  /\ modeHk' = [mode |-> Head(todo).mode, input_voltage |-> mode_current_voltage]
  /\ todo' = Tail(todo)
  /\ UNCHANGED <<ctxt, running, voltage, devices, executionReport>>

(* report_mode and report_voltage, which envstub treats alike. *)
report ==
  /\ Step("report")
  /\ executionReport' = Head(todo).report
  /\ todo' = Tail(todo)
  /\ UNCHANGED <<ctxt, running, voltage, devices, modeHk>>

switch_thermal ==
  /\ Step("switch_thermal")
  /\ thermalEnabled' = Head(todo).enabled
  /\ todo' = Tail(todo)
  /\ UNCHANGED <<ctxt, running, voltage, payloadEnabled, telemetry>>

switch_payload ==
  /\ Step("switch_payload")
  /\ payloadEnabled' = Head(todo).enabled
  /\ todo' = Tail(todo)
  /\ UNCHANGED <<ctxt, running, voltage, thermalEnabled, telemetry>>

NEXT_STATE ==
  /\ Step("NEXT_STATE")
  /\ state' = Head(todo).state
  /\ todo' = <<>>
  /\ running' = Idling
  /\ UNCHANGED <<mode_voltage_threshold, mode_current_voltage, voltage, devices, telemetry>>

VoltageChanges ==
  /\ voltage' \in Voltages
  /\ UNCHANGED <<ctxt, running, todo, devices, telemetry>>

Transition ==
  \/ get_current_voltage \/ mode_hk_store \/ report
  \/ switch_thermal \/ switch_payload \/ NEXT_STATE

Next ==
  \/ trigger_gather_mode_hk
  \/ \E m \in States : command_mode(m)
  \/ \E v \in Voltages : command_voltage(v)
  \/ Transition
  \/ VoltageChanges

Spec == Init /\ [][Next]_vars

(* A PI is a procedure call: once called it runs to its end. *)
FairSpec == Spec /\ WF_vars(Transition)
-----------------------------------------------------------------------------
(* The context, the environment and the running transition keep their types. *)
TypeOK ==
  /\ state \in States
  /\ mode_voltage_threshold \in Voltages
  /\ mode_current_voltage \in Voltages
  /\ running \in PIs
  /\ (running = Idling) <=> (todo = <<>>)
  /\ voltage \in Voltages
  /\ thermalEnabled \in BOOLEAN /\ payloadEnabled \in BOOLEAN
  /\ modeHk \in HkData
  /\ executionReport \in Reports

AtRest == todo = <<>>

(* Whatever sequence of commands and readings came before, a satellite at  *)
(* rest in safe mode has heating and payload off, and one at rest in       *)
(* operational mode has both on: Safe_Entry and Operational_Entry cannot   *)
(* be bypassed on the way in.                                              *)
DevicesFollowMode ==
  AtRest => /\ state = "safe" => ~thermalEnabled /\ ~payloadEnabled
            /\ state = "operational" => thermalEnabled /\ payloadEnabled

(* When trigger_gather_mode_hk returns, the housekeeping record shows the  *)
(* mode the satellite is now in and the reading that decided it, and that  *)
(* mode is safe if the reading was below the threshold.                    *)
Gathered ==
  running = [pi |-> "trigger_gather_mode_hk"] /\ running' = Idling =>
    /\ modeHk' = [mode |-> state', input_voltage |-> mode_current_voltage']
    /\ ~VoltageOk => state' = "safe" /\ ~thermalEnabled' /\ ~payloadEnabled'
GatherIsTruthful == [][Gathered]_vars

(* When command_mode returns, a success report means that the requested    *)
(* mode was entered and a failure report that the mode did not change.     *)
Commanded ==
  running.pi = "command_mode" /\ running' = Idling =>
    IF executionReport'.kind = "success"
      THEN state' = running.mode /\ state' # state
      ELSE state' = state
ReportIsTruthful == [][Commanded]_vars

(* Safe mode is left for idle only on a command, and only while the last   *)
(* reading allowed it.                                                     *)
LeaveSafe ==
  state = "safe" /\ state' # "safe" =>
    state' = "idle" /\ VoltageOk /\ running = [pi |-> "command_mode", mode |-> "idle"]
SafeIsLeftOnCommand == [][LeaveSafe]_vars

(* The strengthening that makes these inductive.  At every step there is a *)
(* state s the transition is bound for: what is left to do are the steps   *)
(* into s, the switches already set fit s, and what was or is still to be  *)
(* told to ground agrees with s.                                           *)
DevicesFit(s) ==
  /\ s = "safe" => ~thermalEnabled /\ ~payloadEnabled
  /\ s = "operational" => thermalEnabled /\ payloadEnabled

Switching(s) ==
  \/ todo = <<Goto(s)>> /\ DevicesFit(s)
  \/ todo = <<Payload(s = "operational"), Goto(s)>> /\ thermalEnabled = (s # "safe")
  \/ todo = <<Thermal(s # "safe"), Payload(s = "operational"), Goto(s)>>

Telling(x, s) ==
  \/ todo = <<x, Goto(s)>> /\ DevicesFit(s)
  \/ todo = <<x, Thermal(s # "safe"), Payload(s = "operational"), Goto(s)>>

(* Where a command may lead, given the kind of its report. *)
Leads(kind, s) ==
  running.pi = "command_mode" =>
    IF kind = "success" THEN s = running.mode /\ s # state ELSE s = state

MayLeaveSafe(s) ==
  state = "safe" /\ s # "safe" =>
    s = "idle" /\ VoltageOk /\ running = [pi |-> "command_mode", mode |-> "idle"]

Gathering == running = [pi |-> "trigger_gather_mode_hk"]

BoundFor(s) ==
  /\ MayLeaveSafe(s)
  /\ Gathering /\ ~VoltageOk => s = "safe"
  /\ \/ /\ Switching(s)
        /\ Leads(executionReport.kind, s)
        /\ Gathering => modeHk = [mode |-> s, input_voltage |-> mode_current_voltage]
     \/ /\ ~Gathering
        /\ \E r \in Reports : Telling(Report(r), s) /\ Leads(r.kind, s)
     \/ Gathering /\ Telling(Store(s), s)

(* At rest the switches fit the mode, and every step of a transition leads *)
(* to a mode that switches, telemetry and reports agree on.                *)
ModeInv ==
  /\ TypeOK
  /\ \/ AtRest /\ DevicesFit(state)
     \/ Gathering /\ todo = <<Get>> /\ DevicesFit(state)
     \/ \E s \in States : BoundFor(s)

(* A reading below the threshold puts the satellite in safe mode, however  *)
(* the voltage moves while the transition runs.                            *)
LowReading ==
  running = [pi |-> "trigger_gather_mode_hk"] /\ todo # <<Get>> /\ ~VoltageOk
LowReadingEndsSafe == LowReading ~> (AtRest /\ state = "safe")

(* Idle_Entry switches the payload off, so an idle satellite has it off.   *)
(* The code does not guarantee this: transition 3 goes to Idle without     *)
(* passing through Idle_Entry.                                             *)
PayloadOffInIdle == AtRest /\ state = "idle" => ~payloadEnabled
=============================================================================
