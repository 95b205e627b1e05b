-------------------------- MODULE ManageModeProofs --------------------------
(* Proofs about the mode controller, for every set of voltages. *)
EXTENDS ManageMode, SequenceTheorems, TLAPS

LEMMA ReportsMembers ==
  ASSUME mode_current_voltage \in Voltages
  PROVE  /\ Success("switch_mode") \in Reports
         /\ Success("set_threshold_voltage") \in Reports
         /\ InvalidState \in Reports
         /\ InvalidMode \in Reports
  BY DEF Reports, Success, InvalidState, InvalidMode, States

LEMMA PlanHead ==
  ASSUME NEW x, NEW y, NEW z, NEW w
  PROVE  /\ Head(<<x>>) = x
         /\ Head(<<x, y>>) = x
         /\ Head(<<x, y, z>>) = x
         /\ Head(<<x, y, z, w>>) = x
         /\ <<x>> # <<>> /\ <<x, y>> # <<>> /\ <<x, y, z>> # <<>> /\ <<x, y, z, w>> # <<>>
  OBVIOUS

LEMMA PlanTail ==
  ASSUME NEW x, NEW y, NEW z, NEW w
  PROVE  /\ Tail(<<x, y>>) = <<y>>
         /\ Tail(<<x, y, z>>) = <<y, z>>
         /\ Tail(<<x, y, z, w>>) = <<y, z, w>>
<1>1. Tail(<<x, y>>) = <<y>>
  BY SMT
<1>2. Tail(<<x, y, z>>) = <<y, z>>
  BY SMT
<1>3. Tail(<<x, y, z, w>>) = <<y, z, w>>
  BY SMT
<1>4. QED BY <1>1, <1>2, <1>3

LEMMA PlanConcat ==
  ASSUME NEW x, NEW y, NEW z, NEW w
  PROVE  <<x>> \o <<y, z, w>> = <<x, y, z, w>>
<1> DEFINE S == {x, y, z, w}
           s == <<x>>
           u == <<y, z, w>>
           v == <<x, y, z, w>>
<1>1. s \in Seq(S) /\ u \in Seq(S) /\ v \in Seq(S) /\ Len(s) = 1 /\ Len(u) = 3 /\ Len(v) = 4
  OBVIOUS
<1>2. /\ s \o u \in Seq(S) /\ Len(s \o u) = 4
      /\ \A i \in 1 .. 4 : (s \o u)[i] = IF i <= 1 THEN s[1] ELSE u[i - 1]
<2>1. /\ s \o u \in Seq(S) /\ Len(s \o u) = Len(s) + Len(u)
      /\ \A i \in 1 .. Len(s) + Len(u) :
           (s \o u)[i] = IF i <= Len(s) THEN s[i] ELSE u[i - Len(s)]
  <3> HIDE DEF S, s, u
  <3> QED BY <1>1, ConcatProperties
<2>2. QED
  <3> HIDE DEF S, s, u
  <3> QED BY <1>1, <2>1
<1>3. \A i \in 1 .. 4 : (IF i <= 1 THEN s[1] ELSE u[i - 1]) = v[i]
  OBVIOUS
<1>4. s \o u = v
  <2> HIDE DEF S, s, u, v
  <2> QED BY <1>1, <1>2, <1>3, SeqEqual
<1>5. QED BY <1>4

LEMMA InitInv == Init => ModeInv
<1> SUFFICES ASSUME Init PROVE ModeInv
  OBVIOUS
<1>1. TypeOK
  BY VoltageAssumption DEF Init, TypeOK, States, HkData, Reports, PIs, Idling
<1>2. AtRest /\ DevicesFit(state)
  BY DEF Init, AtRest, DevicesFit
<1>3. QED BY <1>1, <1>2 DEF ModeInv

(* The answer to command_mode is the report of where it leads, then the    *)
(* steps into that state.                                                  *)
LEMMA AnswerToCommand ==
  ASSUME TypeOK, NEW m \in States, DevicesFit(state)
  PROVE  \E s \in States : \E r \in Reports :
           /\ \/ ModeTransition(m) = <<Report(r), Goto(s)>> /\ DevicesFit(s)
              \/ ModeTransition(m) =
                   <<Report(r), Thermal(s # "safe"), Payload(s = "operational"), Goto(s)>>
           /\ IF r.kind = "success" THEN s = m /\ s # state ELSE s = state
           /\ state = "safe" /\ s # "safe" => s = "idle" /\ m = "idle" /\ VoltageOk
<1> DEFINE Plan(s) == <<Switched, Thermal(s # "safe"), Payload(s = "operational"), Goto(s)>>
<1>1. /\ Success("switch_mode") \in Reports
      /\ InvalidState \in Reports
      /\ InvalidMode \in Reports
  BY ReportsMembers DEF TypeOK
<1>2. /\ Success("switch_mode").kind = "success"
      /\ InvalidState.kind = "failed"
      /\ InvalidMode.kind = "failed"
  BY DEF Success, InvalidState, InvalidMode
<1>3. /\ <<Switched>> \o Safe_Entry = Plan("safe")
      /\ <<Switched>> \o Operational_Entry = Plan("operational")
      /\ <<Switched>> \o Idle_Entry = Plan("idle")
<2>1. /\ ("safe" # "safe") = FALSE /\ ("safe" = "operational") = FALSE
      /\ ("operational" # "safe") = TRUE /\ ("operational" = "operational") = TRUE
      /\ ("idle" # "safe") = TRUE /\ ("idle" = "operational") = FALSE
  OBVIOUS
<2>2. /\ Plan("safe") = <<Switched, Thermal(FALSE), Payload(FALSE), Goto("safe")>>
      /\ Plan("operational") =
           <<Switched, Thermal(TRUE), Payload(TRUE), Goto("operational")>>
      /\ Plan("idle") = <<Switched, Thermal(TRUE), Payload(FALSE), Goto("idle")>>
  BY <2>1
<2>3. QED
  <3> HIDE DEF Plan
  <3> QED BY <2>2, PlanConcat, Zenon DEF Safe_Entry, Operational_Entry, Idle_Entry
<1>4. CASE \E s \in {"safe", "idle", "operational"} :
             ModeTransition(m) = Plan(s) /\ s = m /\ s # state /\
             (state = "safe" => m = "idle" /\ VoltageOk)
  BY <1>1, <1>2, <1>4 DEF Switched, States
<1>5. CASE \E r \in {InvalidMode, InvalidState} :
             ModeTransition(m) = <<Report(r), Goto(state)>>
  BY <1>1, <1>2, <1>5 DEF TypeOK
<1>6. QED
<2> HIDE DEF Plan
<2>1. CASE state = "safe"
  BY <2>1, <1>3, <1>4, <1>5 DEF ModeTransition, ModeInSafe
<2>2. CASE state = "operational"
  BY <2>2, <1>3, <1>4, <1>5 DEF ModeTransition, ModeInOperational, States
<2>3. CASE state = "idle"
  BY <2>3, <1>3, <1>4, <1>5 DEF ModeTransition, ModeInIdle, States
<2>4. QED BY <2>1, <2>2, <2>3 DEF TypeOK, States

(* Each kind of step belongs to one form of what is left to do.            *)
LEMMA HeadOp ==
  ASSUME NEW s, NEW b, NEW m, NEW r
  PROVE  /\ Get.op = "get_current_voltage" /\ Store(m).op = "mode_hk_store"
         /\ Report(r).op = "report" /\ Thermal(b).op = "switch_thermal"
         /\ Payload(b).op = "switch_payload" /\ Goto(s).op = "NEXT_STATE"
  BY DEF Get, Store, Report, Thermal, Payload, Goto

LEMMA TellingHead ==
  ASSUME NEW x, NEW s, Telling(x, s)
  PROVE  todo # <<>> /\ Head(todo) = x
<1>1. CASE todo = <<x, Goto(s)>>
  BY <1>1, PlanHead
<1>2. CASE todo = <<x, Thermal(s # "safe"), Payload(s = "operational"), Goto(s)>>
  <2> DEFINE y == Thermal(s # "safe")
             z == Payload(s = "operational")
  <2> HIDE DEF y, z
  <2>1. todo = <<x, y, z, Goto(s)>>
    BY <1>2 DEF y, z
  <2>2. QED BY <2>1, PlanHead
<1>3. QED BY <1>1, <1>2 DEF Telling

LEMMA SwitchingHead ==
  ASSUME NEW s, Switching(s)
  PROVE  /\ todo # <<>>
         /\ \/ todo = <<Goto(s)>> /\ DevicesFit(s) /\ Head(todo).op = "NEXT_STATE"
            \/ /\ todo = <<Payload(s = "operational"), Goto(s)>>
               /\ thermalEnabled = (s # "safe") /\ Head(todo).op = "switch_payload"
            \/ /\ todo = <<Thermal(s # "safe"), Payload(s = "operational"), Goto(s)>>
               /\ Head(todo).op = "switch_thermal"
<1> DEFINE y == Thermal(s # "safe")
           z == Payload(s = "operational")
           w == Goto(s)
<1>1. y.op = "switch_thermal" /\ z.op = "switch_payload" /\ w.op = "NEXT_STATE"
  BY HeadOp
<1>2. \/ todo = <<w>> /\ DevicesFit(s)
      \/ todo = <<z, w>> /\ thermalEnabled = (s # "safe")
      \/ todo = <<y, z, w>>
  BY DEF Switching
<1>3. QED
  <2> HIDE DEF y, z, w
  <2>1. CASE todo = <<w>> /\ DevicesFit(s)
    <3>1. todo # <<>> /\ Head(todo).op = "NEXT_STATE"
      BY <2>1, <1>1, PlanHead
    <3>2. QED BY <2>1, <3>1 DEF w
  <2>2. CASE todo = <<z, w>> /\ thermalEnabled = (s # "safe")
    <3>1. todo # <<>> /\ Head(todo).op = "switch_payload"
      BY <2>2, <1>1, PlanHead
    <3>2. QED BY <2>2, <3>1 DEF z, w
  <2>3. CASE todo = <<y, z, w>>
    <3>1. todo # <<>> /\ Head(todo).op = "switch_thermal"
      BY <2>3, <1>1, PlanHead
    <3>2. QED BY <2>3, <3>1 DEF y, z, w
  <2>4. QED BY <1>2, <2>1, <2>2, <2>3

LEMMA RestFits ==
  ASSUME ModeInv, todo = <<>>
  PROVE  DevicesFit(state) /\ running = Idling
<1>1. running = Idling
  BY DEF ModeInv, TypeOK
<1>2. CASE Gathering /\ todo = <<Get>> /\ DevicesFit(state)
  BY <1>2, PlanHead
<1>3. CASE \E s \in States : BoundFor(s)
<2>1. PICK s \in States : BoundFor(s)
  BY <1>3
<2>2. CASE Switching(s)
  BY <2>2, SwitchingHead
<2>3. CASE \E x : Telling(x, s)
  BY <2>3, TellingHead
<2>4. Switching(s) \/ \E x : Telling(x, s)
  BY <2>1 DEF BoundFor
<2>5. QED BY <2>2, <2>3, <2>4
<1>4. QED BY <1>1, <1>2, <1>3 DEF ModeInv

(* What is known when a step of each kind is due.                          *)
LEMMA Due ==
  ASSUME ModeInv, todo # <<>>
  PROVE  \/ /\ Head(todo).op = "get_current_voltage"
            /\ Gathering /\ DevicesFit(state)
         \/ \E s \in States :
              /\ BoundFor(s)
              /\ \/ /\ Head(todo).op = "mode_hk_store" /\ Head(todo) = Store(s)
                    /\ Gathering /\ Telling(Store(s), s)
                 \/ /\ Head(todo).op = "report" /\ ~Gathering
                    /\ \E r \in Reports : Head(todo) = Report(r) /\ Telling(Report(r), s)
                                          /\ Leads(r.kind, s)
                 \/ /\ Switching(s)
                    /\ Head(todo).op \in {"switch_thermal", "switch_payload", "NEXT_STATE"}
                    /\ Leads(executionReport.kind, s)
                    /\ Gathering => modeHk = [mode |-> s, input_voltage |-> mode_current_voltage]
<1>1. CASE AtRest
  BY <1>1 DEF AtRest
<1>2. CASE Gathering /\ todo = <<Get>> /\ DevicesFit(state)
<2>1. Head(todo) = Get
  BY <1>2, PlanHead
<2>2. QED BY <1>2, <2>1, HeadOp
<1>3. CASE \E s \in States : BoundFor(s)
<2>1. PICK s \in States : BoundFor(s)
  BY <1>3
<2>2. CASE /\ Switching(s) /\ Leads(executionReport.kind, s)
           /\ Gathering => modeHk = [mode |-> s, input_voltage |-> mode_current_voltage]
  BY <2>1, <2>2, SwitchingHead
<2>3. CASE ~Gathering /\ \E r \in Reports : Telling(Report(r), s) /\ Leads(r.kind, s)
<3>1. PICK r \in Reports : Telling(Report(r), s) /\ Leads(r.kind, s)
  BY <2>3
<3>2. Head(todo) = Report(r) /\ Head(todo).op = "report"
  BY <3>1, TellingHead, HeadOp
<3>3. QED BY <2>1, <2>3, <3>1, <3>2
<2>4. CASE Gathering /\ Telling(Store(s), s)
<3>1. Head(todo) = Store(s) /\ Head(todo).op = "mode_hk_store"
  BY <2>4, TellingHead, HeadOp
<3>2. QED BY <2>1, <2>4, <3>1
<2>5. QED BY <2>1, <2>2, <2>3, <2>4 DEF BoundFor
<1>4. QED BY <1>1, <1>2, <1>3 DEF ModeInv

(* One lemma for each action. *)
LEMMA GatherStarts ==
  ASSUME ModeInv, trigger_gather_mode_hk
  PROVE  ModeInv'
<1>1. todo = <<>> /\ running = Idling /\ DevicesFit(state)
  BY RestFits DEF ModeInv, TypeOK, trigger_gather_mode_hk, Start
<1>2. /\ running' = [pi |-> "trigger_gather_mode_hk"] /\ todo' = <<Get>> /\ todo' # <<>>
      /\ UNCHANGED <<ctxt, voltage, devices, telemetry>>
  BY PlanHead DEF trigger_gather_mode_hk, Start, ctxt
<1>3. TypeOK'
  BY <1>2 DEF ModeInv, TypeOK, PIs, Idling, ctxt, devices, telemetry
<1>4. Gathering' /\ DevicesFit(state)'
  BY <1>1, <1>2 DEF Gathering, DevicesFit, ctxt, devices
<1>5. QED BY <1>2, <1>3, <1>4 DEF ModeInv, Get

LEMMA CommandModeStarts ==
  ASSUME ModeInv, NEW m \in States, command_mode(m)
  PROVE  ModeInv'
<1>1. TypeOK /\ todo = <<>> /\ running = Idling /\ DevicesFit(state)
  BY RestFits DEF ModeInv, TypeOK, command_mode, Start
<1>2. /\ running' = [pi |-> "command_mode", mode |-> m] /\ todo' = ModeTransition(m)
      /\ UNCHANGED <<ctxt, voltage, devices, telemetry>>
  BY DEF command_mode, Start, ctxt
<1>3. PICK s \in States, r \in Reports :
        /\ \/ ModeTransition(m) = <<Report(r), Goto(s)>> /\ DevicesFit(s)
           \/ ModeTransition(m) =
                <<Report(r), Thermal(s # "safe"), Payload(s = "operational"), Goto(s)>>
        /\ IF r.kind = "success" THEN s = m /\ s # state ELSE s = state
        /\ state = "safe" /\ s # "safe" => s = "idle" /\ m = "idle" /\ VoltageOk
  BY <1>1, AnswerToCommand
<1>4. ModeTransition(m) # <<>>
  BY <1>3
<1>5. TypeOK'
  BY <1>1, <1>2, <1>4 DEF TypeOK, PIs, Idling, ctxt, devices, telemetry
<1>6. Telling(Report(r), s)'
  BY <1>2, <1>3 DEF Telling, DevicesFit, devices, Report, Goto, Thermal, Payload
<1>7. Leads(r.kind, s)' /\ MayLeaveSafe(s)' /\ ~Gathering'
  BY <1>2, <1>3 DEF Leads, MayLeaveSafe, Gathering, VoltageOk, ctxt
<1>8. BoundFor(s)'
  BY <1>6, <1>7 DEF BoundFor, Report
<1>9. QED BY <1>5, <1>8 DEF ModeInv

LEMMA CommandVoltageStarts ==
  ASSUME ModeInv, NEW v \in Voltages, command_voltage(v)
  PROVE  ModeInv'
<1>1. TypeOK /\ todo = <<>> /\ running = Idling /\ DevicesFit(state)
  BY RestFits DEF ModeInv, TypeOK, command_voltage, Start
<1>2. PICK s \in States, r \in Reports :
        s = AfterCommandVoltage /\ r = Success("set_threshold_voltage")
  BY <1>1, ReportsMembers DEF TypeOK, AfterCommandVoltage, States
<1>3. /\ running' = [pi |-> "command_voltage"] /\ todo' = <<Report(r), Goto(s)>>
      /\ mode_voltage_threshold' = v /\ UNCHANGED <<state, mode_current_voltage>>
      /\ UNCHANGED <<voltage, devices, telemetry>> /\ todo' # <<>>
  BY <1>2 DEF command_voltage, Start
<1>4. TypeOK'
  BY <1>1, <1>3 DEF TypeOK, PIs, Idling, devices, telemetry
<1>5. DevicesFit(s) /\ (state = "safe" => s = "safe")
  BY <1>1, <1>2 DEF AfterCommandVoltage, DevicesFit
<1>6. Telling(Report(r), s)'
  BY <1>3, <1>5 DEF Telling, DevicesFit, devices, Report, Goto
<1>7. Leads(r.kind, s)' /\ MayLeaveSafe(s)' /\ ~Gathering'
  BY <1>3, <1>5 DEF Leads, MayLeaveSafe, Gathering
<1>8. BoundFor(s)'
  BY <1>6, <1>7 DEF BoundFor, Report
<1>9. QED BY <1>4, <1>8 DEF ModeInv

(* The reading decides where trigger_gather_mode_hk leads.                 *)
LEMMA ReadingKeeps ==
  ASSUME ModeInv, get_current_voltage
  PROVE  ModeInv'
<1>1. TypeOK /\ Gathering /\ DevicesFit(state)
  BY Due DEF ModeInv, get_current_voltage, Step
<1>2. /\ mode_current_voltage' = voltage /\ todo' = AfterReading(voltage)
      /\ UNCHANGED <<state, mode_voltage_threshold, running, voltage, devices, telemetry>>
  BY DEF get_current_voltage
<1>3. CASE state # "safe" /\ ~(voltage >= mode_voltage_threshold)
<2>1. todo' = <<Store("safe"), Thermal(FALSE), Payload(FALSE), Goto("safe")>>
  BY <1>2, <1>3, PlanConcat, Zenon DEF AfterReading, Safe_Entry
<2>2. ("safe" # "safe") = FALSE /\ ("safe" = "operational") = FALSE /\ todo' # <<>>
  BY <2>1
<2>3. Telling(Store("safe"), "safe")'
  BY <2>1, <2>2 DEF Telling, Store, Thermal, Payload, Goto
<2>4. BoundFor("safe")'
  BY <1>1, <1>2, <2>3 DEF BoundFor, MayLeaveSafe, Gathering, Store
<2>5. TypeOK'
  BY <1>1, <1>2, <2>2 DEF TypeOK, Gathering, Idling, devices, telemetry
<2>6. QED BY <2>4, <2>5 DEF ModeInv, States
<1>4. CASE state = "safe" \/ voltage >= mode_voltage_threshold
<2>1. PICK s \in States : s = state
  BY <1>1 DEF TypeOK
<2>2. todo' = <<Store(s), Goto(s)>> /\ todo' # <<>>
  BY <1>2, <1>4, <2>1 DEF AfterReading
<2>3. Telling(Store(s), s)'
  BY <1>1, <1>2, <2>1, <2>2 DEF Telling, DevicesFit, devices, Store, Goto
<2>4. Gathering' /\ (~VoltageOk' => s = "safe")
  BY <1>1, <1>2, <1>4, <2>1 DEF Gathering, VoltageOk
<2>5. BoundFor(s)'
  BY <1>2, <2>1, <2>3, <2>4 DEF BoundFor, MayLeaveSafe, Store
<2>6. TypeOK'
  BY <1>1, <1>2, <2>2 DEF TypeOK, Gathering, Idling, devices, telemetry
<2>7. QED BY <2>5, <2>6 DEF ModeInv
<1>5. QED BY <1>3, <1>4

(* After the report or the housekeeping record comes the way into s.       *)
LEMMA TellingTail ==
  ASSUME NEW x, NEW s, Telling(x, s), todo' = Tail(todo), UNCHANGED devices
  PROVE  Switching(s)' /\ todo' # <<>>
<1>1. CASE todo = <<x, Goto(s)>> /\ DevicesFit(s)
<2>1. todo' = <<Goto(s)>> /\ todo' # <<>>
  BY <1>1, PlanTail, PlanHead
<2>2. QED BY <1>1, <2>1 DEF Switching, DevicesFit, devices, Goto
<1>2. CASE todo = <<x, Thermal(s # "safe"), Payload(s = "operational"), Goto(s)>>
<2> DEFINE y == Thermal(s # "safe")
           z == Payload(s = "operational")
<2> HIDE DEF y, z
<2>1. todo = <<x, y, z, Goto(s)>>
  BY <1>2 DEF y, z
<2>2. todo' = <<y, z, Goto(s)>> /\ todo' # <<>>
  BY <2>1, PlanTail, PlanHead
<2>3. QED BY <2>2 DEF y, z, Switching, Thermal, Payload, Goto
<1>3. QED BY <1>1, <1>2 DEF Telling

LEMMA StoreKeeps ==
  ASSUME ModeInv, mode_hk_store
  PROVE  ModeInv'
<1>1. PICK s \in States :
        BoundFor(s) /\ Head(todo) = Store(s) /\ Gathering /\ Telling(Store(s), s)
  BY Due DEF mode_hk_store, Step
<1>2. /\ modeHk' = [mode |-> s, input_voltage |-> mode_current_voltage] /\ todo' = Tail(todo)
      /\ UNCHANGED <<ctxt, running, voltage, devices, executionReport>>
  BY <1>1 DEF mode_hk_store, Store
<1>3. Switching(s)' /\ todo' # <<>>
  BY <1>1, <1>2, TellingTail
<1>4. TypeOK'
  BY <1>1, <1>2, <1>3 DEF ModeInv, TypeOK, HkData, Gathering, Idling, ctxt, devices
<1>5. Gathering' /\ MayLeaveSafe(s)' /\ (~VoltageOk' => s = "safe") /\ running.pi # "command_mode"
  BY <1>1, <1>2 DEF BoundFor, MayLeaveSafe, VoltageOk, Gathering, ctxt
<1>6. BoundFor(s)'
  BY <1>2, <1>3, <1>5 DEF BoundFor, Leads, ctxt
<1>7. QED BY <1>4, <1>6 DEF ModeInv

LEMMA ReportKeeps ==
  ASSUME ModeInv, report
  PROVE  ModeInv'
<1>1. PICK s \in States, r \in Reports :
        /\ BoundFor(s) /\ ~Gathering
        /\ Head(todo) = Report(r) /\ Telling(Report(r), s) /\ Leads(r.kind, s)
  BY Due DEF report, Step
<1>2. /\ executionReport' = r /\ todo' = Tail(todo) /\ todo # <<>>
      /\ UNCHANGED <<ctxt, running, voltage, devices, modeHk>>
  BY <1>1 DEF report, Step, Report
<1>3. Switching(s)' /\ todo' # <<>>
  BY <1>1, <1>2, TellingTail
<1>4. TypeOK'
  BY <1>1, <1>2, <1>3 DEF ModeInv, TypeOK, Idling, ctxt, devices
<1>5. ~Gathering' /\ MayLeaveSafe(s)' /\ Leads(executionReport.kind, s)'
  BY <1>1, <1>2 DEF BoundFor, MayLeaveSafe, VoltageOk, Gathering, Leads, ctxt
<1>6. BoundFor(s)'
  BY <1>3, <1>5 DEF BoundFor
<1>7. QED BY <1>4, <1>6 DEF ModeInv

(* A switch is set on the way into s; nothing else is disturbed.           *)
LEMMA SwitchKeeps ==
  ASSUME ModeInv, NEW s \in States, BoundFor(s), Leads(executionReport.kind, s),
         Gathering => modeHk = [mode |-> s, input_voltage |-> mode_current_voltage],
         todo # <<>>, todo' # <<>>,
         thermalEnabled' \in BOOLEAN, payloadEnabled' \in BOOLEAN, Switching(s)',
         UNCHANGED <<ctxt, running, voltage, telemetry>>
  PROVE  ModeInv'
<1>1. TypeOK'
  BY DEF ModeInv, TypeOK, Idling, ctxt, telemetry
<1>2. /\ MayLeaveSafe(s)' /\ Leads(executionReport.kind, s)'
      /\ Gathering' /\ ~VoltageOk' => s = "safe"
      /\ Gathering' => modeHk' = [mode |-> s, input_voltage |-> mode_current_voltage']
  BY DEF BoundFor, MayLeaveSafe, VoltageOk, Gathering, Leads, ctxt, telemetry
<1>3. BoundFor(s)'
  BY <1>2 DEF BoundFor
<1>4. QED BY <1>1, <1>3 DEF ModeInv

LEMMA EnabledField ==
  ASSUME NEW b \in BOOLEAN
  PROVE  Thermal(b).enabled = b /\ Payload(b).enabled = b
  BY DEF Thermal, Payload

LEMMA ThermalKeeps ==
  ASSUME ModeInv, switch_thermal
  PROVE  ModeInv'
<1>1. PICK s \in States :
        /\ BoundFor(s) /\ Switching(s) /\ Leads(executionReport.kind, s)
        /\ Gathering => modeHk = [mode |-> s, input_voltage |-> mode_current_voltage]
  BY Due DEF switch_thermal, Step
<1> DEFINE y == Thermal(s # "safe")
           z == Payload(s = "operational")
<1>2. todo = <<y, z, Goto(s)>> /\ Head(todo).op = "switch_thermal"
  BY <1>1, SwitchingHead DEF switch_thermal, Step
<1>3. Head(todo) = y /\ todo' = <<z, Goto(s)>> /\ todo' # <<>> /\ todo # <<>>
  <2> HIDE DEF y, z
  <2> QED BY <1>2, PlanHead, PlanTail DEF switch_thermal
<1>4. thermalEnabled' = (s # "safe") /\ thermalEnabled' \in BOOLEAN
<2>1. PICK b \in BOOLEAN : b = (s # "safe")
  OBVIOUS
<2>2. Head(todo) = Thermal(b)
  BY <1>3, <2>1, Zenon
<2>3. thermalEnabled' = b
  BY <2>2, EnabledField, Zenon DEF switch_thermal
<2>4. QED BY <2>1, <2>3, Zenon
<1>5. Switching(s)'
  BY <1>3, <1>4 DEF Switching, Payload, Goto
<1>6. /\ UNCHANGED <<ctxt, running, voltage, telemetry>>
      /\ payloadEnabled' \in BOOLEAN
  BY DEF switch_thermal, ModeInv, TypeOK
<1>7. QED BY <1>1, <1>3, <1>4, <1>5, <1>6, SwitchKeeps

LEMMA PayloadKeeps ==
  ASSUME ModeInv, switch_payload
  PROVE  ModeInv'
<1>1. PICK s \in States :
        /\ BoundFor(s) /\ Switching(s) /\ Leads(executionReport.kind, s)
        /\ Gathering => modeHk = [mode |-> s, input_voltage |-> mode_current_voltage]
  BY Due DEF switch_payload, Step
<1> DEFINE z == Payload(s = "operational")
<1>2. todo = <<z, Goto(s)>> /\ thermalEnabled = (s # "safe")
  BY <1>1, SwitchingHead DEF switch_payload, Step
<1>3. Head(todo) = z /\ todo' = <<Goto(s)>> /\ todo' # <<>> /\ todo # <<>>
  <2> HIDE DEF z
  <2> QED BY <1>2, PlanHead, PlanTail DEF switch_payload
<1>4. payloadEnabled' = (s = "operational") /\ payloadEnabled' \in BOOLEAN
<2>1. PICK b \in BOOLEAN : b = (s = "operational")
  OBVIOUS
<2>2. Head(todo) = Payload(b)
  BY <1>3, <2>1, Zenon
<2>3. payloadEnabled' = b
  BY <2>2, EnabledField, Zenon DEF switch_payload
<2>4. QED BY <2>1, <2>3, Zenon
<1>5. /\ UNCHANGED <<ctxt, running, voltage, telemetry, thermalEnabled>>
      /\ thermalEnabled' \in BOOLEAN
  BY DEF switch_payload, ModeInv, TypeOK
<1>6. Switching(s)'
<2>1. DevicesFit(s)'
  BY <1>2, <1>4, <1>5 DEF DevicesFit
<2>2. QED BY <1>3, <2>1 DEF Switching, Goto
<1>7. QED BY <1>1, <1>3, <1>4, <1>5, <1>6, SwitchKeeps

(* What NEXT_STATE does.                                                   *)
LEMMA Arrival ==
  ASSUME ModeInv, NEXT_STATE
  PROVE  \E s \in States :
           /\ BoundFor(s) /\ DevicesFit(s) /\ Leads(executionReport.kind, s)
           /\ Gathering => modeHk = [mode |-> s, input_voltage |-> mode_current_voltage]
           /\ state' = s
<1>1. PICK s \in States :
        /\ BoundFor(s) /\ Switching(s) /\ Leads(executionReport.kind, s)
        /\ Gathering => modeHk = [mode |-> s, input_voltage |-> mode_current_voltage]
  BY Due DEF NEXT_STATE, Step
<1>2. todo = <<Goto(s)>> /\ DevicesFit(s)
  BY <1>1, SwitchingHead DEF NEXT_STATE, Step
<1>3. state' = s
  BY <1>2, PlanHead DEF NEXT_STATE, Goto
<1>4. QED BY <1>1, <1>2, <1>3

LEMMA NextStateKeeps ==
  ASSUME ModeInv, NEXT_STATE
  PROVE  ModeInv'
<1>1. PICK s \in States : DevicesFit(s) /\ state' = s
  BY Arrival
<1>2. /\ todo' = <<>> /\ running' = Idling
      /\ UNCHANGED <<mode_voltage_threshold, mode_current_voltage, voltage, devices, telemetry>>
  BY DEF NEXT_STATE
<1>3. TypeOK'
  BY <1>1, <1>2 DEF ModeInv, TypeOK, PIs, devices, telemetry
<1>4. AtRest' /\ DevicesFit(state)'
  BY <1>1, <1>2 DEF AtRest, DevicesFit, devices
<1>5. QED BY <1>3, <1>4 DEF ModeInv

(* Neither the bus voltage nor a stutter touches what the invariant is     *)
(* about.                                                                  *)
LEMMA RestKeeps ==
  ASSUME ModeInv, UNCHANGED <<ctxt, running, todo, devices, telemetry>>, voltage' \in Voltages
  PROVE  ModeInv'
<1>1. TypeOK'
  BY DEF ModeInv, TypeOK, ctxt, devices, telemetry
<1>2. CASE AtRest /\ DevicesFit(state)
  BY <1>1, <1>2 DEF ModeInv, AtRest, DevicesFit, ctxt, devices
<1>3. CASE Gathering /\ todo = <<Get>> /\ DevicesFit(state)
  BY <1>1, <1>3 DEF ModeInv, Gathering, DevicesFit, Get, ctxt, devices
<1>4. CASE \E s \in States : BoundFor(s)
<2>1. PICK s \in States : BoundFor(s)
  BY <1>4
<2>2. Switching(s)' <=> Switching(s)
  BY DEF Switching, DevicesFit, devices, Goto, Thermal, Payload
<2>3. \A x : Telling(x, s)' <=> Telling(x, s)
  BY DEF Telling, DevicesFit, devices, Goto, Thermal, Payload
<2>4. /\ MayLeaveSafe(s)' <=> MayLeaveSafe(s)
      /\ \A k : Leads(k, s)' <=> Leads(k, s)
      /\ Gathering' <=> Gathering
      /\ VoltageOk' <=> VoltageOk
  BY DEF MayLeaveSafe, VoltageOk, Gathering, Leads, ctxt
<2>5. /\ executionReport' = executionReport /\ modeHk' = modeHk
      /\ mode_current_voltage' = mode_current_voltage
  BY DEF telemetry, ctxt
<2>6. MayLeaveSafe(s)' /\ (Gathering' /\ ~VoltageOk' => s = "safe")
  BY <2>1, <2>4 DEF BoundFor
<2>7. CASE /\ Switching(s) /\ Leads(executionReport.kind, s)
           /\ Gathering => modeHk = [mode |-> s, input_voltage |-> mode_current_voltage]
  <3>1. Leads(executionReport.kind, s)'
    BY <2>4, <2>5, <2>7 DEF Leads, ctxt
  <3>2. BoundFor(s)'
    BY <2>2, <2>4, <2>5, <2>6, <2>7, <3>1 DEF BoundFor
  <3>3. QED BY <1>1, <3>2 DEF ModeInv
<2>8. CASE ~Gathering /\ \E r \in Reports : Telling(Report(r), s) /\ Leads(r.kind, s)
  <3>1. PICK r \in Reports : Telling(Report(r), s) /\ Leads(r.kind, s)
    BY <2>8
  <3>2. Telling(Report(r), s)' /\ Leads(r.kind, s)'
    BY <3>1 DEF Telling, DevicesFit, Leads, ctxt, devices, Goto, Thermal, Payload, Report
  <3>3. BoundFor(s)'
    BY <2>4, <2>6, <2>8, <3>2 DEF BoundFor, Report
  <3>4. QED BY <1>1, <3>3 DEF ModeInv
<2>9. CASE Gathering /\ Telling(Store(s), s)
  <3>1. Telling(Store(s), s)'
    BY <2>9 DEF Telling, DevicesFit, devices, Goto, Thermal, Payload, Store
  <3>2. BoundFor(s)'
    BY <2>4, <2>6, <2>9, <3>1 DEF BoundFor, Store
  <3>3. QED BY <1>1, <3>2 DEF ModeInv
<2>10. QED BY <2>1, <2>7, <2>8, <2>9 DEF BoundFor
<1>5. QED BY <1>2, <1>3, <1>4 DEF ModeInv

LEMMA NextKeeps == ModeInv /\ [Next]_vars => ModeInv'
<1> SUFFICES ASSUME ModeInv, [Next]_vars PROVE ModeInv'
  OBVIOUS
<1>1. CASE trigger_gather_mode_hk
  BY <1>1, GatherStarts
<1>2. CASE \E m \in States : command_mode(m)
  BY <1>2, CommandModeStarts
<1>3. CASE \E v \in Voltages : command_voltage(v)
  BY <1>3, CommandVoltageStarts
<1>4. CASE Transition
  BY <1>4, ReadingKeeps, StoreKeeps, ReportKeeps, ThermalKeeps, PayloadKeeps, NextStateKeeps
  DEF Transition
<1>5. CASE VoltageChanges
  BY <1>5, RestKeeps DEF VoltageChanges
<1>6. CASE UNCHANGED vars
<2>1. UNCHANGED <<ctxt, running, todo, devices, telemetry>> /\ voltage' = voltage
  BY <1>6 DEF vars
<2>2. QED BY <2>1, RestKeeps DEF ModeInv, TypeOK
<1>7. QED BY <1>1, <1>2, <1>3, <1>4, <1>5, <1>6 DEF Next
-----------------------------------------------------------------------------
(* At every step of every transition, what is left to do, the switches     *)
(* already set and what ground is told agree on where the satellite goes.  *)
THEOREM ModeInvariant == Spec => []ModeInv
<1>1. QED BY InitInv, NextKeeps, PTL DEF Spec

(* A satellite at rest has its switches as safe and operational mode ask,  *)
(* whatever commands and readings came before.                             *)
THEOREM DevicesFollow == Spec => []DevicesFollowMode
<1>1. ModeInv => DevicesFollowMode
  BY RestFits DEF DevicesFollowMode, AtRest, DevicesFit
<1>2. QED BY <1>1, ModeInvariant, PTL

(* Only NEXT_STATE ends a transition or changes the state.                 *)
LEMMA OnlyNextState ==
  ASSUME ModeInv, [Next]_vars, (running # Idling /\ running' = Idling) \/ state' # state
  PROVE  NEXT_STATE
<1>1. CASE trigger_gather_mode_hk
  BY <1>1 DEF trigger_gather_mode_hk, Start
<1>2. CASE \E m \in States : command_mode(m)
  BY <1>2 DEF command_mode, Start
<1>3. CASE \E v \in Voltages : command_voltage(v)
  BY <1>3 DEF command_voltage, Start
<1>4. CASE Transition
  BY <1>4 DEF Transition, get_current_voltage, mode_hk_store, report, switch_thermal,
              switch_payload, ctxt
<1>5. CASE VoltageChanges \/ UNCHANGED vars
  BY <1>5 DEF VoltageChanges, vars, ctxt
<1>6. QED BY <1>1, <1>2, <1>3, <1>4, <1>5 DEF Next

(* The housekeeping record a gather leaves shows the mode the satellite    *)
(* ends in and the reading that decided it.                                *)
THEOREM GatherTruthful == Spec => GatherIsTruthful
<1>1. ASSUME ModeInv, [Next]_vars PROVE Gathered
<2> SUFFICES ASSUME Gathering, running' = Idling PROVE
      /\ modeHk' = [mode |-> state', input_voltage |-> mode_current_voltage']
      /\ ~VoltageOk => state' = "safe" /\ ~thermalEnabled' /\ ~payloadEnabled'
  BY DEF Gathered, Gathering
<2>1. NEXT_STATE
  BY <1>1, OnlyNextState DEF Gathering, Idling
<2>2. PICK s \in States :
        /\ BoundFor(s) /\ DevicesFit(s) /\ state' = s
        /\ modeHk = [mode |-> s, input_voltage |-> mode_current_voltage]
  BY <1>1, <2>1, Arrival
<2>3. /\ mode_current_voltage' = mode_current_voltage /\ modeHk' = modeHk
      /\ UNCHANGED devices
  BY <2>1 DEF NEXT_STATE, telemetry
<2>4. QED BY <2>2, <2>3 DEF BoundFor, DevicesFit, devices
<1>2. ModeInv /\ [Next]_vars => [Gathered]_vars
  BY <1>1
<1>3. QED BY <1>2, ModeInvariant, PTL DEF Spec, GatherIsTruthful

(* The report of command_mode is true when it returns.                     *)
THEOREM ReportTruthful == Spec => ReportIsTruthful
<1>1. ASSUME ModeInv, [Next]_vars PROVE Commanded
<2> SUFFICES ASSUME running.pi = "command_mode", running' = Idling PROVE
      IF executionReport'.kind = "success"
        THEN state' = running.mode /\ state' # state ELSE state' = state
  BY DEF Commanded
<2>1. NEXT_STATE
  BY <1>1, OnlyNextState DEF Idling
<2>2. PICK s \in States : Leads(executionReport.kind, s) /\ state' = s
  BY <1>1, <2>1, Arrival
<2>3. executionReport' = executionReport
  BY <2>1 DEF NEXT_STATE, telemetry
<2>4. QED BY <2>2, <2>3 DEF Leads
<1>2. ModeInv /\ [Next]_vars => [Commanded]_vars
  BY <1>1
<1>3. QED BY <1>2, ModeInvariant, PTL DEF Spec, ReportIsTruthful

(* Safe mode is left only for idle, on command, with the voltage allowing. *)
THEOREM SafeLeftOnCommand == Spec => SafeIsLeftOnCommand
<1>1. ASSUME ModeInv, [Next]_vars PROVE LeaveSafe
<2> SUFFICES ASSUME state = "safe", state' # "safe" PROVE
      state' = "idle" /\ VoltageOk /\ running = [pi |-> "command_mode", mode |-> "idle"]
  BY DEF LeaveSafe
<2>1. NEXT_STATE
  BY <1>1, OnlyNextState
<2>2. PICK s \in States : BoundFor(s) /\ state' = s
  BY <1>1, <2>1, Arrival
<2>3. QED BY <2>2 DEF BoundFor, MayLeaveSafe
<1>2. ModeInv /\ [Next]_vars => [LeaveSafe]_vars
  BY <1>1
<1>3. QED BY <1>2, ModeInvariant, PTL DEF Spec, SafeIsLeftOnCommand

=============================================================================
