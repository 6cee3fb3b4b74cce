------------------------------ MODULE MCTasks ------------------------------
(***************************************************************************)
(* TLC instance of the tasks of the EC whose properties include liveness,  *)
(* the debouncing, the ACPI notification, the keyboard controller and the  *)
(* battery, and of the keyboard matrix.  A behaviour exercises one of      *)
(* them, chosen at the start; the fairness of each is that of its module.  *)
(***************************************************************************)
EXTENDS Debounce, Kbc, Battery, SmcHost, KbsMatrix

VARIABLE unit

Kind == [a |-> "plain", p |-> "pause", e |-> "plain", d |-> "dead"]
Layer == [a |-> "other", p |-> "sci", e |-> "unmapped", d |-> "repeat"]

TasksInit ==
  /\ unit \in {"debounce", "acpi", "keyboard", "battery", "matrix"}
  /\ Init /\ KbcInit /\ BatteryInit /\ SmcInit /\ MatrixInit
  /\ unit # "debounce" => \A p \in Pin : level[p] /\ prev_level[p]
  /\ unit # "battery" => bat /\ ac /\ ~chg

TasksNext ==
  \/ unit = "debounce" /\ Next        /\ UNCHANGED <<unit, smcVars, kbcVars, batteryVars, kbsVars>>
  \/ unit = "acpi"     /\ SmcNext     /\ UNCHANGED <<unit, vars, kbcVars, batteryVars, kbsVars>>
  \/ unit = "keyboard" /\ KbcNext     /\ UNCHANGED <<unit, vars, smcVars, batteryVars, kbsVars>>
  \/ unit = "battery"  /\ BatteryNext /\ UNCHANGED <<unit, vars, smcVars, kbcVars, kbsVars>>
  \/ unit = "matrix"   /\ MatrixNext  /\ UNCHANGED <<unit, vars, smcVars, kbcVars, batteryVars>>

DebounceFair ==
  /\ WF_vars(unit = "debounce" /\ Thread)
  /\ \A p \in Pin : WF_vars(unit = "debounce" /\ Isr(p))

AcpiFair ==
  /\ WF_smcVars(unit = "acpi" /\ Wake) /\ WF_smcVars(unit = "acpi" /\ Serve)
  /\ WF_smcVars(unit = "acpi" /\ ServeEnd) /\ WF_smcVars(unit = "acpi" /\ CheckSciQueue)
  /\ SF_smcVars(unit = "acpi" /\ HostSci) /\ WF_smcVars(unit = "acpi" /\ HostResume)
  /\ WF_smcVars(unit = "acpi" /\ HostAddress) /\ WF_smcVars(unit = "acpi" /\ HostRead)
  /\ WF_smcVars(unit = "acpi" /\ ApuReset) /\ WF_smcVars(unit = "acpi" /\ ResetEnds)

KbcFair ==
  /\ WF_kbcVars(unit = "keyboard" /\ GetByte) /\ WF_kbcVars(unit = "keyboard" /\ CarryOut)
  /\ WF_kbcVars(unit = "keyboard" /\ SendReply) /\ WF_kbcVars(unit = "keyboard" /\ TakeKeys)
  /\ WF_kbcVars(unit = "keyboard" /\ Forward)

BatteryFair ==
  /\ SF_batteryVars(unit = "battery" /\ Begin) /\ WF_batteryVars(unit = "battery" /\ Step)
  /\ WF_batteryVars(unit = "battery" /\ Expire) /\ WF_batteryVars(unit = "battery" /\ Unfreeze)

TasksSpec ==
  /\ TasksInit /\ [][TasksNext]_<<unit, vars, smcVars, kbcVars, batteryVars, kbsVars>>
  /\ DebounceFair /\ AcpiFair /\ KbcFair /\ BatteryFair
=============================================================================
