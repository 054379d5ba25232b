----------------------------- MODULE MainCommand -----------------------------
(***************************************************************************)
(* main.run: one netcage process from its arguments to its exit code.  The *)
(* line is parsed, the proxy is dialled, and the verb dispatched; a verify *)
(* runs the leak test, whose report is the exit code.  The jails of run,   *)
(* start and the leak test are JailLifecycle, forward and ports HostAccess,*)
(* setup-default ProxyConfig.                                              *)
(***************************************************************************)
EXTENDS CommandLine, LeakTest

vars == <<cmdVars, leakVars>>

MainInit == Init /\ LeakInit

(* runVerify: the report's exit code is the process's. *)
ReportExit ==
    /\ phase = "dispatched" /\ verb = "verify" /\ step = "reported"
    /\ Exit(ExitCode)
    /\ UNCHANGED <<scanned, line, leakVars>>

Finished == phase \in {"handed", "exited"} /\ UNCHANGED vars

Next ==
    \/ CommandSteps /\ UNCHANGED leakVars
    \/ phase = "dispatched" /\ verb = "verify" /\ LeakSteps /\ UNCHANGED cmdVars
    \/ ReportExit
    \/ Finished

Spec == MainInit /\ [][Next]_vars
=============================================================================
