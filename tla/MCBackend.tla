------------------------------ MODULE MCBackend ------------------------------
(***************************************************************************)
(* What the operators see of their collars: the bot with its alerts and    *)
(* the dashboard's telemetry.  The two share no state, so that any         *)
(* interleaving of them is one of their own steps: TLC runs one of them at *)
(* a time, the other without a collar outside of the fence or a point.     *)
(***************************************************************************)
EXTENDS AlertBot, Telemetry

VARIABLE part
backendVars == <<part, botVars, telemetryVars>>

(* Bound: a restart of Node-RED and MaxCommands commands do not both come. *)
Budget == restarts = 0 \/ commands < MaxCommands

BackendInit ==
    /\ part \in {"bot", "telemetry"}
    /\ BotInit /\ TelemetryInit
    /\ part # "bot" => outside = {}
    /\ part # "telemetry" => points = 0 /\ reachable

BackendNext ==
    \/ part = "bot" /\ BotNext /\ UNCHANGED <<part, telemetryVars>>
    \/ part = "telemetry" /\ TelemetryNext /\ UNCHANGED <<part, botVars>>

BackendSpec ==
    /\ BackendInit /\ [][BackendNext]_backendVars
    /\ part = "bot" => BotFairness
    /\ part = "telemetry" => TelemetryFairness

(* The state of either part is of its type. *)
BackendTypeOK == BotTypeOK /\ TelemetryTypeOK
=============================================================================
