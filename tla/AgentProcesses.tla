---------------------------- MODULE AgentProcesses ----------------------------
(***************************************************************************)
(* The processes of the Agent Service, which share one database.           *)
(***************************************************************************)
EXTENDS Naturals, Sequences

CONSTANTS Processes,        \* Agent Service processes sharing the database
          NoProcess,        \* the holder of a row that is not leased
          MaxStops          \* bound on the number of times something stops

ASSUME ProcessConstants == NoProcess \notin Processes /\ MaxStops \in Nat
=============================================================================
