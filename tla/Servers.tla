-------------------------------- MODULE Servers --------------------------------
(***************************************************************************)
(* Who runs a request, for the modules on its way through app/main.py: one *)
(* or more uvicorn processes, each with an event loop of its own that runs *)
(* the handlers of its requests.                                           *)
(***************************************************************************)
EXTENDS FiniteSets

CONSTANTS
  Handler,        \* requests under way at the same time
  Process, Home   \* server processes; the process that runs a handler

ASSUME HomeAssumption == Home \in [Handler -> Process] /\ IsFiniteSet(Process)
=============================================================================
