------------------------------- MODULE NfProcess -------------------------------
(***************************************************************************)
(* The main thread of a network function (main of upf/src/main.cpp and of  *)
(* amf/src/main.cpp, which differ in the names and in what they report).   *)
(* The service object, the exporter and its lambda are locals of main;     *)
(* g_server is static.                                                     *)
(*                                                                         *)
(* The handler of SIGINT and SIGTERM calls Shutdown if g_server is set, so *)
(* a signal has an effect in "waiting" only; at any other time it is       *)
(* consumed without one.  Shutdown refuses new calls and returns when the  *)
(* handlers under way have; Wait then returns (both external, gRPC).       *)
(***************************************************************************)
VARIABLE main

Init == main = "starting"

Moves(from, to) == main = from /\ main' = to

(* service and exporter are constructed, the exporter thread is started.   *)
StartExporter == Moves("starting", "building")

(* BuildAndStart returns a server, which serves from now on.               *)
StartServer == Moves("building", "started")

(* BuildAndStart returns null (the port is taken): return 1.               *)
StartFails == Moves("building", "leaving")

(* The assignment to g_server, and the call of Wait.                       *)
PublishServer == Moves("started", "waiting")

(* handle_signal, with g_server set.                                       *)
ShutdownOnSignal == Moves("waiting", "draining")

WaitReturns == Moves("draining", "reporting")

Report == Moves("reporting", "leaving")

(* The destructors of main's locals have run, the exporter's first and     *)
(* that of the service, which joins the pool, last.                        *)
LeaveMain == Moves("leaving", "exited")

(* A thread that still uses the locals, which are gone or going, ends the  *)
(* process.                                                                *)
Crash == Moves("leaving", "crashed")

Serving == main \in {"started", "waiting"}
LocalsAlive == main \in {"building", "started", "waiting", "draining", "reporting"}
Ended == main \in {"exited", "crashed"}

Next ==
  \/ StartExporter \/ StartServer \/ StartFails \/ PublishServer
  \/ ShutdownOnSignal \/ WaitReturns \/ Report \/ LeaveMain \/ Crash
===============================================================================
