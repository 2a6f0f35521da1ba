----------------------------- MODULE MCStartup -----------------------------
(* A small instance of Startup; the .cfg file says how small.               *)
EXTENDS Startup
============================================================================
