---------------------------- MODULE MCWasmRunner ----------------------------
(* Two calculations that share a signal and one without it. *)
EXTENDS WasmRunner

MCCalls == {"one", "two", "alone"}
MCSignalled == {"one", "two"}
=============================================================================
