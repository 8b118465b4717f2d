----------------------------- MODULE MCScheduler -----------------------------
(* The inputs the runs of Scheduler choose from. *)
EXTENDS Scheduler

Exafs == {"pot", "xsph", "path", "genfmt", "ff2x", "sfconv"}
Xanes == {"pot", "xsph", "fms", "mkgtr", "band"}
SpectraOnly == {"ff2x", "sfconv"}
Contour == {"pot", "xsph", "fms", "mkgtr", "compton"}
Density == {"pot", "rhorrp"}
FromSpectra == {"ff2x", "eels", "eelsmdff"}

AllRequests == {Exafs, Xanes, SpectraOnly, Contour, Density, FromSpectra}
DensityRequests == {Density}
==============================================================================
