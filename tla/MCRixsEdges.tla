----------------------------- MODULE MCRixsEdges -----------------------------
(* Two inputs that ask for a RIXS calculation, of which the second turns off  *)
(* the stage that writes xsect.dat, and one that RDINP rejects.                  *)
EXTENDS RixsEdges

MCVersions == {"v1", "v2", "bad"}
MCAccepted == {"v1", "v2"}
MCFiles == {"rixs.inp", "density.inp"}
MCOutputs == [v \in MCAccepted |->
    IF v = "v2" THEN {"rixs.inp"} ELSE MCFiles]
MCKinds == <<"gg">>
MCMakes == [v \in MCAccepted |->
    IF v = "v2" THEN {"gg"} ELSE {"gg", "xsect"}]
==============================================================================
