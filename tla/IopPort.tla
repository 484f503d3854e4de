------------------------------ MODULE IopPort ------------------------------
(***************************************************************************)
(* What the arbiter of iop_top promises the DMA engine about the RAM port: *)
(* one access at a time; a grant only while the port is free and only for  *)
(* a request on the wires; the word of a granted read handed over exactly  *)
(* once, before anything else is granted; nothing for a write.             *)
(* IopMemSystem implements this (its property PortContract), and the DMA   *)
(* modules are checked against it instead of against the whole memory      *)
(* system.                                                                 *)
(***************************************************************************)

VARIABLE port   \* whose access holds the port

PortHolder == {"free", "cpu", "dmawr", "dmard"}


PortInit == port = "free"

\* One clock edge, with the wires of the cycle it ends: req and rnw from the
\* DMA engine, gnt and rvalid to it.
PortReset(gnt, rvalid) == port' = "free" /\ (rvalid => port = "dmard")

PortGrant(req, rnw, gnt, rvalid) ==
  /\ port = "free"
  /\ gnt /\ req /\ ~rvalid
  /\ port' = IF rnw THEN "dmard" ELSE "dmawr"

\* The CPU takes the port, or nobody does.
PortOther(gnt, rvalid) ==
  /\ port = "free"
  /\ ~gnt /\ ~rvalid
  /\ port' \in {"free", "cpu"}

PortServe(gnt, rvalid) ==
  /\ port # "free"
  /\ ~gnt /\ ~rvalid
  /\ port' = port

PortFinish(gnt, rvalid) ==
  /\ port # "free"
  /\ ~gnt /\ (rvalid <=> port = "dmard")
  /\ port' = "free"

PortClk(rst, req, rnw, gnt, rvalid) ==
  \/ rst /\ PortReset(gnt, rvalid)
  \/ ~rst /\ \/ PortGrant(req, rnw, gnt, rvalid)
             \/ PortOther(gnt, rvalid)
             \/ PortServe(gnt, rvalid)
             \/ PortFinish(gnt, rvalid)
=============================================================================
