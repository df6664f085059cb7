----------------------------- MODULE MCProcRing -----------------------------
(* Instances of ProcRing for TLC: the kernel process and up to five more.  *)
EXTENDS ProcRing

CONSTANTS k, a, b, c, d, e

SixNodes == {k, a, b, c, d, e}
ThreeNodes == {k, a, b}
KernelOnly == {k}
=============================================================================
