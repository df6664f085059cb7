---------------------------- MODULE MCExceptions ----------------------------
(* Instances of Exceptions for TLC.                                        *)
EXTENDS Exceptions

KernelAndUser == {"svc", "usr"}
KernelOnly == {"svc"}
=============================================================================
