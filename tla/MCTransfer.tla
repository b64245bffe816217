----------------------------- MODULE MCTransfer -----------------------------
(* Manifests and fault sets for the runs of Transfer.                      *)
EXTENDS TransferSuccess, FiniteSetsExt

OneChunkEach == <<1, 1>>
LongThenEmpty == <<2, 0>>
OneFile == <<2>>

NoFaults == {}
AllFaults == FaultKinds

\* total_bytes is the sum of the sizes.
ASSUME TotalIsSum == TotalBytes = MapThenSumSet(LAMBDA f : Size[f], Files)
=============================================================================
