----------------------------- MODULE MCFileLock -----------------------------
(* FileLock on five acquirers: as many as it takes for the lock of a dead  *)
(* owner to be kept fresh by another process.                              *)
EXTENDS FileLock

CONSTANTS p1, p2, p3, p4, p5

MCProcs == {p1, p2, p3, p4, p5}
=============================================================================
