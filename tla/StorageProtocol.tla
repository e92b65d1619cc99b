--------------------------- MODULE StorageProtocol ---------------------------
(***************************************************************************)
(* What the storage backends share (core/storage.py): the three methods    *)
(* that change something, and the two threads that call them, the          *)
(* BackgroundWorker's and the one that shuts it down.                      *)
(***************************************************************************)
CONSTANTS Worker, Closer

ASSUME ThreadsAssumption == Worker # Closer

Threads == {Worker, Closer}
Methods == {"write", "flush", "close"}
=============================================================================
