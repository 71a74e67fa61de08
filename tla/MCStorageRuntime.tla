--------------------------- MODULE MCStorageRuntime ---------------------------
(***************************************************************************)
(* Small instances of StorageRuntime: one goroutine that starts and closes   *)
(* the runtime and one that flushes it or runs the worker itself.           *)
(***************************************************************************)
EXTENDS StorageRuntime

MCOps == [a \in Apps |-> IF a = "main" THEN {"start", "close"} ELSE {"flush", "run"}]
MCMaxCalls == [a \in Apps |-> IF a = "main" THEN 2 ELSE 1]
==============================================================================
