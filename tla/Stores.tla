------------------------------- MODULE Stores -------------------------------
(***************************************************************************)
(* The durable stores of a node, side by side: a board keeps its blob in   *)
(* flash (FlashStore), a host keeps it in a file (FileStore).  They share  *)
(* the blobs and the contract, and no state.                               *)
(***************************************************************************)
EXTENDS FlashStore

CONSTANT Mix    \* what a file holds whose bytes did not all reach the disk

VARIABLES file, tmp, step, op, data, ended    \* of the file store

fileVars == <<file, tmp, step, op, data, ended>>

File == INSTANCE FileStore

\* The file store keeps the contract of a DurableStore: a kill, a power loss
\* or a failed system call at any point of save_via_tmp leaves the previous
\* blob or the new one, Err leaves the previous one, and a scrub or an erase
\* that reports Ok has left no .tmp behind.
FileImplements == File!Register!Spec
=============================================================================
