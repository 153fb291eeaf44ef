------------------------------ MODULE FileStore ------------------------------
(***************************************************************************)
(* The host's DurableStore: a file replaced by writing a .tmp sibling,     *)
(* flushing it and renaming it over the target.  A failed save removes the *)
(* .tmp if it can; a save cut short by a kill or a power loss leaves it.   *)
(*                                                                         *)
(* A rename takes effect at once.  (The code does not flush the directory, *)
(* and says a power loss right after a rename may lose it on some          *)
(* filesystems; that documented exception is not modelled.)                *)
(***************************************************************************)
EXTENDS Naturals

CONSTANTS
    Blob,      \* the blobs callers save
    NoBlob,    \* no blob: what Ok(None) stands for
    Mix        \* what a file holds whose bytes did not all reach the disk

VARIABLES
    file,      \* the file at the store's path
    tmp,       \* its .tmp sibling
    step,      \* where the call in progress is
    op,        \* which call it is
    data,      \* save: the blob
    ended      \* how the last call ended

vars == <<file, tmp, step, op, data, ended>>

\* A file: the blob written to it, whether all of it is there, and whether
\* it has been flushed.  An absent file and an empty .tmp hold nothing.
Absent == [held |-> NoBlob, whole |-> TRUE, flushed |-> TRUE]

Written(b) == [held |-> b, whole |-> TRUE, flushed |-> FALSE]

load(f) == IF f.whole THEN f.held ELSE Mix

Init ==
    /\ file = Absent
    /\ tmp = Absent
    /\ step = "idle"
    /\ op = "idle"
    /\ data = NoBlob
    /\ ended = "none"

Invoke(o, b, first) ==
    /\ step = "idle"
    /\ step' = first
    /\ op' = o
    /\ data' = b
    /\ ended' = "none"
    /\ UNCHANGED <<file, tmp>>

save(b) == Invoke("save", b, "create")

scrub == Invoke("scrub", NoBlob, "remove_tmp")

erase == Invoke("erase", NoBlob, "remove_file")

\* save_via_tmp, one system call at a time.
Create ==
    /\ step = "create"
    /\ tmp' = Absent
    /\ step' = "write"
    /\ UNCHANGED <<file, op, data, ended>>

\* Mutant: the .tmp is renamed without being flushed.
WriteUnflushed ==
    /\ step = "write"
    /\ tmp' = Written(data)
    /\ step' = "rename"
    /\ UNCHANGED <<file, op, data, ended>>

WriteAll ==
    /\ step = "write"
    /\ tmp' = Written(data)
    /\ step' = "sync"
    /\ UNCHANGED <<file, op, data, ended>>

SyncAll ==
    /\ step = "sync"
    /\ tmp' = [tmp EXCEPT !.flushed = TRUE]
    /\ step' = "rename"
    /\ UNCHANGED <<file, op, data, ended>>

Rename ==
    /\ step = "rename"
    /\ file' = tmp
    /\ tmp' = Absent
    /\ step' = "done"
    /\ UNCHANGED <<op, data, ended>>

\* Any of the four may fail; a write may have put part of the blob down.
SaveFails ==
    /\ step \in {"create", "write", "sync", "rename"}
    /\ tmp' \in {tmp} \cup (IF step = "write"
                            THEN {[Written(data) EXCEPT !.whole = FALSE]}
                            ELSE {})
    /\ step' = "cleanup"
    /\ UNCHANGED <<file, op, data, ended>>

\* The best-effort removal of the .tmp, which may fail too.
Cleanup ==
    /\ step = "cleanup"
    /\ tmp' \in {tmp, Absent}
    /\ step' = "failed"
    /\ UNCHANGED <<file, op, data, ended>>

RemoveFile ==
    /\ step = "remove_file"
    /\ file' = Absent
    /\ step' = "remove_tmp"
    /\ UNCHANGED <<tmp, op, data, ended>>

RemoveTmp ==
    /\ step = "remove_tmp"
    /\ tmp' = Absent
    /\ step' = "done"
    /\ UNCHANGED <<file, op, data, ended>>

End(how) ==
    /\ step' = "idle"
    /\ op' = "idle"
    /\ ended' = how
    /\ UNCHANGED data

ReturnOk == step = "done" /\ End("ok") /\ UNCHANGED <<file, tmp>>

ReturnErr ==
    /\ step \in {"failed", "remove_file", "remove_tmp"}
    /\ End("err")
    /\ UNCHANGED <<file, tmp>>

\* A power loss drops bytes that were never flushed.
AfterCut(f) == {f} \cup (IF f.flushed THEN {} ELSE {[f EXCEPT !.whole = FALSE]})

Cut ==
    /\ step # "idle"
    /\ file' \in AfterCut(file)
    /\ tmp' \in AfterCut(tmp)
    /\ End("cut")

Next ==
    \/ \E b \in Blob : save(b)
    \/ scrub \/ erase
    \/ Create \/ WriteAll \/ SyncAll \/ Rename \/ SaveFails \/ Cleanup
    \/ RemoveFile \/ RemoveTmp
    \/ ReturnOk \/ ReturnErr \/ Cut

Spec == Init /\ [][Next]_vars

Register == INSTANCE DurableRegister WITH
    blob <- load(file),
    copies <- {tmp.held} \ {NoBlob},
    call <- op,
    arg <- data,
    landed <- op = "save" /\ step = "done",
    result <- ended
=============================================================================
