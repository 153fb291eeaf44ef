--------------------------- MODULE DurableRegister ---------------------------
(***************************************************************************)
(* What a DurableStore promises its caller: one blob, replaced atomically. *)
(* A call is made, works on the medium for a while, and ends in one of     *)
(* three ways: it returns Ok, it returns Err, or the power is cut under    *)
(* it.  Whatever the medium is doing, `blob` is what a load would answer.  *)
(*                                                                         *)
(* `copies` are the blobs other than the current one that can still be     *)
(* read off the medium: the spare page of a flash store, the temporary     *)
(* file of an interrupted save.  Scrub and erase are promises about them.  *)
(***************************************************************************)
EXTENDS Naturals

CONSTANTS Blob, NoBlob

VARIABLES
    blob,      \* what load() answers: a blob, or NoBlob for Ok(None)
    copies,    \* other blobs still readable on the medium
    call,      \* the call in progress
    arg,       \* the blob being saved
    landed,    \* the save in progress can no longer be lost
    result     \* how the last call ended

vars == <<blob, copies, call, arg, landed, result>>

Init ==
    /\ blob = NoBlob
    /\ copies = {}
    /\ call = "idle"
    /\ arg = NoBlob
    /\ landed = FALSE
    /\ result = "none"

Invoke(op, b) ==
    /\ call = "idle"
    /\ call' = op
    /\ arg' = b
    /\ landed' = FALSE
    /\ result' = "none"
    /\ UNCHANGED <<blob, copies>>

\* A save at work before it lands: the current blob is untouched.
Prepare ==
    /\ call = "save"
    /\ ~landed
    /\ copies' \subseteq copies \cup {arg}
    /\ UNCHANGED <<blob, call, arg, landed, result>>

\* The instant the new blob replaces the previous one, in full.
Land ==
    /\ call = "save"
    /\ ~landed
    /\ blob' = arg
    /\ landed' = TRUE
    /\ copies' \subseteq (copies \cup {arg, blob}) \ {NoBlob}
    /\ UNCHANGED <<call, arg, result>>

\* Scrubbing removes other copies and never the current blob.
Scrub ==
    /\ call = "scrub"
    /\ copies' \subseteq copies
    /\ UNCHANGED <<blob, call, arg, landed, result>>

\* Erasing is not atomic: while it runs, a load can find the current blob,
\* nothing, or a superseded copy the erase has not reached.
Erase ==
    /\ call = "erase"
    /\ blob' \in {blob, NoBlob} \cup copies
    /\ copies' \subseteq (copies \cup {blob}) \ {NoBlob}
    /\ UNCHANGED <<call, arg, landed, result>>

\* Ok is a promise: the saved blob is the one a load answers; after a scrub
\* no other copy is left; after an erase nothing is.
ReturnOk ==
    /\ call # "idle"
    /\ call = "save" => landed /\ blob = arg
    /\ call = "scrub" => copies = {}
    /\ call = "erase" => blob = NoBlob /\ copies = {}
    /\ call' = "idle"
    /\ result' = "ok"
    /\ landed' = FALSE
    /\ UNCHANGED <<blob, copies, arg>>

\* Err is a promise too: a save that reports it has not replaced the blob.
ReturnErr ==
    /\ call # "idle"
    /\ call = "save" => ~landed
    /\ call' = "idle"
    /\ result' = "err"
    /\ landed' = FALSE
    /\ UNCHANGED <<blob, copies, arg>>

\* The power is cut, or the process killed, in the middle of a call.
Cut ==
    /\ call # "idle"
    /\ call' = "idle"
    /\ result' = "cut"
    /\ landed' = FALSE
    /\ UNCHANGED <<blob, copies, arg>>

Next ==
    \/ \E b \in Blob : Invoke("save", b)
    \/ Invoke("scrub", NoBlob)
    \/ Invoke("erase", NoBlob)
    \/ Prepare \/ Land \/ Scrub \/ Erase
    \/ ReturnOk \/ ReturnErr \/ Cut

Spec == Init /\ [][Next]_vars
=============================================================================
