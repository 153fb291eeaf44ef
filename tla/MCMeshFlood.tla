---------------------------- MODULE MCMeshFlood -----------------------------
(***************************************************************************)
(* The control plane in one instance: a behaviour is that of OGMs over a   *)
(* ring of four with one diagonal ("diamond"), of OGMs between three nodes *)
(* whose link qualities change ("triangle"), of one receiver's high-water  *)
(* for an originator that reboots ("recovery"), or of two nodes that fetch *)
(* each other's certificates ("fetch").                                    *)
(***************************************************************************)
EXTENDS MeshFlood, TLC

CONSTANTS
    Parts,    \* which of the four
    a, b, c, d

VARIABLES
    part,
    now, counter, entry, adm, quota, gap, reboots, strays, refused,
    lazy, cert, keys, in_flight, rate, pending, route, frames, late

meshVars == <<eng, clock, seqno, rounds, net, quality, changes, losses>>

recoveryVars ==
    <<now, counter, entry, adm, quota, gap, reboots, strays, refused>>

fetchVars ==
    <<lazy, cert, keys, in_flight, rate, pending, route, frames, late>>

\* The destination at one corner of a ring of four, with one diagonal.
Diamond == {{d, a}, {d, c}, {a, b}, {b, c}, {a, c}}

\* Everyone hears everyone: the destination and two relays.
AllThree == {{d, a}, {d, b}, {a, b}}

Triangle ==
    INSTANCE MeshFlood WITH
        Links <- AllThree, InitialTtl <- 4, MaxRounds <- 3, MaxChanges <- 2, MaxLosses <- 0

Receiver ==
    INSTANCE SeqnoRecovery WITH
        Rate <- 1, MaxGap <- 2, MaxReboots <- 1, MaxStrays <- 1, clock <- now

\* Two nodes: both send fingerprints, or one does and renews its
\* certificate once.
Certs ==
    INSTANCE CertFetch WITH
        Node <- {a, b}, MaxCert <- (a :> 2 @@ b :> 1), MaxAttempts <- 3,
        Retry <- 1, RateLimit <- 1, ReplyTtl <- 1, Rows <- 1, MaxLate <- 1,
        net <- frames

----------------------------------------------------------------------------
\* The parts a behaviour is not about rest in an initial state.
MCInit ==
    /\ part \in Parts
    /\ IF part = "triangle" THEN Triangle!Init ELSE Init
    /\ part \in {"recovery", "fetch"} =>
         \A l \in Links, q \in LinkQuality : q <= quality[l]
    /\ Receiver!Init /\ (part # "recovery" => counter = 0)
    /\ Certs!Init
    /\ \/ lazy = {a, b} /\ cert[a] = 2
       \/ lazy = {a} /\ cert[a] = 1 /\ part = "fetch"

Mesh(A) == A /\ UNCHANGED <<recoveryVars, fetchVars, part>>

Recovery(A) ==
    part = "recovery" /\ A /\ UNCHANGED <<meshVars, fetchVars, part>>

Fetch(A) == part = "fetch" /\ A /\ UNCHANGED <<meshVars, recoveryVars, part>>

MCNext ==
    \/ part = "diamond" /\ Mesh(Next)
    \/ part = "triangle" /\ Mesh(Triangle!Next)
    \/ Recovery(Receiver!Next)
    \/ Fetch(Certs!Next)

MCvars == <<meshVars, recoveryVars, fetchVars, part>>

\* With the fairness of MeshFlood and of SeqnoRecovery, and that of the
\* certificate b fetches from a.
MCSpec ==
    /\ MCInit /\ [][MCNext]_MCvars
    /\ WF_MCvars(part = "diamond" /\ Mesh(\E m \in net : Deliver(m)))
    /\ WF_MCvars(part = "triangle" /\ Mesh(\E m \in net : Triangle!Deliver(m)))
    /\ WF_MCvars(Recovery(Receiver!Tick))
    /\ SF_MCvars(Recovery(Receiver!Hear))
    /\ WF_MCvars(Fetch(Certs!Tick)) /\ WF_MCvars(Fetch(Certs!Leaves))
    /\ WF_MCvars(Fetch(Certs!Hear(a, b))) /\ WF_MCvars(Fetch(Certs!Hear(b, a)))
    /\ SF_MCvars(Fetch(Certs!Asked(a, b)))
    /\ SF_MCvars(Fetch(Certs!Answered(b, a)))

----------------------------------------------------------------------------
\* Once the floods have settled, however link qualities changed in between,
\* two relays do not forward to each other (`handle_ogm`).
RelaysLoopFree == part = "triangle" => Triangle!SettledLoopFree

\* The originator's own traffic is admitted again, for ever, whatever the
\* high-water holds (`admit_seqno`).
Readmitted == Receiver!Readmitted

\* An upset costs no more frames than one reset-protection interval holds
\* (`admit_seqno`).
RefusalsBounded == Receiver!RefusalsBounded

\* A node that keeps hearing an originator keeps coming to hold its
\* certificate of the day, whatever requests and replies are lost, late or
\* overtaken by a renewal (`build_cert_request`, `reclaim_bookkeeping`).
Fetched == part = "fetch" => Certs!Fetched(b, a)
=============================================================================
