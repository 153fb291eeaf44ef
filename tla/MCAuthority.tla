---------------------------- MODULE MCAuthority -----------------------------
(***************************************************************************)
(* The authority in one instance: a behaviour is that of the certificates  *)
(* it gives to nodes ("nodes"), of the accounts and sessions of the people *)
(* who administer the mesh ("people"), or of the management API they       *)
(* administer it through ("calls").                                        *)
(***************************************************************************)
EXTENDS CertAuthority, UserAccounts, MgmtApi, TLC

VARIABLE part

\* The parts a behaviour is not about rest in an initial state.
MCInit ==
    /\ part \in {"nodes", "people", "calls"}
    /\ Init /\ (part # "nodes" => auto_approve)
    /\ PeopleInit
    /\ part # "people" => users[CHOOSE n \in Name : TRUE] # None
    /\ CallInit

MCNext ==
    /\ \/ part = "nodes" /\ Next /\ UNCHANGED <<peopleVars, callVars>>
       \/ part = "people" /\ PeopleNext /\ UNCHANGED <<vars, callVars>>
       \/ part = "calls" /\ CallNext /\ UNCHANGED <<vars, peopleVars>>
    /\ UNCHANGED part

MCSpec == MCInit /\ [][MCNext]_<<vars, peopleVars, callVars, part>>

\* Connections may be exchanged.
Symmetry == Permutations(Conn)
=============================================================================
