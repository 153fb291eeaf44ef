---------------------------- MODULE UserAccounts ----------------------------
(***************************************************************************)
(* The accounts of the people who administer a mesh, kept by its           *)
(* certificate authority: accounts created directly or by redeeming an     *)
(* invitation, the session certificates their logins are given, and what   *)
(* happens to those when an account is demoted, disabled or removed.       *)
(*                                                                         *)
(* The authority serves one request at a time and commits to the same log  *)
(* as module CertAuthority.  A login is the one request with two commits:  *)
(* the spent second-factor step first, the session certificate after.  The *)
(* process can die, or the second commit fail, in between.                 *)
(*                                                                         *)
(* A tick is one TOTP step.  Every login generates a key of its own, so a  *)
(* session is known by its key.  Passwords and lock-outs are left out: a   *)
(* login that fails them changes nothing below.                            *)
(***************************************************************************)
EXTENDS Option, Naturals, FiniteSets

CONSTANTS
    Name,            \* user names
    Key,             \* session keys
    SessionTtl,      \* an account's session_ttl_secs
    InviteTtl,       \* DEFAULT_INVITE_TTL_SECS
    HandleTtl,       \* REGISTRATION_HANDLE_TTL_SECS
    MaxInvites,      \* MAX_PENDING_INVITES
    MaxAccounts,     \* bound: accounts ever created
    MaxSteps         \* bound: the clock stops here

VARIABLES
    time,            \* true time; 0 is no time
    disciplined,     \* the host clock is disciplined
    users,           \* log: the account of each name
    invites,         \* log: the invitation of each name
    sessions,        \* log: the certificate issued to each key
    recalled,        \* log: signed revocations on file
    login,           \* a login between its two commits
    created,         \* account ids given out so far
    spent            \* ghost: last second-factor step each account used

accounts == <<users, invites, sessions, recalled>>

peopleVars == <<time, disciplined, accounts, login, created, spent>>

AccountId == 1 .. MaxAccounts

User == [id : Nat, admin : BOOLEAN, disabled : BOOLEAN, totp_last_step : Nat]

Invite == [admin : BOOLEAN, started : BOOLEAN, expires_at : Nat]

Session ==
    [account : Nat, admin : BOOLEAN, not_before : Nat, not_after : Nat,
     revoked : BOOLEAN]

Login == [key : Key, account : Nat, admin : BOOLEAN, at : Nat]

ASSUME PeopleAssumption ==
    /\ MaxAccounts \in Nat \ {0}
    /\ SessionTtl \in Nat /\ InviteTtl \in Nat /\ HandleTtl \in Nat
    /\ None \notin User /\ None \notin Session /\ None \notin Login

time_unix == IF disciplined THEN time ELSE 0

Idle == login = None

----------------------------------------------------------------------------
(* Invitations.                                                            *)

\* A pending invitation lives until it expires, a started one until its
\* registration handle does: expires_at is the one that counts.
invite_is_live(i) == time_unix < i.expires_at

evict_expired_invites ==
    IF time_unix = 0 THEN invites
    ELSE [n \in Name |-> IF invites[n] # None /\ ~invite_is_live(invites[n])
                         THEN None
                         ELSE invites[n]]

check_name_available(n) == users[n] = None /\ evict_expired_invites[n] = None

InviteCount(i) == Cardinality({n \in Name : i[n] # None})

Account(admin, step) ==
    [id |-> created + 1, admin |-> admin, disabled |-> FALSE,
     totp_last_step |-> step]

add_user(n, admin) ==
    /\ Idle
    /\ created < MaxAccounts
    /\ check_name_available(n)
    /\ invites' = evict_expired_invites
    /\ users' = [users EXCEPT ![n] = Account(admin, 0)]
    /\ created' = created + 1
    /\ UNCHANGED <<time, disciplined, sessions, recalled, login, spent>>

create_user_invite(n, admin) ==
    /\ Idle
    /\ time_unix # 0
    /\ check_name_available(n)
    /\ InviteCount(evict_expired_invites) < MaxInvites
    /\ invites' = [evict_expired_invites EXCEPT ![n] =
                    [admin |-> admin, started |-> FALSE,
                     expires_at |-> time + InviteTtl]]
    /\ UNCHANGED <<time, disciplined, users, sessions, recalled, login, created,
                   spent>>

revoke_user_invite(n) ==
    /\ Idle
    /\ invites[n] # None
    /\ invites' = [invites EXCEPT ![n] = None]
    /\ UNCHANGED <<time, disciplined, users, sessions, recalled, login, created,
                   spent>>

\* The token is exchanged for a handle, once.
begin_user_registration(n) ==
    /\ Idle
    /\ time_unix # 0
    /\ evict_expired_invites[n] # None
    /\ ~evict_expired_invites[n].started
    /\ invites' = [evict_expired_invites EXCEPT ![n] =
                    [admin |-> @.admin, started |-> TRUE,
                     expires_at |-> time + HandleTtl]]
    /\ UNCHANGED <<time, disciplined, users, sessions, recalled, login, created,
                   spent>>

\* The steps verify_totp takes a code for.
verify_totp(last_step) ==
    {step \in (IF time = 0 THEN 0 ELSE time - 1) .. time + 1 : step > last_step}

\* The account appears and the invitation goes in one commit.  The code
\* that proved the second factor is spent.
complete_user_registration(n, step) ==
    /\ Idle
    /\ time_unix # 0
    /\ created < MaxAccounts
    /\ evict_expired_invites[n] # None
    /\ evict_expired_invites[n].started
    /\ step \in verify_totp(0)
    /\ users[n] = None
    /\ invites' = [evict_expired_invites EXCEPT ![n] = None]
    /\ users' = [users EXCEPT ![n] = Account(evict_expired_invites[n].admin, step)]
    /\ created' = created + 1
    /\ spent' = [spent EXCEPT ![created + 1] = step]
    /\ UNCHANGED <<time, disciplined, sessions, recalled, login>>

\* A request refused after the eviction has still evicted.
EvictInvitesOnly ==
    /\ Idle
    /\ invites' = evict_expired_invites
    /\ UNCHANGED <<time, disciplined, users, sessions, recalled, login, created,
                   spent>>

----------------------------------------------------------------------------
(* Logins.                                                                 *)

\* First commit: the second-factor step is spent whether or not a session
\* comes of it.
authenticate_user(n, k, step) ==
    /\ Idle
    /\ time_unix # 0
    /\ users[n] # None /\ ~users[n].disabled
    /\ sessions[k] = None
    /\ step \in verify_totp(users[n].totp_last_step)
    /\ users' = [users EXCEPT ![n].totp_last_step = step]
    /\ login' = [key |-> k, account |-> users[n].id, admin |-> users[n].admin,
                 at |-> time]
    /\ spent' = [spent EXCEPT ![users[n].id] = step]
    /\ UNCHANGED <<time, disciplined, invites, sessions, recalled, created>>

\* Second commit: the session is issued, and the ones that had expired at
\* the first are dropped.  The clock is read again for the certificate: lost
\* since the first commit, it dates the session at the epoch, long expired.
sign_user_session ==
    /\ login # None
    /\ sessions' = [[k \in Key |->
                        IF sessions[k] # None /\ sessions[k].not_after <= login.at
                        THEN None
                        ELSE sessions[k]]
                    EXCEPT ![login.key] =
                        [account |-> login.account, admin |-> login.admin,
                         not_before |-> time_unix,
                         not_after |-> IF disciplined THEN time + SessionTtl ELSE 0,
                         revoked |-> FALSE]]
    /\ login' = None
    /\ UNCHANGED <<time, disciplined, users, invites, recalled, created, spent>>

\* The second commit fails, or the process dies before it.
LoginLost ==
    /\ login # None
    /\ login' = None
    /\ UNCHANGED <<time, disciplined, accounts, created, spent>>

----------------------------------------------------------------------------
(* Changes to an account.                                                  *)

live_sessions_of(id) ==
    {k \in Key : /\ sessions[k] # None
                 /\ sessions[k].account = id
                 /\ ~sessions[k].revoked
                 /\ sessions[k].not_after > time_unix}

\* The sessions are revoked, each until its own expiry, in the commit that
\* changes the account.  Without a clock nothing can be signed.
revoke_sessions(ks) ==
    /\ ks # {} => time_unix # 0
    /\ sessions' = [k \in Key |-> IF k \in ks
                                  THEN [sessions[k] EXCEPT !.revoked = TRUE]
                                  ELSE sessions[k]]
    /\ recalled' =
        {r \in recalled : r.not_after > time_unix} \cup
        {[key |-> k, not_before |-> time, not_after |-> sessions[k].not_after] : k \in ks}

\* refuse_to_strand_the_mesh: n is the last enabled administrator.
LastAdmin(n) ==
    LET enabled_admins ==
            {m \in Name : users[m] # None /\ users[m].admin /\ ~users[m].disabled}
    IN  enabled_admins = {n}

remove_user(n) ==
    /\ Idle
    /\ users[n] # None
    /\ ~LastAdmin(n)
    /\ revoke_sessions(live_sessions_of(users[n].id))
    /\ users' = [users EXCEPT ![n] = None]
    /\ UNCHANGED <<time, disciplined, invites, login, created, spent>>

\* Mutant: the role changes and the sessions stay.
RoleOnly(n, admin) ==
    /\ Idle
    /\ users[n] # None
    /\ users[n].admin # admin
    /\ ~admin => ~LastAdmin(n)
    /\ revoke_sessions({})
    /\ users' = [users EXCEPT ![n].admin = admin]
    /\ UNCHANGED <<time, disciplined, invites, login, created, spent>>

\* A demotion ends the sessions; a promotion leaves them.
set_user_role(n, admin) ==
    /\ Idle
    /\ users[n] # None
    /\ users[n].admin # admin
    /\ ~admin => ~LastAdmin(n)
    /\ revoke_sessions(IF admin THEN {} ELSE live_sessions_of(users[n].id))
    /\ users' = [users EXCEPT ![n].admin = admin]
    /\ UNCHANGED <<time, disciplined, invites, login, created, spent>>

set_user_enabled(n, enabled) ==
    /\ Idle
    /\ users[n] # None
    /\ users[n].disabled = enabled
    /\ ~enabled => ~LastAdmin(n)
    /\ revoke_sessions(IF enabled THEN {} ELSE live_sessions_of(users[n].id))
    /\ users' = [users EXCEPT ![n].disabled = ~enabled]
    /\ UNCHANGED <<time, disciplined, invites, login, created, spent>>

revoke_user_sessions(n) ==
    /\ Idle
    /\ users[n] # None
    /\ revoke_sessions(live_sessions_of(users[n].id))
    /\ UNCHANGED <<time, disciplined, users, invites, login, created, spent>>

----------------------------------------------------------------------------
TimePasses ==
    /\ time < MaxSteps
    /\ time' = time + 1
    /\ UNCHANGED <<disciplined, accounts, login, created, spent>>

DisciplineChanges ==
    /\ disciplined' = ~disciplined
    /\ UNCHANGED <<time, accounts, login, created, spent>>

\* An authority in use: its first administrator exists.
PeopleInit ==
    /\ time = 1
    /\ disciplined = TRUE
    /\ \E n \in Name :
        users = [m \in Name |-> IF m = n
                                THEN [id |-> 1, admin |-> TRUE, disabled |-> FALSE,
                                      totp_last_step |-> 0]
                                ELSE None]
    /\ invites = [n \in Name |-> None]
    /\ sessions = [k \in Key |-> None]
    /\ recalled = {}
    /\ login = None
    /\ created = 1
    /\ spent = [i \in AccountId |-> 0]

PeopleNext ==
    \/ \E n \in Name, flag \in BOOLEAN :
        \/ add_user(n, flag) \/ create_user_invite(n, flag)
        \/ set_user_role(n, flag) \/ set_user_enabled(n, flag)
    \/ \E n \in Name :
        \/ revoke_user_invite(n) \/ begin_user_registration(n)
        \/ remove_user(n) \/ revoke_user_sessions(n)
        \/ \E step \in 0 .. time + 1 : complete_user_registration(n, step)
        \/ \E step \in 0 .. time + 1, k \in Key : authenticate_user(n, k, step)
    \/ EvictInvitesOnly \/ sign_user_session \/ LoginLost
    \/ TimePasses \/ DisciplineChanges

PeopleSpec == PeopleInit /\ [][PeopleNext]_peopleVars

----------------------------------------------------------------------------
(* Properties.                                                             *)

PeopleTypeOK ==
    /\ time \in 1 .. MaxSteps /\ disciplined \in BOOLEAN
    /\ created \in AccountId /\ spent \in [AccountId -> 0 .. MaxSteps + 1]
    /\ \A n \in Name :
        /\ users[n] # None => users[n] \in User /\ users[n].id \in 1 .. created
        /\ invites[n] # None => invites[n] \in Invite
    /\ InviteCount(invites) <= MaxInvites
    /\ \A k \in Key : sessions[k] # None =>
        sessions[k] \in Session /\ sessions[k].account \in 1 .. created
    /\ login # None =>
        login \in Login /\ login.account \in 1 .. created /\ login.at \in 1 .. time

\* A mesh that has an enabled administrator always has one: no sequence of
\* demotions, disablings and removals takes the last away
\* (`refuse_to_strand_the_mesh`).
NotStranded ==
    \E n \in Name : users[n] # None /\ users[n].admin /\ ~users[n].disabled

\* A session still good belongs to an account that exists, is enabled and
\* still has the role the session carries; one that was revoked has its
\* record on file until the certificate's last instant
\* (`revoke_sessions`, `live_sessions_of`).
SessionsBacked ==
    \A k \in Key :
        sessions[k] # None /\ time < sessions[k].not_after =>
            \/ /\ ~sessions[k].revoked
               /\ \E n \in Name :
                    /\ users[n] # None /\ users[n].id = sessions[k].account
                    /\ ~users[n].disabled
                    /\ sessions[k].admin => users[n].admin
            \/ /\ sessions[k].revoked
               /\ \E r \in recalled :
                    /\ r.key = k
                    /\ sessions[k].not_before <= r.not_before
                    /\ sessions[k].not_after <= r.not_after

\* A name is an account or an invitation, never both, so redeeming an
\* invitation can neither replace an account nor make a second one
\* (`check_name_available`, `complete_user_registration`).
NameOnce ==
    \A n \in Name : users[n] = None \/ invites[n] = None

\* The log never forgets a second-factor step an account has used, so no
\* code is good twice: not the one the registration was completed with, not
\* one whose login was lost before its session was issued
\* (`authenticate_user`, `from_registration`).
CodesSpent ==
    \A n \in Name :
        users[n] # None => spent[users[n].id] <= users[n].totp_last_step
=============================================================================
