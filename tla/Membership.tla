----------------------------- MODULE Membership -----------------------------
(***************************************************************************)
(* Who belongs to which organization: the first run, accounts, sessions,   *)
(* organizations with their first invite, further invites, and their       *)
(* acceptance.                                                             *)
(*                                                                         *)
(* The first run, the creation of an invite and its acceptance read in one *)
(* statement and write in later ones, and other requests run in between;   *)
(* they are calls with an action for the read and one for the rest.  The   *)
(* last action is the commit: what a READ COMMITTED transaction wrote      *)
(* before is invisible to the others, and what it conflicts with on a      *)
(* unique index makes it fail.                                             *)
(*                                                                         *)
(* Simplifications: an account has no password (login is a step of its     *)
(* owner); no code writes user_account.is_platform_super_admin or revokes  *)
(* an invite or a session, so these are left out; an e-mail is a value     *)
(* that every handler has already trimmed and lowered.                     *)
(***************************************************************************)
EXTENDS Naturals, Sequences, FiniteSets

CONSTANTS
    Org,          \* organization slugs
    Email,
    SuperEmail,   \* the configured platform super-admin e-mails
    Call,         \* requests under way at once
    MaxUser,      \* bound: rows of user_account
    MaxInvite,    \* bound: rows of org_invite
    NoOrg

ASSUME MembershipConstants ==
    /\ SuperEmail \subseteq Email
    /\ MaxUser \in Nat /\ MaxInvite \in Nat
    /\ NoOrg \notin Org

VARIABLES
    org,        \* the organizations that exist
    user,       \* rows of user_account, in the order of creation
    seat,       \* rows of org_membership
    invite,     \* rows of org_invite, in the order of creation
    session,    \* users with a session that has not expired
    call,       \* call[c]: what the request read so far
    founders,   \* history: users created by a first run
    overlapped  \* history: have two calls ever been under way at once?

vars == <<org, user, seat, invite, session, call, founders, overlapped>>

Role == {"org_admin", "org_member"}
UserRow == [email : Email, home : Org]
Seat == [user : Nat, org : Org, role : Role]
InviteRow == [org : Org, email : Email, role : Role, accepted : BOOLEAN,
              live : BOOLEAN]

Idle == [op |-> "idle"]
CallState ==
    {Idle} \cup [op : {"setup"}, org : Org, email : Email]
           \cup [op : {"invite"}, org : Org, email : Email, role : Role]
           \cup [op : {"accept"}, invite : Nat, user : Nat]

TypeOK ==
    /\ org \subseteq Org
    /\ user \in Seq(UserRow)
    /\ seat \subseteq Seat
    /\ \A s \in seat : s.user \in DOMAIN user
    /\ invite \in Seq(InviteRow)
    /\ session \subseteq DOMAIN user
    /\ call \in [Call -> CallState]
    /\ founders \subseteq DOMAIN user
    /\ overlapped \in BOOLEAN

\* An empty database, or one where an operator has put a platform super-admin
\* who belongs to no organization next to the row's legacy organization.
Init ==
    /\ \/ org = {} /\ user = <<>>
       \/ \E o \in Org, e \in SuperEmail :
            org = {o} /\ user = <<[email |-> e, home |-> o]>>
    /\ seat = {}
    /\ invite = <<>>
    /\ session = {}
    /\ call = [c \in Call |-> Idle]
    /\ founders = {}
    /\ overlapped = FALSE

---------------------------------------------------------------------------
(* Requests.                                                               *)

Begin(c, state) ==
    /\ call[c] = Idle
    /\ call' = [call EXCEPT ![c] = state]
    /\ overlapped' = (overlapped \/ \E d \in Call : call[d] # Idle)

End(c) == call' = [call EXCEPT ![c] = Idle] /\ UNCHANGED overlapped

\* A request dies, is refused by a check on what it read, or conflicts on a
\* unique index: its transaction leaves nothing.
RollBack(c) ==
    /\ call[c] # Idle
    /\ End(c)
    /\ UNCHANGED <<org, user, seat, invite, session, founders>>

---------------------------------------------------------------------------
(* First run.                                                              *)

\* Mutant: the handler does not ask whether the first run is still required.
BeginSetupAnyTime(c, o, e) ==
    /\ Begin(c, [op |-> "setup", org |-> o, email |-> e])
    /\ UNCHANGED <<org, user, seat, invite, session, founders>>

\* complete_setup with the right token: no account exists yet.
BeginSetup(c, o, e) ==
    /\ user = <<>>
    /\ Begin(c, [op |-> "setup", org |-> o, email |-> e])
    /\ UNCHANGED <<org, user, seat, invite, session, founders>>

NewUser(e, o) == Append(user, [email |-> e, home |-> o])
NewSeat(u, o, r) == [user |-> u, org |-> o, role |-> r]

\* Its inserts: a second first run is stopped by the slug only.
CommitSetup(c) ==
    /\ call[c].op = "setup"
    /\ call[c].org \notin org
    /\ Len(user) < MaxUser
    /\ org' = org \cup {call[c].org}
    /\ user' = NewUser(call[c].email, call[c].org)
    /\ seat' = seat \cup {NewSeat(Len(user) + 1, call[c].org, "org_admin")}
    /\ founders' = founders \cup {Len(user) + 1}
    /\ End(c)
    /\ UNCHANGED <<invite, session>>

---------------------------------------------------------------------------
(* Sessions.                                                               *)

AccountsOf(e) == {u \in DOMAIN user : user[u].email = e}

\* find_user_by_email takes one of the rows with the e-mail, whichever.
Login(e) ==
    \E u \in AccountsOf(e) :
        /\ session' = session \cup {u}
        /\ UNCHANGED <<org, user, seat, invite, call, founders, overlapped>>

ExpireSession(u) ==
    /\ u \in session
    /\ session' = session \ {u}
    /\ UNCHANGED <<org, user, seat, invite, call, founders, overlapped>>

\* The active organization of a session is looked up at every request.
ActiveOrg(u) == IF \E s \in seat : s.user = u
                THEN (CHOOSE s \in seat : s.user = u).org ELSE NoOrg

PlatformAdmin(u) == user[u].email \in SuperEmail

---------------------------------------------------------------------------
(* Organizations and invites.                                              *)

NewInvite(o, e, r) ==
    Append(invite, [org |-> o, email |-> e, role |-> r,
                    accepted |-> FALSE, live |-> TRUE])

\* The organization and the invite of its first administrator.
CreateOrg(u, o, e) ==
    /\ u \in session
    /\ PlatformAdmin(u)
    /\ o \notin org
    /\ Len(invite) < MaxInvite
    /\ org' = org \cup {o}
    /\ invite' = NewInvite(o, e, "org_admin")
    /\ UNCHANGED <<user, seat, session, call, founders, overlapped>>

MayInvite(u, o) ==
    PlatformAdmin(u) \/ \E s \in seat : s.user = u /\ s.org = o /\ s.role = "org_admin"

\* create_invite: the organization by its slug, the caller's role there.
BeginInvite(c, u, o, e, r) ==
    /\ u \in session
    /\ o \in org
    /\ MayInvite(u, o)
    /\ Begin(c, [op |-> "invite", org |-> o, email |-> e, role |-> r])
    /\ UNCHANGED <<org, user, seat, invite, session, founders>>

CommitInvite(c) ==
    /\ call[c].op = "invite"
    /\ Len(invite) < MaxInvite
    /\ invite' = NewInvite(call[c].org, call[c].email, call[c].role)
    /\ End(c)
    /\ UNCHANGED <<org, user, seat, session, founders>>

ExpireInvite(i) ==
    /\ invite[i].live
    /\ invite' = [invite EXCEPT ![i].live = FALSE]
    /\ UNCHANGED <<org, user, seat, session, call, founders, overlapped>>

---------------------------------------------------------------------------
(* accept_invite.                                                          *)

Accepting == {c \in Call : call[c].op = "accept"}

Oldest(us) == CHOOSE u \in us : \A v \in us : u <= v

\* The invite row is locked and checked, then the oldest account of its e-mail
\* is locked, if there is one; 0 locks nothing.
BeginAccept(c, i) ==
    LET us == AccountsOf(invite[i].email)
        u == IF us = {} THEN 0 ELSE Oldest(us)
    IN /\ ~ invite[i].accepted
       /\ invite[i].live
       /\ \A d \in Accepting : call[d].invite # i /\ (u # 0 => call[d].user # u)
       /\ Begin(c, [op |-> "accept", invite |-> i, user |-> u])
       /\ UNCHANGED <<org, user, seat, invite, session, founders>>

Spend(i) == invite' = [invite EXCEPT ![i].accepted = TRUE]

\* The account has a seat in this organization: only the invite is marked.  One
\* in another organization is refused (RollBack), and the invite stays open.
AcceptAgain(c) ==
    /\ call[c].op = "accept"
    /\ call[c].user # 0
    /\ \E s \in seat : s.user = call[c].user /\ s.org = invite[call[c].invite].org
    /\ Spend(call[c].invite)
    /\ End(c)
    /\ UNCHANGED <<org, user, seat, session, founders>>

NoAccountHere(e, o) == \A u \in DOMAIN user : user[u].email = e => user[u].home # o

\* Mutant: the legacy organization of the account is not updated.
AttachSeatOnly(c) ==
    /\ call[c].op = "accept"
    /\ call[c].user # 0
    /\ \A s \in seat : s.user # call[c].user
    /\ LET i == invite[call[c].invite] IN
         seat' = seat \cup {NewSeat(call[c].user, i.org, i.role)}
    /\ Spend(call[c].invite)
    /\ End(c)
    /\ UNCHANGED <<org, user, session, founders>>

\* The account has no seat: it moves its home and gets one.
Attach(c) ==
    /\ call[c].op = "accept"
    /\ call[c].user # 0
    /\ \A s \in seat : s.user # call[c].user
    /\ LET i == invite[call[c].invite]
           u == call[c].user
       IN /\ user[u].home # i.org => NoAccountHere(i.email, i.org)
          /\ user' = [user EXCEPT ![u].home = i.org]
          /\ seat' = seat \cup {NewSeat(u, i.org, i.role)}
    /\ Spend(call[c].invite)
    /\ End(c)
    /\ UNCHANGED <<org, session, founders>>

\* Mutant: the invite of a new account is not marked.
JoinUnspent(c) ==
    /\ call[c].op = "accept"
    /\ call[c].user = 0
    /\ Len(user) < MaxUser
    /\ LET i == invite[call[c].invite] IN
         /\ NoAccountHere(i.email, i.org)
         /\ user' = NewUser(i.email, i.org)
         /\ seat' = seat \cup {NewSeat(Len(user) + 1, i.org, i.role)}
    /\ End(c)
    /\ UNCHANGED <<org, invite, session, founders>>

\* There was no account when the call looked: it makes one, with its seat.
Join(c) ==
    /\ call[c].op = "accept"
    /\ call[c].user = 0
    /\ Len(user) < MaxUser
    /\ LET i == invite[call[c].invite] IN
         /\ NoAccountHere(i.email, i.org)
         /\ user' = NewUser(i.email, i.org)
         /\ seat' = seat \cup {NewSeat(Len(user) + 1, i.org, i.role)}
    /\ Spend(call[c].invite)
    /\ End(c)
    /\ UNCHANGED <<org, session, founders>>

---------------------------------------------------------------------------

Next ==
    \/ \E c \in Call, o \in Org, e \in Email : BeginSetup(c, o, e)
    \/ \E e \in Email : Login(e)
    \/ \E u \in DOMAIN user : ExpireSession(u)
    \/ \E u \in DOMAIN user, o \in Org, e \in Email : CreateOrg(u, o, e)
    \/ \E c \in Call, u \in DOMAIN user, o \in Org, e \in Email, r \in Role :
            BeginInvite(c, u, o, e, r)
    \/ \E i \in DOMAIN invite : ExpireInvite(i)
    \/ \E c \in Call, i \in DOMAIN invite : BeginAccept(c, i)
    \/ \E c \in Call : \/ CommitSetup(c) \/ CommitInvite(c) \/ AcceptAgain(c)
                       \/ Attach(c) \/ Join(c) \/ RollBack(c)

Spec == Init /\ [][Next]_vars

---------------------------------------------------------------------------
(* Properties.                                                             *)

\* unique (organization_id, email) (baseline.sql), and, as the first run and
\* accept_invite intend (auth.rs:45-55, orgs.rs:361-372), one first run and one
\* account per e-mail.  No index stands behind the last two: only calls that
\* were under way together can break them, and login then takes either account.
AccountsAreUnique ==
    /\ \A u, v \in DOMAIN user :
        user[u].email = user[v].email /\ (user[u].home = user[v].home \/ ~ overlapped)
            => u = v
    /\ ~ overlapped => Cardinality(founders) <= 1

\* An account has one seat (idx_org_membership_one_org_per_user), and its legacy
\* organization is that of the seat (orgs.rs:413-425), which the handlers that
\* read user_account and those that read org_membership rely on alike.
HomeFollowsSeat ==
    /\ \A s, t \in seat : s.user = t.user => s = t
    /\ \A s \in seat : /\ ActiveOrg(s.user) \in org
                       /\ user[s.user].home = ActiveOrg(s.user)

\* "Hash invite token at rest; single use" (2026-07-18-multi-org-tenancy-design.md
\* :119): seats are kept, a step adds one at most, and then either it is a first
\* run or it spends an open invite for that very organization, e-mail and role.
SeatsAreEarned ==
    [][/\ seat \subseteq seat'
       /\ seat' # seat =>
            \E s \in seat' :
                /\ seat' = seat \cup {s}
                /\ \/ founders' = founders \cup {s.user}
                   \/ \E i \in DOMAIN invite :
                        /\ ~ invite[i].accepted /\ invite'[i].accepted
                        /\ invite[i].org = s.org
                        /\ invite[i].email = user'[s.user].email
                        /\ invite[i].role = s.role]_vars
---------------------------------------------------------------------------
(* The inductive invariant.                                                *)

OrganizationsExist ==
    /\ \A u \in DOMAIN user : user[u].home \in org
    /\ \A i \in DOMAIN invite : invite[i].org \in org
    /\ \A c \in Call : call[c].op = "invite" => call[c].org \in org

\* The locks of accept_invite: the invite stays open and its own, and the
\* account it found has the e-mail of the invite.
AcceptancesHoldLocks ==
    \A c \in Accepting :
        LET i == call[c].invite
            u == call[c].user
        IN /\ i \in DOMAIN invite
           /\ ~ invite[i].accepted
           /\ \A d \in Accepting : call[d].invite = i => d = c
           /\ u # 0 => u \in DOMAIN user /\ user[u].email = invite[i].email

\* As long as no two calls were under way at once, what a call read is so.
SerialCallsSeeAll ==
    ~ overlapped =>
        /\ \A c, d \in Call : call[c] # Idle /\ call[d] # Idle => c = d
        /\ \A c \in Call : call[c].op = "setup" => user = <<>>
        /\ \A c \in Accepting :
                call[c].user = 0 => AccountsOf(invite[call[c].invite].email) = {}

Inductive ==
    /\ TypeOK
    /\ OrganizationsExist
    /\ AcceptancesHoldLocks
    /\ SerialCallsSeeAll
    /\ AccountsAreUnique
    /\ HomeFollowsSeat
=============================================================================
