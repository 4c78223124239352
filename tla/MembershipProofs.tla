-------------------------- MODULE MembershipProofs --------------------------
(***************************************************************************)
(* Proofs about Membership, for any organizations, e-mails and requests.   *)
(* The argument is what a call holds from its read to its commit: an       *)
(* acceptance keeps its invite open and to itself, the slug of a first run *)
(* is new at the commit, and a call that was never under way together with *)
(* another finds everything as it read it.                                 *)
(***************************************************************************)
EXTENDS Membership, FiniteSetTheorems, WellFoundedInduction, TLAPS

\* What the parts say of a state without CHOOSE and Cardinality.
OneSeat == \A s, t \in seat : s.user = t.user => s = t
SeatsAtHome == \A s \in seat : s.org \in org /\ user[s.user].home = s.org

LEMMA HomeAsSeats == HomeFollowsSeat <=> OneSeat /\ SeatsAtHome
<1>1. ASSUME OneSeat, NEW s \in seat
      PROVE  ActiveOrg(s.user) = s.org
    <2> DEFINE t == CHOOSE t \in seat : t.user = s.user
    <2>1. t \in seat /\ t.user = s.user
        OBVIOUS
    <2>2. t = s
        BY <1>1, <2>1 DEF OneSeat
    <2> QED
        BY <2>2 DEF ActiveOrg
<1> QED
    BY <1>1 DEF HomeFollowsSeat, OneSeat, SeatsAtHome

LEMMA Initially == Init => Inductive
<1> SUFFICES ASSUME Init PROVE Inductive
    OBVIOUS
<1>1. /\ Accepting = {}
      /\ \A c \in Call : call[c] = Idle /\ call[c].op = "idle"
    BY DEF Init, Accepting, Idle
<1>2. \/ user = <<>> /\ org = {}
      \/ \E o \in Org, r \in UserRow : org = {o} /\ user = <<r>> /\ r.home = o
    BY MembershipConstants DEF Init, UserRow
<1>3. TypeOK
    <2>1. org \subseteq Org
        BY <1>2
    <2>2. user \in Seq(UserRow)
        <3>1. CASE user = <<>>
            BY <3>1
        <3>2. ASSUME NEW r \in UserRow, user = <<r>>
              PROVE  user \in Seq(UserRow)
            BY <3>2
        <3> QED
            BY <1>2, <3>1, <3>2
    <2>3. invite \in Seq(InviteRow) /\ seat = {} /\ session = {} /\ founders = {}
        BY DEF Init
    <2>4. call \in [Call -> CallState] /\ overlapped \in BOOLEAN
        BY DEF Init, CallState
    <2> QED
        BY <2>1, <2>2, <2>3, <2>4 DEF TypeOK
<1>4. OrganizationsExist
    BY <1>1, <1>2 DEF Init, OrganizationsExist
<1>5. AcceptancesHoldLocks /\ SerialCallsSeeAll
    BY <1>1 DEF AcceptancesHoldLocks, SerialCallsSeeAll
<1>6. AccountsAreUnique
    BY <1>2, FS_EmptySet DEF Init, AccountsAreUnique
<1>7. HomeFollowsSeat
    BY DEF Init, HomeFollowsSeat
<1> QED
    BY <1>3, <1>4, <1>5, <1>6, <1>7 DEF Inductive

\* A call is what its operation says.
LEMMA CallShapes ==
    ASSUME TypeOK, NEW c \in Call
    PROVE  /\ call[c] \in CallState
           /\ call[c].op = "setup" => call[c].org \in Org /\ call[c].email \in Email
           /\ call[c].op = "invite" =>
                call[c].org \in Org /\ call[c].email \in Email /\ call[c].role \in Role
           /\ call[c].op = "accept" => call[c].invite \in Nat /\ call[c].user \in Nat
           /\ call[c].op # "idle" => call[c] # Idle
<1>1. call[c] \in CallState
    BY DEF TypeOK
<1> QED
    BY <1>1 DEF CallState, Idle

\* A request begins: one that is alone must have read what is so.
LEMMA Begins ==
    ASSUME Inductive, NEW c \in Call, NEW state \in CallState, Begin(c, state),
           UNCHANGED <<org, user, seat, invite, session, founders>>,
           state.op = "invite" => state.org \in org,
           state.op = "setup" => user = <<>>,
           state.op = "accept" =>
                /\ state.invite \in DOMAIN invite
                /\ ~ invite[state.invite].accepted
                /\ \A d \in Accepting : call[d].invite # state.invite
                /\ state.user # 0 =>
                        /\ state.user \in DOMAIN user
                        /\ user[state.user].email = invite[state.invite].email
                /\ state.user = 0 => AccountsOf(invite[state.invite].email) = {}
    PROVE  Inductive'
<1> USE DEF Inductive
<1>1. /\ call'[c] = state
      /\ \A d \in Call : d # c => call'[d] = call[d]
      /\ ~ overlapped' => ~ overlapped /\ \A d \in Call : call[d] = Idle
    BY DEF TypeOK, Begin
<1>2. TypeOK'
    BY DEF TypeOK, Begin
<1>3. OrganizationsExist'
    BY <1>1 DEF OrganizationsExist
<1>4. \A d \in Accepting' : d \in Accepting \/ d = c
    BY <1>1 DEF Accepting
<1>5. AcceptancesHoldLocks'
    <2> SUFFICES ASSUME NEW d \in Accepting'
                 PROVE  LET i == call'[d].invite
                            u == call'[d].user
                        IN /\ i \in DOMAIN invite
                           /\ ~ invite[i].accepted
                           /\ \A e \in Accepting' : call'[e].invite = i => e = d
                           /\ u # 0 => u \in DOMAIN user /\ user[u].email = invite[i].email
        BY DEF AcceptancesHoldLocks
    <2>1. CASE d = c
        BY <1>1, <1>4, <2>1 DEF Accepting
    <2>2. CASE d # c
        BY <1>1, <1>4, <2>2 DEF Accepting, AcceptancesHoldLocks
    <2> QED
        BY <2>1, <2>2
<1>6. SerialCallsSeeAll'
    <2> SUFFICES ASSUME ~ overlapped'
                 PROVE  /\ \A d, e \in Call : call'[d] # Idle /\ call'[e] # Idle => d = e
                        /\ \A d \in Call : call'[d].op = "setup" => user = <<>>
                        /\ \A d \in Accepting' : call'[d].user = 0 =>
                                AccountsOf(invite[call'[d].invite].email) = {}
        BY DEF SerialCallsSeeAll, AccountsOf
    <2>1. \A d \in Call : d # c => call'[d] = Idle /\ call'[d].op = "idle"
        BY <1>1 DEF Idle
    <2> QED
        BY <1>1, <2>1 DEF Accepting
<1>7. AccountsAreUnique' /\ HomeFollowsSeat'
    BY <1>1 DEF AccountsAreUnique, HomeFollowsSeat, ActiveOrg
<1> QED
    BY <1>2, <1>3, <1>5, <1>6, <1>7

\* A request ends: the other acceptances keep their locks, whatever it wrote,
\* and if it was the only one, none is left.
LEMMA Ends ==
    ASSUME Inductive, NEW c \in Call, call[c] # Idle, End(c),
           \A i \in DOMAIN invite :
                /\ i \in DOMAIN invite'
                /\ invite'[i].email = invite[i].email
                /\ invite'[i].accepted =>
                        \/ invite[i].accepted
                        \/ call[c].op = "accept" /\ call[c].invite = i,
           \A u \in DOMAIN user : u \in DOMAIN user' /\ user'[u].email = user[u].email
    PROVE  AcceptancesHoldLocks' /\ SerialCallsSeeAll'
<1> USE DEF Inductive
<1>1. /\ call'[c] = Idle /\ call'[c].op = "idle"
      /\ \A d \in Call : d # c => call'[d] = call[d]
    BY DEF TypeOK, End, Idle
<1>2. Accepting' \subseteq Accepting \ {c}
    BY <1>1 DEF Accepting
<1>3. AcceptancesHoldLocks'
    <2> SUFFICES ASSUME NEW d \in Accepting'
                 PROVE  LET i == call'[d].invite
                            u == call'[d].user
                        IN /\ i \in DOMAIN invite'
                           /\ ~ invite'[i].accepted
                           /\ \A e \in Accepting' : call'[e].invite = i => e = d
                           /\ u # 0 => u \in DOMAIN user' /\ user'[u].email = invite'[i].email
        BY DEF AcceptancesHoldLocks
    <2>1. /\ d \in Accepting /\ d # c /\ call'[d] = call[d]
          /\ \A e \in Accepting' : e \in Accepting /\ call'[e] = call[e]
        BY <1>1, <1>2 DEF Accepting
    <2>2. c \in Accepting => call[c].invite # call[d].invite
        BY <2>1 DEF AcceptancesHoldLocks
    <2> QED
        BY <2>1, <2>2 DEF AcceptancesHoldLocks, Accepting
<1>4. SerialCallsSeeAll'
    <2> SUFFICES ASSUME ~ overlapped
                 PROVE  \A d \in Call : call'[d] = Idle /\ call'[d].op = "idle"
        BY DEF SerialCallsSeeAll, End, Accepting
    <2> QED
        BY <1>1 DEF SerialCallsSeeAll, Idle
<1> QED
    BY <1>3, <1>4

LEMMA RollsBack ==
    ASSUME Inductive, NEW c \in Call, RollBack(c)
    PROVE  Inductive'
<1> USE DEF Inductive, RollBack
<1>1. AcceptancesHoldLocks' /\ SerialCallsSeeAll'
    BY Ends
<1>2. call'[c] = Idle /\ call'[c].op = "idle" /\ \A d \in Call : d # c => call'[d] = call[d]
    BY DEF TypeOK, End, Idle
<1>3. TypeOK'
    BY DEF TypeOK, End, CallState
<1>4. OrganizationsExist'
    BY <1>2 DEF OrganizationsExist
<1>5. AccountsAreUnique' /\ HomeFollowsSeat'
    BY DEF End, AccountsAreUnique, HomeFollowsSeat, ActiveOrg
<1> QED
    BY <1>1, <1>3, <1>4, <1>5

\* An invite is appended.
LEMMA NewInvites ==
    ASSUME TypeOK, NEW o \in Org, NEW e \in Email, NEW r \in Role,
           invite' = NewInvite(o, e, r)
    PROVE  /\ invite' \in Seq(InviteRow)
           /\ Len(invite') = Len(invite) + 1
           /\ invite'[Len(invite')].org = o
           /\ \A i \in DOMAIN invite : i \in DOMAIN invite' /\ invite'[i] = invite[i]
           /\ \A i \in DOMAIN invite' : i \in DOMAIN invite \/ i = Len(invite')
<1> DEFINE row == [org |-> o, email |-> e, role |-> r, accepted |-> FALSE, live |-> TRUE]
<1>1. invite \in Seq(InviteRow) /\ invite' = Append(invite, row)
    BY DEF TypeOK, NewInvite
<1>2. row \in InviteRow /\ row.org = o
    BY DEF InviteRow
<1> HIDE DEF row
<1> QED
    BY <1>1, <1>2

LEMMA InvitesCommit ==
    ASSUME Inductive, NEW c \in Call, CommitInvite(c)
    PROVE  Inductive'
<1> USE DEF Inductive, CommitInvite
<1>1. /\ call[c].org \in Org /\ call[c].email \in Email /\ call[c].role \in Role
      /\ call[c] # Idle
    BY CallShapes
<1>2. /\ invite' \in Seq(InviteRow)
      /\ Len(invite') = Len(invite) + 1
      /\ invite'[Len(invite')].org = call[c].org
      /\ \A i \in DOMAIN invite : i \in DOMAIN invite' /\ invite'[i] = invite[i]
      /\ \A i \in DOMAIN invite' : i \in DOMAIN invite \/ i = Len(invite')
    BY <1>1, NewInvites
<1>3. AcceptancesHoldLocks' /\ SerialCallsSeeAll'
    BY <1>1, <1>2, Ends
<1>4. call'[c].op = "idle" /\ \A d \in Call : d # c => call'[d] = call[d]
    BY DEF TypeOK, End, Idle
<1>5. TypeOK'
    BY <1>2 DEF TypeOK, End, CallState
<1>6. OrganizationsExist'
    BY <1>2, <1>4 DEF OrganizationsExist
<1>7. AccountsAreUnique' /\ HomeFollowsSeat'
    BY DEF End, AccountsAreUnique, HomeFollowsSeat, ActiveOrg
<1> QED
    BY <1>3, <1>5, <1>6, <1>7

\* Steps that are no part of a call: the calls see what they saw.
LEMMA OutsideCalls ==
    ASSUME Inductive, TypeOK',
           UNCHANGED <<user, seat, call, founders, overlapped>>,
           org \subseteq org',
           \A i \in DOMAIN invite :
                /\ i \in DOMAIN invite'
                /\ invite'[i].org = invite[i].org
                /\ invite'[i].email = invite[i].email
                /\ invite'[i].accepted = invite[i].accepted,
           \A i \in DOMAIN invite' : i \in DOMAIN invite \/ invite'[i].org \in org'
    PROVE  Inductive'
<1> USE DEF Inductive
<1>1. OrganizationsExist'
    BY DEF OrganizationsExist
<1>2. Accepting' = Accepting
    BY DEF Accepting
<1>3. AcceptancesHoldLocks'
    BY <1>2 DEF AcceptancesHoldLocks
<1>4. SerialCallsSeeAll'
    BY <1>2 DEF SerialCallsSeeAll, AcceptancesHoldLocks, AccountsOf
<1>5. AccountsAreUnique'
    BY DEF AccountsAreUnique
<1>6. HomeFollowsSeat'
    BY DEF HomeFollowsSeat, ActiveOrg
<1> QED
    BY <1>1, <1>3, <1>4, <1>5, <1>6
LEMMA CreatesOrg ==
    ASSUME Inductive, NEW u \in DOMAIN user, NEW o \in Org, NEW e \in Email,
           CreateOrg(u, o, e)
    PROVE  Inductive'
<1> USE DEF Inductive, CreateOrg
<1>1. "org_admin" \in Role
    BY DEF Role
<1>2. /\ invite' \in Seq(InviteRow)
      /\ Len(invite') = Len(invite) + 1
      /\ invite'[Len(invite')].org = o
      /\ \A i \in DOMAIN invite : i \in DOMAIN invite' /\ invite'[i] = invite[i]
      /\ \A i \in DOMAIN invite' : i \in DOMAIN invite \/ i = Len(invite')
    BY <1>1, NewInvites
<1>3. TypeOK'
    BY <1>2 DEF TypeOK
<1> QED
    BY <1>2, <1>3, OutsideCalls

\* One field of an invite changes, and neither whom it is for nor where to.
LEMMA InviteUpdated ==
    ASSUME TypeOK, NEW i \in DOMAIN invite, NEW r \in InviteRow,
           r.org = invite[i].org, r.email = invite[i].email,
           invite' = [invite EXCEPT ![i] = r]
    PROVE  /\ invite' \in Seq(InviteRow)
           /\ DOMAIN invite' = DOMAIN invite
           /\ invite'[i] = r
           /\ \A j \in DOMAIN invite :
                /\ invite'[j].org = invite[j].org
                /\ invite'[j].email = invite[j].email
                /\ j # i => invite'[j] = invite[j]
<1>1. invite \in Seq(InviteRow)
    BY DEF TypeOK
<1> QED
    BY <1>1

LEMMA ExpiresInvite ==
    ASSUME Inductive, NEW i \in DOMAIN invite, ExpireInvite(i)
    PROVE  Inductive'
<1> USE DEF Inductive, ExpireInvite
<1> DEFINE r == [invite[i] EXCEPT !.live = FALSE]
<1>1. invite[i] \in InviteRow
    BY DEF TypeOK
<1>2. /\ r \in InviteRow /\ r.org = invite[i].org /\ r.email = invite[i].email
      /\ r.accepted = invite[i].accepted
    BY <1>1 DEF InviteRow
<1>3. invite' = [invite EXCEPT ![i] = r]
    OBVIOUS
<1> HIDE DEF r
<1>4. /\ invite' \in Seq(InviteRow) /\ DOMAIN invite' = DOMAIN invite /\ invite'[i] = r
      /\ \A j \in DOMAIN invite :
            /\ invite'[j].org = invite[j].org
            /\ invite'[j].email = invite[j].email
            /\ j # i => invite'[j] = invite[j]
    BY <1>2, <1>3, InviteUpdated
<1>5. \A j \in DOMAIN invite : invite'[j].accepted = invite[j].accepted
    BY <1>2, <1>4
<1>6. TypeOK'
    BY <1>4 DEF TypeOK
<1> QED
    BY <1>4, <1>5, <1>6, OutsideCalls

LEMMA SessionsChange ==
    ASSUME Inductive, session' \subseteq DOMAIN user,
           UNCHANGED <<org, user, seat, invite, call, founders, overlapped>>
    PROVE  Inductive'
<1>1. TypeOK'
    BY DEF Inductive, TypeOK
<1> QED
    BY <1>1, OutsideCalls

\* The invite of an acceptance is spent.
LEMMA Spends ==
    ASSUME Inductive, NEW c \in Accepting, Spend(call[c].invite)
    PROVE  LET i == call[c].invite IN
           /\ i \in DOMAIN invite /\ ~ invite[i].accepted /\ invite[i] \in InviteRow
           /\ invite' \in Seq(InviteRow) /\ DOMAIN invite' = DOMAIN invite
           /\ invite'[i].accepted
           /\ \A j \in DOMAIN invite :
                /\ invite'[j].org = invite[j].org
                /\ invite'[j].email = invite[j].email
                /\ j # i => invite'[j] = invite[j]
<1> USE DEF Inductive
<1> DEFINE i == call[c].invite
           r == [invite[i] EXCEPT !.accepted = TRUE]
<1>1. i \in DOMAIN invite /\ ~ invite[i].accepted
    BY DEF AcceptancesHoldLocks
<1>2. invite[i] \in InviteRow
    BY <1>1 DEF TypeOK
<1>3. /\ r \in InviteRow /\ r.org = invite[i].org /\ r.email = invite[i].email
      /\ r.accepted
    BY <1>2 DEF InviteRow
<1>4. invite' = [invite EXCEPT ![i] = r]
    BY DEF Spend
<1> HIDE DEF r, i
<1>5. /\ invite' \in Seq(InviteRow) /\ DOMAIN invite' = DOMAIN invite /\ invite'[i] = r
      /\ \A j \in DOMAIN invite :
            /\ invite'[j].org = invite[j].org
            /\ invite'[j].email = invite[j].email
            /\ j # i => invite'[j] = invite[j]
    BY <1>1, <1>3, <1>4, InviteUpdated
<1> QED
    BY <1>1, <1>2, <1>3, <1>5 DEF i

LEMMA AcceptsAgain ==
    ASSUME Inductive, NEW c \in Call, AcceptAgain(c)
    PROVE  Inductive'
<1> USE DEF Inductive, AcceptAgain
<1>1. c \in Accepting /\ call[c] # Idle
    BY CallShapes DEF Accepting
<1>2. /\ invite' \in Seq(InviteRow) /\ DOMAIN invite' = DOMAIN invite
      /\ \A j \in DOMAIN invite :
            /\ invite'[j].org = invite[j].org
            /\ invite'[j].email = invite[j].email
            /\ j # call[c].invite => invite'[j] = invite[j]
    BY <1>1, Spends
<1>3. AcceptancesHoldLocks' /\ SerialCallsSeeAll'
    <2>1. \A j \in DOMAIN invite : invite'[j].accepted =>
                invite[j].accepted \/ call[c].invite = j
        BY <1>2
    <2> QED
        BY <1>1, <1>2, <2>1, Ends
<1>4. call'[c].op = "idle" /\ \A d \in Call : d # c => call'[d] = call[d]
    BY DEF TypeOK, End, Idle
<1>5. TypeOK'
    BY <1>2 DEF TypeOK, End, CallState
<1>6. OrganizationsExist'
    BY <1>2, <1>4 DEF OrganizationsExist
<1>7. AccountsAreUnique' /\ HomeFollowsSeat'
    BY DEF End, AccountsAreUnique, HomeFollowsSeat, ActiveOrg
<1> QED
    BY <1>3, <1>5, <1>6, <1>7
\* An account is made together with its seat: its organization has no account
\* of this e-mail and, if no calls overlapped, none has.
LEMMA NewAccounts ==
    ASSUME Inductive, NEW o \in Org, NEW e \in Email, NEW r \in Role,
           user' = NewUser(e, o), seat' = seat \cup {NewSeat(Len(user) + 1, o, r)},
           org \subseteq org', o \in org', NoAccountHere(e, o),
           overlapped' = overlapped, ~ overlapped => AccountsOf(e) = {}
    PROVE  /\ user' \in Seq(UserRow) /\ Len(user') = Len(user) + 1
           /\ user'[Len(user')].home = o
           /\ \A u \in DOMAIN user : u \in DOMAIN user' /\ user'[u] = user[u]
           /\ \A u \in DOMAIN user' : u \in DOMAIN user \/ u = Len(user')
           /\ seat' \subseteq Seat /\ \A s \in seat' : s.user \in DOMAIN user'
           /\ \A u, v \in DOMAIN user' :
                user'[u].email = user'[v].email
                  /\ (user'[u].home = user'[v].home \/ ~ overlapped') => u = v
           /\ HomeFollowsSeat'
<1> USE DEF Inductive
<1> DEFINE row == [email |-> e, home |-> o]
           new == NewSeat(Len(user) + 1, o, r)
<1>1. user \in Seq(UserRow) /\ user' = Append(user, row)
    BY DEF TypeOK, NewUser
<1>2. row \in UserRow /\ row.email = e /\ row.home = o
    BY DEF UserRow
<1>3. /\ new \in Seat /\ new.user = Len(user) + 1 /\ new.org = o
      /\ seat' = seat \cup {new}
    BY <1>1 DEF NewSeat, Seat
<1> HIDE DEF row, new
<1>4. /\ user' \in Seq(UserRow) /\ Len(user') = Len(user) + 1
      /\ user'[Len(user')] = row
      /\ \A u \in DOMAIN user : u \in DOMAIN user' /\ user'[u] = user[u]
      /\ \A u \in DOMAIN user' : u \in DOMAIN user \/ u = Len(user')
      /\ Len(user) + 1 \notin DOMAIN user /\ Len(user) + 1 \in DOMAIN user'
    BY <1>1, <1>2
<1>5. seat \subseteq Seat /\ \A s \in seat : s.user \in DOMAIN user
    BY DEF TypeOK
<1>6. seat' \subseteq Seat /\ \A s \in seat' : s.user \in DOMAIN user'
    BY <1>3, <1>4, <1>5
<1>7. \A u, v \in DOMAIN user' :
            user'[u].email = user'[v].email
              /\ (user'[u].home = user'[v].home \/ ~ overlapped') => u = v
    <2> SUFFICES ASSUME NEW u \in DOMAIN user', NEW v \in DOMAIN user',
                        user'[u].email = user'[v].email,
                        user'[u].home = user'[v].home \/ ~ overlapped
                 PROVE  u = v
        OBVIOUS
    <2>1. CASE u \in DOMAIN user /\ v \in DOMAIN user
        BY <1>4, <2>1 DEF AccountsAreUnique
    <2>2. \A w \in DOMAIN user : user[w].email = e =>
                user[w].home # o /\ overlapped
        BY DEF NoAccountHere, AccountsOf
    <2> QED
        BY <1>2, <1>4, <2>1, <2>2
<1>8. OneSeat' /\ SeatsAtHome'
    <2>1. OneSeat /\ SeatsAtHome
        BY HomeAsSeats
    <2>2. OneSeat'
        BY <1>3, <1>4, <1>5, <2>1 DEF OneSeat
    <2>3. SeatsAtHome'
        BY <1>2, <1>3, <1>4, <1>5, <2>1 DEF SeatsAtHome
    <2> QED
        BY <2>2, <2>3
<1>9. HomeFollowsSeat'
    <2>1. (HomeFollowsSeat <=> OneSeat /\ SeatsAtHome)'
        BY HomeAsSeats, PTL
    <2> QED
        BY <1>8, <2>1
<1> QED
    BY <1>2, <1>4, <1>6, <1>7, <1>9

LEMMA SetupsCommit ==
    ASSUME Inductive, NEW c \in Call, CommitSetup(c)
    PROVE  Inductive'
<1> USE DEF Inductive, CommitSetup
<1>1. /\ call[c].org \in Org /\ call[c].email \in Email /\ call[c] # Idle
      /\ "org_admin" \in Role
    BY CallShapes DEF Role
<1>2. NoAccountHere(call[c].email, call[c].org)
    BY DEF NoAccountHere, OrganizationsExist
<1>3. ~ overlapped => user = <<>>
    BY DEF SerialCallsSeeAll
<1>4. ~ overlapped => AccountsOf(call[c].email) = {}
    BY <1>3 DEF AccountsOf
<1>5. /\ user' \in Seq(UserRow) /\ Len(user') = Len(user) + 1
      /\ user'[Len(user')].home = call[c].org
      /\ \A u \in DOMAIN user : u \in DOMAIN user' /\ user'[u] = user[u]
      /\ \A u \in DOMAIN user' : u \in DOMAIN user \/ u = Len(user')
      /\ seat' \subseteq Seat /\ \A s \in seat' : s.user \in DOMAIN user'
      /\ \A u, v \in DOMAIN user' :
            user'[u].email = user'[v].email
              /\ (user'[u].home = user'[v].home \/ ~ overlapped') => u = v
      /\ HomeFollowsSeat'
    BY <1>1, <1>2, <1>4, NewAccounts DEF End
<1>6. AcceptancesHoldLocks' /\ SerialCallsSeeAll'
    BY <1>1, <1>5, Ends
<1>7. call'[c].op = "idle" /\ \A d \in Call : d # c => call'[d] = call[d]
    BY DEF TypeOK, End, Idle
<1>8. Len(user) + 1 \in DOMAIN user'
    BY <1>5 DEF TypeOK
<1>9. TypeOK'
    BY <1>1, <1>5, <1>8 DEF TypeOK, End, CallState
<1>10. OrganizationsExist'
    BY <1>5, <1>7 DEF OrganizationsExist
<1>11. ~ overlapped' => Cardinality(founders') <= 1
    <2> SUFFICES ASSUME ~ overlapped PROVE Cardinality(founders') <= 1
        BY DEF End
    <2>1. founders = {}
        BY <1>3 DEF TypeOK
    <2>2. founders' = {Len(user) + 1}
        BY <2>1
    <2>3. Cardinality({Len(user) + 1}) = 1
        BY FS_Singleton
    <2>4. Cardinality(founders') = 1
        BY <2>2, <2>3, Zenon
    <2> QED
        BY <2>4
<1>12. AccountsAreUnique'
    BY <1>5, <1>11 DEF AccountsAreUnique
<1> QED
    BY <1>5, <1>6, <1>9, <1>10, <1>12

LEMMA Joins ==
    ASSUME Inductive, NEW c \in Call, Join(c)
    PROVE  Inductive'
<1> USE DEF Inductive, Join
<1> DEFINE i == invite[call[c].invite]
<1>1. c \in Accepting /\ call[c] # Idle
    BY CallShapes DEF Accepting
<1>2. /\ call[c].invite \in DOMAIN invite /\ i \in InviteRow
      /\ invite' \in Seq(InviteRow) /\ DOMAIN invite' = DOMAIN invite
      /\ \A j \in DOMAIN invite :
            /\ invite'[j].org = invite[j].org
            /\ invite'[j].email = invite[j].email
            /\ j # call[c].invite => invite'[j] = invite[j]
    BY <1>1, Spends
<1>3. i.org \in Org /\ i.email \in Email /\ i.role \in Role /\ i.org \in org
    BY <1>2 DEF InviteRow, OrganizationsExist
<1>4. ~ overlapped => AccountsOf(i.email) = {}
    BY <1>1 DEF SerialCallsSeeAll
<1>5. /\ user' \in Seq(UserRow) /\ Len(user') = Len(user) + 1
      /\ user'[Len(user')].home = i.org
      /\ \A u \in DOMAIN user : u \in DOMAIN user' /\ user'[u] = user[u]
      /\ \A u \in DOMAIN user' : u \in DOMAIN user \/ u = Len(user')
      /\ seat' \subseteq Seat /\ \A s \in seat' : s.user \in DOMAIN user'
      /\ \A u, v \in DOMAIN user' :
            user'[u].email = user'[v].email
              /\ (user'[u].home = user'[v].home \/ ~ overlapped') => u = v
      /\ HomeFollowsSeat'
    BY <1>3, <1>4, NewAccounts DEF End
<1> HIDE DEF i
<1>6. AcceptancesHoldLocks' /\ SerialCallsSeeAll'
    <2>1. \A j \in DOMAIN invite : invite'[j].accepted =>
                invite[j].accepted \/ call[c].invite = j
        BY <1>2
    <2> QED
        BY <1>1, <1>2, <1>5, <2>1, Ends
<1>7. call'[c].op = "idle" /\ \A d \in Call : d # c => call'[d] = call[d]
    BY DEF TypeOK, End, Idle
<1>8. TypeOK'
    BY <1>2, <1>5 DEF TypeOK, End, CallState
<1>9. OrganizationsExist'
    BY <1>2, <1>3, <1>5, <1>7 DEF OrganizationsExist
<1>10. AccountsAreUnique'
    BY <1>5 DEF AccountsAreUnique, End
<1> QED
    BY <1>5, <1>6, <1>8, <1>9, <1>10

LEMMA AccountUpdated ==
    ASSUME NEW rows \in Seq(UserRow), NEW u \in DOMAIN rows, NEW row \in UserRow
    PROVE  LET new == [rows EXCEPT ![u] = row] IN
           /\ new \in Seq(UserRow) /\ DOMAIN new = DOMAIN rows /\ new[u] = row
           /\ \A v \in DOMAIN rows : v # u => new[v] = rows[v]
    OBVIOUS

LEMMA Attaches ==
    ASSUME Inductive, NEW c \in Call, Attach(c)
    PROVE  Inductive'
<1> USE DEF Inductive, Attach
<1> DEFINE i == invite[call[c].invite]
           u == call[c].user
           row == [user[u] EXCEPT !.home = i.org]
           new == NewSeat(u, i.org, i.role)
<1>1. c \in Accepting /\ call[c] # Idle
    BY CallShapes DEF Accepting
<1>2. /\ call[c].invite \in DOMAIN invite /\ i \in InviteRow
      /\ invite' \in Seq(InviteRow) /\ DOMAIN invite' = DOMAIN invite
      /\ \A j \in DOMAIN invite :
            /\ invite'[j].org = invite[j].org
            /\ invite'[j].email = invite[j].email
            /\ j # call[c].invite => invite'[j] = invite[j]
    BY <1>1, Spends
<1>3. i.org \in Org /\ i.email \in Email /\ i.role \in Role /\ i.org \in org
    BY <1>2 DEF InviteRow, OrganizationsExist
<1>4. u \in DOMAIN user /\ user[u].email = i.email
    BY <1>1 DEF AcceptancesHoldLocks
<1>5. user \in Seq(UserRow) /\ user[u] \in UserRow
    BY <1>4 DEF TypeOK
<1>6. /\ row \in UserRow /\ row.email = i.email /\ row.home = i.org
      /\ user' = [user EXCEPT ![u] = row]
    BY <1>3, <1>4, <1>5 DEF UserRow
<1>7. /\ new \in Seat /\ new.user = u /\ new.org = i.org
      /\ seat' = seat \cup {new}
    BY <1>3, <1>4, <1>5 DEF NewSeat, Seat
<1>8. /\ user[u].home # i.org => NoAccountHere(i.email, i.org)
      /\ \A s \in seat : s.user # u
    OBVIOUS
<1> HIDE DEF row, new, u, i
<1>9. /\ user' \in Seq(UserRow) /\ DOMAIN user' = DOMAIN user /\ user'[u] = row
      /\ \A v \in DOMAIN user : v # u => user'[v] = user[v]
    <2> HIDE DEF Attach, Inductive
    <2> QED
        BY <1>4, <1>5, <1>6, AccountUpdated
<1>10. \A v \in DOMAIN user : user'[v].email = user[v].email
    BY <1>4, <1>6, <1>9
<1>11. AcceptancesHoldLocks' /\ SerialCallsSeeAll'
    <2>1. \A j \in DOMAIN invite : invite'[j].accepted =>
                invite[j].accepted \/ call[c].invite = j
        BY <1>2
    <2> QED
        BY <1>1, <1>2, <1>9, <1>10, <2>1, Ends
<1>12. call'[c].op = "idle" /\ \A d \in Call : d # c => call'[d] = call[d]
    BY DEF TypeOK, End, Idle
<1>13. seat' \subseteq Seat /\ \A s \in seat' : s.user \in DOMAIN user'
    BY <1>4, <1>7, <1>9 DEF TypeOK
<1>14. TypeOK'
    BY <1>2, <1>9, <1>13 DEF TypeOK, End, CallState
<1>15. OrganizationsExist'
    BY <1>2, <1>3, <1>6, <1>9, <1>12 DEF OrganizationsExist
<1>16. AccountsAreUnique'
    <2> SUFFICES ASSUME NEW v \in DOMAIN user, NEW w \in DOMAIN user,
                        user'[v].email = user'[w].email,
                        user'[v].home = user'[w].home \/ ~ overlapped
                 PROVE  v = w
        BY <1>9 DEF AccountsAreUnique, End
    <2>1. user[v].email = user[w].email
        BY <1>10
    <2>2. CASE ~ overlapped
        BY <2>1, <2>2 DEF AccountsAreUnique
    <2>3. CASE v # u /\ w # u
        BY <1>9, <2>1, <2>2, <2>3 DEF AccountsAreUnique
    <2>4. ASSUME NEW x \in DOMAIN user, x # u, user[x].email = user[u].email,
                 user'[x].home = user'[u].home
          PROVE  FALSE
        <3>1. user[x].home = i.org /\ user[x].email = i.email
            BY <1>4, <1>6, <1>9, <2>4
        <3>2. user[u].home = i.org
            BY <1>8, <3>1, <2>4 DEF NoAccountHere
        <3> QED
            BY <1>4, <3>1, <3>2, <2>4 DEF AccountsAreUnique
    <2> QED
        BY <1>4, <2>1, <2>2, <2>3, <2>4
<1>17. OneSeat' /\ SeatsAtHome'
    <2>1. OneSeat /\ SeatsAtHome
        BY HomeAsSeats
    <2>2. OneSeat'
        BY <1>7, <1>8, <2>1 DEF OneSeat
    <2>3. \A s \in seat : s.user \in DOMAIN user
        BY DEF TypeOK
    <2>4. SeatsAtHome'
        BY <1>3, <1>6, <1>7, <1>8, <1>9, <2>1, <2>3 DEF SeatsAtHome
    <2> QED
        BY <2>2, <2>4
<1>18. HomeFollowsSeat'
    <2>1. (HomeFollowsSeat <=> OneSeat /\ SeatsAtHome)'
        BY HomeAsSeats, PTL
    <2> QED
        BY <1>17, <2>1
<1> QED
    BY <1>11, <1>14, <1>15, <1>16, <1>18

\* The order of the numbers of rows.
Less == {p \in Nat \X Nat : p[1] < p[2]}

LEMMA LeastNatural ==
    ASSUME NEW S \in SUBSET Nat, S # {}
    PROVE  \E v \in S : \A w \in S : v <= w
<1>1. IsWellFoundedOn(Less, Nat)
    BY NatLessThanWellFounded DEF OpToRel, Less
<1>2. PICK v \in S : \A w \in S : <<w, v>> \notin Less
    BY <1>1, WFMin
<1>3. \A w \in S : ~ (w < v)
    BY <1>2 DEF Less
<1> QED
    BY <1>3

LEMMA Steps == Inductive /\ [Next]_vars => Inductive'
<1> SUFFICES ASSUME Inductive, [Next]_vars PROVE Inductive'
    OBVIOUS
<1>1. ASSUME NEW c \in Call, NEW o \in Org, NEW e \in Email, BeginSetup(c, o, e)
      PROVE  Inductive'
    <2> DEFINE state == [op |-> "setup", org |-> o, email |-> e]
    <2>1. state \in CallState /\ state.op = "setup"
        BY DEF CallState
    <2>2. Begin(c, state) /\ user = <<>>
        BY <1>1 DEF BeginSetup
    <2> HIDE DEF state
    <2> QED
        BY <1>1, <2>1, <2>2, Begins DEF BeginSetup
<1>2. ASSUME NEW e \in Email, Login(e)
      PROVE  Inductive'
    <2>1. session' \subseteq DOMAIN user
        BY <1>2 DEF Login, AccountsOf, Inductive, TypeOK
    <2> QED
        BY <1>2, <2>1, SessionsChange DEF Login
<1>3. ASSUME NEW u \in DOMAIN user, ExpireSession(u)
      PROVE  Inductive'
    <2>1. session' \subseteq DOMAIN user
        BY <1>3 DEF ExpireSession, Inductive, TypeOK
    <2> QED
        BY <1>3, <2>1, SessionsChange DEF ExpireSession
<1>4. ASSUME NEW u \in DOMAIN user, NEW o \in Org, NEW e \in Email, CreateOrg(u, o, e)
      PROVE  Inductive'
    BY <1>4, CreatesOrg
<1>5. ASSUME NEW c \in Call, NEW u \in DOMAIN user, NEW o \in Org, NEW e \in Email,
             NEW r \in Role, BeginInvite(c, u, o, e, r)
      PROVE  Inductive'
    <2> DEFINE state == [op |-> "invite", org |-> o, email |-> e, role |-> r]
    <2>1. state \in CallState /\ state.op = "invite" /\ state.org = o
        BY DEF CallState
    <2>2. Begin(c, state) /\ o \in org
        BY <1>5 DEF BeginInvite
    <2> HIDE DEF state
    <2> QED
        BY <1>5, <2>1, <2>2, Begins DEF BeginInvite
<1>6. ASSUME NEW i \in DOMAIN invite, ExpireInvite(i)
      PROVE  Inductive'
    BY <1>6, ExpiresInvite
<1>7. ASSUME NEW c \in Call, NEW i \in DOMAIN invite, BeginAccept(c, i)
      PROVE  Inductive'
    <2> DEFINE us == AccountsOf(invite[i].email)
               u == IF us = {} THEN 0 ELSE Oldest(us)
               state == [op |-> "accept", invite |-> i, user |-> u]
    <2>1. us \subseteq Nat \ {0} /\ \A v \in us : v \in DOMAIN user /\ user[v].email = invite[i].email
        BY DEF AccountsOf, Inductive, TypeOK
    <2>2. us # {} => Oldest(us) \in us
        <3> SUFFICES ASSUME us # {} PROVE \E v \in us : \A w \in us : v <= w
            BY DEF Oldest
        <3>1. us \in SUBSET Nat
            BY <2>1
        <3> QED
            BY <3>1, LeastNatural
    <2>3. /\ u \in Nat
          /\ u # 0 => u \in DOMAIN user /\ user[u].email = invite[i].email
          /\ u = 0 => AccountsOf(invite[i].email) = {}
        BY <2>1, <2>2
    <2>4. /\ Begin(c, state) /\ ~ invite[i].accepted
          /\ \A d \in Accepting : call[d].invite # i
        BY <1>7 DEF BeginAccept
    <2>5. i \in Nat
        BY DEF Inductive, TypeOK
    <2> HIDE DEF us, u
    <2>6. state \in CallState /\ state.op = "accept" /\ state.invite = i /\ state.user = u
        BY <2>3, <2>5 DEF CallState
    <2> HIDE DEF state
    <2> QED
        BY <1>7, <2>3, <2>4, <2>6, Begins DEF BeginAccept
<1>8. ASSUME NEW c \in Call,
             \/ CommitSetup(c) \/ CommitInvite(c) \/ AcceptAgain(c)
             \/ Attach(c) \/ Join(c) \/ RollBack(c)
      PROVE  Inductive'
    BY <1>8, SetupsCommit, InvitesCommit, AcceptsAgain, Attaches, Joins, RollsBack
<1>9. CASE UNCHANGED vars
    <2>1. TypeOK'
        BY <1>9 DEF vars, Inductive, TypeOK
    <2> QED
        BY <1>9, <2>1, OutsideCalls DEF vars
<1> QED
    BY <1>1, <1>2, <1>3, <1>4, <1>5, <1>6, <1>7, <1>8, <1>9 DEF Next

---------------------------------------------------------------------------

\* Every part of Inductive is preserved, for any number of requests at once.
THEOREM MembershipInvariance == Spec => []Inductive
<1> QED
    BY Initially, Steps, PTL DEF Spec

\* Rows keep their types, and seats and sessions belong to accounts.
THEOREM MembershipTyping == Spec => []TypeOK
<1>1. Inductive => TypeOK
    BY DEF Inductive
<1> QED
    BY <1>1, MembershipInvariance, PTL

\* An organization has one account of an e-mail (first run, accept_invite); as
\* long as no two requests overlapped there is one account of an e-mail and one
\* first run in all.
THEOREM UniqueAccounts == Spec => []AccountsAreUnique
<1>1. Inductive => AccountsAreUnique
    BY DEF Inductive
<1> QED
    BY <1>1, MembershipInvariance, PTL

\* An account has one seat, in the organization its own row names (accept_invite
\* moves both).
THEOREM OneHome == Spec => []HomeFollowsSeat
<1>1. Inductive => HomeFollowsSeat
    BY DEF Inductive
<1> QED
    BY <1>1, MembershipInvariance, PTL

\* No step gives a seat but a first run and the acceptance that spends an open
\* invite for just that seat.
THEOREM EarnedSeats == Spec => SeatsAreEarned
<1> DEFINE Earned ==
        /\ seat \subseteq seat'
        /\ seat' # seat =>
             \E s \in seat' :
                /\ seat' = seat \cup {s}
                /\ \/ founders' = founders \cup {s.user}
                   \/ \E i \in DOMAIN invite :
                        /\ ~ invite[i].accepted /\ invite'[i].accepted
                        /\ invite[i].org = s.org
                        /\ invite[i].email = user'[s.user].email
                        /\ invite[i].role = s.role
<1>1. ASSUME Inductive, [Next]_vars PROVE Earned
    <2>1. ASSUME NEW c \in Call, CommitSetup(c) PROVE Earned
        <3> DEFINE s == NewSeat(Len(user) + 1, call[c].org, "org_admin")
        <3>1. seat' = seat \cup {s} /\ s.user = Len(user) + 1 /\ founders' = founders \cup {s.user}
            BY <2>1 DEF CommitSetup, NewSeat
        <3> HIDE DEF s
        <3> QED
            BY <3>1
    <2>2. ASSUME NEW c \in Call, NEW u \in Nat, Spend(call[c].invite), c \in Accepting,
                 LET i == invite[call[c].invite] IN
                    /\ seat' = seat \cup {NewSeat(u, i.org, i.role)}
                    /\ user'[u].email = i.email
          PROVE  Earned
        <3> DEFINE i == invite[call[c].invite]
                   s == NewSeat(u, i.org, i.role)
        <3>1. seat' = seat \cup {s} /\ user'[u].email = i.email
            BY <2>2
        <3>2. s.user = u /\ s.org = i.org /\ s.role = i.role
            BY DEF NewSeat
        <3>3. call[c].invite \in DOMAIN invite /\ ~ i.accepted /\ invite'[call[c].invite].accepted
            BY <1>1, <2>2, Spends
        <3> HIDE DEF s
        <3> QED
            BY <3>1, <3>2, <3>3
    <2>3. ASSUME NEW c \in Call, Join(c) PROVE Earned
        <3>1. c \in Accepting /\ Len(user) + 1 \in Nat
            BY <1>1, <2>3 DEF Join, Accepting, Inductive, TypeOK
        <3>2. user'[Len(user) + 1].email = invite[call[c].invite].email
            BY <1>1, <2>3 DEF Join, NewUser, Inductive, TypeOK
        <3> QED
            BY <2>2, <2>3, <3>1, <3>2 DEF Join
    <2>4. ASSUME NEW c \in Call, Attach(c) PROVE Earned
        <3>1. c \in Accepting /\ call[c].user \in Nat
            BY <1>1, <2>4, CallShapes DEF Attach, Accepting, Inductive
        <3>2. /\ call[c].user \in DOMAIN user
              /\ user[call[c].user].email = invite[call[c].invite].email
            BY <1>1, <2>4, <3>1 DEF Attach, Inductive, AcceptancesHoldLocks
        <3>3. user'[call[c].user].email = user[call[c].user].email
            <4>1. user[call[c].user] \in UserRow
                BY <1>1, <3>2 DEF Inductive, TypeOK
            <4> QED
                BY <2>4, <3>2, <4>1 DEF Attach, UserRow
        <3> QED
            BY <2>2, <2>4, <3>1, <3>2, <3>3 DEF Attach
    <2>5. ASSUME UNCHANGED seat PROVE Earned
        BY <2>5
    <2> QED
        BY <1>1, <2>1, <2>3, <2>4, <2>5
        DEF Next, vars, BeginSetup, Login, ExpireSession, CreateOrg, BeginInvite,
            ExpireInvite, BeginAccept, CommitInvite, AcceptAgain, RollBack
<1>2. Inductive /\ [Next]_vars => [Earned]_vars
    BY <1>1
<1> QED
    BY <1>2, MembershipInvariance, PTL DEF Spec, SeatsAreEarned
=============================================================================
