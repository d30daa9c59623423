---------------------------- MODULE GroupMembers ----------------------------
(***************************************************************************)
(* The members of one group library (services/groups.py) and the           *)
(* invitations to it (services/invitations.py).                            *)
(*                                                                         *)
(* A request works in two halves.  First it reads, and decides whether its *)
(* caller may: Ask, FindOutstanding, Open.  Then it takes the library's    *)
(* row lock, or claims the invitation by a conditional UPDATE, and writes  *)
(* and commits as one step, because what is read under the lock cannot     *)
(* change before the commit.  The browser's routes keep the group's row    *)
(* from the first half: reading it again in the second answers from the    *)
(* identity map, so OwnerRead is the owner of then.  The API and the       *)
(* command line hold no such row.                                          *)
(***************************************************************************)
EXTENDS Integers

CONSTANTS
    User,        \* the accounts, each with the address it was invited at
    Verified,    \* those whose address is confirmed
    Request,     \* the requests the server may be running at one time
    Offer,       \* the ids of invitations
    Nothing,     \* no membership, no invitation, no change
    MaxVersion,  \* bound on the version of the library
    MaxTokens    \* bound on the tokens mailed

ASSUME GroupAssumption ==
    /\ Verified \subseteq User
    /\ {MaxVersion, MaxTokens} \subseteq Nat
    /\ Nothing \notin Offer \cup User

VARIABLES
    group,       \* groups, group_members and the version of the library
    offers,      \* invitations
    tokens,      \* tokens mailed so far
    req,         \* the request each is serving, and what it has read
    overtaken    \* history: a browser's request was carried out by an owner
                 \* it had read before the group was handed on

vars == <<group, offers, tokens, req, overtaken>>

Role == {"member", "admin"}
Permission == {"inherit", "read"}
Answered == {"accepted", "declined", "revoked"}

Terms == [role : Role, permission : Permission]
Member == [role |-> "member", permission |-> "inherit"]

ASSUME TermsAssumption == Nothing \notin Terms

\* _check_permission: an administrator is not restricted.
Consistent(m) == m.role = "admin" => m.permission = "inherit"

\* A row, and of its token what its inviter stated (mailed), and whether
\* they wrote over terms they had not seen (crossed): both are history.
Row == [status : {"none", "pending", "swept"} \cup Answered, to : User, terms : Terms,
        token : Nat, live : BOOLEAN, mailed : Terms, crossed : BOOLEAN]

\* What a request is about, and what it has read: the owner if it holds the
\* row, an invitation, and the terms it had.
Change == [op : {"add", "set", "remove", "transfer"}, actor : User \cup {Nothing},
           subject : User, owner : User \cup {Nothing}]
Invitation == [op : {"invite", "reissue"}, subject : User, offer : Offer \cup {Nothing},
               loaded : Terms]
Answer == [op : {"accept", "decline", "revoke"}, actor : User, offer : Offer,
           token : Nat, terms : Terms]
Idle == [op |-> "idle"]

IsMember(u) == group.members[u] # Nothing
IsAdmin(u) == IsMember(u) /\ group.members[u].role = "admin"
Admins == {u \in User : IsAdmin(u)}

TypeOK ==
    /\ group \in [version : 0..MaxVersion, owner : User,
                  members : [User -> Terms \cup {Nothing}]]
    /\ offers \in [Offer -> Row]
    /\ tokens \in 0..MaxTokens
    /\ req \in [Request -> Change \cup Invitation \cup Answer \cup {Idle}]
    /\ overtaken \in BOOLEAN

\* create_group: its owner is its first administrator.
Init ==
    \E u \in User :
        /\ group = [version |-> 0, owner |-> u,
                    members |-> [v \in User |->
                        IF v = u THEN [role |-> "admin", permission |-> "inherit"] ELSE Nothing]]
        /\ offers = [i \in Offer |-> [status |-> "none", to |-> u, terms |-> Member,
                                      token |-> 0, live |-> FALSE,
                                      mailed |-> Member, crossed |-> FALSE]]
        /\ tokens = 0
        /\ req = [r \in Request |-> Idle]
        /\ overtaken = FALSE

\* The answer is sent, and the session goes with what it had read.
Done(r) == req' = [req EXCEPT ![r] = Idle]

\* A check fails, or the client has gone.
Refuse(r) ==
    /\ req[r] # Idle
    /\ Done(r)
    /\ UNCHANGED <<group, offers, tokens, overtaken>>

-----------------------------------------------------------------------------
(* Members *)

\* The group's own policy leaves editing to every member and the key may
\* write, so that what holds a member back is the member's permission.
MayWrite(u) == IsMember(u) /\ (IsAdmin(u) \/ group.members[u].permission # "read")

\* Who may ask: require_admin, require_owner, and anybody to leave.  The
\* browser has no form that adds a member outright.
AllowedInBrowser(op, actor, subject) ==
    \/ op = "set" /\ IsAdmin(actor)
    \/ op = "remove" /\ IsMember(actor) /\ (actor = subject \/ IsAdmin(actor))
    \/ op = "transfer" /\ group.owner = actor
AllowedByApi(op, actor, subject) ==
    MayWrite(actor) /\ (IsAdmin(actor) \/ (op = "remove" /\ actor = subject))

\* A request is authorized, before the lock.  The command line asks nobody,
\* and has no way to hand a group on.
Ask(r) ==
    /\ req[r] = Idle
    /\ \E op \in {"add", "set", "remove", "transfer"}, actor \in User \cup {Nothing},
          subject \in User, owner \in {Nothing, group.owner} :
        /\ \/ actor = Nothing /\ owner = Nothing /\ op # "transfer"
           \/ actor # Nothing /\ owner = Nothing /\ AllowedByApi(op, actor, subject)
           \/ actor # Nothing /\ owner # Nothing /\ AllowedInBrowser(op, actor, subject)
        /\ req' = [req EXCEPT ![r] = [op |-> op, actor |-> actor, subject |-> subject,
                                      owner |-> owner]]
    /\ UNCHANGED <<group, offers, tokens, overtaken>>

\* The owner as update_group, set_role and remove_member see it.
OwnerRead(r) == IF req[r].owner = Nothing THEN group.owner ELSE req[r].owner

\* lock_library, the change, bump_library_version and the commit.
Commit(r, members, owner) ==
    /\ group.version < MaxVersion
    /\ group' = [version |-> group.version + 1, owner |-> owner, members |-> members]
    /\ overtaken' = (overtaken \/ OwnerRead(r) # group.owner)
    /\ Done(r)
    /\ UNCHANGED <<offers, tokens>>

\* add_member
AddMember(r) ==
    LET s == req[r].subject
    IN  /\ req[r].op = "add"
        /\ ~IsMember(s)
        /\ \E m \in Terms :
            /\ Consistent(m)
            /\ Commit(r, [group.members EXCEPT ![s] = m], group.owner)

\* set_role: the owner stays an administrator, and promoting clears what the
\* member was held to.
WithRole(m, role) ==
    IF role = "admin" THEN [role |-> role, permission |-> "inherit"] ELSE [m EXCEPT !.role = role]

\* set_role, then set_permission: either of them, or both.
SetMember(r) ==
    LET s == req[r].subject
    IN  /\ req[r].op = "set"
        /\ IsMember(s)
        /\ \E role \in Role \cup {Nothing}, permission \in Permission \cup {Nothing} :
            LET m == group.members[s]
                n == IF role = Nothing THEN m ELSE WithRole(m, role)
                o == IF permission = Nothing THEN n ELSE [n EXCEPT !.permission = permission]
            IN  /\ {role, permission} # {Nothing}
                /\ role = "member" => OwnerRead(r) # s
                /\ permission # Nothing => Consistent(o)
                /\ Commit(r, [group.members EXCEPT ![s] = o], group.owner)

\* remove_member
RemoveMember(r) ==
    LET s == req[r].subject
    IN  /\ req[r].op = "remove"
        /\ OwnerRead(r) # s
        /\ IsMember(s)
        /\ Commit(r, [group.members EXCEPT ![s] = Nothing], group.owner)

\* Mutant of Transfer: the successor keeps the role they had.
TransferUnpromoted(r) ==
    LET s == req[r].subject
    IN  /\ req[r].op = "transfer"
        /\ OwnerRead(r) = req[r].actor
        /\ IsMember(s)
        /\ Commit(r, group.members, s)

\* update_group with an owner, and _transfer: only the owner, only to a
\* member.  Naming the owner there is already changes the version alone.
Transfer(r) ==
    LET s == req[r].subject
    IN  /\ req[r].op = "transfer"
        /\ \/ /\ s # OwnerRead(r)
              /\ OwnerRead(r) = req[r].actor
              /\ IsMember(s)
              /\ Commit(r, [group.members EXCEPT ![s].role = "admin"], s)
           \/ /\ s = OwnerRead(r)
              /\ Commit(r, group.members, group.owner)

-----------------------------------------------------------------------------
(* Invitations *)

\* An invitation that can be answered: the WHERE of _answer.
Answerable(i, token) ==
    /\ offers[i].status = "pending"
    /\ offers[i].live
    /\ offers[i].token = token

\* invite_with_token: the inviter is an administrator, and the account the
\* address belongs to, if it is confirmed, is no member yet.
Invite(r) ==
    /\ req[r] = Idle
    /\ \E to \in User :
        /\ Admins # {}
        /\ to \in Verified => ~IsMember(to)
        /\ req' = [req EXCEPT ![r] = [op |-> "invite", subject |-> to, offer |-> Nothing,
                                      loaded |-> Member]]
    /\ UNCHANGED <<group, offers, tokens, overtaken>>

Outstanding(to) == {i \in Offer : offers[i].status = "pending" /\ offers[i].to = to}

\* The outstanding invitation is looked for, and loaded without a lock.
FindOutstanding(r) ==
    LET found == Outstanding(req[r].subject)
    IN  /\ req[r].op = "invite"
        /\ \/ /\ found = {}
              /\ req' = [req EXCEPT ![r].op = "reissue"]
           \/ \E i \in found :
                req' = [req EXCEPT ![r].op = "reissue", ![r].offer = i,
                                   ![r].loaded = offers[i].terms]
        /\ UNCHANGED <<group, offers, tokens, overtaken>>

\* The role and the permission that assigning m to a loaded row leaves in it:
\* the UPDATE carries what differs from what was loaded, the token and the
\* expiry always, these two only if they do.
Assigned(now, loaded, m) ==
    [role |-> IF m.role = loaded.role THEN now.role ELSE m.role,
     permission |-> IF m.permission = loaded.permission THEN now.permission ELSE m.permission]

\* A new row, or a new token and new terms for the one that was found,
\* whatever has become of it since: the UPDATE names the row only by its id.
Issue(r) ==
    LET to == req[r].subject
        old == offers[req[r].offer]
    IN  /\ req[r].op = "reissue"
        /\ tokens < MaxTokens
        /\ tokens' = tokens + 1
        /\ \E m \in Terms :
            /\ Consistent(m)
            /\ \/ /\ req[r].offer = Nothing
                  /\ \E i \in Offer :
                      /\ offers[i].status = "none"
                      /\ offers' = [offers EXCEPT ![i] =
                            [status |-> "pending", to |-> to, terms |-> m,
                             token |-> tokens + 1, live |-> TRUE,
                             mailed |-> m, crossed |-> FALSE]]
               \/ /\ req[r].offer # Nothing
                  /\ old.status # "swept"
                  /\ offers' = [offers EXCEPT ![req[r].offer] =
                        [old EXCEPT !.terms = Assigned(old.terms, req[r].loaded, m),
                                    !.token = tokens + 1, !.live = TRUE, !.mailed = m,
                                    !.crossed = (old.terms # req[r].loaded)]]
        /\ Done(r)
        /\ UNCHANGED <<group, overtaken>>

\* The row is read by the person it is addressed to, by the mailed token or
\* by its id, or by an administrator who will withdraw it.
Open(r) ==
    /\ req[r] = Idle
    /\ \E op \in {"accept", "decline", "revoke"}, i \in Offer, actor \in User :
        /\ offers[i].status = "pending"
        /\ IF op = "revoke" THEN IsAdmin(actor) ELSE actor = offers[i].to /\ offers[i].live
        /\ req' = [req EXCEPT ![r] = [op |-> op, actor |-> actor, offer |-> i,
                                      token |-> offers[i].token, terms |-> offers[i].terms]]
    /\ UNCHANGED <<group, offers, tokens, overtaken>>

\* Mutant of Claim: any invitation that still waits, as `revoke` does.
ClaimPending(r, status) ==
    /\ offers[req[r].offer].status = "pending"
    /\ offers' = [offers EXCEPT ![req[r].offer].status = status]

\* _answer: revoked or reissued meanwhile, it is not answered.
Claim(r, status) ==
    /\ Answerable(req[r].offer, req[r].token)
    /\ offers' = [offers EXCEPT ![req[r].offer].status = status]

\* accept: under the library's lock.  Somebody who is a member already stays
\* what they are.
Accept(r) ==
    LET u == req[r].actor
    IN  /\ req[r].op = "accept"
        /\ Claim(r, "accepted")
        /\ \/ IsMember(u) /\ UNCHANGED group
           \/ /\ ~IsMember(u)
              /\ group.version < MaxVersion
              /\ group' = [group EXCEPT !.version = @ + 1, !.members[u] = req[r].terms]
        /\ Done(r)
        /\ UNCHANGED <<tokens, overtaken>>

\* decline
Decline(r) ==
    /\ req[r].op = "decline"
    /\ Claim(r, "declined")
    /\ Done(r)
    /\ UNCHANGED <<group, tokens, overtaken>>

\* revoke: whatever its token is by now.
Revoke(r) ==
    /\ req[r].op = "revoke"
    /\ offers[req[r].offer].status = "pending"
    /\ offers' = [offers EXCEPT ![req[r].offer].status = "revoked"]
    /\ Done(r)
    /\ UNCHANGED <<group, tokens, overtaken>>

\* Fourteen days pass.
Lapse(i) ==
    /\ offers[i].status = "pending"
    /\ offers[i].live
    /\ offers' = [offers EXCEPT ![i].live = FALSE]
    /\ UNCHANGED <<group, tokens, req, overtaken>>

\* The retention sweep removes what expired without an answer.
Sweep(i) ==
    /\ offers[i].status = "pending"
    /\ ~offers[i].live
    /\ offers' = [offers EXCEPT ![i].status = "swept"]
    /\ UNCHANGED <<group, tokens, req, overtaken>>

Next ==
    \/ \E r \in Request :
        \/ Ask(r) \/ Refuse(r)
        \/ AddMember(r) \/ SetMember(r) \/ RemoveMember(r) \/ Transfer(r)
        \/ Invite(r) \/ FindOutstanding(r) \/ Issue(r)
        \/ Open(r) \/ Accept(r) \/ Decline(r) \/ Revoke(r)
    \/ \E i \in Offer : Lapse(i) \/ Sweep(i)

Spec == Init /\ [][Next]_vars

-----------------------------------------------------------------------------
(* Safety *)

\* "The owner's own role is fixed at admin", and the owner cannot be removed
\* (set_role, remove_member), through every interleaving of handing the group
\* on with changing its members, as long as no browser's request was carried
\* out by the owner it read before the lock.
OwnerAdministers == overtaken \/ IsAdmin(group.owner)

\* The same without exception.
OwnerAlwaysAdministers == IsAdmin(group.owner)

\* Whoever becomes a member was added outright, or takes up an invitation
\* that is theirs, is open in that moment with the link they opened, and is
\* used up by it: none that was withdrawn, reissued, expired or answered by
\* another request of theirs (accept and _answer).  They become what the
\* administrator stated who had that link mailed, unless that administrator
\* wrote over terms another had written since the row was loaded: then they
\* become what the two left in it.
JoinsAsOffered ==
    [][\A u \in User :
        ~IsMember(u) /\ group'.members[u] # Nothing =>
            \E r \in Request :
                \/ req[r].op = "add" /\ req[r].subject = u
                \/ LET i == req[r].offer
                   IN  /\ req[r].op = "accept"
                       /\ Answerable(i, req[r].token)
                       /\ offers[i].to = u
                       /\ offers[i].terms = group'.members[u]
                       /\ ~offers[i].crossed => offers[i].mailed = group'.members[u]
                       /\ offers'[i].status = "accepted"]_vars

\* "becoming a member at the role it offered" (accept), without exception.
\* Two administrators who send the same reminder at once do not keep it: the
\* link of the second can carry the role of the first.
JoinsAsMailed ==
    [][\A r \in Request, i \in Offer :
        req[r].op = "accept" /\ req[r].offer = i /\ group' # group
            /\ offers[i].status = "pending" /\ offers'[i].status = "accepted" =>
                group'.members[req[r].actor] = offers[i].mailed]_vars

\* An answered invitation stays answered as it was, whoever else had it open.
AnsweredStands ==
    [][\A i \in Offer : offers[i].status \in Answered => offers'[i].status = offers[i].status]_vars

\* "An administrator's is always inherit" (models/library.py), which a group
\* handed to a restricted member does not keep.
AdminsUnrestricted == \A u \in Admins : Consistent(group.members[u])

\* "An outstanding invitation for the same address is reused rather than
\* duplicated" (invite_with_token), which two invitations at once do not keep.
OneOutstanding == \A u \in User : \A i, j \in Outstanding(u) : i = j
=============================================================================
