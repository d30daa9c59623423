------------------------- MODULE GroupMembers_proofs -------------------------
(***************************************************************************)
(* Proofs about GroupMembers, for any accounts, requests and invitations.  *)
(* What has been opened is described well enough for the claim to be       *)
(* trusted (OpenedInv): the terms a request has read are those of the row  *)
(* as long as the row's token is the one it read, because a token is never *)
(* issued twice (TokensInv).  And they are the terms its link was mailed    *)
(* with, unless it was written over terms its inviter had not seen         *)
(* (MailedInv).                                                            *)
(***************************************************************************)
EXTENDS GroupMembers, TLAPS

TokensInv == \A i \in Offer : offers[i].token <= tokens

OpenedInv ==
    \A r \in Request : req[r].op \in {"accept", "decline", "revoke"} =>
        LET row == offers[req[r].offer]
        IN  /\ row.status # "none"
            /\ req[r].op = "accept" => row.to = req[r].actor
            /\ req[r].token <= tokens
            /\ row.token = req[r].token => row.terms = req[r].terms

MailedInv == \A i \in Offer : ~offers[i].crossed => offers[i].mailed = offers[i].terms

IInv == TypeOK /\ TokensInv /\ OpenedInv /\ MailedInv /\ OwnerAdministers

\* The row `Issue` adds, and the one it writes over an old one.
Added(to, m) == [status |-> "pending", to |-> to, terms |-> m, token |-> tokens + 1,
                 live |-> TRUE, mailed |-> m, crossed |-> FALSE]
Reissued(row, loaded, m) ==
    [row EXCEPT !.terms = Assigned(row.terms, loaded, m), !.token = tokens + 1, !.live = TRUE,
                !.mailed = m, !.crossed = (row.terms # loaded)]

-----------------------------------------------------------------------------
(* Types *)

\* What a request is about tells which of the records it is.
LEMMA JobOfOp ==
    ASSUME TypeOK, NEW r \in Request
    PROVE  /\ req[r].op \in {"add", "set", "remove", "transfer"} => req[r] \in Change
           /\ req[r].op \in {"invite", "reissue"} => req[r] \in Invitation
           /\ req[r].op \in {"accept", "decline", "revoke"} => req[r] \in Answer
BY DEF TypeOK, Change, Invitation, Answer, Idle

\* A committed change keeps the types.
LEMMA CommitType ==
    ASSUME TypeOK, NEW r \in Request, NEW members \in [User -> Terms \cup {Nothing}],
           NEW owner \in User, Commit(r, members, owner)
    PROVE  TypeOK'
<1>1. group' \in [version : 0..MaxVersion, owner : User, members : [User -> Terms \cup {Nothing}]]
  BY GroupAssumption DEF TypeOK, Commit
<1>2. req' \in [Request -> Change \cup Invitation \cup Answer \cup {Idle}]
  BY DEF TypeOK, Commit, Done
<1>3. overtaken' \in BOOLEAN /\ offers' = offers /\ tokens' = tokens
  BY DEF TypeOK, Commit
<1> QED
  BY <1>1, <1>2, <1>3 DEF TypeOK

\* What set_role and set_permission make of a membership is one.
LEMMA SetTerms ==
    ASSUME NEW m \in Terms, NEW role \in Role \cup {Nothing},
           NEW permission \in Permission \cup {Nothing}
    PROVE  LET n == IF role = Nothing THEN m ELSE WithRole(m, role)
           IN  (IF permission = Nothing THEN n ELSE [n EXCEPT !.permission = permission]) \in Terms
<1> DEFINE n == IF role = Nothing THEN m ELSE WithRole(m, role)
<1>1. n \in Terms
  BY DEF Terms, Role, Permission, WithRole
<1>2. permission # Nothing => [n EXCEPT !.permission = permission] \in Terms
  BY <1>1 DEF Terms, Permission
<1> QED
  BY <1>1, <1>2

\* Every step keeps the types.
LEMMA TypeStep ==
    ASSUME TypeOK, [Next]_vars
    PROVE  TypeOK'
<1>1. ASSUME NEW r \in Request, Ask(r) PROVE TypeOK'
  BY <1>1 DEF Ask, TypeOK, Change
<1>2. ASSUME NEW r \in Request, Refuse(r) PROVE TypeOK'
  BY <1>2 DEF Refuse, Done, TypeOK
<1>3. ASSUME NEW r \in Request, AddMember(r) PROVE TypeOK'
  <2>1. req[r].subject \in User
    BY <1>3, JobOfOp DEF AddMember, Change
  <2>2. PICK m \in Terms : Commit(r, [group.members EXCEPT ![req[r].subject] = m], group.owner)
    BY <1>3 DEF AddMember
  <2>3. [group.members EXCEPT ![req[r].subject] = m] \in [User -> Terms \cup {Nothing}]
    BY <2>1 DEF TypeOK
  <2> QED
    BY <2>2, <2>3, CommitType DEF TypeOK
<1>4. ASSUME NEW r \in Request, SetMember(r) PROVE TypeOK'
  <2> DEFINE s == req[r].subject
             n(role) == IF role = Nothing THEN group.members[s] ELSE WithRole(group.members[s], role)
             o(role, permission) == IF permission = Nothing THEN n(role)
                                    ELSE [n(role) EXCEPT !.permission = permission]
  <2>1. s \in User
    BY <1>4, JobOfOp DEF SetMember, Change
  <2>2. PICK role \in Role \cup {Nothing} : \E permission \in Permission \cup {Nothing} :
            Commit(r, [group.members EXCEPT ![s] = o(role, permission)], group.owner)
    BY <1>4 DEF SetMember
  <2>3. PICK permission \in Permission \cup {Nothing} :
            Commit(r, [group.members EXCEPT ![s] = o(role, permission)], group.owner)
    BY <2>2
  <2>4. group.members[s] \in Terms
    BY <1>4, <2>1 DEF SetMember, IsMember, TypeOK
  <2>5. o(role, permission) \in Terms
    BY <2>4, SetTerms
  <2>6. [group.members EXCEPT ![s] = o(role, permission)] \in [User -> Terms \cup {Nothing}]
    BY <2>1, <2>5 DEF TypeOK
  <2> QED
    BY <2>3, <2>6, CommitType DEF TypeOK
<1>5. ASSUME NEW r \in Request, RemoveMember(r) PROVE TypeOK'
  <2>1. [group.members EXCEPT ![req[r].subject] = Nothing] \in [User -> Terms \cup {Nothing}]
    BY DEF TypeOK
  <2> QED
    BY <1>5, <2>1, CommitType DEF RemoveMember, TypeOK
<1>6. ASSUME NEW r \in Request, Transfer(r) PROVE TypeOK'
  <2>1. req[r].subject \in User
    BY <1>6, JobOfOp DEF Transfer, Change
  <2>2. CASE /\ IsMember(req[r].subject)
             /\ Commit(r, [group.members EXCEPT ![req[r].subject].role = "admin"], req[r].subject)
    <3>1. group.members[req[r].subject] \in Terms
      BY <2>1, <2>2 DEF IsMember, TypeOK
    <3>2. [group.members EXCEPT ![req[r].subject].role = "admin"]
            \in [User -> Terms \cup {Nothing}]
      BY <2>1, <3>1 DEF TypeOK, Terms, Role
    <3> QED
      BY <2>1, <2>2, <3>2, CommitType
  <2>3. CASE Commit(r, group.members, group.owner)
    BY <2>3, CommitType DEF TypeOK
  <2> QED
    BY <1>6, <2>2, <2>3 DEF Transfer
<1>7. ASSUME NEW r \in Request, Invite(r) PROVE TypeOK'
  <2>1. PICK to \in User : req' = [req EXCEPT ![r] =
            [op |-> "invite", subject |-> to, offer |-> Nothing, loaded |-> Member]]
    BY <1>7 DEF Invite
  <2>2. [op |-> "invite", subject |-> to, offer |-> Nothing, loaded |-> Member] \in Invitation
    BY DEF Invitation, Member, Terms, Role, Permission
  <2> QED
    BY <1>7, <2>1, <2>2 DEF Invite, TypeOK
<1>8. ASSUME NEW r \in Request, FindOutstanding(r) PROVE TypeOK'
  <2>1. req[r] \in Invitation
    BY <1>8, JobOfOp DEF FindOutstanding
  <2>2. CASE req' = [req EXCEPT ![r] = [@ EXCEPT !.op = "reissue"]]
    <3>1. [req[r] EXCEPT !.op = "reissue"] \in Invitation
      BY <2>1 DEF Invitation
    <3> QED
      BY <1>8, <2>2, <3>1 DEF FindOutstanding, TypeOK
  <2>3. ASSUME NEW i \in Offer,
               req' = [req EXCEPT ![r] = [@ EXCEPT !.op = "reissue", !.offer = i,
                                                   !.loaded = offers[i].terms]]
        PROVE  TypeOK'
    <3>1. offers[i].terms \in Terms
      BY DEF TypeOK, Row
    <3>2. [req[r] EXCEPT !.op = "reissue", !.offer = i, !.loaded = offers[i].terms] \in Invitation
      BY <2>1, <3>1 DEF Invitation
    <3> QED
      BY <1>8, <2>3, <3>2 DEF FindOutstanding, TypeOK
  <2> QED
    BY <1>8, <2>2, <2>3 DEF FindOutstanding, Outstanding
<1>9. ASSUME NEW r \in Request, Issue(r) PROVE TypeOK'
  <2>1. req[r] \in Invitation
    BY <1>9, JobOfOp DEF Issue
  <2>2. tokens' \in 0..MaxTokens /\ tokens + 1 \in Nat
    BY <1>9, GroupAssumption DEF Issue, TypeOK
  <2>3. offers' \in [Offer -> Row]
    <3>1. PICK m \in Terms :
            \/ \E i \in Offer : offers' = [offers EXCEPT ![i] = Added(req[r].subject, m)]
            \/ /\ req[r].offer # Nothing
               /\ offers' = [offers EXCEPT ![req[r].offer] = Reissued(offers[req[r].offer], req[r].loaded, m)]
      BY <1>9 DEF Issue, Added, Reissued
    <3>2. Added(req[r].subject, m) \in Row
      BY <2>1, <2>2 DEF Row, Invitation, Added
    <3>3. ASSUME NEW i \in Offer PROVE Reissued(offers[i], req[r].loaded, m) \in Row
      <4>1. offers[i] \in Row
        BY DEF TypeOK
      <4>2. Assigned(offers[i].terms, req[r].loaded, m) \in Terms
        BY <4>1 DEF Row, Terms, Assigned
      <4> QED
        BY <2>2, <4>1, <4>2 DEF Row, Reissued
    <3> QED
      BY <2>1, <3>1, <3>2, <3>3 DEF TypeOK, Invitation
  <2> QED
    BY <1>9, <2>2, <2>3 DEF Issue, Done, TypeOK
<1>10. ASSUME NEW r \in Request, Open(r) PROVE TypeOK'
  BY <1>10 DEF Open, TypeOK, Answer, Row
<1>11. ASSUME NEW r \in Request, NEW status \in Answered, req[r] \in Answer,
              offers' = [offers EXCEPT ![req[r].offer].status = status]
       PROVE  offers' \in [Offer -> Row]
  BY <1>11 DEF TypeOK, Answer, Answered, Row
<1>12. ASSUME NEW r \in Request, Accept(r) PROVE TypeOK'
  <2>1. req[r] \in Answer /\ offers' \in [Offer -> Row]
    BY <1>11, <1>12, JobOfOp DEF Accept, Claim, Answered
  <2>2. group' \in [version : 0..MaxVersion, owner : User,
                    members : [User -> Terms \cup {Nothing}]]
    <3>1. CASE UNCHANGED group
      BY <3>1 DEF TypeOK
    <3>2. CASE /\ group.version < MaxVersion
               /\ group' = [group EXCEPT !.version = @ + 1,
                                         !.members[req[r].actor] = req[r].terms]
      <4>1. [group.members EXCEPT ![req[r].actor] = req[r].terms]
              \in [User -> Terms \cup {Nothing}]
        BY <2>1 DEF TypeOK, Answer
      <4>2. group.version + 1 \in 0..MaxVersion
        BY <3>2, GroupAssumption DEF TypeOK
      <4>3. group' = [group EXCEPT !.version = group.version + 1,
                                   !.members = [group.members EXCEPT ![req[r].actor] = req[r].terms]]
        BY <3>2 DEF TypeOK
      <4> QED
        BY <4>1, <4>2, <4>3 DEF TypeOK
    <3> QED
      BY <1>12, <3>1, <3>2 DEF Accept
  <2> QED
    BY <1>12, <2>1, <2>2 DEF Accept, Done, TypeOK
<1>13. ASSUME NEW r \in Request, Decline(r) \/ Revoke(r) PROVE TypeOK'
  <2>1. offers' \in [Offer -> Row]
    BY <1>11, <1>13, JobOfOp DEF Decline, Revoke, Claim, Answered
  <2> QED
    BY <1>13, <2>1 DEF Decline, Revoke, Done, TypeOK
<1>14. ASSUME NEW i \in Offer, Lapse(i) \/ Sweep(i) PROVE TypeOK'
  <2>1. offers[i] \in Row
    BY DEF TypeOK
  <2>2. [offers[i] EXCEPT !.live = FALSE] \in Row /\ [offers[i] EXCEPT !.status = "swept"] \in Row
    BY <2>1 DEF Row
  <2>3. offers' \in [Offer -> Row]
    BY <1>14, <2>2 DEF Lapse, Sweep, TypeOK
  <2> QED
    BY <1>14, <2>3 DEF Lapse, Sweep, TypeOK
<1>15. CASE UNCHANGED vars
  BY <1>15 DEF vars, TypeOK
<1> QED
  BY <1>1, <1>2, <1>3, <1>4, <1>5, <1>6, <1>7, <1>8, <1>9, <1>10, <1>12, <1>13, <1>14, <1>15
  DEF Next

-----------------------------------------------------------------------------
(* The owner *)

\* A change of the members that leaves the owner an administrator.
LEMMA OwnerStays ==
    ASSUME TypeOK, OwnerAdministers, NEW r \in Request,
           NEW members \in [User -> Terms \cup {Nothing}], NEW owner \in User,
           Commit(r, members, owner),
           IsAdmin(group.owner) /\ OwnerRead(r) = group.owner =>
               members[owner] # Nothing /\ members[owner].role = "admin"
    PROVE  OwnerAdministers'
<1>1. group'.members = members /\ group'.owner = owner
  BY DEF Commit
<1>2. overtaken' = (overtaken \/ OwnerRead(r) # group.owner)
  BY DEF Commit
<1> QED
  BY <1>1, <1>2 DEF OwnerAdministers, IsAdmin, IsMember

\* The group changes in no other way than these, and invitations add only
\* people who were none of its members.
LEMMA OwnerStep ==
    ASSUME TypeOK, OwnerAdministers, [Next]_vars
    PROVE  OwnerAdministers'
<1> USE DEF OwnerAdministers, IsAdmin, IsMember
<1>1. ASSUME NEW r \in Request, AddMember(r) PROVE OwnerAdministers'
  <2>1. req[r].subject \in User
    BY <1>1, JobOfOp DEF AddMember, Change
  <2>2. PICK m \in Terms : Commit(r, [group.members EXCEPT ![req[r].subject] = m], group.owner)
    BY <1>1 DEF AddMember
  <2>3. [group.members EXCEPT ![req[r].subject] = m] \in [User -> Terms \cup {Nothing}]
    BY <2>1 DEF TypeOK
  <2>4. group.members[req[r].subject] = Nothing
    BY <1>1 DEF AddMember
  <2>5. group.owner \in User
    BY DEF TypeOK
  <2>6. IsAdmin(group.owner) => group.owner # req[r].subject
    BY <2>4
  <2>7. IsAdmin(group.owner) =>
            [group.members EXCEPT ![req[r].subject] = m][group.owner] = group.members[group.owner]
    BY <2>5, <2>6 DEF TypeOK
  <2> QED
    BY <2>2, <2>3, <2>5, <2>7, OwnerStays
<1>2. ASSUME NEW r \in Request, SetMember(r) PROVE OwnerAdministers'
  <2> DEFINE s == req[r].subject
             m == group.members[s]
             n(role) == IF role = Nothing THEN m ELSE WithRole(m, role)
             o(role, permission) == IF permission = Nothing THEN n(role)
                                    ELSE [n(role) EXCEPT !.permission = permission]
  <2>1. s \in User /\ m \in Terms /\ group.owner \in User
    BY <1>2, JobOfOp DEF SetMember, Change, TypeOK
  <2>2. PICK role \in Role \cup {Nothing} : \E permission \in Permission \cup {Nothing} :
            /\ role = "member" => OwnerRead(r) # s
            /\ Commit(r, [group.members EXCEPT ![s] = o(role, permission)], group.owner)
    BY <1>2 DEF SetMember
  <2>3. PICK permission \in Permission \cup {Nothing} :
            /\ role = "member" => OwnerRead(r) # s
            /\ Commit(r, [group.members EXCEPT ![s] = o(role, permission)], group.owner)
    BY <2>2
  <2>4. o(role, permission) \in Terms
    BY <2>1, SetTerms
  <2>5. [group.members EXCEPT ![s] = o(role, permission)] \in [User -> Terms \cup {Nothing}]
    BY <2>1, <2>4 DEF TypeOK
  <2>6. m.role = "admin" /\ role # "member" => o(role, permission).role = "admin"
    <3>1. m.role = "admin" /\ role # "member" => n(role).role = "admin" /\ n(role) \in Terms
      BY <2>1 DEF Terms, Role, WithRole, Permission
    <3> QED
      BY <3>1 DEF Terms
  <2>7. o(role, permission) # Nothing
    BY <2>4, TermsAssumption
  <2>8. SUFFICES ASSUME IsAdmin(group.owner), OwnerRead(r) = group.owner
                 PROVE  LET members == [group.members EXCEPT ![s] = o(role, permission)]
                        IN  members[group.owner] # Nothing /\ members[group.owner].role = "admin"
    BY <2>1, <2>3, <2>5, OwnerStays
  <2>9. CASE group.owner = s
    BY <2>1, <2>3, <2>6, <2>7, <2>8, <2>9 DEF TypeOK
  <2>10. CASE group.owner # s
    BY <2>1, <2>8, <2>10 DEF TypeOK
  <2> QED
    BY <2>9, <2>10
<1>3. ASSUME NEW r \in Request, RemoveMember(r) PROVE OwnerAdministers'
  <2> DEFINE s == req[r].subject
             members == [group.members EXCEPT ![s] = Nothing]
  <2>1. members \in [User -> Terms \cup {Nothing}] /\ group.owner \in User
    BY DEF TypeOK
  <2>2. OwnerRead(r) = group.owner => members[group.owner] = group.members[group.owner]
    BY <1>3 DEF RemoveMember, TypeOK
  <2>3. Commit(r, members, group.owner)
    BY <1>3 DEF RemoveMember
  <2>4. IsAdmin(group.owner) /\ OwnerRead(r) = group.owner =>
            members[group.owner] # Nothing /\ members[group.owner].role = "admin"
    BY <2>2
  <2> QED
    BY <2>1, <2>3, <2>4, OwnerStays
<1>4. ASSUME NEW r \in Request, Transfer(r) PROVE OwnerAdministers'
  <2> DEFINE s == req[r].subject
             members == [group.members EXCEPT ![s].role = "admin"]
  <2>1. s \in User
    BY <1>4, JobOfOp DEF Transfer, Change
  <2>2. CASE IsMember(s) /\ Commit(r, members, s)
    <3>1. group.members[s] \in Terms
      BY <2>1, <2>2 DEF TypeOK
    <3>2. members[s] \in Terms /\ members[s].role = "admin"
      BY <2>1, <3>1 DEF TypeOK, Terms, Role
    <3>3. members \in [User -> Terms \cup {Nothing}]
      BY <2>1, <3>2 DEF TypeOK
    <3> QED
      BY <2>1, <2>2, <3>2, <3>3, OwnerStays, TermsAssumption
  <2>3. CASE Commit(r, group.members, group.owner)
    BY <2>3, OwnerStays DEF TypeOK
  <2> QED
    BY <1>4, <2>2, <2>3 DEF Transfer
<1>5. ASSUME NEW r \in Request, Accept(r) PROVE OwnerAdministers'
  <2>1. CASE UNCHANGED group
    BY <1>5, <2>1 DEF Accept
  <2>2. CASE /\ ~IsMember(req[r].actor)
             /\ group' = [group EXCEPT !.version = @ + 1, !.members[req[r].actor] = req[r].terms]
    <3>1. group'.owner = group.owner /\ group.owner \in User
      BY <2>2 DEF TypeOK
    <3>2. group.owner # req[r].actor => group'.members[group.owner] = group.members[group.owner]
      BY <2>2, <3>1 DEF TypeOK
    <3> QED
      BY <1>5, <2>2, <3>1, <3>2 DEF Accept
  <2> QED
    BY <1>5, <2>1, <2>2 DEF Accept
<1>6. ASSUME UNCHANGED <<group, overtaken>> PROVE OwnerAdministers'
  BY <1>6
<1>7. ASSUME NEW r \in Request,
             \/ Ask(r) \/ Refuse(r) \/ Invite(r) \/ FindOutstanding(r) \/ Issue(r)
             \/ Open(r) \/ Decline(r) \/ Revoke(r)
      PROVE  OwnerAdministers'
  BY <1>6, <1>7 DEF Ask, Refuse, Invite, FindOutstanding, Issue, Open, Decline, Revoke
<1>8. ASSUME NEW i \in Offer, Lapse(i) \/ Sweep(i) PROVE OwnerAdministers'
  BY <1>6, <1>8 DEF Lapse, Sweep
<1>9. CASE UNCHANGED vars
  BY <1>6, <1>9 DEF vars
<1> QED
  BY <1>1, <1>2, <1>3, <1>4, <1>5, <1>7, <1>8, <1>9 DEF Next

-----------------------------------------------------------------------------
(* What has been opened *)

Answering == {"accept", "decline", "revoke"}

\* A row is the same to those who have it open: only its status and whether
\* it has expired differ.
SameRow(i) ==
    /\ offers'[i].token = offers[i].token
    /\ offers'[i].terms = offers[i].terms
    /\ offers'[i].to = offers[i].to
    /\ offers'[i].mailed = offers[i].mailed
    /\ offers'[i].crossed = offers[i].crossed
    /\ offers[i].status # "none" => offers'[i].status # "none"

\* A step that issues nothing and opens nothing.
LEMMA OpenedKept ==
    ASSUME TypeOK, TokensInv, OpenedInv, tokens' = tokens, \A i \in Offer : SameRow(i),
           \A q \in Request : req'[q] = req[q] \/ req'[q].op \notin Answering
    PROVE  TokensInv' /\ OpenedInv'
<1>1. TokensInv'
  BY DEF TokensInv, SameRow
<1>2. ASSUME NEW q \in Request, req'[q].op \in Answering
      PROVE  LET row == offers'[req'[q].offer]
             IN  /\ row.status # "none"
                 /\ req'[q].op = "accept" => row.to = req'[q].actor
                 /\ req'[q].token <= tokens'
                 /\ row.token = req'[q].token => row.terms = req'[q].terms
  <2>1. req'[q] = req[q] /\ req[q].op \in Answering
    BY <1>2
  <2>2. req[q].offer \in Offer
    BY <2>1, JobOfOp DEF Answering, Answer
  <2>3. SameRow(req[q].offer)
    BY <2>2
  <2> QED
    BY <2>1, <2>3 DEF OpenedInv, Answering, SameRow
<1> QED
  BY <1>1, <1>2 DEF OpenedInv, Answering

\* Answering and withdrawing change the status of one row.
LEMMA StatusRow ==
    ASSUME TypeOK, NEW i \in Offer, NEW status \in Answered \cup {"swept"},
           offers' = [offers EXCEPT ![i].status = status]
    PROVE  \A j \in Offer : SameRow(j)
BY DEF TypeOK, Row, SameRow, Answered

\* A row that is issued is a new one, or keeps its status and whose it is.
\* Written over the terms that were loaded, it has the terms it is mailed with.
LEMMA IssuedRow ==
    ASSUME TypeOK, NEW r \in Request, Issue(r), NEW i \in Offer
    PROVE  \/ offers'[i] = offers[i]
           \/ /\ offers[i].status = "none"
              /\ offers'[i].token = tokens + 1
              /\ offers'[i].mailed = offers'[i].terms
           \/ /\ offers'[i].token = tokens + 1
              /\ offers'[i].to = offers[i].to
              /\ offers'[i].status = offers[i].status
              /\ ~offers'[i].crossed => offers'[i].mailed = offers'[i].terms
<1>1. PICK m \in Terms :
        \/ \E j \in Offer :
            /\ offers[j].status = "none"
            /\ offers' = [offers EXCEPT ![j] = Added(req[r].subject, m)]
        \/ offers' = [offers EXCEPT ![req[r].offer] = Reissued(offers[req[r].offer], req[r].loaded, m)]
  BY DEF Issue, Added, Reissued
<1>2. offers[i] \in Row
  BY DEF TypeOK
<1>3. ASSUME NEW j \in Offer, offers[j].status = "none",
             offers' = [offers EXCEPT ![j] = Added(req[r].subject, m)]
      PROVE  \/ offers'[i] = offers[i]
             \/ /\ offers[i].status = "none"
                /\ offers'[i].token = tokens + 1
                /\ offers'[i].mailed = offers'[i].terms
  BY <1>3 DEF TypeOK, Added
<1>4. CASE offers' = [offers EXCEPT ![req[r].offer] = Reissued(offers[req[r].offer], req[r].loaded, m)]
  <2>1. \/ offers'[i] = offers[i]
        \/ offers'[i] = Reissued(offers[i], req[r].loaded, m)
    BY <1>4 DEF TypeOK
  <2>2. CASE offers'[i] = Reissued(offers[i], req[r].loaded, m)
    <3>1. /\ offers'[i].token = tokens + 1
          /\ offers'[i].to = offers[i].to
          /\ offers'[i].status = offers[i].status
          /\ offers'[i].mailed = m
          /\ offers'[i].crossed = (offers[i].terms # req[r].loaded)
          /\ offers'[i].terms = Assigned(offers[i].terms, req[r].loaded, m)
      BY <1>2, <2>2 DEF Row, Reissued
    <3>2. Assigned(offers[i].terms, offers[i].terms, m) = m
      BY DEF Assigned, Terms
    <3> QED
      BY <3>1, <3>2
  <2> QED
    BY <2>1, <2>2
<1> QED
  BY <1>1, <1>3, <1>4

\* A new token is larger than any that was read, so the requests that have
\* the row open no longer have its token.
LEMMA IssueStep ==
    ASSUME TypeOK, TokensInv, OpenedInv, NEW r \in Request, Issue(r)
    PROVE  TokensInv' /\ OpenedInv'
<1>1. tokens \in Nat /\ tokens' = tokens + 1
  BY GroupAssumption DEF Issue, TypeOK
<1>2. \A i \in Offer : offers[i] \in Row
  BY DEF TypeOK
<1>3. \A i \in Offer :
        \/ offers'[i] = offers[i]
        \/ offers[i].status = "none" /\ offers'[i].token = tokens + 1
        \/ /\ offers'[i].token = tokens + 1
           /\ offers'[i].to = offers[i].to
           /\ offers'[i].status = offers[i].status
  BY IssuedRow
<1>4. TokensInv'
  BY <1>1, <1>2, <1>3 DEF TokensInv, Row
<1>5. ASSUME NEW q \in Request, req'[q].op \in Answering
      PROVE  LET row == offers'[req'[q].offer]
             IN  /\ row.status # "none"
                 /\ req'[q].op = "accept" => row.to = req'[q].actor
                 /\ req'[q].token <= tokens'
                 /\ row.token = req'[q].token => row.terms = req'[q].terms
  <2>1. req'[q] = req[q] /\ req[q].op \in Answering
    BY <1>5 DEF Issue, Done, TypeOK, Idle, Answering
  <2>2. req[q] \in Answer
    BY <2>1, JobOfOp DEF Answering
  <2>3. req[q].offer \in Offer /\ req[q].token \in Nat
    BY <2>2 DEF Answer
  <2>4. /\ offers[req[q].offer].status # "none"
        /\ req[q].op = "accept" => offers[req[q].offer].to = req[q].actor
        /\ req[q].token <= tokens
        /\ offers[req[q].offer].token = req[q].token => offers[req[q].offer].terms = req[q].terms
    BY <2>1 DEF OpenedInv, Answering
  <2>5. req[q].token # tokens + 1
    BY <1>1, <2>3, <2>4
  <2> QED
    BY <1>1, <1>3, <2>1, <2>3, <2>4, <2>5
<1> QED
  BY <1>4, <1>5 DEF OpenedInv, Answering

\* Every step keeps what requests have read in step with the rows.
LEMMA OpenedStep ==
    ASSUME TypeOK, TokensInv, OpenedInv, [Next]_vars
    PROVE  TokensInv' /\ OpenedInv'
<1>1. ASSUME NEW r \in Request, NEW job, job.op \notin Answering,
             req' = [req EXCEPT ![r] = job], UNCHANGED <<offers, tokens>>
      PROVE  TokensInv' /\ OpenedInv'
  <2>1. \A q \in Request : req'[q] = req[q] \/ req'[q].op \notin Answering
    BY <1>1 DEF TypeOK
  <2>2. \A i \in Offer : SameRow(i)
    BY <1>1 DEF SameRow
  <2> QED
    BY <1>1, <2>1, <2>2, OpenedKept
<1>2. ASSUME NEW r \in Request,
             Refuse(r) \/ AddMember(r) \/ SetMember(r) \/ RemoveMember(r) \/ Transfer(r)
      PROVE  TokensInv' /\ OpenedInv'
  <2>1. Done(r) /\ UNCHANGED <<offers, tokens>>
    BY <1>2 DEF Refuse, AddMember, SetMember, RemoveMember, Transfer, Commit
  <2>2. Idle.op \notin Answering
    BY DEF Idle, Answering
  <2> QED
    BY <1>1, <2>1, <2>2 DEF Done
<1>3. ASSUME NEW r \in Request, Ask(r) PROVE TokensInv' /\ OpenedInv'
  <2>1. PICK job \in Change : req' = [req EXCEPT ![r] = job]
    BY <1>3 DEF Ask, Change, TypeOK
  <2>2. job.op \notin Answering /\ UNCHANGED <<offers, tokens>>
    BY <1>3 DEF Ask, Change, Answering
  <2> QED
    BY <1>1, <2>1, <2>2
<1>4. ASSUME NEW r \in Request, Invite(r) PROVE TokensInv' /\ OpenedInv'
  <2>1. PICK job \in Invitation : req' = [req EXCEPT ![r] = job]
    BY <1>4 DEF Invite, Invitation, Member, Terms, Role, Permission
  <2>2. job.op \notin Answering /\ UNCHANGED <<offers, tokens>>
    BY <1>4 DEF Invite, Invitation, Answering
  <2> QED
    BY <1>1, <2>1, <2>2
<1>5. ASSUME NEW r \in Request, FindOutstanding(r) PROVE TokensInv' /\ OpenedInv'
  <2>1. req[r] \in Invitation
    BY <1>5, JobOfOp DEF FindOutstanding
  <2>2. UNCHANGED <<offers, tokens>>
    BY <1>5 DEF FindOutstanding
  <2>3. CASE req' = [req EXCEPT ![r] = [req[r] EXCEPT !.op = "reissue"]]
    <3>1. [req[r] EXCEPT !.op = "reissue"].op \notin Answering
      BY <2>1 DEF Invitation, Answering
    <3> QED
      BY <1>1, <2>2, <2>3, <3>1
  <2>4. ASSUME NEW i, req' = [req EXCEPT ![r] = [req[r] EXCEPT !.op = "reissue", !.offer = i,
                                                              !.loaded = offers[i].terms]]
        PROVE  TokensInv' /\ OpenedInv'
    <3>1. [req[r] EXCEPT !.op = "reissue", !.offer = i,
                         !.loaded = offers[i].terms].op \notin Answering
      BY <2>1 DEF Invitation, Answering
    <3> QED
      BY <1>1, <2>2, <2>4, <3>1
  <2> QED
    BY <1>5, <2>3, <2>4 DEF FindOutstanding, TypeOK
<1>6. ASSUME NEW r \in Request, Open(r) PROVE TokensInv' /\ OpenedInv'
  <2>1. PICK op \in Answering, i \in Offer, actor \in User :
            /\ offers[i].status = "pending"
            /\ IF op = "revoke" THEN IsAdmin(actor) ELSE actor = offers[i].to /\ offers[i].live
            /\ req' = [req EXCEPT ![r] = [op |-> op, actor |-> actor, offer |-> i,
                           token |-> offers[i].token, terms |-> offers[i].terms]]
    BY <1>6 DEF Open, Answering
  <2>2. UNCHANGED <<offers, tokens>>
    BY <1>6 DEF Open
  <2>3. TokensInv'
    BY <2>2 DEF TokensInv
  <2>4. ASSUME NEW q \in Request, req'[q].op \in Answering
        PROVE  LET row == offers'[req'[q].offer]
               IN  /\ row.status # "none"
                   /\ req'[q].op = "accept" => row.to = req'[q].actor
                   /\ req'[q].token <= tokens'
                   /\ row.token = req'[q].token => row.terms = req'[q].terms
    <3>1. CASE q = r
      BY <2>1, <2>2, <3>1 DEF TypeOK, TokensInv
    <3>2. CASE q # r
      BY <2>1, <2>2, <2>4, <3>2 DEF TypeOK, OpenedInv, Answering
    <3> QED
      BY <3>1, <3>2
  <2> QED
    BY <2>3, <2>4 DEF OpenedInv, Answering
<1>7. ASSUME NEW r \in Request, Accept(r) \/ Decline(r) \/ Revoke(r)
      PROVE  TokensInv' /\ OpenedInv'
  <2>1. req[r].offer \in Offer
    BY <1>7, JobOfOp DEF Accept, Decline, Revoke, Answer
  <2>2. PICK status \in Answered : offers' = [offers EXCEPT ![req[r].offer].status = status]
    BY <1>7 DEF Accept, Decline, Revoke, Claim, Answered
  <2>3. \A j \in Offer : SameRow(j)
    BY <2>1, <2>2, StatusRow
  <2>4. \A q \in Request : req'[q] = req[q] \/ req'[q].op \notin Answering
    BY <1>7 DEF Accept, Decline, Revoke, Done, TypeOK, Idle, Answering
  <2>5. tokens' = tokens
    BY <1>7 DEF Accept, Decline, Revoke
  <2> QED
    BY <2>3, <2>4, <2>5, OpenedKept
<1>8. ASSUME NEW i \in Offer, Lapse(i) \/ Sweep(i) PROVE TokensInv' /\ OpenedInv'
  <2>1. \A j \in Offer : SameRow(j)
    BY <1>8 DEF Lapse, Sweep, SameRow, TypeOK, Row
  <2> QED
    BY <1>8, <2>1, OpenedKept DEF Lapse, Sweep
<1>9. CASE UNCHANGED vars
  <2>1. \A j \in Offer : SameRow(j)
    BY <1>9 DEF vars, SameRow
  <2> QED
    BY <1>9, <2>1, OpenedKept DEF vars
<1> QED
  BY <1>2, <1>3, <1>4, <1>5, <1>6, <1>7, <1>8, <1>9, IssueStep DEF Next

\* Nothing but an issue touches what a link was mailed with.
LEMMA MailedStep ==
    ASSUME TypeOK, MailedInv, [Next]_vars
    PROVE  MailedInv'
<1>1. ASSUME \A i \in Offer : SameRow(i) PROVE MailedInv'
  BY <1>1 DEF MailedInv, SameRow
<1>2. ASSUME UNCHANGED offers PROVE MailedInv'
  BY <1>2 DEF MailedInv
<1>3. ASSUME NEW r \in Request,
             \/ Ask(r) \/ Refuse(r) \/ AddMember(r) \/ SetMember(r) \/ RemoveMember(r)
             \/ Transfer(r) \/ Invite(r) \/ FindOutstanding(r) \/ Open(r)
      PROVE  MailedInv'
  BY <1>2, <1>3 DEF Ask, Refuse, AddMember, SetMember, RemoveMember, Transfer, Commit,
                    Invite, FindOutstanding, Open
<1>4. ASSUME NEW r \in Request, Issue(r) PROVE MailedInv'
  BY <1>4, IssuedRow DEF MailedInv
<1>5. ASSUME NEW r \in Request, Accept(r) \/ Decline(r) \/ Revoke(r) PROVE MailedInv'
  <2>1. req[r].offer \in Offer
    BY <1>5, JobOfOp DEF Accept, Decline, Revoke, Answer
  <2>2. PICK status \in Answered : offers' = [offers EXCEPT ![req[r].offer].status = status]
    BY <1>5 DEF Accept, Decline, Revoke, Claim, Answered
  <2> QED
    BY <1>1, <2>1, <2>2, StatusRow
<1>6. ASSUME NEW i \in Offer, Lapse(i) \/ Sweep(i) PROVE MailedInv'
  <2>1. \A j \in Offer : SameRow(j)
    BY <1>6 DEF Lapse, Sweep, SameRow, TypeOK, Row
  <2> QED
    BY <1>1, <2>1
<1>7. CASE UNCHANGED vars
  BY <1>2, <1>7 DEF vars
<1> QED
  BY <1>3, <1>4, <1>5, <1>6, <1>7 DEF Next

-----------------------------------------------------------------------------
(* Theorems *)

LEMMA InitInv == Init => IInv
<1> SUFFICES ASSUME Init PROVE IInv
  OBVIOUS
<1>1. TypeOK
  <2>1. PICK u \in User :
            /\ group = [version |-> 0, owner |-> u,
                        members |-> [v \in User |->
                            IF v = u THEN [role |-> "admin", permission |-> "inherit"] ELSE Nothing]]
            /\ offers = [i \in Offer |-> [status |-> "none", to |-> u, terms |-> Member,
                                          token |-> 0, live |-> FALSE,
                                          mailed |-> Member, crossed |-> FALSE]]
    BY DEF Init
  <2>2. [role |-> "admin", permission |-> "inherit"] \in Terms /\ Member \in Terms
    BY DEF Terms, Role, Permission, Member
  <2>3. group \in [version : 0..MaxVersion, owner : User,
                   members : [User -> Terms \cup {Nothing}]]
    BY <2>1, <2>2, GroupAssumption
  <2>4. offers \in [Offer -> Row]
    BY <2>1, <2>2 DEF Row
  <2>5. tokens \in 0..MaxTokens
    <3>1. tokens = 0 /\ MaxTokens \in Nat
      BY GroupAssumption DEF Init
    <3> QED
      BY <3>1
  <2>6. overtaken \in BOOLEAN
    BY DEF Init
  <2>7. req \in [Request -> Change \cup Invitation \cup Answer \cup {Idle}]
    BY DEF Init
  <2> QED
    BY <2>3, <2>4, <2>5, <2>6, <2>7 DEF TypeOK
<1>2. TokensInv /\ OpenedInv /\ MailedInv
  BY DEF Init, TokensInv, OpenedInv, MailedInv, Idle
<1>3. OwnerAdministers
  <2>1. PICK u \in User :
            group = [version |-> 0, owner |-> u,
                     members |-> [v \in User |->
                        IF v = u THEN [role |-> "admin", permission |-> "inherit"] ELSE Nothing]]
    BY DEF Init
  <2>2. group.members[group.owner] = [role |-> "admin", permission |-> "inherit"]
    BY <2>1
  <2>3. [role |-> "admin", permission |-> "inherit"] # Nothing
    BY TermsAssumption DEF Terms, Role, Permission
  <2> QED
    BY <2>2, <2>3 DEF OwnerAdministers, IsAdmin, IsMember
<1> QED
  BY <1>1, <1>2, <1>3 DEF IInv

LEMMA StepInv == IInv /\ [Next]_vars => IInv'
BY TypeStep, OpenedStep, MailedStep, OwnerStep DEF IInv

\* The types, and what requests have read of an invitation, hold of every
\* reachable state.
THEOREM Invariance == Spec => []IInv
BY InitInv, StepInv, PTL DEF Spec

\* "The owner's own role is fixed at admin": whatever requests cross, the
\* owner is one of the administrators, unless a browser's request was
\* carried out by an owner it read before the group was handed on.
THEOREM OwnerKeepsTheGroup == Spec => []OwnerAdministers
<1>1. IInv => OwnerAdministers
  BY DEF IInv
<1> QED
  BY <1>1, Invariance, PTL

\* One step makes no member but as the routes promise.
LEMMA JoinStep ==
    ASSUME IInv, [Next]_vars, NEW u \in User, ~IsMember(u), group'.members[u] # Nothing
    PROVE  \E r \in Request :
             \/ req[r].op = "add" /\ req[r].subject = u
             \/ LET i == req[r].offer
                IN  /\ req[r].op = "accept"
                    /\ Answerable(i, req[r].token)
                    /\ offers[i].to = u
                    /\ offers[i].terms = group'.members[u]
                    /\ ~offers[i].crossed => offers[i].mailed = group'.members[u]
                    /\ offers'[i].status = "accepted"
<1> DEFINE Joins(r) ==
        \/ req[r].op = "add" /\ req[r].subject = u
        \/ LET i == req[r].offer
           IN  /\ req[r].op = "accept"
               /\ Answerable(i, req[r].token)
               /\ offers[i].to = u
               /\ offers[i].terms = group'.members[u]
               /\ ~offers[i].crossed => offers[i].mailed = group'.members[u]
               /\ offers'[i].status = "accepted"
<1>1. TypeOK /\ OpenedInv /\ MailedInv /\ group.members[u] = Nothing
  BY DEF IInv, IsMember
<1>2. ASSUME NEW r \in Request, AddMember(r) PROVE Joins(r)
  BY <1>1, <1>2 DEF AddMember, Commit, TypeOK
<1>3. ASSUME NEW r \in Request, SetMember(r) \/ RemoveMember(r) \/ Transfer(r) PROVE FALSE
  <2>1. CASE SetMember(r)
    <3> DEFINE n(role) == IF role = Nothing THEN group.members[req[r].subject]
                          ELSE WithRole(group.members[req[r].subject], role)
               o(role, permission) == IF permission = Nothing THEN n(role)
                                      ELSE [n(role) EXCEPT !.permission = permission]
    <3>1. PICK role \in Role \cup {Nothing} : \E permission \in Permission \cup {Nothing} :
              Commit(r, [group.members EXCEPT ![req[r].subject] = o(role, permission)], group.owner)
      BY <2>1 DEF SetMember
    <3>2. PICK permission \in Permission \cup {Nothing} :
              Commit(r, [group.members EXCEPT ![req[r].subject] = o(role, permission)], group.owner)
      BY <3>1
    <3> HIDE DEF o
    <3>3. group'.members = [group.members EXCEPT ![req[r].subject] = o(role, permission)]
      BY <3>2 DEF Commit
    <3>4. u # req[r].subject
      BY <1>1, <2>1 DEF SetMember, IsMember
    <3> QED
      BY <1>1, <3>3, <3>4 DEF TypeOK
  <2>2. CASE RemoveMember(r)
    BY <1>1, <2>2 DEF RemoveMember, Commit, TypeOK
  <2>3. CASE Transfer(r)
    <3>1. CASE group'.members = group.members
      BY <1>1, <3>1
    <3>2. CASE /\ IsMember(req[r].subject)
               /\ group'.members = [group.members EXCEPT ![req[r].subject].role = "admin"]
      BY <1>1, <3>2 DEF IsMember, TypeOK
    <3> QED
      BY <2>3, <3>1, <3>2 DEF Transfer, Commit
  <2> QED
    BY <1>3, <2>1, <2>2, <2>3
<1>4. ASSUME NEW r \in Request, Accept(r) PROVE Joins(r)
  <2> DEFINE i == req[r].offer
  <2>1. i \in Offer /\ req[r].actor \in User
    BY <1>1, <1>4, JobOfOp DEF Accept, Answer
  <2>2. group' = [group EXCEPT !.version = @ + 1, !.members[req[r].actor] = req[r].terms]
    BY <1>1, <1>4 DEF Accept
  <2>3. group'.members = [group.members EXCEPT ![req[r].actor] = req[r].terms]
    BY <1>1, <2>2 DEF TypeOK
  <2>4. u = req[r].actor /\ group'.members[u] = req[r].terms
    BY <1>1, <2>1, <2>3 DEF TypeOK
  <2>5. Answerable(i, req[r].token) /\ req[r].op = "accept"
    BY <1>4 DEF Accept, Claim
  <2>6. offers[i].to = u /\ offers[i].terms = req[r].terms
    BY <1>1, <2>4, <2>5 DEF OpenedInv, Answerable
  <2>7. offers'[i].status = "accepted"
    BY <1>1, <1>4, <2>1 DEF Accept, Claim, TypeOK, Row
  <2>8. ~offers[i].crossed => offers[i].mailed = offers[i].terms
    BY <1>1, <2>1 DEF MailedInv
  <2> QED
    BY <2>4, <2>5, <2>6, <2>7, <2>8
<1>5. ASSUME UNCHANGED group PROVE FALSE
  BY <1>1, <1>5
<1>6. ASSUME NEW r \in Request,
             \/ Ask(r) \/ Refuse(r) \/ Invite(r) \/ FindOutstanding(r) \/ Issue(r)
             \/ Open(r) \/ Decline(r) \/ Revoke(r)
      PROVE  FALSE
  BY <1>5, <1>6 DEF Ask, Refuse, Invite, FindOutstanding, Issue, Open, Decline, Revoke
<1>7. ASSUME NEW i \in Offer, Lapse(i) \/ Sweep(i) PROVE FALSE
  BY <1>5, <1>7 DEF Lapse, Sweep
<1>8. ~UNCHANGED vars
  BY <1>5 DEF vars
<1> QED
  BY <1>2, <1>3, <1>4, <1>6, <1>7, <1>8 DEF Next

\* Whoever becomes a member was added outright or takes up an invitation of
\* theirs, on the terms its link was mailed with, or, where that link was
\* written over terms its inviter had not seen, those the row was left with.
THEOREM MembersJoinAsOffered == Spec => JoinsAsOffered
<1>1. IInv /\ [Next]_vars =>
        [\A u \in User :
            ~IsMember(u) /\ group'.members[u] # Nothing =>
                \E r \in Request :
                    \/ req[r].op = "add" /\ req[r].subject = u
                    \/ LET i == req[r].offer
                       IN  /\ req[r].op = "accept"
                           /\ Answerable(i, req[r].token)
                           /\ offers[i].to = u
                           /\ offers[i].terms = group'.members[u]
                           /\ ~offers[i].crossed => offers[i].mailed = group'.members[u]
                           /\ offers'[i].status = "accepted"]_vars
  BY JoinStep
<1> QED
  BY <1>1, Invariance, PTL DEF Spec, JoinsAsOffered

\* An answered invitation is answered for good, by any number of requests
\* that have it open.
THEOREM AnswersStand == Spec => AnsweredStands
<1>1. ASSUME IInv, [Next]_vars, NEW i \in Offer, offers[i].status \in Answered
      PROVE  offers'[i].status = offers[i].status
  <2>1. TypeOK
    BY <1>1 DEF IInv
  <2>2. ASSUME NEW r \in Request, Accept(r) \/ Decline(r) \/ Revoke(r)
        PROVE  offers'[i].status = offers[i].status
    <3>1. offers[req[r].offer].status = "pending"
      BY <2>2 DEF Accept, Decline, Revoke, Claim, Answerable
    <3>2. i # req[r].offer
      BY <1>1, <3>1 DEF Answered
    <3> QED
      BY <2>1, <2>2, <3>2 DEF Accept, Decline, Revoke, Claim, TypeOK
  <2>3. ASSUME NEW r \in Request, Issue(r) PROVE offers'[i].status = offers[i].status
    BY <1>1, <2>1, <2>3, IssuedRow DEF Answered
  <2>4. ASSUME NEW j \in Offer, Lapse(j) \/ Sweep(j) PROVE offers'[i].status = offers[i].status
    BY <1>1, <2>1, <2>4 DEF Lapse, Sweep, Answered, TypeOK, Row
  <2>5. ASSUME UNCHANGED offers PROVE offers'[i].status = offers[i].status
    BY <2>5
  <2>6. ASSUME NEW r \in Request,
               \/ Ask(r) \/ Refuse(r) \/ AddMember(r) \/ SetMember(r) \/ RemoveMember(r)
               \/ Transfer(r) \/ Invite(r) \/ FindOutstanding(r) \/ Open(r)
        PROVE  offers'[i].status = offers[i].status
    BY <2>5, <2>6 DEF Ask, Refuse, AddMember, SetMember, RemoveMember, Transfer, Commit,
                      Invite, FindOutstanding, Open
  <2>7. CASE UNCHANGED vars
    BY <2>5, <2>7 DEF vars
  <2> QED
    BY <1>1, <2>2, <2>3, <2>4, <2>6, <2>7 DEF Next
<1>2. IInv /\ [Next]_vars =>
        [\A i \in Offer : offers[i].status \in Answered =>
            offers'[i].status = offers[i].status]_vars
  BY <1>1
<1> QED
  BY <1>2, Invariance, PTL DEF Spec, AnsweredStands
=============================================================================
