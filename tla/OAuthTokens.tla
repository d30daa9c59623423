----------------------------- MODULE OAuthTokens -----------------------------
(***************************************************************************)
(* The authorization server (services/oauthserver.py): one application and *)
(* one person, whose consent is a grant; the codes an application or a     *)
(* device exchanges for a pair of tokens; and the refreshes that rotate a  *)
(* pair within its family.                                                 *)
(*                                                                         *)
(* A request is a transaction at READ COMMITTED.  It reads a row, decides, *)
(* and claims the row by a conditional UPDATE that waits for whoever holds *)
(* the row and looks at it again; what it wrote is seen when it commits.   *)
(* The family of a token is the code it descends from.                     *)
(***************************************************************************)
EXTENDS Integers, Sequences, FiniteSets

CONSTANTS
    Codes,      \* authorization codes the application may be given
    Devices,    \* codes of devices that cannot show a browser
    Callers,    \* requests served at a time
    MaxPairs,   \* bound: pairs of tokens issued
    MaxGrants,  \* bound: grants made
    MaxClaims   \* bound: consent screens opened by typing one user code

ASSUME OAuthTokensAssumption ==
    /\ Codes \intersect Devices = {}
    /\ {MaxPairs, MaxGrants, MaxClaims} \subseteq Nat /\ MaxClaims > 0

VARIABLES
    grant,    \* the grant of the person to the application, 0 for none
    code,     \* oauth_codes and oauth_device_codes
    screens,  \* oauth_requests: consent screens waiting for a decision
    pairs,    \* oauth_tokens, two and two: `live` holds the kinds not revoked
    call,     \* the request each caller is serving
    born,     \* history: the codes some authorization was begun for
    grants,   \* history: grants made
    denied    \* history: devices the person was told are denied

vars == <<grant, code, screens, pairs, call, born, grants, denied>>

Kinds == {"access", "refresh"}
NoCode == [stored |-> FALSE, grant |-> 0, answer |-> "none", spent |-> FALSE, expired |-> FALSE]
Idle == [stage |-> "idle"]

\* What a caller presents: a code, or the refresh token of a pair.
Presented == [pair : {0}, code : Codes \union Devices]
                \union [pair : DOMAIN pairs, code : Codes \union Devices]
OfCode(k) == [pair |-> 0, code |-> k]
OfPair(i) == [pair |-> i, code |-> pairs[i].code]

Row(x) == IF x.pair = 0 THEN code[x.code] ELSE pairs[x.pair]
Spent(x) == IF x.pair = 0 THEN code[x.code].spent ELSE "refresh" \notin pairs[x.pair].live

\* The row is locked by a caller that claimed it and has not committed.
Held(x) == \E c \in Callers : call[c].stage = "claimed" /\ call[c].of = x

TypeOK ==
    /\ grant \in 0..grants /\ grants \in 0..MaxGrants
    /\ code \in [Codes \union Devices ->
                    [stored : BOOLEAN, grant : 0..grants, answer : {"none", "approved", "denied"},
                     spent : BOOLEAN, expired : BOOLEAN]]
    /\ screens \subseteq (Codes \union Devices) \X (1..MaxClaims)
    /\ pairs \in Seq([code : Codes \union Devices, grant : 1..grants, from : 0..MaxPairs,
                      live : SUBSET Kinds, stored : BOOLEAN])
    /\ \A c \in Callers :
        \/ call[c] = Idle
        \/ call[c].stage \in {"read", "claimed", "burn", "burning"} /\ call[c].of \in Presented
        \/ call[c].stage = "consent" /\ call[c].screen \in screens
    /\ born \subseteq Codes \union Devices /\ denied \subseteq Devices

Init ==
    /\ grant = 0 /\ grants = 0
    /\ code = [k \in Codes \union Devices |-> NoCode]
    /\ screens = {} /\ pairs = <<>>
    /\ call = [c \in Callers |-> Idle]
    /\ born = {} /\ denied = {}

\* Mutant of Done: the request goes on as if nothing was decided.
Undone(c) == UNCHANGED call

Done(c) == call' = [call EXCEPT ![c] = Idle]
Goes(c, stage) == call' = [call EXCEPT ![c].stage = stage]

-----------------------------------------------------------------------------
(* Consent *)

\* `begin`
Begin(k) ==
    /\ k \notin born
    /\ born' = born \union {k}
    /\ screens' = screens \union {<<k, 1>>}
    /\ UNCHANGED <<grant, code, pairs, call, grants, denied>>

\* `begin_device`
BeginDevice(d) ==
    /\ d \notin born
    /\ born' = born \union {d}
    /\ code' = [code EXCEPT ![d].stored = TRUE]
    /\ UNCHANGED <<grant, screens, pairs, call, grants, denied>>

Waiting(d) == code[d].stored /\ ~code[d].expired /\ code[d].answer = "none" /\ ~code[d].spent

\* `claim_user_code`: typing the code twice opens two screens.
ClaimUserCode(d) ==
    /\ Waiting(d)
    /\ \E n \in 1..MaxClaims :
        /\ <<d, n>> \notin screens
        /\ screens' = screens \union {<<d, n>>}
    /\ UNCHANGED <<grant, code, pairs, call, born, grants, denied>>

\* `_consume_request`: the screen's row is deleted, which another decision on
\* it waits for; then the grant is read.
Decide(c, screen) ==
    /\ call[c] = Idle
    /\ screen \in screens
    /\ \A d \in Callers : call[d].stage = "consent" => call[d].screen # screen
    /\ call' = [call EXCEPT ![c] = [stage |-> "consent", screen |-> screen, grant |-> grant]]
    /\ UNCHANGED <<grant, code, screens, pairs, born, grants, denied>>

\* Mutant of Answerable: the row as `claim_user_code` saw it is trusted.
StillStored(d) == code[d].stored /\ ~code[d].expired

\* The conditions of the UPDATE of a device's row, which a decision is final by.
Answerable(d) == Waiting(d)

\* `approve`, `_approve_device`.  A grant that was read and is gone, or that
\* another decision made first, fails the transaction.
Approve(c) ==
    /\ call[c].stage = "consent"
    /\ LET k == call[c].screen[1]
           g == IF call[c].grant = 0 THEN grants + 1 ELSE call[c].grant
       IN  /\ grant = call[c].grant
           /\ g <= MaxGrants
           /\ k \in Devices => Answerable(k) /\ ~Held(OfCode(k))
           /\ grant' = g
           /\ grants' = IF g > grants THEN g ELSE grants
           /\ code' = [code EXCEPT ![k] =
                [@ EXCEPT !.stored = TRUE, !.grant = g, !.answer = "approved"]]
           /\ screens' = screens \ {call[c].screen}
    /\ Done(c)
    /\ UNCHANGED <<pairs, born, denied>>

\* `deny`
Deny(c) ==
    /\ call[c].stage = "consent"
    /\ LET k == call[c].screen[1]
       IN  /\ k \in Devices => Answerable(k) /\ ~Held(OfCode(k))
           /\ code' = IF k \in Devices THEN [code EXCEPT ![k].answer = "denied"] ELSE code
           /\ denied' = denied \union ({k} \intersect Devices)
           /\ screens' = screens \ {call[c].screen}
    /\ Done(c)
    /\ UNCHANGED <<grant, pairs, born, grants>>

-----------------------------------------------------------------------------
(* Tokens *)

\* `exchange`: a code that was spent is a replay.
Exchange(c, k) ==
    /\ call[c] = Idle /\ code[k].stored
    /\ \/ code[k].spent
       \/ ~code[k].expired
    /\ call' = [call EXCEPT ![c] =
                    [stage |-> IF code[k].spent THEN "burn" ELSE "read",
                     of |-> OfCode(k), grant |-> code[k].grant]]
    /\ UNCHANGED <<grant, code, screens, pairs, born, grants, denied>>

\* `exchange_device`, once it was approved; any other answer changes nothing.
Poll(c, d) ==
    /\ call[c] = Idle
    /\ code[d].stored /\ ~code[d].spent /\ ~code[d].expired /\ code[d].answer = "approved"
    /\ call' = [call EXCEPT ![c] = [stage |-> "read", of |-> OfCode(d), grant |-> code[d].grant]]
    /\ UNCHANGED <<grant, code, screens, pairs, born, grants, denied>>

\* `refresh`
Refresh(c, i) ==
    /\ call[c] = Idle /\ pairs[i].stored
    /\ call' = [call EXCEPT ![c] =
                    [stage |-> IF "refresh" \in pairs[i].live THEN "read" ELSE "burn",
                     of |-> OfPair(i), grant |-> pairs[i].grant]]
    /\ UNCHANGED <<grant, code, screens, pairs, born, grants, denied>>

\* Mutant of Claims: the row as it was read is trusted.
ClaimsAsRead(x) == Row(x).stored

\* The condition of the UPDATE that spends the row, looked at once the row is
\* free.
Claims(x) == Row(x).stored /\ ~Spent(x)

Claim(c) ==
    /\ call[c].stage = "read" /\ ~Held(call[c].of)
    /\ IF Claims(call[c].of) THEN Goes(c, "claimed")
       ELSE IF call[c].of.code \in Devices /\ call[c].of.pair = 0 THEN Done(c)
       ELSE Goes(c, "burn")
    /\ UNCHANGED <<grant, code, screens, pairs, born, grants, denied>>

\* Mutant of Rotated: the token presented stays good.
Multiplied(x) ==
    Append(pairs, [code |-> x.code, grant |-> Row(x).grant, from |-> x.pair, live |-> Kinds,
                   stored |-> TRUE])

\* The pairs once the row of x is spent and a pair is issued for it.
Rotated(x) ==
    Append([i \in DOMAIN pairs |->
                IF i = x.pair THEN [pairs[i] EXCEPT !.live = @ \ {"refresh"}] ELSE pairs[i]],
           [code |-> x.code, grant |-> Row(x).grant, from |-> x.pair, live |-> Kinds,
            stored |-> TRUE])

\* `_issue_pair` and the commit
Issue(c) ==
    LET x == call[c].of
    IN  /\ call[c].stage = "claimed"
        /\ Len(pairs) < MaxPairs
        /\ pairs' = Rotated(x)
        /\ code' = IF x.pair = 0 THEN [code EXCEPT ![x.code].spent = TRUE] ELSE code
        /\ Done(c)
        /\ UNCHANGED <<grant, screens, born, grants, denied>>

\* Mutant of Live: only the tokens that refresh.
LiveRefresh(k) == {t \in (DOMAIN pairs) \X {"refresh"} :
                /\ pairs[t[1]].code = k /\ pairs[t[1]].stored
                /\ t[2] \in pairs[t[1]].live}

\* The tokens of the family that are not revoked.
Live(k) == {t \in (DOMAIN pairs) \X Kinds :
                /\ pairs[t[1]].code = k /\ pairs[t[1]].stored
                /\ t[2] \in pairs[t[1]].live}

\* `_burn_family`: the tokens are read, and marked at the commit.
Burn(c) ==
    /\ call[c].stage = "burn"
    /\ call' = [call EXCEPT ![c] =
                    [stage |-> "burning", of |-> call[c].of, victims |-> Live(call[c].of.code),
                     issued |-> Len(pairs)]]
    /\ UNCHANGED <<grant, code, screens, pairs, born, grants, denied>>

Burnt(c) ==
    /\ call[c].stage = "burning"
    /\ \A t \in call[c].victims : pairs[t[1]].stored /\ ~(t[2] = "refresh" /\ Held(OfPair(t[1])))
    /\ pairs' = [i \in DOMAIN pairs |->
                    [pairs[i] EXCEPT !.live = {kind \in @ : <<i, kind>> \notin call[c].victims}]]
    /\ Done(c)
    /\ UNCHANGED <<grant, code, screens, born, grants, denied>>

\* `revoke`: of a refresh token, its family; of an access token, itself.
Revoke(c, i) ==
    /\ call[c] = Idle /\ pairs[i].stored
    /\ call' = [call EXCEPT ![c] = [stage |-> "burn", of |-> OfPair(i), grant |-> pairs[i].grant]]
    /\ UNCHANGED <<grant, code, screens, pairs, born, grants, denied>>

RevokeAccess(i) ==
    /\ pairs[i].stored
    /\ pairs' = [pairs EXCEPT ![i].live = @ \ {"access"}]
    /\ UNCHANGED <<grant, code, screens, call, born, grants, denied>>

-----------------------------------------------------------------------------
(* The grant taken back, time, and requests that fail *)

\* Mutant of Cascaded: only what can be refreshed goes.
CascadedLive(g) == [i \in DOMAIN pairs |->
    IF pairs[i].grant = g /\ "refresh" \in pairs[i].live
    THEN [pairs[i] EXCEPT !.stored = FALSE] ELSE pairs[i]]

\* What goes with grant g by the cascades of the foreign keys.
Cascaded(g) == [i \in DOMAIN pairs |->
    IF pairs[i].grant = g THEN [pairs[i] EXCEPT !.stored = FALSE] ELSE pairs[i]]

\* The rows of deleted codes, and the screens that go with a device's.
Without(gone) ==
    /\ code' = [k \in DOMAIN code |-> IF k \in gone THEN [code[k] EXCEPT !.stored = FALSE] ELSE code[k]]
    /\ screens' = {s \in screens : s[1] \notin gone \intersect Devices}

\* `withdraw`
Withdraw ==
    /\ grant # 0
    /\ \A c \in Callers : call[c].stage = "claimed" => Row(call[c].of).grant # grant
    /\ \A c \in Callers : call[c].stage = "consent" => call[c].screen[1] \notin Devices
                            \/ code[call[c].screen[1]].grant # grant
    /\ grant' = 0
    /\ Without({k \in DOMAIN code : code[k].stored /\ code[k].grant = grant})
    /\ pairs' = Cascaded(grant)
    /\ UNCHANGED <<call, born, grants, denied>>

Expire(k) ==
    /\ code[k].stored /\ ~code[k].expired
    /\ code' = [code EXCEPT ![k].expired = TRUE]
    /\ UNCHANGED <<grant, screens, pairs, call, born, grants, denied>>

\* `prune`, of one code; `approve` and `begin_device` delete expired ones too.
Prune(k) ==
    /\ code[k].stored /\ code[k].expired /\ ~Held(OfCode(k))
    /\ \A c \in Callers : call[c].stage = "consent" => call[c].screen[1] # k
    /\ Without({k})
    /\ UNCHANGED <<grant, pairs, call, born, grants, denied>>

\* A request is answered with an error or never finishes: a decision about a
\* device that stopped waiting, a row that is gone, a victim of a deadlock, a
\* stop of the server.  Nothing it wrote stays.
Fail(c) ==
    /\ call[c] # Idle
    /\ Done(c)
    /\ UNCHANGED <<grant, code, screens, pairs, born, grants, denied>>

-----------------------------------------------------------------------------
Person ==
    \/ \E k \in Codes : Begin(k)
    \/ \E d \in Devices : BeginDevice(d) \/ ClaimUserCode(d)
    \/ \E c \in Callers :
        \/ \E s \in screens : Decide(c, s)
        \/ Approve(c) \/ Deny(c)
    \/ Withdraw

Application ==
    \E c \in Callers :
        \/ \E k \in Codes : Exchange(c, k)
        \/ \E d \in Devices : Poll(c, d)
        \/ \E i \in DOMAIN pairs : Refresh(c, i) \/ Revoke(c, i)
        \/ Claim(c) \/ Issue(c) \/ Burn(c) \/ Burnt(c)

Next ==
    \/ Person \/ Application
    \/ \E i \in DOMAIN pairs : RevokeAccess(i)
    \/ \E k \in Codes \union Devices : Expire(k) \/ Prune(k)
    \/ \E c \in Callers : Fail(c)

Spec == Init /\ [][Next]_vars

-----------------------------------------------------------------------------
(* Properties *)

\* A code and a refresh token are good for one pair, however many requests
\* present it at once (`exchange`, `exchange_device`, `refresh`: the row is
\* read, and claimed later by another statement).
SpentOnce ==
    \A i, j \in DOMAIN pairs :
        pairs[i].code = pairs[j].code /\ pairs[i].from = pairs[j].from => i = j

\* An authorization has one refresh token that works, or none: an answer that
\* was lost, a replay and a revocation that overlaps a refresh never leave two
\* (`refresh`, `_burn_family`).
OneLiveRefresh ==
    \A i, j \in DOMAIN pairs :
        /\ pairs[i].code = pairs[j].code
        /\ "refresh" \in pairs[i].live /\ "refresh" \in pairs[j].live
        => i = j

\* Disconnecting an application leaves it nothing, whatever was being answered
\* meanwhile (`withdraw`: "a person who has decided an application should stop
\* working means now").
NothingWithoutGrant ==
    /\ \A i \in DOMAIN pairs : pairs[i].stored => pairs[i].grant = grant
    /\ \A k \in DOMAIN code : code[k].stored /\ code[k].answer = "approved" => code[k].grant = grant

\* A decision about a device stands: one that was denied gets no tokens, and
\* nobody is told of a denial that another screen overturned (`_approve_device`,
\* `deny`, `exchange_device`: two screens for one code, decided at once).
DenialStands ==
    /\ \A i \in DOMAIN pairs : pairs[i].code \notin denied
    /\ \A d \in denied : code[d].answer = "denied"

\* A replay or a revocation leaves no token of the family but those of a
\* refresh that overlapped it (`_burn_family`).
BurnReaches ==
    [][\A c \in Callers :
        call[c].stage = "burning" /\ call'[c] = Idle /\ pairs' # pairs
            => \A i \in 1..call[c].issued :
                pairs[i].code = call[c].of.code => pairs'[i].live = {}]_vars

=============================================================================
