-------------------------- MODULE OAuthTokens_proofs --------------------------
(***************************************************************************)
(* For any codes, devices, number of requests served at a time and bounds: *)
(* what is presented is good for one pair, a family has one refresh token  *)
(* that works, a denial is final, a withdrawal leaves nothing, and a       *)
(* revocation reaches all of the family that was issued before it.         *)
(*                                                                         *)
(* None is inductive.  That a second pair is not issued for what was spent *)
(* needs what a claim stands for while its transaction is open: the row is *)
(* not spent yet and nobody else has claimed it.  That one pair replaces   *)
(* another needs that a family begins with its code: while the code is     *)
(* unspent there is no pair of it.  What is claimed is stored, and so is   *)
(* of the grant there is (Granted), and approved if it is a device's       *)
(* (Answered).  A family is of one grant and goes with it (Families).      *)
(* The types need who is served: that a consent screen is decided by one,  *)
(* and that a request presents what is stored (Serving).                   *)
(***************************************************************************)
EXTENDS OAuthTokens, TLAPS

AllCodes == Codes \union Devices

Credential == [pair : Nat, code : AllCodes]

Pair == [code : AllCodes, grant : Nat, from : Nat, live : SUBSET Kinds, stored : BOOLEAN]

CodeRow == [stored : BOOLEAN, grant : Nat, answer : {"none", "approved", "denied"},
            spent : BOOLEAN, expired : BOOLEAN]

Call == {Idle}
    \union [stage : {"read", "claimed", "burn"}, of : Credential, grant : Nat]
    \union [stage : {"consent"}, screen : AllCodes \X Nat, grant : Nat]
    \union [stage : {"burning"}, of : Credential, victims : SUBSET (Nat \X Kinds), issued : Nat]

Typed ==
    /\ grant \in Nat /\ grants \in Nat
    /\ code \in [AllCodes -> CodeRow]
    /\ screens \subseteq AllCodes \X Nat
    /\ pairs \in Seq(Pair)
    /\ call \in [Callers -> Call]

\* A family begins with its code, and goes on from a token that is spent.
Descends ==
    \A i \in DOMAIN pairs :
        /\ code[pairs[i].code].spent
        /\ pairs[i].from # 0 => /\ pairs[i].from \in DOMAIN pairs
                                /\ "refresh" \notin pairs[pairs[i].from].live

\* x is a code, or the refresh token of a pair of the family it names.
Exists(x) == x.pair # 0 => x.pair \in DOMAIN pairs /\ pairs[x.pair].code = x.code

\* A claim is on something that is there and unspent, and is the only one.
Claiming ==
    /\ \A c \in Callers : call[c].stage \in {"read", "claimed"} => Exists(call[c].of)
    /\ \A c \in Callers : call[c].stage = "claimed" => ~Spent(call[c].of)
    /\ \A c, d \in Callers :
        call[c].stage = "claimed" /\ call[d].stage = "claimed" /\ call[c].of = call[d].of => c = d

IInv == Typed /\ Descends /\ Claiming /\ SpentOnce /\ OneLiveRefresh

\* What most actions do to the tokens and the claims: no pair is issued, none
\* is given back what was revoked, no held row is revoked, no code is spent, and
\* a claim may end but not begin.
Keeps ==
    /\ DOMAIN pairs' = DOMAIN pairs
    /\ \A i \in DOMAIN pairs :
        /\ pairs'[i].code = pairs[i].code /\ pairs'[i].from = pairs[i].from
        /\ "refresh" \in pairs'[i].live => "refresh" \in pairs[i].live
        /\ Held(OfPair(i)) /\ "refresh" \in pairs[i].live => "refresh" \in pairs'[i].live
    /\ \A k \in AllCodes : code'[k].spent = code[k].spent
    /\ \A c \in Callers :
        /\ call'[c].stage = "claimed" => call'[c] = call[c]
        /\ call'[c].stage = "read" => call'[c] = call[c] \/ Exists(call'[c].of)

\* What appending and changing in place do to a sequence.
LEMMA SequenceFacts ==
    ASSUME NEW S, NEW s \in Seq(S)
    PROVE  /\ Len(s) \in Nat /\ DOMAIN s = 1..Len(s)
           /\ \A i \in DOMAIN s : s[i] \in S
OBVIOUS

\* A step that leaves the tokens, the codes and the claims alone keeps IInv.
LEMMA KeepsIInv ==
    ASSUME IInv, Typed', Keeps
    PROVE  IInv'
<1>1. Descends'
  <2> SUFFICES ASSUME NEW i \in DOMAIN pairs'
               PROVE  /\ code'[pairs'[i].code].spent
                      /\ pairs'[i].from # 0 => /\ pairs'[i].from \in DOMAIN pairs'
                                               /\ "refresh" \notin pairs'[pairs'[i].from].live
      BY DEF Descends
  <2>1. i \in DOMAIN pairs
    BY DEF Keeps
  <2>2. pairs[i] \in Pair
    BY <2>1, SequenceFacts DEF IInv, Typed
  <2>3. pairs[i].code \in AllCodes
    BY <2>2 DEF Pair
  <2> QED BY <2>1, <2>3 DEF Keeps, IInv, Descends
<1>2. \A c \in Callers : call[c].stage = "claimed" /\ call'[c] = call[c] => ~Spent(call[c].of)'
  <2> SUFFICES ASSUME NEW c \in Callers, call[c].stage = "claimed", call'[c] = call[c]
               PROVE  ~Spent(call[c].of)'
      OBVIOUS
  <2> DEFINE x == call[c].of
  <2>1. x \in Credential /\ Exists(x) /\ ~Spent(x)
    BY DEF IInv, Typed, Claiming, Call, Idle
  <2>2. CASE x.pair = 0
    BY <2>1, <2>2 DEF Spent, Keeps, Credential
  <2>3. CASE x.pair # 0
    <3>1. x.pair \in DOMAIN pairs /\ pairs[x.pair].code = x.code
      BY <2>1, <2>3 DEF Exists
    <3>2. x = OfPair(x.pair)
      BY <2>1, <3>1 DEF OfPair, Credential
    <3>3. Held(OfPair(x.pair))
      BY <3>2 DEF Held
    <3> QED BY <2>1, <2>3, <3>1, <3>3 DEF Spent, Keeps
  <2> QED BY <2>2, <2>3
<1>3. Claiming'
  <2>1. (\A c \in Callers : call[c].stage \in {"read", "claimed"} => Exists(call[c].of))'
    <3> SUFFICES ASSUME NEW c \in Callers, call'[c].stage \in {"read", "claimed"}
                 PROVE  Exists(call[c].of)'
        OBVIOUS
    <3>1. call'[c] = call[c] \/ Exists(call'[c].of)
      BY DEF Keeps
    <3>2. Exists(call'[c].of)
      BY <3>1 DEF IInv, Claiming
    <3> QED BY <3>2 DEF Keeps, Exists
  <2>2. (\A c \in Callers : call[c].stage = "claimed" => ~Spent(call[c].of))'
    BY <1>2 DEF Keeps
  <2>3. (\A c, d \in Callers :
          call[c].stage = "claimed" /\ call[d].stage = "claimed" /\ call[c].of = call[d].of
            => c = d)'
    BY DEF Keeps, IInv, Claiming
  <2> QED BY <2>1, <2>2, <2>3 DEF Claiming
<1>4. SpentOnce'
  BY DEF Keeps, IInv, SpentOnce
<1>5. OneLiveRefresh'
  BY DEF Keeps, IInv, OneLiveRefresh
<1> QED BY <1>1, <1>3, <1>4, <1>5 DEF IInv

-----------------------------------------------------------------------------
(* Actions that issue nothing and claim nothing *)

\* A request that ends has no claim.
LEMMA DoneEnds ==
    ASSUME Typed, NEW c \in Callers, Done(c)
    PROVE  /\ call' \in [Callers -> Call]
           /\ \A d \in Callers : call'[d] = IF d = c THEN Idle ELSE call[d]
           /\ \A d \in Callers : call'[d].stage \in {"read", "claimed"} => call'[d] = call[d]
<1>1. call' \in [Callers -> Call]
  BY DEF Typed, Done, Call
<1>2. \A d \in Callers : call'[d] = IF d = c THEN Idle ELSE call[d]
  BY DEF Typed, Done
<1>3. Idle.stage = "idle"
  BY DEF Idle
<1> QED BY <1>1, <1>2, <1>3

\* Nothing of the tokens changes, no code is spent, and no claim begins.
LEMMA NothingIssued ==
    ASSUME IInv, Typed', UNCHANGED pairs, \A k \in AllCodes : code'[k].spent = code[k].spent,
           \A c \in Callers : call'[c].stage \in {"read", "claimed"} => call'[c] = call[c]
    PROVE  IInv'
<1>1. Keeps
  BY DEF Keeps
<1> QED BY <1>1, KeepsIInv

\* An authorization that begins disturbs nothing.
LEMMA BeginsKeep ==
    ASSUME IInv, NEW k \in AllCodes, Begin(k) \/ BeginDevice(k) \/ ClaimUserCode(k)
    PROVE  IInv'
<1>1. Typed' /\ UNCHANGED <<pairs, call>> /\ \A j \in AllCodes : code'[j].spent = code[j].spent
  <2>1. CASE Begin(k)
    BY <2>1 DEF Begin, IInv, Typed
  <2>2. CASE BeginDevice(k)
    BY <2>2 DEF BeginDevice, IInv, Typed, CodeRow
  <2>3. CASE ClaimUserCode(k)
    <3>1. \A n \in 1..MaxClaims : n \in Nat
      BY OAuthTokensAssumption
    <3> QED BY <2>3, <3>1 DEF ClaimUserCode, IInv, Typed
  <2> QED BY <2>1, <2>2, <2>3
<1> QED BY <1>1, NothingIssued

\* A decision that begins disturbs nothing.
LEMMA DecideKeeps ==
    ASSUME IInv, NEW c \in Callers, NEW screen \in screens, Decide(c, screen)
    PROVE  IInv'
<1> DEFINE now == [stage |-> "consent", screen |-> screen, grant |-> grant]
<1>1. now \in Call /\ now.stage = "consent"
  BY DEF Call, IInv, Typed
<1>2. call' = [call EXCEPT ![c] = now]
  BY DEF Decide
<1>3. call' \in [Callers -> Call]
  BY <1>1, <1>2 DEF IInv, Typed
<1>4. \A d \in Callers : call'[d].stage \in {"read", "claimed"} => call'[d] = call[d]
  BY <1>1, <1>2 DEF IInv, Typed
<1>5. Typed'
  BY <1>3 DEF Decide, IInv, Typed
<1> QED BY <1>4, <1>5, NothingIssued DEF Decide

\* An answer on the consent screen spends nothing.
LEMMA AnswerKeeps ==
    ASSUME IInv, NEW c \in Callers, Approve(c) \/ Deny(c)
    PROVE  IInv'
<1>1. Done(c) /\ UNCHANGED pairs
  BY DEF Approve, Deny
<1>2. call[c].screen \in AllCodes \X Nat /\ call[c].grant \in Nat
  BY DEF Approve, Deny, IInv, Typed, Call, Idle
<1>3. call[c].screen[1] \in AllCodes
  BY <1>2
<1>4. Typed' /\ \A k \in AllCodes : code'[k].spent = code[k].spent
  <2> DEFINE k == call[c].screen[1]
  <2>0. code \in [AllCodes -> CodeRow] /\ call' \in [Callers -> Call]
    BY <1>1, DoneEnds DEF IInv, Typed
  <2>1. CASE Approve(c)
    <3> DEFINE g == IF call[c].grant = 0 THEN grants + 1 ELSE call[c].grant
    <3>0. g \in Nat /\ grants \in Nat
      BY <1>2 DEF IInv, Typed
    <3>1. /\ grant' = g /\ grants' = IF g > grants THEN g ELSE grants
          /\ code' = [code EXCEPT ![k] = [@ EXCEPT !.stored = TRUE, !.grant = g,
                                                   !.answer = "approved"]]
      BY <2>1 DEF Approve
    <3> HIDE DEF g
    <3>2. code' \in [AllCodes -> CodeRow] /\ \A j \in AllCodes : code'[j].spent = code[j].spent
      BY <1>3, <2>0, <3>0, <3>1 DEF CodeRow
    <3>3. screens' \subseteq AllCodes \X Nat /\ pairs' \in Seq(Pair)
      BY <1>1, <2>1 DEF Approve, IInv, Typed
    <3> QED BY <2>0, <3>0, <3>1, <3>2, <3>3 DEF Typed
  <2>2. CASE Deny(c)
    <3>1. code' = IF k \in Devices THEN [code EXCEPT ![k].answer = "denied"] ELSE code
      BY <2>2 DEF Deny
    <3>2. code' \in [AllCodes -> CodeRow] /\ \A j \in AllCodes : code'[j].spent = code[j].spent
      BY <1>3, <2>0, <3>1 DEF CodeRow
    <3>3. /\ screens' \subseteq AllCodes \X Nat /\ pairs' \in Seq(Pair)
          /\ grant' \in Nat /\ grants' \in Nat
      BY <1>1, <2>2 DEF Deny, IInv, Typed
    <3> QED BY <2>0, <3>2, <3>3 DEF Typed
  <2> QED BY <2>1, <2>2
<1>5. \A d \in Callers : call'[d].stage \in {"read", "claimed"} => call'[d] = call[d]
  BY <1>1, DoneEnds DEF IInv
<1> QED BY <1>1, <1>4, <1>5, NothingIssued

\* Reading a code or a token claims nothing.
LEMMA PresentKeeps ==
    ASSUME IInv, NEW c \in Callers,
           \/ \E k \in Codes : Exchange(c, k)
           \/ \E d \in Devices : Poll(c, d)
           \/ \E i \in DOMAIN pairs : Refresh(c, i) \/ Revoke(c, i)
    PROVE  IInv'
<1>1. PICK x \in Credential, g \in Nat, stage \in {"read", "burn"} :
        /\ Exists(x)
        /\ call' = [call EXCEPT ![c] = [stage |-> stage, of |-> x, grant |-> g]]
  <2>1. CASE \E k \in Codes : Exchange(c, k)
    <3>1. PICK k \in Codes : Exchange(c, k)
      BY <2>1
    <3>2. OfCode(k) \in Credential /\ Exists(OfCode(k)) /\ code[k].grant \in Nat
      BY DEF OfCode, Credential, AllCodes, Exists, IInv, Typed, CodeRow
    <3> QED BY <3>1, <3>2 DEF Exchange
  <2>2. CASE \E d \in Devices : Poll(c, d)
    <3>1. PICK d \in Devices : Poll(c, d)
      BY <2>2
    <3>2. OfCode(d) \in Credential /\ Exists(OfCode(d)) /\ code[d].grant \in Nat
      BY DEF OfCode, Credential, AllCodes, Exists, IInv, Typed, CodeRow
    <3> QED BY <3>1, <3>2 DEF Poll
  <2>3. CASE \E i \in DOMAIN pairs : Refresh(c, i) \/ Revoke(c, i)
    <3>1. PICK i \in DOMAIN pairs : Refresh(c, i) \/ Revoke(c, i)
      BY <2>3
    <3>2. pairs[i] \in Pair /\ i \in Nat
      BY SequenceFacts DEF IInv, Typed
    <3>3. OfPair(i) \in Credential /\ Exists(OfPair(i)) /\ pairs[i].grant \in Nat
      BY <3>2 DEF OfPair, Credential, Exists, Pair
    <3> QED BY <3>1, <3>3 DEF Refresh, Revoke
  <2> QED BY <2>1, <2>2, <2>3
<1>2. UNCHANGED <<grant, code, screens, pairs, grants>>
  BY DEF Exchange, Poll, Refresh, Revoke
<1> DEFINE now == [stage |-> stage, of |-> x, grant |-> g]
<1>3. now \in Call /\ now.stage # "claimed" /\ now.of = x
  BY DEF Call
<1>4. Typed'
  BY <1>1, <1>2, <1>3 DEF IInv, Typed
<1>5. \A d \in Callers : call'[d] = IF d = c THEN now ELSE call[d]
  BY <1>1 DEF IInv, Typed
<1>6. Keeps
  BY <1>1, <1>2, <1>3, <1>5 DEF Keeps
<1> QED BY <1>4, <1>6, KeepsIInv

\* Reading a family names only pairs that exist.
LEMMA BurnKeeps ==
    ASSUME IInv, NEW c \in Callers, Burn(c)
    PROVE  IInv'
<1> DEFINE now == [stage |-> "burning", of |-> call[c].of, victims |-> Live(call[c].of.code),
                   issued |-> Len(pairs)]
<1>1. call[c].of \in Credential
  BY DEF Burn, IInv, Typed, Call, Idle
<1>2. Live(call[c].of.code) \in SUBSET (Nat \X Kinds)
  <2>1. DOMAIN pairs \subseteq Nat /\ Len(pairs) \in Nat
    BY SequenceFacts DEF IInv, Typed
  <2> QED BY <2>1 DEF Live
<1>3. Len(pairs) \in Nat
  BY SequenceFacts DEF IInv, Typed
<1>4. now \in Call /\ now.stage = "burning"
  BY <1>1, <1>2, <1>3 DEF Call
<1>5. call' = [call EXCEPT ![c] = now]
  BY DEF Burn
<1> HIDE DEF now
<1>6. Typed'
  BY <1>4, <1>5 DEF Burn, IInv, Typed
<1>7. \A d \in Callers : call'[d].stage \in {"read", "claimed"} => call'[d] = call[d]
  BY <1>4, <1>5 DEF IInv, Typed
<1> QED BY <1>6, <1>7, NothingIssued DEF Burn

\* The refresh token of a held row is not among what a revocation marks.
LEMMA BurntKeeps ==
    ASSUME IInv, NEW c \in Callers, Burnt(c)
    PROVE  IInv'
<1>1. DOMAIN pairs = 1..Len(pairs) /\ Len(pairs) \in Nat /\ \A i \in DOMAIN pairs : pairs[i] \in Pair
  BY SequenceFacts DEF IInv, Typed
<1>2. pairs' = [i \in 1..Len(pairs) |->
                    [pairs[i] EXCEPT !.live = {kind \in @ : <<i, kind>> \notin call[c].victims}]]
  BY <1>1 DEF Burnt
<1>3. \A i \in 1..Len(pairs) :
        /\ pairs'[i] \in Pair /\ pairs'[i].code = pairs[i].code /\ pairs'[i].from = pairs[i].from
        /\ pairs'[i].live = {kind \in pairs[i].live : <<i, kind>> \notin call[c].victims}
  BY <1>1, <1>2 DEF Pair
<1>4. pairs' \in Seq(Pair) /\ DOMAIN pairs' = DOMAIN pairs
  BY <1>1, <1>2, <1>3
<1>5. /\ call' \in [Callers -> Call]
      /\ \A d \in Callers : call'[d].stage \in {"read", "claimed"} => call'[d] = call[d]
  BY DoneEnds DEF Burnt, IInv
<1>6. Typed'
  BY <1>4, <1>5 DEF Burnt, IInv, Typed
<1>7. \A i \in DOMAIN pairs :
        Held(OfPair(i)) /\ "refresh" \in pairs[i].live => "refresh" \in pairs'[i].live
  <2> SUFFICES ASSUME NEW i \in DOMAIN pairs, Held(OfPair(i)), "refresh" \in pairs[i].live
               PROVE  <<i, "refresh">> \notin call[c].victims
      BY <1>1, <1>3
  <2>1. \A t \in call[c].victims : ~(t[2] = "refresh" /\ Held(OfPair(t[1])))
    BY DEF Burnt
  <2> QED BY <2>1
<1>8. Keeps
  BY <1>1, <1>3, <1>4, <1>5, <1>7 DEF Keeps, Burnt
<1> QED BY <1>6, <1>8, KeepsIInv

\* An access token revoked leaves the refresh tokens alone.
LEMMA RevokeAccessKeeps ==
    ASSUME IInv, NEW i \in DOMAIN pairs, RevokeAccess(i)
    PROVE  IInv'
<1>1. DOMAIN pairs = 1..Len(pairs) /\ Len(pairs) \in Nat /\ \A j \in DOMAIN pairs : pairs[j] \in Pair
  BY SequenceFacts DEF IInv, Typed
<1>2. pairs' = [j \in 1..Len(pairs) |->
        IF j = i THEN [pairs[j] EXCEPT !.live = pairs[j].live \ {"access"}] ELSE pairs[j]]
  BY <1>1 DEF RevokeAccess
<1>3. \A j \in 1..Len(pairs) :
        /\ pairs'[j] \in Pair /\ pairs'[j].code = pairs[j].code /\ pairs'[j].from = pairs[j].from
        /\ "refresh" \in pairs'[j].live <=> "refresh" \in pairs[j].live
  BY <1>1, <1>2 DEF Pair
<1>4. pairs' \in Seq(Pair) /\ DOMAIN pairs' = DOMAIN pairs
  BY <1>1, <1>2, <1>3
<1>5. Typed'
  BY <1>4 DEF RevokeAccess, IInv, Typed
<1>6. Keeps
  BY <1>1, <1>3, <1>4 DEF Keeps, RevokeAccess
<1> QED BY <1>5, <1>6, KeepsIInv

\* Deleted rows keep what they were, for whoever still names them.
LEMMA WithoutKeeps ==
    ASSUME Typed, NEW gone, Without(gone)
    PROVE  /\ code' \in [AllCodes -> CodeRow] /\ screens' \subseteq AllCodes \X Nat
           /\ \A k \in AllCodes : code'[k].spent = code[k].spent
BY DEF Typed, Without, CodeRow

\* A grant taken back takes no row that is claimed.
LEMMA WithdrawKeeps ==
    ASSUME IInv, Withdraw
    PROVE  IInv'
<1>1. DOMAIN pairs = 1..Len(pairs) /\ Len(pairs) \in Nat /\ \A i \in DOMAIN pairs : pairs[i] \in Pair
  BY SequenceFacts DEF IInv, Typed
<1>2. pairs' = [i \in 1..Len(pairs) |->
        IF pairs[i].grant = grant THEN [pairs[i] EXCEPT !.stored = FALSE] ELSE pairs[i]]
  BY <1>1 DEF Withdraw, Cascaded
<1>3. \A i \in 1..Len(pairs) :
        /\ pairs'[i] \in Pair /\ pairs'[i].code = pairs[i].code /\ pairs'[i].from = pairs[i].from
        /\ pairs'[i].live = pairs[i].live
  BY <1>1, <1>2 DEF Pair
<1>4. pairs' \in Seq(Pair) /\ DOMAIN pairs' = DOMAIN pairs
  BY <1>1, <1>2, <1>3
<1>5. /\ code' \in [AllCodes -> CodeRow] /\ screens' \subseteq AllCodes \X Nat
      /\ \A k \in AllCodes : code'[k].spent = code[k].spent
  BY WithoutKeeps DEF Withdraw, IInv
<1>6. Typed'
  BY <1>4, <1>5 DEF Withdraw, IInv, Typed
<1>7. Keeps
  BY <1>1, <1>3, <1>4, <1>5 DEF Keeps, Withdraw
<1> QED BY <1>6, <1>7, KeepsIInv

\* Codes expire and are pruned, none of them claimed.
LEMMA TimeKeeps ==
    ASSUME IInv, NEW k \in AllCodes, Expire(k) \/ Prune(k)
    PROVE  IInv'
<1>1. /\ code' \in [AllCodes -> CodeRow] /\ screens' \subseteq AllCodes \X Nat
      /\ \A j \in AllCodes : code'[j].spent = code[j].spent
  <2>1. CASE Expire(k)
    BY <2>1 DEF Expire, IInv, Typed, CodeRow
  <2>2. CASE Prune(k)
    BY <2>2, WithoutKeeps DEF Prune, IInv
  <2> QED BY <2>1, <2>2
<1>2. UNCHANGED <<grant, pairs, call, grants>>
  BY DEF Expire, Prune
<1>3. Typed'
  BY <1>1, <1>2 DEF IInv, Typed
<1> QED BY <1>1, <1>2, <1>3, NothingIssued

\* A request that fails lets its claim go.
LEMMA FailKeeps ==
    ASSUME IInv, NEW c \in Callers, Fail(c)
    PROVE  IInv'
<1>1. /\ call' \in [Callers -> Call]
      /\ \A d \in Callers : call'[d].stage \in {"read", "claimed"} => call'[d] = call[d]
  BY DoneEnds DEF Fail, IInv
<1>2. Typed'
  BY <1>1 DEF Fail, IInv, Typed
<1> QED BY <1>1, <1>2, NothingIssued DEF Fail

-----------------------------------------------------------------------------
(* The actions that claim a row and issue a pair for it *)

\* A claim begins on what is there, is unspent, and nobody else holds.
LEMMA ClaimKeeps ==
    ASSUME IInv, NEW c \in Callers, Claim(c)
    PROVE  IInv'
<1> DEFINE x == call[c].of
<1>1. /\ call[c].stage = "read" /\ ~Held(x)
      /\ x \in Credential /\ Exists(x)
      /\ call[c] \in [stage : {"read", "claimed", "burn"}, of : Credential, grant : Nat]
  BY DEF Claim, IInv, Typed, Claiming, Call, Idle
<1>2. CASE Done(c)
  <2>1. /\ call' \in [Callers -> Call]
        /\ \A d \in Callers : call'[d].stage \in {"read", "claimed"} => call'[d] = call[d]
    BY <1>2, DoneEnds DEF IInv
  <2>2. Typed'
    BY <2>1 DEF Claim, IInv, Typed
  <2> QED BY <2>1, <2>2, NothingIssued DEF Claim
<1>3. CASE Goes(c, "burn")
  <2>1. [call[c] EXCEPT !.stage = "burn"] \in Call
    BY <1>1 DEF Call
  <2>2. Typed'
    BY <1>3, <2>1 DEF Goes, Claim, IInv, Typed
  <2>3. \A d \in Callers : call'[d].stage \in {"read", "claimed"} => call'[d] = call[d]
    BY <1>1, <1>3 DEF Goes, IInv, Typed
  <2> QED BY <2>2, <2>3, NothingIssued DEF Claim
<1>4. CASE Claims(x) /\ Goes(c, "claimed")
  <2>1. /\ [call[c] EXCEPT !.stage = "claimed"] \in Call
        /\ call' = [call EXCEPT ![c] = [call[c] EXCEPT !.stage = "claimed"]]
    BY <1>1, <1>4 DEF Call, Goes
  <2>2. Typed'
    BY <2>1 DEF Claim, IInv, Typed
  <2>3. \A d \in Callers :
          /\ d # c => call'[d] = call[d]
          /\ d = c => call'[d].stage = "claimed" /\ call'[d].of = x
    BY <1>1, <2>1 DEF IInv, Typed
  <2>4. Claiming'
    <3>1. (\A d \in Callers : call[d].stage \in {"read", "claimed"} => Exists(call[d].of))'
      BY <1>1, <2>3 DEF Claim, IInv, Claiming, Exists
    <3>2. (\A d \in Callers : call[d].stage = "claimed" => ~Spent(call[d].of))'
      BY <1>4, <2>3 DEF Claim, Claims, IInv, Claiming, Spent
    <3>3. (\A d, e \in Callers :
            call[d].stage = "claimed" /\ call[e].stage = "claimed" /\ call[d].of = call[e].of
              => d = e)'
      <4>1. \A d \in Callers : call[d].stage = "claimed" => call[d].of # x
        BY <1>1 DEF Held
      <4> QED BY <2>3, <4>1 DEF IInv, Claiming
    <3> QED BY <3>1, <3>2, <3>3 DEF Claiming
  <2>5. Descends' /\ SpentOnce' /\ OneLiveRefresh'
    BY DEF Claim, IInv, Descends, SpentOnce, OneLiveRefresh
  <2> QED BY <2>2, <2>4, <2>5 DEF IInv
<1> QED BY <1>2, <1>3, <1>4 DEF Claim

\* What is claimed is unspent, so no pair descends from it; once it is spent, the
\* new pair is the only one of its family that can be refreshed.
LEMMA IssueKeeps ==
    ASSUME IInv, NEW c \in Callers, Issue(c)
    PROVE  IInv'
<1> DEFINE x == call[c].of
           n == Len(pairs)
           new == [code |-> x.code, grant |-> Row(x).grant, from |-> x.pair, live |-> Kinds,
                   stored |-> TRUE]
           Spends(i) == IF i = x.pair THEN [pairs[i] EXCEPT !.live = pairs[i].live \ {"refresh"}]
                        ELSE pairs[i]
<1>1. /\ n \in Nat /\ DOMAIN pairs = 1..n
      /\ \A i \in 1..n : pairs[i] \in Pair
  BY SequenceFacts DEF IInv, Typed
<1>2. /\ call[c].stage = "claimed" /\ x \in Credential /\ Exists(x) /\ ~Spent(x)
  BY DEF Issue, IInv, Typed, Claiming, Call, Idle
<1>3. x.pair \in Nat /\ x.code \in AllCodes
  BY <1>2 DEF Credential
<1>4. new \in Pair
  <2>1. Row(x).grant \in Nat
    BY <1>1, <1>2, <1>3 DEF Row, Exists, IInv, Typed, CodeRow, Pair
  <2> QED BY <1>3, <2>1 DEF Pair, Kinds
<1>5. \A i \in 1..n :
        /\ Spends(i) \in Pair /\ Spends(i).code = pairs[i].code /\ Spends(i).from = pairs[i].from
        /\ "refresh" \in Spends(i).live <=> ("refresh" \in pairs[i].live /\ i # x.pair)
  BY <1>1 DEF Pair
<1>6. /\ pairs' \in Seq(Pair) /\ DOMAIN pairs' = 1..(n + 1)
      /\ \A i \in 1..n : pairs'[i] = Spends(i)
      /\ pairs'[n + 1] = new
  <2> DEFINE rest == [i \in 1..n |-> Spends(i)]
  <2>1. rest \in Seq(Pair) /\ Len(rest) = n
    BY <1>1, <1>5
  <2>2. pairs' = Append(rest, new)
    BY <1>1 DEF Issue, Rotated
  <2> HIDE DEF rest, new
  <2>3. /\ pairs' \in Seq(Pair) /\ DOMAIN pairs' = 1..(n + 1)
        /\ \A i \in 1..n : pairs'[i] = rest[i]
        /\ pairs'[n + 1] = new
    BY <1>1, <1>4, <2>1, <2>2
  <2> QED BY <2>3 DEF rest
<1>7. /\ code' \in [AllCodes -> CodeRow]
      /\ \A k \in AllCodes : code'[k].spent <=> (code[k].spent \/ (x.pair = 0 /\ k = x.code))
  BY <1>3 DEF Issue, IInv, Typed, CodeRow
<1>8. /\ call' \in [Callers -> Call] /\ call'[c].stage = "idle"
      /\ \A d \in Callers : d # c => call'[d] = call[d]
  BY DoneEnds DEF Issue, IInv, Idle
<1>9. Typed'
  BY <1>6, <1>7, <1>8 DEF Issue, IInv, Typed
<1> HIDE DEF x, n, new, Spends
<1>10. /\ new.code = x.code /\ new.from = x.pair /\ "refresh" \in new.live
  BY DEF new, Kinds
\* The pairs of the family, before: none if x is its code; one of them can be
\* refreshed if x is its token.
<1>11. x.pair = 0 => \A i \in 1..n : pairs[i].code # x.code
  BY <1>1, <1>2 DEF Spent, IInv, Descends
<1>12. x.pair # 0 => /\ x.pair \in 1..n /\ pairs[x.pair].code = x.code
                     /\ "refresh" \in pairs[x.pair].live
  BY <1>1, <1>2 DEF Spent, Exists
<1>13. Descends'
  <2> SUFFICES ASSUME NEW i \in 1..(n + 1)
               PROVE  /\ code'[pairs'[i].code].spent
                      /\ pairs'[i].from # 0 => /\ pairs'[i].from \in 1..(n + 1)
                                               /\ "refresh" \notin pairs'[pairs'[i].from].live
      BY <1>6 DEF Descends
  <2>1. CASE i \in 1..n
    <3>1. /\ pairs[i].code \in AllCodes /\ code[pairs[i].code].spent
          /\ pairs[i].from # 0 => pairs[i].from \in 1..n /\ "refresh" \notin pairs[pairs[i].from].live
      BY <1>1, <2>1 DEF IInv, Descends, Pair
    <3> QED BY <1>1, <1>5, <1>6, <1>7, <2>1, <3>1
  <2>2. CASE i = n + 1
    <3>1. x.pair # 0 => code[x.code].spent
      BY <1>1, <1>12 DEF IInv, Descends
    <3> QED BY <1>1, <1>3, <1>5, <1>6, <1>7, <1>10, <1>12, <2>2, <3>1
  <2> QED BY <1>1, <2>1, <2>2
<1>14. SpentOnce'
  <2>1. \A i \in 1..n : ~(pairs[i].code = x.code /\ pairs[i].from = x.pair)
    BY <1>1, <1>11, <1>12 DEF IInv, Descends
  <2> SUFFICES ASSUME NEW i \in 1..(n + 1), NEW j \in 1..(n + 1),
                      pairs'[i].code = pairs'[j].code, pairs'[i].from = pairs'[j].from
               PROVE  i = j
      BY <1>6 DEF SpentOnce
  <2>2. CASE i \in 1..n /\ j \in 1..n
    BY <1>1, <1>5, <1>6, <2>2 DEF IInv, SpentOnce
  <2>3. CASE i = n + 1 \/ j = n + 1
    BY <1>1, <1>5, <1>6, <1>10, <2>1, <2>3
  <2> QED BY <1>1, <2>2, <2>3
<1>15. OneLiveRefresh'
  <2>1. \A i \in 1..n : pairs[i].code = x.code /\ "refresh" \in pairs[i].live => i = x.pair
    BY <1>1, <1>11, <1>12 DEF IInv, OneLiveRefresh
  <2> SUFFICES ASSUME NEW i \in 1..(n + 1), NEW j \in 1..(n + 1), pairs'[i].code = pairs'[j].code,
                      "refresh" \in pairs'[i].live, "refresh" \in pairs'[j].live
               PROVE  i = j
      BY <1>6 DEF OneLiveRefresh
  <2>2. CASE i \in 1..n /\ j \in 1..n
    BY <1>1, <1>5, <1>6, <2>2 DEF IInv, OneLiveRefresh
  <2>3. CASE i = n + 1 \/ j = n + 1
    BY <1>1, <1>5, <1>6, <1>10, <2>1, <2>3
  <2> QED BY <1>1, <2>2, <2>3
<1>16. Claiming'
  <2>1. (\A d \in Callers : call[d].stage \in {"read", "claimed"} => Exists(call[d].of))'
    <3> SUFFICES ASSUME NEW d \in Callers, call'[d].stage \in {"read", "claimed"}
                 PROVE  Exists(call[d].of)'
        OBVIOUS
    <3>1. call'[d] = call[d] /\ Exists(call[d].of)
      BY <1>8 DEF IInv, Claiming
    <3> QED BY <1>1, <1>5, <1>6, <3>1 DEF Exists
  <2>2. (\A d \in Callers : call[d].stage = "claimed" => ~Spent(call[d].of))'
    <3> SUFFICES ASSUME NEW d \in Callers, call'[d].stage = "claimed"
                 PROVE  ~Spent(call[d].of)'
        OBVIOUS
    <3>1. /\ d # c /\ call'[d] = call[d] /\ ~Spent(call[d].of) /\ call[d].of # x
          /\ call[d].of \in Credential /\ Exists(call[d].of)
      BY <1>2, <1>8 DEF IInv, Claiming, Typed, Call, Idle, x
    <3> DEFINE y == call[d].of
    <3>2. y.pair = x.pair => y.code # x.code
      BY <1>2, <3>1 DEF Credential
    <3>3. CASE y.pair = 0
      BY <1>7, <3>1, <3>2, <3>3 DEF Spent, Credential
    <3>4. CASE y.pair # 0
      <4>1. y.pair \in 1..n /\ pairs[y.pair].code = y.code /\ "refresh" \in pairs[y.pair].live
        BY <1>1, <3>1, <3>4 DEF Exists, Spent
      <4>2. y.pair # x.pair
        BY <1>12, <3>2, <3>4, <4>1
      <4> QED BY <1>5, <1>6, <3>1, <3>4, <4>1, <4>2 DEF Spent
    <3> QED BY <3>3, <3>4
  <2>3. (\A d, e \in Callers :
          call[d].stage = "claimed" /\ call[e].stage = "claimed" /\ call[d].of = call[e].of
            => d = e)'
    BY <1>8 DEF IInv, Claiming
  <2> QED BY <2>1, <2>2, <2>3 DEF Claiming
<1> QED BY <1>9, <1>13, <1>14, <1>15, <1>16 DEF IInv

-----------------------------------------------------------------------------
\* Nothing was issued at first.
LEMMA InitIInv == Init => IInv
<1> SUFFICES ASSUME Init PROVE IInv
    OBVIOUS
<1>1. Idle \in Call /\ Idle.stage = "idle"
  BY DEF Call, Idle
<1>2. NoCode \in CodeRow
  BY DEF NoCode, CodeRow
<1>3. pairs \in Seq(Pair) /\ DOMAIN pairs = {}
  BY DEF Init
<1>4. Typed
  BY <1>1, <1>2, <1>3 DEF Init, Typed, AllCodes
<1>5. Claiming
  BY <1>1 DEF Init, Claiming
<1> QED BY <1>3, <1>4, <1>5 DEF IInv, Descends, SpentOnce, OneLiveRefresh

\* IInv is inductive: one lemma for each action.
LEMMA NextIInv == IInv /\ [Next]_vars => IInv'
<1> SUFFICES ASSUME IInv, [Next]_vars PROVE IInv'
    OBVIOUS
<1>1. CASE Person
  <2>1. CASE \E k \in AllCodes : Begin(k) \/ BeginDevice(k) \/ ClaimUserCode(k)
    BY <2>1, BeginsKeep
  <2>2. CASE \E c \in Callers : \E screen \in screens : Decide(c, screen)
    BY <2>2, DecideKeeps
  <2>3. CASE \E c \in Callers : Approve(c) \/ Deny(c)
    BY <2>3, AnswerKeeps
  <2>4. CASE Withdraw
    BY <2>4, WithdrawKeeps
  <2> QED BY <1>1, <2>1, <2>2, <2>3, <2>4 DEF Person, AllCodes
<1>2. CASE Application
  <2>1. PICK c \in Callers :
          \/ \E k \in Codes : Exchange(c, k)
          \/ \E d \in Devices : Poll(c, d)
          \/ \E i \in DOMAIN pairs : Refresh(c, i) \/ Revoke(c, i)
          \/ Claim(c) \/ Issue(c) \/ Burn(c) \/ Burnt(c)
    BY <1>2 DEF Application
  <2> QED BY <2>1, PresentKeeps, ClaimKeeps, IssueKeeps, BurnKeeps, BurntKeeps
<1>3. CASE \E i \in DOMAIN pairs : RevokeAccess(i)
  BY <1>3, RevokeAccessKeeps
<1>4. CASE \E k \in Codes \union Devices : Expire(k) \/ Prune(k)
  BY <1>4, TimeKeeps DEF AllCodes
<1>5. CASE \E c \in Callers : Fail(c)
  BY <1>5, FailKeeps
<1>6. CASE UNCHANGED vars
  BY <1>6 DEF vars, IInv, Typed, Descends, Claiming, Exists, Spent, SpentOnce, OneLiveRefresh
<1> QED BY <1>1, <1>2, <1>3, <1>4, <1>5, <1>6 DEF Next

\* IInv always holds.
THEOREM Invariance == Spec => []IInv
BY InitIInv, NextIInv, PTL DEF Spec

\* A code and a refresh token are good for one pair, with any number of
\* requests presenting them at once (`exchange`, `exchange_device`, `refresh`).
THEOREM PresentedOnce == Spec => []SpentOnce
<1>1. IInv => SpentOnce
  BY DEF IInv
<1> QED BY <1>1, Invariance, PTL

\* An authorization never has two refresh tokens that work, in whatever order
\* refreshes, replays, revocations and the withdrawal of the grant commit.
THEOREM OneRefreshToken == Spec => []OneLiveRefresh
<1>1. IInv => OneLiveRefresh
  BY DEF IInv
<1> QED BY <1>1, Invariance, PTL

-----------------------------------------------------------------------------
(* Denials and the grant *)

\* Only devices are denied, and what a device was answered stands: its pairs,
\* and the requests about to be given one, are of devices that were approved.
Answered ==
    /\ \A d \in denied : d \in Devices /\ code[d].answer = "denied"
    /\ \A d \in Devices \ born : ~code[d].stored /\ code[d].answer = "none"
    /\ \A i \in DOMAIN pairs :
        pairs[i].code \in Devices => code[pairs[i].code].answer = "approved"
    /\ \A c \in Callers :
        /\ call[c].stage \in {"read", "claimed"} /\ call[c].of.pair = 0
        /\ call[c].of.code \in Devices
        => code[call[c].of.code].answer = "approved"

\* What is stored is of the one grant, and so is what a claim holds, which is
\* there as long as the claim lasts.
Granted ==
    /\ \A i \in DOMAIN pairs : pairs[i].stored => pairs[i].grant = grant /\ grant # 0
    /\ \A k \in AllCodes :
        code[k].stored /\ code[k].answer = "approved" => code[k].grant = grant /\ grant # 0
    /\ \A k \in Codes : code[k].stored => code[k].answer = "approved"
    /\ \A c \in Callers :
        call[c].stage = "claimed" =>
            /\ Row(call[c].of).stored
            /\ call[c].of.pair = 0 => code[call[c].of.code].answer = "approved"

\* What most actions do to the decisions: none is made or undone, no row that is
\* held is deleted, and who begins to ask for a pair has an approved code.
Leaves ==
    /\ UNCHANGED <<grant, denied>> /\ born \subseteq born'
    /\ DOMAIN pairs' = DOMAIN pairs
    /\ \A i \in DOMAIN pairs :
        /\ pairs'[i].code = pairs[i].code /\ pairs'[i].grant = pairs[i].grant
        /\ pairs'[i].stored = pairs[i].stored
    /\ \A k \in AllCodes :
        /\ code'[k].grant = code[k].grant /\ code'[k].answer = code[k].answer
        /\ code'[k].stored => code[k].stored \/ (k \in Devices \ born /\ k \in born')
        /\ code[k].stored /\ Held(OfCode(k)) => code'[k].stored
    /\ \A c \in Callers :
        /\ call'[c].stage = "claimed" => call'[c] = call[c]
        /\ call'[c].stage = "read" =>
            \/ call'[c] = call[c]
            \/ call'[c].of.pair # 0 \/ call'[c].of.code \in Codes
            \/ code[call'[c].of.code].answer = "approved"

\* What a request presents is a credential, and is there once it is read.
LEMMA ReadFacts ==
    ASSUME IInv, NEW c \in Callers, call[c].stage \in {"read", "claimed"}
    PROVE  /\ call[c].of \in Credential
           /\ call[c].of.pair \in Nat /\ call[c].of.code \in AllCodes
           /\ call[c].of.pair = 0 => call[c].of = OfCode(call[c].of.code)
           /\ call[c].of.pair # 0 => /\ call[c].of.pair \in DOMAIN pairs
                                     /\ pairs[call[c].of.pair].code = call[c].of.code
<1>1. call[c].of \in Credential
  BY DEF IInv, Typed, Call, Idle
<1>2. Exists(call[c].of)
  BY DEF IInv, Claiming
<1> QED BY <1>1, <1>2 DEF Credential, OfCode, Exists

\* A pair is of a code.
LEMMA PairFacts ==
    ASSUME IInv, NEW i \in DOMAIN pairs
    PROVE  pairs[i] \in Pair /\ pairs[i].code \in AllCodes
<1>1. pairs[i] \in Pair
  BY SequenceFacts DEF IInv, Typed
<1> QED BY <1>1 DEF Pair

\* Where no decision is made, decisions stand and the grant covers what it did.
LEMMA LeavesKeeps ==
    ASSUME IInv, Answered, Granted, Leaves
    PROVE  Answered' /\ Granted'
<1>0. Devices \subseteq AllCodes /\ Codes \subseteq AllCodes /\ Codes \intersect Devices = {}
  BY OAuthTokensAssumption DEF AllCodes
<1>1. (\A d \in denied : d \in Devices /\ code[d].answer = "denied")'
  BY <1>0 DEF Answered, Leaves
<1>2. (\A d \in Devices \ born : ~code[d].stored /\ code[d].answer = "none")'
  BY <1>0 DEF Answered, Leaves
<1>3. (\A i \in DOMAIN pairs :
          pairs[i].code \in Devices => code[pairs[i].code].answer = "approved")'
  BY <1>0 DEF Answered, Leaves
<1>4. (\A c \in Callers :
          /\ call[c].stage \in {"read", "claimed"} /\ call[c].of.pair = 0
          /\ call[c].of.code \in Devices
          => code[call[c].of.code].answer = "approved")'
  <2> SUFFICES ASSUME NEW c \in Callers, call'[c].stage \in {"read", "claimed"},
                      call'[c].of.pair = 0, call'[c].of.code \in Devices
               PROVE  code'[call'[c].of.code].answer = "approved"
      OBVIOUS
  <2>1. call'[c] = call[c] \/ code[call'[c].of.code].answer = "approved"
    BY <1>0 DEF Leaves
  <2>2. code[call'[c].of.code].answer = "approved"
    BY <2>1 DEF Answered
  <2> QED BY <1>0, <2>2 DEF Leaves
<1>5. (\A i \in DOMAIN pairs : pairs[i].stored => pairs[i].grant = grant /\ grant # 0)'
  BY DEF Granted, Leaves
<1>6. (\A k \in AllCodes :
          code[k].stored /\ code[k].answer = "approved" => code[k].grant = grant /\ grant # 0)'
  BY DEF Granted, Answered, Leaves
<1>7. (\A k \in Codes : code[k].stored => code[k].answer = "approved")'
  BY <1>0 DEF Granted, Leaves
<1>8. (\A c \in Callers :
          call[c].stage = "claimed" =>
              /\ Row(call[c].of).stored
              /\ call[c].of.pair = 0 => code[call[c].of.code].answer = "approved")'
  <2> SUFFICES ASSUME NEW c \in Callers, call'[c].stage = "claimed"
               PROVE  /\ Row(call[c].of)'.stored
                      /\ call'[c].of.pair = 0 => code'[call'[c].of.code].answer = "approved"
      OBVIOUS
  <2>1. call'[c] = call[c]
    BY DEF Leaves
  <2>2. /\ Row(call[c].of).stored
        /\ call[c].of.pair = 0 => code[call[c].of.code].answer = "approved"
    BY <2>1 DEF Granted
  <2>3. CASE call[c].of.pair = 0
    <3>1. Held(OfCode(call[c].of.code)) /\ call[c].of.code \in AllCodes
      BY <2>1, <2>3, ReadFacts DEF Held
    <3> QED BY <2>1, <2>2, <2>3, <3>1 DEF Row, Leaves
  <2>4. CASE call[c].of.pair # 0
    BY <2>1, <2>2, <2>4, ReadFacts DEF Row, Leaves
  <2> QED BY <2>3, <2>4
<1> QED BY <1>1, <1>2, <1>3, <1>4, <1>5, <1>6, <1>7, <1>8 DEF Answered, Granted

\* Authorizations that begin, and time, decide nothing.
LEMMA CodesLeave ==
    ASSUME IInv, NEW k \in AllCodes,
           \/ k \in Codes /\ Begin(k)
           \/ k \in Devices /\ (BeginDevice(k) \/ ClaimUserCode(k))
           \/ Expire(k) \/ Prune(k)
    PROVE  Leaves
<1>1. UNCHANGED <<grant, denied, pairs, call>> /\ born \subseteq born'
  BY DEF Begin, BeginDevice, ClaimUserCode, Expire, Prune
<1>2. code \in [AllCodes -> CodeRow]
  BY DEF IInv, Typed
<1>3. \A j \in AllCodes :
        /\ code'[j].grant = code[j].grant /\ code'[j].answer = code[j].answer
        /\ code'[j].stored => code[j].stored \/ (j \in Devices \ born /\ j \in born')
        /\ code[j].stored /\ Held(OfCode(j)) => code'[j].stored
  <2>1. CASE Begin(k) \/ ClaimUserCode(k)
    BY <2>1 DEF Begin, ClaimUserCode
  <2>2. CASE k \in Devices /\ BeginDevice(k)
    BY <1>2, <2>2 DEF BeginDevice, CodeRow
  <2>3. CASE Expire(k)
    BY <1>2, <2>3 DEF Expire, CodeRow
  <2>4. CASE Prune(k)
    BY <1>2, <2>4 DEF Prune, Without, CodeRow
  <2> QED BY <2>1, <2>2, <2>3, <2>4
<1> QED BY <1>1, <1>3 DEF Leaves

\* Nothing but the requests being served changes.
LEMMA CallsLeave ==
    ASSUME UNCHANGED <<grant, denied, born, code, pairs>>,
           \A c \in Callers :
               /\ call'[c].stage = "claimed" => call'[c] = call[c]
               /\ call'[c].stage = "read" =>
                    \/ call'[c] = call[c]
                    \/ call'[c].of.pair # 0 \/ call'[c].of.code \in Codes
                    \/ code[call'[c].of.code].answer = "approved"
    PROVE  Leaves
BY DEF Leaves

\* Whoever presents a code of a device does so with its approval.
LEMMA PresentLeaves ==
    ASSUME IInv, NEW c \in Callers,
           \/ \E k \in Codes : Exchange(c, k)
           \/ \E d \in Devices : Poll(c, d)
           \/ \E i \in DOMAIN pairs : Refresh(c, i) \/ Revoke(c, i)
    PROVE  Leaves
<1>1. call \in [Callers -> Call]
  BY DEF IInv, Typed
<1>2. CASE \E k \in Codes : Exchange(c, k)
  <2>1. PICK k \in Codes : Exchange(c, k)
    BY <1>2
  <2> DEFINE now == [stage |-> IF code[k].spent THEN "burn" ELSE "read",
                     of |-> OfCode(k), grant |-> code[k].grant]
  <2>2. now.stage # "claimed" /\ now.of.code \in Codes
    BY <2>1 DEF OfCode
  <2>3. call' = [call EXCEPT ![c] = now]
    BY <2>1 DEF Exchange
  <2> HIDE DEF now
  <2>4. \A d \in Callers : call'[d] = IF d = c THEN now ELSE call[d]
    BY <1>1, <2>3
  <2> QED BY <2>1, <2>2, <2>4, CallsLeave DEF Exchange
<1>3. CASE \E d \in Devices : Poll(c, d)
  <2>1. PICK k \in Devices : Poll(c, k)
    BY <1>3
  <2> DEFINE now == [stage |-> "read", of |-> OfCode(k), grant |-> code[k].grant]
  <2>2. now.stage # "claimed" /\ code[now.of.code].answer = "approved"
    BY <2>1 DEF OfCode, Poll
  <2>3. call' = [call EXCEPT ![c] = now]
    BY <2>1 DEF Poll
  <2> HIDE DEF now
  <2>4. \A d \in Callers : call'[d] = IF d = c THEN now ELSE call[d]
    BY <1>1, <2>3
  <2> QED BY <2>1, <2>2, <2>4, CallsLeave DEF Poll
<1>4. CASE \E i \in DOMAIN pairs : Refresh(c, i) \/ Revoke(c, i)
  <2>1. PICK i \in DOMAIN pairs : Refresh(c, i) \/ Revoke(c, i)
    BY <1>4
  <2>2. i # 0
    BY SequenceFacts DEF IInv, Typed
  <2>3. PICK now : /\ now.stage \in {"read", "burn"} /\ now.of = OfPair(i)
                   /\ call' = [call EXCEPT ![c] = now]
    BY <2>1 DEF Refresh, Revoke
  <2>4. now.stage # "claimed" /\ now.of.pair # 0
    BY <2>2, <2>3 DEF OfPair
  <2>5. \A d \in Callers : call'[d] = IF d = c THEN now ELSE call[d]
    BY <1>1, <2>3
  <2> QED BY <2>1, <2>4, <2>5, CallsLeave DEF Refresh, Revoke
<1> QED BY <1>2, <1>3, <1>4

\* A request that ends, fails or turns to its family claims nothing.
LEMMA EndsLeave ==
    ASSUME IInv, NEW c \in Callers, NEW now, now.stage \notin {"read", "claimed"},
           call' = [call EXCEPT ![c] = now],
           UNCHANGED <<grant, denied, born, code, pairs>>
    PROVE  Leaves
<1>1. \A d \in Callers : call'[d] = IF d = c THEN now ELSE call[d]
  BY DEF IInv, Typed
<1> QED BY <1>1, CallsLeave

\* Tokens that are revoked stay of their code and of their grant.
LEMMA RevocationLeaves ==
    ASSUME IInv, (\E c \in Callers : Burnt(c)) \/ (\E i \in DOMAIN pairs : RevokeAccess(i))
    PROVE  Leaves
<1>1. DOMAIN pairs = 1..Len(pairs) /\ \A i \in DOMAIN pairs : pairs[i] \in Pair
  BY SequenceFacts DEF IInv, Typed
<1>2. /\ DOMAIN pairs' = DOMAIN pairs
      /\ \A i \in DOMAIN pairs :
            /\ pairs'[i].code = pairs[i].code /\ pairs'[i].grant = pairs[i].grant
            /\ pairs'[i].stored = pairs[i].stored
  BY <1>1 DEF Burnt, RevokeAccess, Pair
<1>3. \A d \in Callers : call'[d].stage \in {"read", "claimed"} => call'[d] = call[d]
  BY DoneEnds DEF Burnt, RevokeAccess, IInv
<1>4. UNCHANGED <<grant, denied, born, code>>
  BY DEF Burnt, RevokeAccess
<1> QED BY <1>2, <1>3, <1>4 DEF Leaves

\* A decision is about a device that waits for one, and the grant it is approved
\* by is the one there is.
LEMMA DecisionKeeps ==
    ASSUME IInv, Answered, Granted, NEW c \in Callers, Approve(c) \/ Deny(c)
    PROVE  Answered' /\ Granted'
<1> DEFINE k == call[c].screen[1]
<1>0. Devices \subseteq AllCodes /\ Codes \subseteq AllCodes /\ Codes \intersect Devices = {}
  BY OAuthTokensAssumption DEF AllCodes
<1>1. k \in AllCodes /\ call[c].grant \in Nat
  BY DEF Approve, Deny, IInv, Typed, Call, Idle
<1>2. code \in [AllCodes -> CodeRow] /\ grants \in Nat
  BY DEF IInv, Typed
<1>3. /\ UNCHANGED <<pairs, born>>
      /\ \A d \in Callers : call'[d].stage \in {"read", "claimed"} => call'[d] = call[d]
  BY DoneEnds DEF Approve, Deny, IInv
<1>4. k \in Devices => /\ code[k].stored /\ code[k].answer = "none" /\ k \in born
  BY DEF Approve, Deny, Answerable, Waiting, Answered
\* What both decisions leave: other codes, and answers that were given.
<1>5. \A j \in AllCodes : j # k => code'[j] = code[j]
  BY <1>1, <1>2 DEF Approve, Deny
<1>6. /\ \A i \in DOMAIN pairs : pairs[i].code \in AllCodes
      /\ \A d \in Devices : code[d].answer # "none" => d # k
  BY <1>4, PairFacts
<1>7. (\A i \in DOMAIN pairs :
          pairs[i].code \in Devices => code[pairs[i].code].answer = "approved")'
  BY <1>0, <1>3, <1>5, <1>6 DEF Answered
<1>8. (\A d \in Callers :
          /\ call[d].stage \in {"read", "claimed"} /\ call[d].of.pair = 0
          /\ call[d].of.code \in Devices
          => code[call[d].of.code].answer = "approved")'
  BY <1>0, <1>3, <1>5, <1>6 DEF Answered
<1>9. (\A d \in Devices \ born : ~code[d].stored /\ code[d].answer = "none")'
  BY <1>0, <1>3, <1>4, <1>5 DEF Answered
<1>10. CASE Approve(c)
  <2> DEFINE g == IF call[c].grant = 0 THEN grants + 1 ELSE call[c].grant
  <2>1. /\ grant = call[c].grant /\ grant' = g /\ g # 0
        /\ code'[k].stored /\ code'[k].grant = g /\ code'[k].answer = "approved"
        /\ UNCHANGED denied
    BY <1>1, <1>2, <1>10 DEF Approve, CodeRow
  <2> HIDE DEF g, k
  <2>2. grant # 0 => g = grant
    BY <2>1 DEF g
  <2>3. (\A d \in denied : d \in Devices /\ code[d].answer = "denied")'
    BY <1>0, <1>5, <1>6, <2>1 DEF Answered
  <2>4. (\A i \in DOMAIN pairs : pairs[i].stored => pairs[i].grant = grant /\ grant # 0)'
    BY <1>3, <2>1, <2>2 DEF Granted
  <2>5. (\A j \in AllCodes :
            code[j].stored /\ code[j].answer = "approved" => code[j].grant = grant /\ grant # 0)'
    BY <1>5, <2>1, <2>2 DEF Granted
  <2>6. (\A j \in Codes : code[j].stored => code[j].answer = "approved")'
    BY <1>0, <1>5, <2>1 DEF Granted
  <2>7. (\A d \in Callers :
            call[d].stage = "claimed" =>
                /\ Row(call[d].of).stored
                /\ call[d].of.pair = 0 => code[call[d].of.code].answer = "approved")'
    <3> SUFFICES ASSUME NEW d \in Callers, call'[d].stage = "claimed"
                 PROVE  /\ Row(call[d].of)'.stored
                        /\ call'[d].of.pair = 0 => code'[call'[d].of.code].answer = "approved"
        OBVIOUS
    <3>1. call'[d] = call[d]
      BY <1>3
    <3>2. /\ Row(call[d].of).stored /\ call[d].of.code \in AllCodes
          /\ call[d].of.pair = 0 => code[call[d].of.code].answer = "approved"
      BY <3>1, ReadFacts DEF Granted
    <3> QED BY <1>3, <1>5, <2>1, <3>1, <3>2 DEF Row
  <2> QED BY <1>7, <1>8, <1>9, <2>3, <2>4, <2>5, <2>6, <2>7 DEF Answered, Granted
<1>11. CASE Deny(c)
  <2>1. /\ UNCHANGED grant /\ denied' = denied \union ({k} \intersect Devices)
        /\ k \in Devices => code'[k].answer = "denied" /\ code'[k].stored = code[k].stored
        /\ k \notin Devices => code' = code
    BY <1>1, <1>2, <1>11 DEF Deny, CodeRow
  <2> HIDE DEF k
  <2>2. (\A d \in denied : d \in Devices /\ code[d].answer = "denied")'
    BY <1>0, <1>5, <1>6, <2>1 DEF Answered
  <2>3. (\A i \in DOMAIN pairs : pairs[i].stored => pairs[i].grant = grant /\ grant # 0)'
    BY <1>3, <2>1 DEF Granted
  <2>4. (\A j \in AllCodes :
            code[j].stored /\ code[j].answer = "approved" => code[j].grant = grant /\ grant # 0)'
    BY <1>5, <2>1 DEF Granted
  <2>5. (\A j \in Codes : code[j].stored => code[j].answer = "approved")'
    BY <1>0, <1>5, <2>1 DEF Granted
  <2>6. (\A d \in Callers :
            call[d].stage = "claimed" =>
                /\ Row(call[d].of).stored
                /\ call[d].of.pair = 0 => code[call[d].of.code].answer = "approved")'
    <3> SUFFICES ASSUME NEW d \in Callers, call'[d].stage = "claimed"
                 PROVE  /\ Row(call[d].of)'.stored
                        /\ call'[d].of.pair = 0 => code'[call'[d].of.code].answer = "approved"
        OBVIOUS
    <3>1. call'[d] = call[d]
      BY <1>3
    <3>2. /\ Row(call[d].of).stored /\ call[d].of.code \in AllCodes
          /\ call[d].of.pair = 0 => code[call[d].of.code].answer = "approved"
      BY <3>1, ReadFacts DEF Granted
    <3>3. call[d].of.pair = 0 => code'[call[d].of.code] = code[call[d].of.code]
      BY <1>4, <1>5, <2>1, <3>2
    <3> QED BY <1>3, <3>1, <3>2, <3>3 DEF Row
  <2> QED BY <1>7, <1>8, <1>9, <2>2, <2>3, <2>4, <2>5, <2>6 DEF Answered, Granted
<1> QED BY <1>10, <1>11

\* What is claimed is stored, and a code that is stored and claimed is approved.
LEMMA ClaimKeepsGrants ==
    ASSUME IInv, Answered, Granted, NEW c \in Callers, Claim(c)
    PROVE  Answered' /\ Granted'
<1> DEFINE x == call[c].of
<1>1. /\ call[c].stage = "read" /\ x.code \in AllCodes
      /\ call[c] \in [stage : {"read", "claimed", "burn"}, of : Credential, grant : Nat]
      /\ UNCHANGED <<grant, code, pairs, born, denied>>
  BY ReadFacts DEF Claim, IInv, Typed, Call, Idle
<1>2. CASE Done(c)
  <2>1. Idle.stage \notin {"read", "claimed"}
    BY DEF Idle
  <2> QED BY <1>1, <1>2, <2>1, EndsLeave, LeavesKeeps DEF Done
<1>3. CASE Goes(c, "burn")
  <2> DEFINE now == [call[c] EXCEPT !.stage = "burn"]
  <2>1. now.stage \notin {"read", "claimed"}
    BY <1>1
  <2>2. call' = [call EXCEPT ![c] = now]
    BY <1>3 DEF Goes
  <2> HIDE DEF now
  <2> QED BY <1>1, <2>1, <2>2, EndsLeave, LeavesKeeps
<1>4. CASE Claims(x) /\ Goes(c, "claimed")
  <2>1. \A d \in Callers :
          /\ d # c => call'[d] = call[d]
          /\ d = c => call'[d].stage = "claimed" /\ call'[d].of = x
    BY <1>1, <1>4 DEF Goes, IInv, Typed
  <2>2. Row(x).stored /\ (x.pair = 0 => code[x.code].answer = "approved")
    <3>1. Row(x).stored
      BY <1>4 DEF Claims
    <3>2. ASSUME x.pair = 0 PROVE code[x.code].answer = "approved"
      <4>1. CASE x.code \in Devices
        BY <1>1, <3>2, <4>1 DEF Answered
      <4>2. CASE x.code \in Codes
        BY <3>1, <3>2, <4>2 DEF Granted, Row
      <4> QED BY <1>1, <4>1, <4>2 DEF AllCodes
    <3> QED BY <3>1, <3>2
  <2>3. (\A d \in Callers :
            call[d].stage = "claimed" =>
                /\ Row(call[d].of).stored
                /\ call[d].of.pair = 0 => code[call[d].of.code].answer = "approved")'
    BY <1>1, <2>1, <2>2 DEF Granted, Row
  <2>4. (\A d \in Callers :
            /\ call[d].stage \in {"read", "claimed"} /\ call[d].of.pair = 0
            /\ call[d].of.code \in Devices
            => code[call[d].of.code].answer = "approved")'
    BY <1>1, <2>1 DEF Answered
  <2>5. /\ (\A d \in denied : d \in Devices /\ code[d].answer = "denied")'
        /\ (\A d \in Devices \ born : ~code[d].stored /\ code[d].answer = "none")'
        /\ (\A i \in DOMAIN pairs :
               pairs[i].code \in Devices => code[pairs[i].code].answer = "approved")'
    BY <1>1 DEF Answered
  <2>6. /\ (\A i \in DOMAIN pairs : pairs[i].stored => pairs[i].grant = grant /\ grant # 0)'
        /\ (\A k \in AllCodes :
               code[k].stored /\ code[k].answer = "approved" => code[k].grant = grant /\ grant # 0)'
        /\ (\A k \in Codes : code[k].stored => code[k].answer = "approved")'
    BY <1>1 DEF Granted
  <2> QED BY <2>3, <2>4, <2>5, <2>6 DEF Answered, Granted
<1> QED BY <1>2, <1>3, <1>4 DEF Claim

\* The pair issued is of the grant of the row it is issued for, which is held.
LEMMA IssueKeepsGrants ==
    ASSUME IInv, Answered, Granted, NEW c \in Callers, Issue(c)
    PROVE  Answered' /\ Granted'
<1> DEFINE x == call[c].of
           n == Len(pairs)
           new == [code |-> x.code, grant |-> Row(x).grant, from |-> x.pair, live |-> Kinds,
                   stored |-> TRUE]
           Spends(i) == IF i = x.pair THEN [pairs[i] EXCEPT !.live = pairs[i].live \ {"refresh"}]
                        ELSE pairs[i]
<1>0. Devices \subseteq AllCodes /\ Codes \subseteq AllCodes
  BY DEF AllCodes
<1>1. n \in Nat /\ DOMAIN pairs = 1..n /\ \A i \in 1..n : pairs[i] \in Pair
  BY SequenceFacts DEF IInv, Typed
<1>2. call[c].stage = "claimed"
  BY DEF Issue
<1>3. /\ x \in Credential /\ x.pair \in Nat /\ x.code \in AllCodes
      /\ x.pair # 0 => x.pair \in 1..n /\ pairs[x.pair].code = x.code
  BY <1>1, <1>2, ReadFacts
<1>4. \A i \in 1..n : /\ Spends(i) \in Pair /\ Spends(i).code = pairs[i].code
                      /\ Spends(i).grant = pairs[i].grant /\ Spends(i).stored = pairs[i].stored
  BY <1>1 DEF Pair
<1>5. /\ DOMAIN pairs' = 1..(n + 1)
      /\ \A i \in 1..n : pairs'[i] = Spends(i)
      /\ pairs'[n + 1] = new
  <2> DEFINE rest == [i \in 1..n |-> Spends(i)]
  <2>1. Len(rest) = n /\ rest \in Seq(Pair)
    BY <1>1, <1>4
  <2>2. pairs' = Append(rest, new)
    BY <1>1 DEF Issue, Rotated
  <2> HIDE DEF rest, new, Spends
  <2>3. /\ DOMAIN pairs' = 1..(n + 1)
        /\ \A i \in 1..n : pairs'[i] = rest[i]
        /\ pairs'[n + 1] = new
    BY <1>1, <2>1, <2>2
  <2> QED BY <2>3 DEF rest
<1>6. /\ UNCHANGED <<grant, born, denied>>
      /\ \A k \in AllCodes : /\ code'[k].stored = code[k].stored /\ code'[k].grant = code[k].grant
                            /\ code'[k].answer = code[k].answer
      /\ \A d \in Callers : call'[d].stage \in {"read", "claimed"} => call'[d] = call[d]
  BY DoneEnds DEF Issue, IInv, Typed, CodeRow
<1>7. new.code = x.code /\ new.grant = Row(x).grant
  OBVIOUS
<1>8. Row(x).grant = grant /\ grant # 0
  <2>1. Row(x).stored /\ (x.pair = 0 => code[x.code].answer = "approved")
    BY <1>2 DEF Granted
  <2> QED BY <1>1, <1>3, <2>1 DEF Row, Granted
<1>9. x.code \in Devices => code[x.code].answer = "approved"
  BY <1>1, <1>2, <1>3 DEF Answered
<1> HIDE DEF x, n, new, Spends
<1>10. (\A i \in DOMAIN pairs : pairs[i].stored => pairs[i].grant = grant /\ grant # 0)'
  BY <1>1, <1>4, <1>5, <1>6, <1>7, <1>8 DEF Granted
<1>11. (\A i \in DOMAIN pairs :
           pairs[i].code \in Devices => code[pairs[i].code].answer = "approved")'
  BY <1>0, <1>1, <1>4, <1>5, <1>6, <1>7, <1>9 DEF Answered
<1>12. (\A d \in Callers :
            call[d].stage = "claimed" =>
                /\ Row(call[d].of).stored
                /\ call[d].of.pair = 0 => code[call[d].of.code].answer = "approved")'
  <2> SUFFICES ASSUME NEW d \in Callers, call'[d].stage = "claimed"
               PROVE  /\ Row(call[d].of)'.stored
                      /\ call'[d].of.pair = 0 => code'[call'[d].of.code].answer = "approved"
      OBVIOUS
  <2>1. call'[d] = call[d]
    BY <1>6
  <2>2. /\ Row(call[d].of).stored /\ call[d].of.code \in AllCodes
        /\ call[d].of.pair = 0 => code[call[d].of.code].answer = "approved"
        /\ call[d].of.pair # 0 => call[d].of.pair \in 1..n
    BY <1>1, <2>1, ReadFacts DEF Granted
  <2> QED BY <1>4, <1>5, <1>6, <2>1, <2>2 DEF Row
<1>13. /\ (\A d \in denied : d \in Devices /\ code[d].answer = "denied")'
       /\ (\A d \in Devices \ born : ~code[d].stored /\ code[d].answer = "none")'
       /\ (\A d \in Callers :
              /\ call[d].stage \in {"read", "claimed"} /\ call[d].of.pair = 0
              /\ call[d].of.code \in Devices
              => code[call[d].of.code].answer = "approved")'
  BY <1>0, <1>6 DEF Answered
<1>14. /\ (\A k \in AllCodes :
              code[k].stored /\ code[k].answer = "approved" => code[k].grant = grant /\ grant # 0)'
       /\ (\A k \in Codes : code[k].stored => code[k].answer = "approved")'
  BY <1>0, <1>6 DEF Granted
<1> QED BY <1>10, <1>11, <1>12, <1>13, <1>14 DEF Answered, Granted

\* Everything stored is of the grant, so it goes with it; a claim is on a row of
\* the grant, which the withdrawal waits for.
LEMMA WithdrawKeepsGrants ==
    ASSUME IInv, Answered, Granted, Withdraw
    PROVE  Answered' /\ Granted'
<1>0. Devices \subseteq AllCodes /\ Codes \subseteq AllCodes
  BY DEF AllCodes
<1>1. DOMAIN pairs = 1..Len(pairs) /\ \A i \in DOMAIN pairs : pairs[i] \in Pair
  BY SequenceFacts DEF IInv, Typed
<1>2. /\ DOMAIN pairs' = DOMAIN pairs
      /\ \A i \in DOMAIN pairs :
            /\ pairs'[i].code = pairs[i].code
            /\ pairs'[i].stored => pairs[i].stored /\ pairs[i].grant # grant
  BY <1>1 DEF Withdraw, Cascaded, Pair
<1>3. code \in [AllCodes -> CodeRow]
  BY DEF IInv, Typed
<1>4. \A k \in AllCodes :
        /\ code'[k].answer = code[k].answer
        /\ code'[k].stored => code[k].stored /\ code[k].grant # grant
  BY <1>3 DEF Withdraw, Without, CodeRow
<1>5. UNCHANGED <<call, born, denied>>
  BY DEF Withdraw
<1>6. Answered'
  <2>1. \A i \in DOMAIN pairs : pairs[i].code \in AllCodes
    BY PairFacts
  <2> QED BY <1>0, <1>2, <1>4, <1>5, <2>1 DEF Answered
<1>7. \A c \in Callers : call[c].stage # "claimed"
  <2> SUFFICES ASSUME NEW c \in Callers, call[c].stage = "claimed" PROVE FALSE
      OBVIOUS
  <2>1. /\ Row(call[c].of).stored
        /\ call[c].of.pair = 0 => code[call[c].of.code].answer = "approved"
    BY DEF Granted
  <2>2. Row(call[c].of).grant = grant
    BY <2>1, ReadFacts DEF Row, Granted
  <2> QED BY <2>2 DEF Withdraw
<1>8. Granted'
  BY <1>0, <1>2, <1>4, <1>5, <1>7 DEF Granted
<1> QED BY <1>6, <1>8

\* The invariants hold together.
LEMMA AnsweredAlways == Spec => [](IInv /\ Answered /\ Granted)
<1>1. Init => Answered /\ Granted
  <2> SUFFICES ASSUME Init PROVE Answered /\ Granted
      OBVIOUS
  <2>1. Idle.stage \notin {"read", "claimed"} /\ NoCode.answer = "none" /\ ~NoCode.stored
    BY DEF Idle, NoCode
  <2>2. DOMAIN pairs = {} /\ \A k \in AllCodes : code[k] = NoCode
    BY DEF Init, AllCodes
  <2> QED BY <2>1, <2>2 DEF Init, Answered, Granted, AllCodes
<1>2. IInv /\ Answered /\ Granted /\ [Next]_vars => (Answered /\ Granted)'
  <2> SUFFICES ASSUME IInv, Answered, Granted, [Next]_vars PROVE Answered' /\ Granted'
      OBVIOUS
  <2>1. CASE Person
    <3>1. CASE \/ \E k \in Codes : Begin(k)
               \/ \E d \in Devices : BeginDevice(d) \/ ClaimUserCode(d)
      BY <3>1, CodesLeave, LeavesKeeps DEF AllCodes
    <3>2. ASSUME NEW c \in Callers, NEW screen \in screens, Decide(c, screen)
          PROVE  Leaves
      <4> DEFINE now == [stage |-> "consent", screen |-> screen, grant |-> grant]
      <4>1. now.stage \notin {"read", "claimed"}
        OBVIOUS
      <4>2. call' = [call EXCEPT ![c] = now]
        BY <3>2 DEF Decide
      <4> HIDE DEF now
      <4> QED BY <3>2, <4>1, <4>2, EndsLeave DEF Decide
    <3>3. CASE \E c \in Callers : Approve(c) \/ Deny(c)
      BY <3>3, DecisionKeeps
    <3>4. CASE Withdraw
      BY <3>4, WithdrawKeepsGrants
    <3> QED BY <2>1, <3>1, <3>2, <3>3, <3>4, LeavesKeeps DEF Person
  <2>2. CASE Application
    <3>1. PICK c \in Callers :
            \/ \E k \in Codes : Exchange(c, k)
            \/ \E d \in Devices : Poll(c, d)
            \/ \E i \in DOMAIN pairs : Refresh(c, i) \/ Revoke(c, i)
            \/ Claim(c) \/ Issue(c) \/ Burn(c) \/ Burnt(c)
      BY <2>2 DEF Application
    <3>2. CASE Burn(c)
      <4> DEFINE now == [stage |-> "burning", of |-> call[c].of, victims |-> Live(call[c].of.code),
                         issued |-> Len(pairs)]
      <4>1. now.stage \notin {"read", "claimed"}
        OBVIOUS
      <4>2. call' = [call EXCEPT ![c] = now]
        BY <3>2 DEF Burn
      <4> HIDE DEF now
      <4> QED BY <3>2, <4>1, <4>2, EndsLeave, LeavesKeeps DEF Burn
    <3>3. CASE Burnt(c)
      BY <3>3, RevocationLeaves, LeavesKeeps
    <3> QED BY <3>1, <3>2, <3>3, PresentLeaves, LeavesKeeps, ClaimKeepsGrants, IssueKeepsGrants
  <2>3. CASE \E i \in DOMAIN pairs : RevokeAccess(i)
    BY <2>3, RevocationLeaves, LeavesKeeps
  <2>4. CASE \E k \in Codes \union Devices : Expire(k) \/ Prune(k)
    BY <2>4, CodesLeave, LeavesKeeps DEF AllCodes
  <2>5. CASE \E c \in Callers : Fail(c)
    <3>1. Idle.stage \notin {"read", "claimed"}
      BY DEF Idle
    <3> QED BY <2>5, <3>1, EndsLeave, LeavesKeeps DEF Fail, Done
  <2>6. CASE UNCHANGED vars
    BY <2>6, CallsLeave, LeavesKeeps DEF vars
  <2> QED BY <2>1, <2>2, <2>3, <2>4, <2>5, <2>6 DEF Next
<1> QED BY <1>1, <1>2, InitIInv, NextIInv, PTL DEF Spec

\* A denial stands: the device gets no tokens, and no other screen overturns it,
\* whatever was polled or decided at once (`_approve_device`, `deny`,
\* `exchange_device`).
THEOREM DenialIsFinal == Spec => []DenialStands
<1>1. IInv /\ Answered => DenialStands
  <2> SUFFICES ASSUME IInv, Answered PROVE DenialStands
      OBVIOUS
  <2>1. ASSUME NEW i \in DOMAIN pairs PROVE pairs[i].code \notin denied
    BY DEF Answered
  <2> QED BY <2>1 DEF Answered, DenialStands
<1> QED BY <1>1, AnsweredAlways, PTL

\* Everything that can still be presented is of the grant there is: a withdrawal
\* leaves nothing, whatever exchange or refresh was under way (`withdraw`).
THEOREM WithdrawalIsComplete == Spec => []NothingWithoutGrant
<1>1. IInv /\ Granted => NothingWithoutGrant
  BY DEF IInv, Typed, Granted, NothingWithoutGrant
<1> QED BY <1>1, AnsweredAlways, PTL

-----------------------------------------------------------------------------
(* What a revocation reaches *)

\* The pairs of a family are of one grant, and are deleted with it.
Families ==
    /\ grant <= grants
    /\ \A i \in DOMAIN pairs :
        /\ pairs[i].grant # 0 /\ pairs[i].grant <= grants
        /\ ~pairs[i].stored => pairs[i].grant # grant
    /\ \A i, j \in DOMAIN pairs : pairs[i].code = pairs[j].code => pairs[i].grant = pairs[j].grant

\* A revocation that has read a family has read all of it that is still there,
\* but for what was issued since.
Burning ==
    \A c \in Callers :
        call[c].stage = "burning" =>
            /\ 1..call[c].issued \subseteq DOMAIN pairs
            /\ \A t \in call[c].victims :
                t[1] \in DOMAIN pairs /\ pairs[t[1]].code = call[c].of.code
            /\ \A i \in 1..call[c].issued :
                pairs[i].code = call[c].of.code /\ pairs[i].stored
                    => \A kind \in pairs[i].live : <<i, kind>> \in call[c].victims

\* What every action but Burn does: pairs stay what they are, and lose tokens
\* only; no family is read.
Later ==
    /\ DOMAIN pairs \subseteq DOMAIN pairs'
    /\ \A i \in DOMAIN pairs :
        /\ pairs'[i].code = pairs[i].code /\ pairs'[i].grant = pairs[i].grant
        /\ pairs'[i].live \subseteq pairs[i].live
        /\ pairs'[i].stored => pairs[i].stored
    /\ \A c \in Callers : call'[c].stage = "burning" => call'[c] = call[c]

\* Such an action leaves what was read true.
LEMMA LaterKeeps ==
    ASSUME Burning, Later
    PROVE  Burning'
<1> SUFFICES ASSUME NEW c \in Callers, call'[c].stage = "burning"
             PROVE  /\ 1..call'[c].issued \subseteq DOMAIN pairs'
                    /\ \A t \in call'[c].victims :
                        t[1] \in DOMAIN pairs' /\ pairs'[t[1]].code = call'[c].of.code
                    /\ \A i \in 1..call'[c].issued :
                        pairs'[i].code = call'[c].of.code /\ pairs'[i].stored
                            => \A kind \in pairs'[i].live : <<i, kind>> \in call'[c].victims
    BY DEF Burning
<1>1. call'[c] = call[c]
  BY DEF Later
<1>2. /\ 1..call[c].issued \subseteq DOMAIN pairs
      /\ \A t \in call[c].victims :
            t[1] \in DOMAIN pairs /\ pairs[t[1]].code = call[c].of.code
      /\ \A i \in 1..call[c].issued :
            pairs[i].code = call[c].of.code /\ pairs[i].stored
                => \A kind \in pairs[i].live : <<i, kind>> \in call[c].victims
  BY <1>1 DEF Burning
<1> QED BY <1>1, <1>2 DEF Later

\* The families stay as they are while no grant is made or taken back and no
\* pair is issued.
LEMMA FamiliesKept ==
    ASSUME Families, Later, UNCHANGED <<grant, grants>>, DOMAIN pairs' = DOMAIN pairs,
           \A i \in DOMAIN pairs : pairs'[i].stored = pairs[i].stored
    PROVE  Families'
BY DEF Families, Later

\* A request that begins, ends or fails is not one that has read a family.
LEMMA RequestsKeepFamilies ==
    ASSUME IInv, Families, Burning, NEW c \in Callers, NEW now,
           now.stage # "burning" \/ now = call[c],
           call' = [call EXCEPT ![c] = now], UNCHANGED <<grant, grants, pairs>>
    PROVE  (Families /\ Burning)'
<1>1. \A d \in Callers : call'[d] = IF d = c THEN now ELSE call[d]
  BY DEF IInv, Typed
<1>2. Later
  BY <1>1 DEF Later
<1> QED BY <1>2, LaterKeeps, FamiliesKept

\* Reading a family reads what is stored of it.
LEMMA BurnReads ==
    ASSUME IInv, Families, Burning, NEW c \in Callers, Burn(c)
    PROVE  (Families /\ Burning)'
<1> DEFINE k == call[c].of.code
           now == [stage |-> "burning", of |-> call[c].of, victims |-> Live(k), issued |-> Len(pairs)]
<1>1. DOMAIN pairs = 1..Len(pairs) /\ \A i \in DOMAIN pairs : pairs[i] \in Pair
  BY SequenceFacts DEF IInv, Typed
<1>2. UNCHANGED <<grant, grants, pairs>> /\ call' = [call EXCEPT ![c] = now]
  BY DEF Burn
<1>3. \A d \in Callers : call'[d] = IF d = c THEN now ELSE call[d]
  BY <1>2 DEF IInv, Typed
<1>4. /\ \A t \in Live(k) : t[1] \in DOMAIN pairs /\ pairs[t[1]].code = k
      /\ \A i \in DOMAIN pairs : pairs[i].code = k /\ pairs[i].stored
            => \A kind \in pairs[i].live : <<i, kind>> \in Live(k)
  BY <1>1 DEF Live, Pair
<1>5. now.issued = Len(pairs) /\ now.victims = Live(k) /\ now.of.code = k
  OBVIOUS
<1> HIDE DEF now, k
<1>6. Burning'
  <2> SUFFICES ASSUME NEW d \in Callers, call'[d].stage = "burning"
               PROVE  /\ 1..call'[d].issued \subseteq DOMAIN pairs
                      /\ \A t \in call'[d].victims :
                          t[1] \in DOMAIN pairs /\ pairs[t[1]].code = call'[d].of.code
                      /\ \A i \in 1..call'[d].issued :
                          pairs[i].code = call'[d].of.code /\ pairs[i].stored
                              => \A kind \in pairs[i].live : <<i, kind>> \in call'[d].victims
      BY <1>2 DEF Burning
  <2>1. CASE d = c
    BY <1>1, <1>3, <1>4, <1>5, <2>1
  <2>2. CASE d # c
    BY <1>3, <2>2 DEF Burning
  <2> QED BY <2>1, <2>2
<1>7. Families'
  BY <1>2 DEF Families
<1> QED BY <1>6, <1>7

\* A pair is issued for the grant of its family.
LEMMA IssueKeepsFamilies ==
    ASSUME IInv, Granted, Families, Burning, NEW c \in Callers, Issue(c)
    PROVE  (Families /\ Burning)'
<1> DEFINE x == call[c].of
           n == Len(pairs)
           new == [code |-> x.code, grant |-> Row(x).grant, from |-> x.pair, live |-> Kinds,
                   stored |-> TRUE]
           Spends(i) == IF i = x.pair THEN [pairs[i] EXCEPT !.live = pairs[i].live \ {"refresh"}]
                        ELSE pairs[i]
<1>1. n \in Nat /\ DOMAIN pairs = 1..n /\ \A i \in 1..n : pairs[i] \in Pair
  BY SequenceFacts DEF IInv, Typed
<1>2. call[c].stage = "claimed" /\ ~Spent(x)
  BY DEF Issue, IInv, Claiming
<1>3. /\ x.pair \in Nat /\ x.code \in AllCodes
      /\ x.pair # 0 => x.pair \in 1..n /\ pairs[x.pair].code = x.code
  BY <1>1, <1>2, ReadFacts
<1>4. \A i \in 1..n : /\ Spends(i) \in Pair /\ Spends(i).code = pairs[i].code
                      /\ Spends(i).grant = pairs[i].grant /\ Spends(i).stored = pairs[i].stored
                      /\ Spends(i).live \subseteq pairs[i].live
  BY <1>1 DEF Pair
<1>5. /\ DOMAIN pairs' = 1..(n + 1)
      /\ \A i \in 1..n : pairs'[i] = Spends(i)
      /\ pairs'[n + 1] = new
  <2> DEFINE rest == [i \in 1..n |-> Spends(i)]
  <2>1. Len(rest) = n /\ rest \in Seq(Pair)
    BY <1>1, <1>4
  <2>2. pairs' = Append(rest, new)
    BY <1>1 DEF Issue, Rotated
  <2> HIDE DEF rest, new, Spends
  <2>3. /\ DOMAIN pairs' = 1..(n + 1)
        /\ \A i \in 1..n : pairs'[i] = rest[i]
        /\ pairs'[n + 1] = new
    BY <1>1, <2>1, <2>2
  <2> QED BY <2>3 DEF rest
<1>6. UNCHANGED <<grant, grants>> /\ \A d \in Callers : call'[d].stage = "burning" => call'[d] = call[d]
  <2>1. Idle.stage # "burning"
    BY DEF Idle
  <2> QED BY <2>1, DoneEnds DEF Issue, IInv
<1>7. new.code = x.code /\ new.grant = Row(x).grant /\ new.stored
  OBVIOUS
<1>8. Row(x).grant = grant /\ grant # 0
  <2>1. Row(x).stored /\ (x.pair = 0 => code[x.code].answer = "approved")
    BY <1>2 DEF Granted
  <2> QED BY <1>1, <1>3, <2>1 DEF Row, Granted
\* The others of the family, if there are any, are of the same grant.
<1>9. \A i \in 1..n : pairs[i].code = x.code => pairs[i].grant = grant
  <2>1. CASE x.pair = 0
    BY <1>1, <1>2, <2>1 DEF Spent, IInv, Descends
  <2>2. CASE x.pair # 0
    BY <1>1, <1>3, <1>8, <2>2 DEF Row, Families
  <2> QED BY <2>1, <2>2
<1> HIDE DEF x, n, new, Spends
<1>10. Later
  BY <1>1, <1>4, <1>5, <1>6 DEF Later
<1>11. \A i \in 1..(n + 1) : i \in 1..n \/ i = n + 1
  BY <1>1
<1>12. /\ grant <= grants
       /\ \A i \in 1..n : /\ pairs[i].grant # 0 /\ pairs[i].grant <= grants
                          /\ ~pairs[i].stored => pairs[i].grant # grant
       /\ \A i, j \in 1..n : pairs[i].code = pairs[j].code => pairs[i].grant = pairs[j].grant
  BY <1>1 DEF Families
<1>13. \A i \in 1..(n + 1) :
         /\ pairs'[i].grant # 0 /\ pairs'[i].grant <= grants
         /\ ~pairs'[i].stored => pairs'[i].grant # grant
  BY <1>4, <1>5, <1>7, <1>8, <1>11, <1>12
<1>14. \A i, j \in 1..(n + 1) : pairs'[i].code = pairs'[j].code => pairs'[i].grant = pairs'[j].grant
  BY <1>4, <1>5, <1>7, <1>8, <1>9, <1>11, <1>12
<1>15. Families'
  BY <1>5, <1>6, <1>12, <1>13, <1>14 DEF Families
<1> QED BY <1>10, <1>15, LaterKeeps

\* A new grant is newer than those whose pairs are gone.
LEMMA DecisionKeepsFamilies ==
    ASSUME IInv, Granted, Families, Burning, NEW c \in Callers, Approve(c) \/ Deny(c)
    PROVE  (Families /\ Burning)'
<1>1. UNCHANGED pairs /\ \A d \in Callers : call'[d].stage = "burning" => call'[d] = call[d]
  <2>1. Idle.stage # "burning"
    BY DEF Idle
  <2> QED BY <2>1, DoneEnds DEF Approve, Deny, IInv
<1>2. Later
  BY <1>1 DEF Later
<1>3. CASE UNCHANGED <<grant, grants>>
  BY <1>1, <1>2, <1>3, LaterKeeps, FamiliesKept
<1>4. CASE grant = 0 /\ grant' = grants + 1 /\ grants' = grants + 1
  <2>1. grants \in Nat /\ \A i \in DOMAIN pairs : pairs[i] \in Pair
    BY SequenceFacts DEF IInv, Typed
  <2>2. \A i \in DOMAIN pairs : pairs[i].grant \in Nat /\ pairs[i].grant <= grants
    BY <2>1 DEF Pair, Families
  <2>3. Families'
    BY <1>1, <1>4, <2>1, <2>2 DEF Families
  <2> QED BY <1>2, <2>3, LaterKeeps
<1>5. call[c].grant \in Nat /\ grants \in Nat /\ grant <= grants
  BY DEF Approve, Deny, IInv, Typed, Call, Idle, Families
<1>6. UNCHANGED <<grant, grants>> \/ (grant = 0 /\ grant' = grants + 1 /\ grants' = grants + 1)
  BY <1>5 DEF Approve, Deny
<1> QED BY <1>3, <1>4, <1>6

\* Withdrawing a grant deletes its families, and there is none afterwards.
LEMMA WithdrawKeepsFamilies ==
    ASSUME IInv, Families, Burning, Withdraw
    PROVE  (Families /\ Burning)'
<1>1. \A i \in DOMAIN pairs : pairs[i] \in Pair
  BY SequenceFacts DEF IInv, Typed
<1>2. /\ DOMAIN pairs' = DOMAIN pairs
      /\ \A i \in DOMAIN pairs :
            /\ pairs'[i].code = pairs[i].code /\ pairs'[i].grant = pairs[i].grant
            /\ pairs'[i].live = pairs[i].live
            /\ pairs'[i].stored => pairs[i].stored
  BY <1>1 DEF Withdraw, Cascaded, Pair
<1>3. grant' = 0 /\ UNCHANGED <<grants, call>> /\ grants \in Nat
  BY DEF Withdraw, IInv, Typed
<1>4. Later
  BY <1>2, <1>3 DEF Later
<1>5. Families'
  BY <1>2, <1>3 DEF Families
<1> QED BY <1>4, <1>5, LaterKeeps

\* Tokens that are revoked stay in their families.
LEMMA RevocationKeepsFamilies ==
    ASSUME IInv, Families, Burning,
           (\E c \in Callers : Burnt(c)) \/ (\E i \in DOMAIN pairs : RevokeAccess(i))
    PROVE  (Families /\ Burning)'
<1>1. DOMAIN pairs = 1..Len(pairs) /\ \A i \in DOMAIN pairs : pairs[i] \in Pair
  BY SequenceFacts DEF IInv, Typed
<1>2. /\ DOMAIN pairs' = DOMAIN pairs
      /\ \A i \in DOMAIN pairs :
            /\ pairs'[i].code = pairs[i].code /\ pairs'[i].grant = pairs[i].grant
            /\ pairs'[i].stored = pairs[i].stored /\ pairs'[i].live \subseteq pairs[i].live
  <2>1. CASE \E c \in Callers : Burnt(c)
    <3>1. PICK c \in Callers : pairs' = [i \in DOMAIN pairs |->
            [pairs[i] EXCEPT !.live = {kind \in pairs[i].live : <<i, kind>> \notin call[c].victims}]]
      BY <2>1 DEF Burnt
    <3> QED BY <1>1, <3>1 DEF Pair
  <2>2. CASE \E i \in DOMAIN pairs : RevokeAccess(i)
    <3>1. PICK k \in DOMAIN pairs : pairs' = [i \in DOMAIN pairs |->
            IF i = k THEN [pairs[i] EXCEPT !.live = pairs[i].live \ {"access"}] ELSE pairs[i]]
      BY <1>1, <2>2 DEF RevokeAccess
    <3> QED BY <1>1, <3>1 DEF Pair
  <2> QED BY <2>1, <2>2
<1>3. \A d \in Callers : call'[d].stage = "burning" => call'[d] = call[d]
  <2>1. Idle.stage # "burning"
    BY DEF Idle
  <2> QED BY <2>1, DoneEnds DEF Burnt, RevokeAccess, IInv
<1>4. Later
  BY <1>2, <1>3 DEF Later
<1>5. UNCHANGED <<grant, grants>>
  BY DEF Burnt, RevokeAccess
<1> QED BY <1>2, <1>4, <1>5, LaterKeeps, FamiliesKept

\* A claim goes on, ends or turns to its family, and has not read it.
LEMMA RestKeepsFamilies ==
    ASSUME IInv, Families, Burning, NEW c \in Callers,
           \/ \E k \in Codes : Exchange(c, k)
           \/ \E d \in Devices : Poll(c, d)
           \/ \E i \in DOMAIN pairs : Refresh(c, i) \/ Revoke(c, i)
           \/ \E screen \in screens : Decide(c, screen)
           \/ Claim(c) \/ Fail(c)
    PROVE  (Families /\ Burning)'
<1>1. UNCHANGED <<grant, grants, pairs>>
  BY DEF Exchange, Poll, Refresh, Revoke, Decide, Claim, Fail
<1>2. PICK now : now.stage # "burning" /\ call' = [call EXCEPT ![c] = now]
  <2>1. CASE \/ \E k \in Codes : Exchange(c, k)
             \/ \E d \in Devices : Poll(c, d)
             \/ \E i \in DOMAIN pairs : Refresh(c, i) \/ Revoke(c, i)
    <3>1. \E stage \in {"read", "burn"} : \E x, g :
            call' = [call EXCEPT ![c] = [stage |-> stage, of |-> x, grant |-> g]]
      BY <2>1 DEF Exchange, Poll, Refresh, Revoke
    <3> QED BY <3>1
  <2>2. CASE \E screen \in screens : Decide(c, screen)
    BY <2>2 DEF Decide
  <2>3. CASE Claim(c)
    <3>1. call[c] \in [stage : {"read", "claimed", "burn"}, of : Credential, grant : Nat]
      BY <2>3 DEF Claim, IInv, Typed, Call, Idle
    <3>2. \A stage \in {"claimed", "burn"} : [call[c] EXCEPT !.stage = stage].stage = stage
      BY <3>1
    <3>3. \/ call' = [call EXCEPT ![c] = Idle]
          \/ \E stage \in {"claimed", "burn"} : call' = [call EXCEPT ![c] = [call[c] EXCEPT !.stage = stage]]
      BY <2>3 DEF Claim, Done, Goes
    <3> QED BY <3>2, <3>3 DEF Idle
  <2>4. CASE Fail(c)
    BY <2>4 DEF Fail, Done, Idle
  <2> QED BY <2>1, <2>2, <2>3, <2>4
<1> QED BY <1>1, <1>2, RequestsKeepFamilies

\* Where neither pairs, grants nor requests change.
LEMMA CodesKeepFamilies ==
    ASSUME Families, Burning, UNCHANGED <<grant, grants, pairs, call>>
    PROVE  (Families /\ Burning)'
BY DEF Families, Burning

\* The invariants hold together.
LEMMA FamiliesAlways == Spec => [](IInv /\ Answered /\ Granted /\ Families /\ Burning)
<1>1. Init => Families /\ Burning
  <2> SUFFICES ASSUME Init PROVE Families /\ Burning
      OBVIOUS
  <2>1. Idle.stage # "burning" /\ DOMAIN pairs = {}
    BY DEF Idle, Init
  <2> QED BY <2>1 DEF Init, Families, Burning
<1>2. IInv /\ Granted /\ Families /\ Burning /\ [Next]_vars => (Families /\ Burning)'
  <2> SUFFICES ASSUME IInv, Granted, Families, Burning, [Next]_vars PROVE (Families /\ Burning)'
      OBVIOUS
  <2>1. CASE Person
    <3>1. CASE \/ \E k \in Codes : Begin(k)
               \/ \E d \in Devices : BeginDevice(d) \/ ClaimUserCode(d)
      BY <3>1, CodesKeepFamilies DEF Begin, BeginDevice, ClaimUserCode
    <3> QED BY <2>1, <3>1, RestKeepsFamilies, DecisionKeepsFamilies, WithdrawKeepsFamilies DEF Person
  <2>2. CASE Application
    BY <2>2, RestKeepsFamilies, IssueKeepsFamilies, BurnReads, RevocationKeepsFamilies DEF Application
  <2>3. CASE \E i \in DOMAIN pairs : RevokeAccess(i)
    BY <2>3, RevocationKeepsFamilies
  <2>4. CASE \E k \in Codes \union Devices : Expire(k) \/ Prune(k)
    BY <2>4, CodesKeepFamilies DEF Expire, Prune
  <2>5. CASE \E c \in Callers : Fail(c)
    BY <2>5, RestKeepsFamilies
  <2>6. CASE UNCHANGED vars
    BY <2>6, CodesKeepFamilies DEF vars
  <2> QED BY <2>1, <2>2, <2>3, <2>4, <2>5, <2>6 DEF Next
<1> QED BY <1>1, <1>2, AnsweredAlways, PTL DEF Spec

\* A revocation of a family that revokes anything leaves no live token of any pair
\* issued before it read the family, whatever was refreshed, withdrawn or
\* revoked meanwhile (`_burn_family`).
THEOREM BurnIsThorough == Spec => BurnReaches
<1> DEFINE Reaches ==
             \A c \in Callers :
                 call[c].stage = "burning" /\ call'[c] = Idle /\ pairs' # pairs
                     => \A i \in 1..call[c].issued :
                         pairs[i].code = call[c].of.code => pairs'[i].live = {}
<1>1. IInv /\ Granted /\ Families /\ Burning /\ [Next]_vars => Reaches
  <2> SUFFICES ASSUME IInv, Granted, Families, Burning, [Next]_vars, NEW c \in Callers,
                      call[c].stage = "burning", call'[c] = Idle, pairs' # pairs,
                      NEW i \in 1..call[c].issued, pairs[i].code = call[c].of.code
               PROVE  pairs'[i].live = {}
      OBVIOUS
  <2>1. DOMAIN pairs = 1..Len(pairs) /\ \A j \in DOMAIN pairs : pairs[j] \in Pair
    BY SequenceFacts DEF IInv, Typed
  <2>2. call'[c] # call[c]
    BY DEF Idle
  \* Who else changes the pairs leaves this request alone.
  <2>3. Burnt(c)
    <3>1. PICK d \in Callers : Issue(d) \/ Burnt(d)
      <4>1. CASE Person
        BY <2>2, <4>1 DEF Person, Begin, BeginDevice, ClaimUserCode, Decide, Approve, Deny, Withdraw
      <4>2. CASE Application
        BY <4>2 DEF Application, Exchange, Poll, Refresh, Revoke, Claim, Burn
      <4>3. CASE \/ \E j \in DOMAIN pairs : RevokeAccess(j)
                 \/ \E k \in Codes \union Devices : Expire(k) \/ Prune(k)
                 \/ \E d \in Callers : Fail(d)
                 \/ UNCHANGED vars
        BY <2>2, <4>3 DEF RevokeAccess, Expire, Prune, Fail, vars
      <4> QED BY <4>1, <4>2, <4>3 DEF Next
    <3>2. d = c
      BY <2>2, <3>1, DoneEnds DEF Issue, Burnt, IInv
    <3> QED BY <3>1, <3>2 DEF Issue
  <2>4. \A j \in DOMAIN pairs :
          pairs'[j] = [pairs[j] EXCEPT !.live = {kind \in @ : <<j, kind>> \notin call[c].victims}]
    BY <2>3 DEF Burnt
  <2>5. i \in DOMAIN pairs
    BY DEF Burning
  <2>6. PICK t \in call[c].victims : TRUE
    <3> SUFFICES ASSUME call[c].victims = {} PROVE FALSE
        OBVIOUS
    <3>1. ASSUME NEW j \in DOMAIN pairs PROVE pairs'[j] = pairs[j]
      <4>1. {kind \in pairs[j].live : <<j, kind>> \notin call[c].victims} = pairs[j].live
        OBVIOUS
      <4>2. pairs'[j] = [pairs[j] EXCEPT !.live = pairs[j].live]
        BY <2>4, <4>1
      <4> QED BY <2>1, <4>2 DEF Pair
    <3>2. pairs' = [j \in DOMAIN pairs |-> pairs[j]]
      BY <2>3, <2>4, <3>1 DEF Burnt
    <3>3. pairs = [j \in DOMAIN pairs |-> pairs[j]]
      BY <2>1 DEF IInv, Typed
    <3> QED BY <3>2, <3>3
  <2>7. /\ t[1] \in DOMAIN pairs /\ pairs[t[1]].code = call[c].of.code
        /\ pairs[t[1]].stored
    BY <2>3 DEF Burning, Burnt
  <2>8. pairs[i].stored
    BY <2>5, <2>7 DEF Families, Granted
  <2>9. \A kind \in pairs[i].live : <<i, kind>> \in call[c].victims
    BY <2>8 DEF Burning
  <2>10. pairs'[i].live = {kind \in pairs[i].live : <<i, kind>> \notin call[c].victims}
    BY <2>1, <2>4, <2>5 DEF Pair
  <2> QED BY <2>9, <2>10
<1> QED BY <1>1, FamiliesAlways, PTL DEF BurnReaches, Spec

-----------------------------------------------------------------------------
(* Types *)

RowUpTo(n) == [stored : BOOLEAN, grant : 0..n, answer : {"none", "approved", "denied"},
               spent : BOOLEAN, expired : BOOLEAN]

PairUpTo(n) == [code : AllCodes, grant : 1..n, from : 0..MaxPairs, live : SUBSET Kinds,
                stored : BOOLEAN]

\* What is stored is of its type, and of a grant that was made.
Known ==
    /\ grant \in 0..grants /\ grants \in 0..MaxGrants
    /\ code \in [AllCodes -> RowUpTo(grants)]
    /\ screens \subseteq AllCodes \X (1..MaxClaims)
    /\ pairs \in Seq(PairUpTo(grants))
    /\ born \subseteq AllCodes /\ denied \subseteq Devices

Presents(c) == call[c].stage \in {"read", "claimed", "burn", "burning"} /\ call[c].of \in Presented

\* A request presents what there is, or decides on a screen nobody else does.
Serving ==
    /\ \A c \in Callers :
        \/ call[c] = Idle
        \/ Presents(c)
        \/ call[c].stage = "consent" /\ call[c].screen \in screens
    /\ \A c, d \in Callers :
        /\ call[c].stage = "consent" /\ call[d].stage = "consent"
        /\ call[c].screen = call[d].screen
        => c = d

\* The two are the type invariant.
LEMMA KnownServing == TypeOK /\ Serving <=> Known /\ Serving
BY DEF TypeOK, Known, Serving, Presents, RowUpTo, PairUpTo, AllCodes

\* What was made of an earlier grant is of one made by now.
LEMMA LaterGrants ==
    ASSUME NEW m \in Nat, NEW n \in Nat, m <= n
    PROVE  /\ RowUpTo(m) \subseteq RowUpTo(n)
           /\ \A s \in Seq(PairUpTo(m)) : s \in Seq(PairUpTo(n))
<1>1. 0..m \subseteq 0..n /\ 1..m \subseteq 1..n
  OBVIOUS
<1>2. RowUpTo(m) \subseteq RowUpTo(n)
  BY <1>1 DEF RowUpTo
<1>3. PairUpTo(m) \subseteq PairUpTo(n)
  BY <1>1 DEF PairUpTo
<1> QED BY <1>2, <1>3

\* Pairs are not deleted, so what was presented is there still.
LEMMA PresentedStays ==
    ASSUME DOMAIN pairs \subseteq DOMAIN pairs'
    PROVE  Presented \subseteq Presented'
BY DEF Presented

\* A request that was served goes on, ends, or presents what there is; and a
\* decision keeps its screen.
LEMMA ServingStays ==
    ASSUME Serving, DOMAIN pairs \subseteq DOMAIN pairs',
           \A c \in Callers :
               \/ call'[c] = call[c]
               \/ call'[c] = Idle
               \/ /\ call'[c].stage \in {"read", "claimed", "burn", "burning"}
                  /\ call'[c].of \in Presented,
           \A c \in Callers :
               call'[c].stage = "consent" /\ call[c].screen \in screens => call[c].screen \in screens'
    PROVE  Serving'
<1>1. Presented \subseteq Presented'
  BY PresentedStays
<1>2. Idle.stage = "idle"
  BY DEF Idle
<1>3. \A c \in Callers : call'[c].stage = "consent" => call'[c] = call[c]
  BY <1>2
<1>4. ASSUME NEW c \in Callers
      PROVE  \/ call'[c] = Idle
             \/ Presents(c)'
             \/ call'[c].stage = "consent" /\ call'[c].screen \in screens'
  BY <1>1, <1>3 DEF Serving, Presents
<1>5. ASSUME NEW c \in Callers, NEW d \in Callers,
             call'[c].stage = "consent", call'[d].stage = "consent", call'[c].screen = call'[d].screen
      PROVE  c = d
  BY <1>3, <1>5 DEF Serving
<1> QED BY <1>4, <1>5 DEF Serving

\* A request that begins presents what there is.
LEMMA CallsServing ==
    ASSUME IInv, Known, Serving, NEW c \in Callers,
           \/ \E k \in Codes : Exchange(c, k)
           \/ \E d \in Devices : Poll(c, d)
           \/ \E i \in DOMAIN pairs : Refresh(c, i) \/ Revoke(c, i)
           \/ Claim(c) \/ Burn(c) \/ Fail(c)
    PROVE  Known' /\ Serving'
<1>1. /\ UNCHANGED <<grant, grants, code, screens, pairs, born, denied>>
      /\ call \in [Callers -> Call]
  BY DEF Exchange, Poll, Refresh, Revoke, Claim, Burn, Fail, IInv, Typed
<1>2. Known'
  BY <1>1 DEF Known
<1>3. /\ \A k \in AllCodes : OfCode(k) \in Presented
      /\ \A i \in DOMAIN pairs : OfPair(i) \in Presented
  BY PairFacts DEF OfCode, OfPair, Presented, AllCodes
<1>4. ASSUME NEW now, call' = [call EXCEPT ![c] = now],
             \/ now = Idle
             \/ now.stage \in {"read", "claimed", "burn", "burning"} /\ now.of \in Presented
      PROVE  Serving'
  <2>1. \A d \in Callers : call'[d] = IF d = c THEN now ELSE call[d]
    BY <1>1, <1>4
  <2> QED BY <1>1, <1>4, <2>1, ServingStays
<1>5. CASE \E k \in Codes : Exchange(c, k)
  <2>1. PICK k \in Codes : Exchange(c, k)
    BY <1>5
  <2> DEFINE now == [stage |-> IF code[k].spent THEN "burn" ELSE "read",
                     of |-> OfCode(k), grant |-> code[k].grant]
  <2>2. now.stage \in {"read", "burn"} /\ now.of \in Presented
    BY <1>3 DEF AllCodes
  <2>3. call' = [call EXCEPT ![c] = now]
    BY <2>1 DEF Exchange
  <2> HIDE DEF now
  <2> QED BY <1>2, <1>4, <2>2, <2>3
<1>6. CASE \E d \in Devices : Poll(c, d)
  <2>1. PICK d \in Devices : Poll(c, d)
    BY <1>6
  <2> DEFINE now == [stage |-> "read", of |-> OfCode(d), grant |-> code[d].grant]
  <2>2. now.stage = "read" /\ now.of \in Presented
    BY <1>3 DEF AllCodes
  <2>3. call' = [call EXCEPT ![c] = now]
    BY <2>1 DEF Poll
  <2> HIDE DEF now
  <2> QED BY <1>2, <1>4, <2>2, <2>3
<1>7. CASE \E i \in DOMAIN pairs : Refresh(c, i) \/ Revoke(c, i)
  <2>1. PICK i \in DOMAIN pairs : Refresh(c, i) \/ Revoke(c, i)
    BY <1>7
  <2>2. PICK stage \in {"read", "burn"} :
          call' = [call EXCEPT ![c] = [stage |-> stage, of |-> OfPair(i), grant |-> pairs[i].grant]]
    BY <2>1 DEF Refresh, Revoke
  <2> DEFINE now == [stage |-> stage, of |-> OfPair(i), grant |-> pairs[i].grant]
  <2>3. now.stage \in {"read", "burn"} /\ now.of \in Presented /\ call' = [call EXCEPT ![c] = now]
    BY <1>3, <2>2
  <2> HIDE DEF now
  <2> QED BY <1>2, <1>4, <2>3
<1>8. CASE Claim(c)
  <2>1. call[c].stage = "read" /\ call[c] \in Call
    BY <1>1, <1>8 DEF Claim
  <2>2. call[c].of \in Presented
    BY <2>1 DEF Serving, Presents, Idle
  <2>3. CASE Done(c)
    BY <1>2, <1>4, <2>3 DEF Done
  <2>4. ASSUME NEW stage \in {"claimed", "burn"}, Goes(c, stage)
        PROVE  Serving'
    <3> DEFINE now == [call[c] EXCEPT !.stage = stage]
    <3>1. call' = [call EXCEPT ![c] = now]
      BY <2>4 DEF Goes
    <3>2. now.stage \in {"claimed", "burn"} /\ now.of \in Presented
      BY <2>1, <2>2 DEF Call, Idle
    <3> HIDE DEF now
    <3> QED BY <1>4, <3>1, <3>2
  <2>5. Done(c) \/ Goes(c, "claimed") \/ Goes(c, "burn")
    BY <1>8 DEF Claim
  <2> QED BY <1>2, <2>3, <2>4, <2>5
<1>9. CASE Burn(c)
  <2>1. call[c].of \in Presented
    BY <1>9 DEF Burn, Serving, Presents, Idle
  <2> DEFINE now == [stage |-> "burning", of |-> call[c].of, victims |-> Live(call[c].of.code),
                     issued |-> Len(pairs)]
  <2>2. now.stage = "burning" /\ now.of \in Presented
    BY <2>1
  <2>3. call' = [call EXCEPT ![c] = now]
    BY <1>9 DEF Burn
  <2> HIDE DEF now
  <2> QED BY <1>2, <1>4, <2>2, <2>3
<1>10. CASE Fail(c)
  BY <1>2, <1>4, <1>10 DEF Fail, Done
<1> QED BY <1>5, <1>6, <1>7, <1>8, <1>9, <1>10

\* A decision that begins is the only one on its screen.
LEMMA DecideServing ==
    ASSUME IInv, Known, Serving, NEW c \in Callers, NEW screen \in screens, Decide(c, screen)
    PROVE  Known' /\ Serving'
<1> DEFINE now == [stage |-> "consent", screen |-> screen, grant |-> grant]
<1>1. now.stage = "consent" /\ now.screen = screen
  OBVIOUS
<1>2. /\ UNCHANGED <<grant, grants, code, screens, pairs, born, denied>>
      /\ call' = [call EXCEPT ![c] = now]
      /\ \A d \in Callers : call[d].stage = "consent" => call[d].screen # screen
  BY DEF Decide
<1> HIDE DEF now
<1>3. \A d \in Callers : call'[d] = IF d = c THEN now ELSE call[d]
  BY <1>2 DEF IInv, Typed
<1>4. Presented' = Presented
  BY <1>2 DEF Presented
<1>5. Known'
  BY <1>2 DEF Known
<1>6. (\A d \in Callers :
        \/ call[d] = Idle
        \/ Presents(d)
        \/ call[d].stage = "consent" /\ call[d].screen \in screens)'
  BY <1>1, <1>2, <1>3, <1>4 DEF Serving, Presents
<1>7. (\A d, e \in Callers :
        /\ call[d].stage = "consent" /\ call[e].stage = "consent"
        /\ call[d].screen = call[e].screen
        => d = e)'
  BY <1>1, <1>2, <1>3 DEF Serving
<1> QED BY <1>5, <1>6, <1>7 DEF Serving

\* Authorizations that begin, and codes that expire, take no screen away.
LEMMA BeginsServing ==
    ASSUME IInv, Known, Serving, NEW k \in AllCodes,
           \/ Begin(k)
           \/ k \in Devices /\ (BeginDevice(k) \/ ClaimUserCode(k))
           \/ Expire(k)
    PROVE  Known' /\ Serving'
<1>1. UNCHANGED <<grant, grants, pairs, call, denied>> /\ screens \subseteq screens'
  BY DEF Begin, BeginDevice, ClaimUserCode, Expire
<1>2. Serving'
  BY <1>1, ServingStays
<1>3. born' \subseteq AllCodes
  BY DEF Begin, BeginDevice, ClaimUserCode, Expire, Known
<1>4. screens' \subseteq AllCodes \X (1..MaxClaims)
  <2>1. CASE Begin(k)
    <3>1. 1 \in 1..MaxClaims
      BY OAuthTokensAssumption
    <3> QED BY <2>1, <3>1 DEF Begin, Known
  <2>2. CASE k \in Devices /\ ClaimUserCode(k)
    <3>1. PICK n \in 1..MaxClaims : screens' = screens \union {<<k, n>>}
      BY <2>2 DEF ClaimUserCode
    <3> QED BY <3>1 DEF Known
  <2>3. CASE BeginDevice(k) \/ Expire(k)
    BY <2>3 DEF BeginDevice, Expire, Known
  <2> QED BY <2>1, <2>2, <2>3
<1>5. code' \in [AllCodes -> RowUpTo(grants)]
  <2>1. [code[k] EXCEPT !.stored = TRUE] \in RowUpTo(grants)
    BY DEF Known, RowUpTo
  <2>2. [code[k] EXCEPT !.expired = TRUE] \in RowUpTo(grants)
    BY DEF Known, RowUpTo
  <2>3. CASE BeginDevice(k)
    BY <2>1, <2>3 DEF BeginDevice, Known
  <2>4. CASE Expire(k)
    BY <2>2, <2>4 DEF Expire, Known
  <2>5. CASE Begin(k) \/ ClaimUserCode(k)
    BY <2>5 DEF Begin, ClaimUserCode, Known
  <2> QED BY <2>3, <2>4, <2>5
<1> QED BY <1>1, <1>2, <1>3, <1>4, <1>5 DEF Known

\* A decision takes its own screen away.
LEMMA AnswerServing ==
    ASSUME IInv, Known, Serving, NEW c \in Callers, Approve(c) \/ Deny(c)
    PROVE  Known' /\ Serving'
<1> DEFINE screen == call[c].screen
           k == screen[1]
<1>1. /\ call[c].stage = "consent" /\ Done(c)
      /\ UNCHANGED <<pairs, born>> /\ screens' = screens \ {screen}
  BY DEF Approve, Deny
<1>2. screen \in screens
  BY <1>1 DEF Serving, Presents, Idle
<1>3. k \in AllCodes
  BY <1>2 DEF Known
<1>4. grants \in Nat /\ \A m \in 0..grants : m \in Nat
  BY OAuthTokensAssumption DEF Known
<1> HIDE DEF screen
<1>5. Serving'
  <2>1. \A d \in Callers : call'[d] = IF d = c THEN Idle ELSE call[d]
    BY <1>1, DoneEnds DEF IInv
  <2>2. \A d \in Callers : call'[d].stage = "consent" /\ call[d].screen \in screens
          => call[d].screen \in screens'
    BY <1>1, <2>1 DEF Serving, Idle, screen
  <2> QED BY <1>1, <2>1, <2>2, ServingStays
<1>6. screens' \subseteq AllCodes \X (1..MaxClaims) /\ born' \subseteq AllCodes
  BY <1>1 DEF Known
<1>7. CASE Deny(c)
  <2>1. [code[k] EXCEPT !.answer = "denied"] \in RowUpTo(grants)
    BY <1>3 DEF Known, RowUpTo
  <2>2. code' = IF k \in Devices THEN [code EXCEPT ![k].answer = "denied"] ELSE code
    BY <1>7 DEF Deny, screen
  <2>3. code' \in [AllCodes -> RowUpTo(grants)]
    BY <2>1, <2>2 DEF Known
  <2>4. denied' = denied \union ({k} \intersect Devices)
    BY <1>7 DEF Deny, screen
  <2> QED BY <1>1, <1>5, <1>6, <1>7, <2>3, <2>4 DEF Deny, Known
<1>8. CASE Approve(c)
  <2> DEFINE g == IF call[c].grant = 0 THEN grants + 1 ELSE call[c].grant
  <2>1. /\ grant = call[c].grant /\ g <= MaxGrants /\ grant' = g
        /\ grants' = IF g > grants THEN g ELSE grants
        /\ code' = [code EXCEPT ![k] =
              [@ EXCEPT !.stored = TRUE, !.grant = g, !.answer = "approved"]]
    BY <1>8 DEF Approve, screen
  <2>2. /\ g \in 0..grants' /\ grants' \in 0..MaxGrants /\ grants <= grants'
        /\ grants' \in Nat
    BY <1>4, <2>1, OAuthTokensAssumption DEF Known
  <2> HIDE DEF g
  <2>3. RowUpTo(grants) \subseteq RowUpTo(grants') /\ pairs \in Seq(PairUpTo(grants'))
    BY <1>4, <2>2, LaterGrants DEF Known
  <2>4. [code[k] EXCEPT !.stored = TRUE, !.grant = g, !.answer = "approved"] \in RowUpTo(grants')
    <3>1. code[k] \in RowUpTo(grants')
      BY <1>3, <2>3 DEF Known
    <3> QED BY <2>2, <3>1 DEF RowUpTo
  <2>5. code \in [AllCodes -> RowUpTo(grants')]
    BY <2>3 DEF Known
  <2>6. code' \in [AllCodes -> RowUpTo(grants')]
    BY <2>1, <2>4, <2>5
  <2>7. pairs' \in Seq(PairUpTo(grants)')
    BY <1>1, <2>3 DEF PairUpTo, AllCodes
  <2>8. code' \in [AllCodes -> RowUpTo(grants)']
    BY <2>6 DEF RowUpTo
  <2> QED BY <1>5, <1>6, <1>8, <2>1, <2>2, <2>7, <2>8 DEF Approve, Known
<1> QED BY <1>7, <1>8

\* What claims a row is issued a pair of the grant there is.
LEMMA IssueServing ==
    ASSUME IInv, Granted, Known, Serving, NEW c \in Callers, Issue(c)
    PROVE  Known' /\ Serving'
<1> DEFINE x == call[c].of
           new == [code |-> x.code, grant |-> Row(x).grant, from |-> x.pair, live |-> Kinds,
                   stored |-> TRUE]
           rest == [i \in DOMAIN pairs |->
                      IF i = x.pair THEN [pairs[i] EXCEPT !.live = @ \ {"refresh"}] ELSE pairs[i]]
<1>1. /\ call[c].stage = "claimed" /\ Len(pairs) < MaxPairs /\ Done(c)
      /\ UNCHANGED <<grant, grants, screens, born, denied>>
      /\ pairs' = Append(rest, new)
      /\ code' = IF x.pair = 0 THEN [code EXCEPT ![x.code].spent = TRUE] ELSE code
  BY DEF Issue, Rotated
<1>2. DOMAIN pairs = 1..Len(pairs) /\ Len(pairs) \in Nat
  BY SequenceFacts DEF Known
<1>3. \A i \in DOMAIN pairs : pairs[i] \in PairUpTo(grants)
  BY SequenceFacts DEF Known
<1>4. /\ x.pair \in Nat /\ x.code \in AllCodes
      /\ x.pair # 0 => x.pair \in DOMAIN pairs
  BY <1>1, ReadFacts
<1>5. x.pair \in 0..MaxPairs
  BY <1>1, <1>2, <1>4, OAuthTokensAssumption
<1>6. Row(x).grant \in 1..grants
  <2>1. Row(x).stored /\ (x.pair = 0 => code[x.code].answer = "approved")
    BY <1>1 DEF Granted
  <2>2. CASE x.pair = 0
    <3>1. code[x.code].grant = grant /\ grant # 0
      BY <1>4, <2>1, <2>2 DEF Row, Granted
    <3>2. grant \in 0..grants /\ grants \in Nat
      BY OAuthTokensAssumption DEF Known
    <3> QED BY <2>2, <3>1, <3>2 DEF Row
  <2>3. CASE x.pair # 0
    BY <1>3, <1>4, <2>3 DEF Row, PairUpTo
  <2> QED BY <2>2, <2>3
<1>7. new \in PairUpTo(grants)
  BY <1>4, <1>5, <1>6 DEF PairUpTo
<1>8. rest \in Seq(PairUpTo(grants))
  <2>1. ASSUME NEW i \in DOMAIN pairs
        PROVE  rest[i] \in PairUpTo(grants)
    <3>1. [pairs[i] EXCEPT !.live = @ \ {"refresh"}] \in PairUpTo(grants)
      BY <1>3 DEF PairUpTo
    <3> QED BY <1>3, <3>1
  <2>2. rest \in [1..Len(pairs) -> PairUpTo(grants)]
    BY <1>2, <2>1
  <2> HIDE DEF rest
  <2> QED BY <1>2, <2>2
<1>9. Len(rest) = Len(pairs)
  BY <1>2
<1> HIDE DEF new, rest, x
<1>10. pairs' \in Seq(PairUpTo(grants)) /\ DOMAIN pairs \subseteq DOMAIN pairs'
  <2>1. Append(rest, new) \in Seq(PairUpTo(grants)) /\ Len(Append(rest, new)) = Len(rest) + 1
    BY <1>7, <1>8
  <2>2. DOMAIN pairs' = 1..(Len(pairs) + 1)
    BY <1>1, <1>2, <1>9, <2>1
  <2> QED BY <1>1, <1>2, <2>1, <2>2
<1>11. code' \in [AllCodes -> RowUpTo(grants)]
  <2>1. [code[x.code] EXCEPT !.spent = TRUE] \in RowUpTo(grants)
    BY <1>4 DEF Known, RowUpTo
  <2> QED BY <1>1, <2>1 DEF Known
<1>12. Known'
  BY <1>1, <1>10, <1>11 DEF Known
<1>13. \A d \in Callers : call'[d] = IF d = c THEN Idle ELSE call[d]
  BY <1>1, DoneEnds DEF IInv
<1>14. Serving'
  BY <1>1, <1>10, <1>13, ServingStays
<1> QED BY <1>12, <1>14

\* A revocation marks pairs and no more.
LEMMA RevocationServing ==
    ASSUME IInv, Known, Serving,
           (\E c \in Callers : Burnt(c)) \/ (\E i \in DOMAIN pairs : RevokeAccess(i))
    PROVE  Known' /\ Serving'
<1>1. DOMAIN pairs = 1..Len(pairs) /\ \A i \in DOMAIN pairs : pairs[i] \in PairUpTo(grants)
  BY SequenceFacts DEF Known
<1>2. UNCHANGED <<grant, grants, code, screens, born, denied>>
  BY DEF Burnt, RevokeAccess
<1>3. pairs' \in Seq(PairUpTo(grants)) /\ DOMAIN pairs' = DOMAIN pairs
  <2>1. ASSUME NEW c \in Callers, Burnt(c)
        PROVE  pairs' \in [DOMAIN pairs -> PairUpTo(grants)]
    <3>1. ASSUME NEW i \in DOMAIN pairs
          PROVE  [pairs[i] EXCEPT !.live = {kind \in @ : <<i, kind>> \notin call[c].victims}]
                    \in PairUpTo(grants)
      BY <1>1 DEF PairUpTo
    <3> QED BY <2>1, <3>1 DEF Burnt
  <2>2. ASSUME NEW i \in DOMAIN pairs, RevokeAccess(i)
        PROVE  pairs' \in [DOMAIN pairs -> PairUpTo(grants)]
    <3>1. [pairs[i] EXCEPT !.live = @ \ {"access"}] \in PairUpTo(grants)
      BY <1>1 DEF PairUpTo
    <3>2. pairs \in [DOMAIN pairs -> PairUpTo(grants)]
      BY <1>1 DEF Known
    <3> QED BY <2>2, <3>1, <3>2 DEF RevokeAccess
  <2>3. pairs' \in [DOMAIN pairs -> PairUpTo(grants)] /\ Len(pairs) \in Nat
    BY <2>1, <2>2, SequenceFacts DEF Known
  <2> QED BY <1>1, <2>3
<1>4. Known'
  BY <1>2, <1>3 DEF Known, PairUpTo
<1>5. \A d \in Callers : call'[d] = call[d] \/ call'[d] = Idle
  BY DoneEnds DEF Burnt, RevokeAccess, IInv
<1> QED BY <1>2, <1>3, <1>4, <1>5, ServingStays

\* The deletion of codes nobody is deciding about keeps what there is.
LEMMA WithoutServing ==
    ASSUME Known, NEW gone \in SUBSET AllCodes, Without(gone)
    PROVE  /\ code' \in [AllCodes -> RowUpTo(grants)]
           /\ screens' \subseteq AllCodes \X (1..MaxClaims)
           /\ \A s \in screens : s[1] \notin gone \/ s[1] \notin Devices => s \in screens'
<1>1. ASSUME NEW k \in AllCodes
      PROVE  [code[k] EXCEPT !.stored = FALSE] \in RowUpTo(grants)
  BY DEF Known, RowUpTo
<1>2. code' \in [AllCodes -> RowUpTo(grants)]
  BY <1>1 DEF Without, Known
<1> QED BY <1>2 DEF Without, Known

\* A code that is pruned is one nobody decides about.
LEMMA PruneServing ==
    ASSUME IInv, Known, Serving, NEW k \in AllCodes, Prune(k)
    PROVE  Known' /\ Serving'
<1>1. Without({k}) /\ UNCHANGED <<grant, grants, pairs, call, born, denied>>
  BY DEF Prune
<1>2. /\ code' \in [AllCodes -> RowUpTo(grants)]
      /\ screens' \subseteq AllCodes \X (1..MaxClaims)
      /\ \A s \in screens : s[1] \notin {k} \/ s[1] \notin Devices => s \in screens'
  BY <1>1, WithoutServing
<1>3. \A c \in Callers : call'[c].stage = "consent" /\ call[c].screen \in screens
        => call[c].screen \in screens'
  BY <1>1, <1>2 DEF Prune
<1>4. Serving'
  BY <1>1, <1>3, ServingStays
<1> QED BY <1>1, <1>2, <1>4 DEF Known

\* A withdrawal waits for who decides about a device it deletes.
LEMMA WithdrawServing ==
    ASSUME IInv, Known, Serving, Withdraw
    PROVE  Known' /\ Serving'
<1> DEFINE gone == {k \in DOMAIN code : code[k].stored /\ code[k].grant = grant}
<1>1. /\ Without(gone) /\ pairs' = Cascaded(grant) /\ grant' = 0
      /\ UNCHANGED <<grants, call, born, denied>>
  BY DEF Withdraw
<1>2. gone \in SUBSET AllCodes
  BY DEF Known
<1>3. \A c \in Callers : call[c].stage = "consent" =>
        call[c].screen[1] \notin gone \/ call[c].screen[1] \notin Devices
  BY DEF Withdraw
<1> HIDE DEF gone
<1>4. /\ code' \in [AllCodes -> RowUpTo(grants)]
      /\ screens' \subseteq AllCodes \X (1..MaxClaims)
      /\ \A s \in screens : s[1] \notin gone \/ s[1] \notin Devices => s \in screens'
  BY <1>1, <1>2, WithoutServing
<1>5. /\ DOMAIN pairs = 1..Len(pairs) /\ Len(pairs) \in Nat
      /\ \A i \in DOMAIN pairs : pairs[i] \in PairUpTo(grants)
  BY SequenceFacts DEF Known
<1>6. pairs' \in [DOMAIN pairs -> PairUpTo(grants)]
  <2>1. ASSUME NEW i \in DOMAIN pairs
        PROVE  [pairs[i] EXCEPT !.stored = FALSE] \in PairUpTo(grants)
    BY <1>5 DEF PairUpTo
  <2> QED BY <1>1, <1>5, <2>1 DEF Cascaded
<1>7. pairs' \in Seq(PairUpTo(grants)) /\ DOMAIN pairs' = DOMAIN pairs
  BY <1>5, <1>6
<1>8. Serving'
  BY <1>1, <1>3, <1>4, <1>7, ServingStays
<1>9. grant' \in 0..grants'
  BY <1>1, OAuthTokensAssumption DEF Known
<1> QED BY <1>1, <1>4, <1>7, <1>8, <1>9 DEF Known, PairUpTo

\* Every variable has its type, for any bounds: a request presents what there is,
\* a consent screen somebody decides on is there until the decision, whatever is
\* pruned or withdrawn meanwhile, and no pair is of a grant that was not made
\* (`_issue_pair`, `_consume_request`, `prune`, `withdraw`).
THEOREM TypeCorrect == Spec => []TypeOK
<1>1. Init => Known /\ Serving
  <2> SUFFICES ASSUME Init PROVE Known /\ Serving
      OBVIOUS
  <2>1. Idle.stage = "idle" /\ NoCode \in RowUpTo(0) /\ <<>> \in Seq(PairUpTo(0))
    BY DEF Idle, NoCode, RowUpTo
  <2>2. \A c \in Callers : call[c] = Idle
    BY DEF Init
  <2>3. Serving
    BY <2>1, <2>2 DEF Serving
  <2>4. Known
    BY <2>1, OAuthTokensAssumption DEF Init, Known, AllCodes
  <2> QED BY <2>3, <2>4
<1>2. IInv /\ Granted /\ Known /\ Serving /\ [Next]_vars => (Known /\ Serving)'
  <2> SUFFICES ASSUME IInv, Granted, Known, Serving, [Next]_vars PROVE Known' /\ Serving'
      OBVIOUS
  <2>1. CASE Person
    BY <2>1, BeginsServing, DecideServing, AnswerServing, WithdrawServing DEF Person, AllCodes
  <2>2. CASE Application
    BY <2>2, CallsServing, IssueServing, RevocationServing DEF Application
  <2>3. CASE \E i \in DOMAIN pairs : RevokeAccess(i)
    BY <2>3, RevocationServing
  <2>4. CASE \E k \in Codes \union Devices : Expire(k) \/ Prune(k)
    BY <2>4, BeginsServing, PruneServing DEF AllCodes
  <2>5. CASE \E c \in Callers : Fail(c)
    BY <2>5, CallsServing
  <2>6. CASE UNCHANGED vars
    BY <2>6 DEF vars, Known, Serving, Presents, Presented
  <2> QED BY <2>1, <2>2, <2>3, <2>4, <2>5, <2>6 DEF Next
<1>3. Known /\ Serving => TypeOK
  BY KnownServing
<1> QED BY <1>1, <1>2, <1>3, AnsweredAlways, PTL DEF Spec

===============================================================================
