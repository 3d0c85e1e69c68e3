------------------------ MODULE CredentialCreationProofs ------------------------
(***************************************************************************)
(* Callers and caches hold only credentials that Kong holds, for any       *)
(* number of concurrent creators, keys and attempts.                       *)
(***************************************************************************)
EXTENDS CredentialCreation, TLAPS

CallType == [pc : Stages, byName : BOOLEAN, heard : BOOLEAN, attempt : 0..MaxAttempts,
             via : {"fetch", "curl"}, key : KeyIds \cup {NoKey}]

Ours(key) == key \in KeyIds /\ credentials[key] = "ours"

\* A call posts a key it has drawn, and stores one that Kong has created.
Backed(call) ==
    /\ call.pc = "posts" => call.key \in KeyIds
    /\ call.pc = "stores" => Ours(call.key)

\* Every copy is backed by Kong: those that were handed out, and those that
\* are about to be.
CreationInv ==
    /\ credentials \in [KeyIds -> {"free", "ours", "foreign"}]
    /\ creator \in [Creators -> CallType]
    /\ told \in [Creators -> KeyIds \cup {NoKey}]
    /\ \A p \in Creators : Backed(creator[p]) /\ (told[p] = NoKey \/ Ours(told[p]))
    /\ primaryCopy = NoKey \/ Ours(primaryCopy)
    /\ staleCopy = NoKey \/ Ours(staleCopy)

\* A creator without a call holds no key.
LEMMA DoneIsBacked == Done \in CallType /\ Done.pc = "idle"
BY CreationAssumption DEF Done, CallType, Stages

\* Nobody has been told of a credential yet.
LEMMA CreationInvInit == CreationInit => CreationInv
BY CreationAssumption, DoneIsBacked DEF CreationInit, CreationInv, Backed

\* One call goes on, Kong takes no credential of the consumer away, and each
\* copy is an old one, none, or one that Kong holds.
LEMMA CallGoesOn ==
    ASSUME CreationInv,
           NEW p \in Creators, NEW call \in CallType, Goes(p, call),
           call.pc = "posts" => call.key \in KeyIds,
           call.pc = "stores" => Ours(call.key)',
           credentials' \in [KeyIds -> {"free", "ours", "foreign"}],
           \A k \in KeyIds : credentials[k] = "ours" => credentials'[k] = "ours",
           \/ UNCHANGED told
           \/ \E k : (k = NoKey \/ Ours(k)) /\ told' = [told EXCEPT ![p] = k],
           primaryCopy' \in {primaryCopy, NoKey} \/ Ours(primaryCopy'),
           staleCopy' \in {staleCopy, NoKey} \/ Ours(staleCopy')
    PROVE  CreationInv'
<1>1. creator' \in [Creators -> CallType]
  BY DEF Goes, CreationInv
<1>2. \A k : Ours(k) => k \in KeyIds /\ credentials'[k] = "ours"
  BY DEF Ours
<1>3. ASSUME NEW q \in Creators
      PROVE  /\ creator'[q].pc = "posts" => creator'[q].key \in KeyIds
             /\ creator'[q].pc = "stores" =>
                    creator'[q].key \in KeyIds /\ credentials'[creator'[q].key] = "ours"
  <2>1. CASE q = p
    <3>1. creator'[q] = call
      BY <2>1 DEF Goes, CreationInv
    <3>2. QED
      BY <3>1 DEF Ours
  <2>2. CASE q # p
    <3>1. creator'[q] = creator[q] /\ Backed(creator[q])
      BY <2>2 DEF Goes, CreationInv
    <3>2. QED
      BY <3>1, <1>2 DEF Backed
  <2>3. QED
    BY <2>1, <2>2
<1>4. ASSUME NEW q \in Creators
      PROVE  told'[q] = NoKey \/ Ours(told'[q])
  BY DEF CreationInv
<1>5. told' \in [Creators -> KeyIds \cup {NoKey}]
  BY DEF CreationInv, Ours
<1>6. /\ primaryCopy' = NoKey \/ Ours(primaryCopy')
      /\ staleCopy' = NoKey \/ Ours(staleCopy')
  BY DEF CreationInv
<1>7. QED
  BY <1>1, <1>2, <1>3, <1>4, <1>5, <1>6 DEF CreationInv, Backed, Ours

\* A step that leaves Kong's credentials and the copies alone, and takes the
\* call to a stage where no key is at stake or keeps its stage and its key.
LEMMA NothingAtStake ==
    ASSUME CreationInv, NEW p \in Creators, NEW call \in CallType, Goes(p, call),
           \/ call.pc \notin {"posts", "stores"}
           \/ call.pc = creator[p].pc /\ call.key = creator[p].key,
           credentials' = credentials,
           UNCHANGED told \/ told' = [told EXCEPT ![p] = NoKey],
           primaryCopy' = primaryCopy,
           staleCopy' \in {staleCopy, NoKey}
    PROVE  CreationInv'
<1>1. Backed(creator[p])
  BY DEF CreationInv
<1>2. /\ call.pc = "posts" => call.key \in KeyIds
      /\ call.pc = "stores" => Ours(call.key)'
  BY <1>1 DEF Backed, Ours
<1>3. credentials' \in [KeyIds -> {"free", "ours", "foreign"}]
  BY DEF CreationInv
<1>4. QED
  BY <1>2, <1>3, CallGoesOn

\* A call that changes its stage is a call of that stage.
LEMMA StageTypes ==
    ASSUME NEW call \in CallType, NEW stage \in Stages
    PROVE  [call EXCEPT !.pc = stage] \in CallType /\ [call EXCEPT !.pc = stage].pc = stage
BY DEF CallType

\* A call nobody waits for, and one sent again with curl, are calls.
LEMMA CallTypes ==
    ASSUME NEW call \in CallType
    PROVE  /\ [call EXCEPT !.heard = FALSE] \in CallType
           /\ [call EXCEPT !.via = "curl"] \in CallType
BY DEF CallType

\* Every step of every creator keeps the copies backed.
LEMMA CreationInvNext == CreationInv /\ [CreationNext]_creationVars => CreationInv'
<1> SUFFICES ASSUME CreationInv, [CreationNext]_creationVars
             PROVE  CreationInv'
  OBVIOUS
<1>0. ASSUME NEW p \in Creators
      PROVE  creator[p] \in CallType /\ Backed(creator[p])
  BY DEF CreationInv
<1>a. Done \in CallType /\ Done.pc = "idle"
  BY DoneIsBacked
<1>b. {"resolves", "createsRealm", "draws"} \subseteq Stages
  BY DEF Stages
<1>1. ASSUME NEW p \in Creators, NEW byName \in BOOLEAN, CreateConsumerSecret(p, byName)
      PROVE  CreationInv'
  <2>1. PICK call : /\ call = [Done EXCEPT !.pc = IF konnect THEN "checksRealm" ELSE "draws",
                                           !.byName = byName, !.heard = TRUE]
                    /\ Goes(p, call)
    BY <1>1 DEF CreateConsumerSecret
  <2>2. call \in CallType /\ call.pc \notin {"posts", "stores"}
    BY <1>a, <2>1 DEF CallType, Stages
  <2>3. QED
    BY <1>1, <2>1, <2>2, NothingAtStake DEF CreateConsumerSecret, kong, caches
<1>2. ASSUME NEW p \in Creators, Denied(p)
      PROVE  CreationInv'
  <2>1. Goes(p, creator[p])
    BY <1>2 DEF Denied, Goes, CreationInv
  <2>2. QED
    BY <1>0, <1>2, <2>1, NothingAtStake DEF Denied, kong, caches
<1>3. ASSUME NEW p \in Creators, Throws(p)
      PROVE  CreationInv'
  BY <1>a, <1>3, NothingAtStake DEF Throws, kong, caches
<1>4. ASSUME NEW p \in Creators, CheckRealm(p)
      PROVE  CreationInv'
  <2>1. PICK stage \in {"resolves", "createsRealm"} : Goes(p, [creator[p] EXCEPT !.pc = stage])
    BY <1>4 DEF CheckRealm
  <2>2. /\ [creator[p] EXCEPT !.pc = stage] \in CallType
        /\ [creator[p] EXCEPT !.pc = stage].pc = stage
    BY <1>0, <1>b, StageTypes
  <2>3. QED
    BY <1>4, <2>1, <2>2, NothingAtStake DEF CheckRealm, kong, caches
<1>5. ASSUME NEW p \in Creators, NEW answered \in BOOLEAN, CreateRealm(p, answered)
      PROVE  CreationInv'
  <2>1. /\ [creator[p] EXCEPT !.pc = "resolves"] \in CallType
        /\ [creator[p] EXCEPT !.pc = "resolves"].pc = "resolves"
    BY <1>0, <1>b, StageTypes
  <2>2. PICK call \in {Done, [creator[p] EXCEPT !.pc = "resolves"]} : Goes(p, call)
    BY <1>5 DEF CreateRealm
  <2>3. QED
    BY <1>a, <1>5, <2>1, <2>2, NothingAtStake DEF CreateRealm, caches
<1>6. ASSUME NEW p \in Creators, NEW found \in BOOLEAN, ResolveConsumerId(p, found)
      PROVE  CreationInv'
  <2>1. /\ [creator[p] EXCEPT !.pc = "draws"] \in CallType
        /\ [creator[p] EXCEPT !.pc = "draws"].pc = "draws"
    BY <1>0, <1>b, StageTypes
  <2>2. PICK call \in {Done, [creator[p] EXCEPT !.pc = "draws"]} : Goes(p, call)
    BY <1>6 DEF ResolveConsumerId
  <2>3. staleCopy' \in {staleCopy, NoKey}
    BY <1>6 DEF ResolveConsumerId
  <2>4. QED
    BY <1>a, <1>6, <2>1, <2>2, <2>3, NothingAtStake DEF ResolveConsumerId, kong
<1>7. ASSUME NEW p \in Creators, NEW key \in KeyIds, NextAttempt(p, key)
      PROVE  CreationInv'
  <2>1. PICK call : /\ call = [creator[p] EXCEPT !.pc = "posts", !.attempt = @ + 1,
                                                 !.via = "fetch", !.key = key]
                    /\ Goes(p, call)
    BY <1>7 DEF NextAttempt
  <2>2. creator[p].attempt + 1 \in 0..MaxAttempts
    BY <1>0, <1>7, CreationAssumption DEF NextAttempt, CallType
  <2>3. call \in CallType /\ call.pc = "posts" /\ call.key = key
    BY <1>0, <2>1, <2>2 DEF CallType, Stages
  <2>4. UNCHANGED <<credentials, told, primaryCopy, staleCopy>>
    BY <1>7 DEF NextAttempt, kong, caches
  <2>5. credentials' \in [KeyIds -> {"free", "ours", "foreign"}]
    BY <2>4 DEF CreationInv
  <2>6. QED
    BY <2>1, <2>3, <2>4, <2>5, CallGoesOn
<1>8. ASSUME NEW p \in Creators, NEW handled \in BOOLEAN, PostLost(p, handled)
      PROVE  CreationInv'
  <2>1. creator[p].pc = "posts" /\ creator[p].key \in KeyIds
    BY <1>0, <1>8 DEF PostLost, Backed
  <2>2. /\ credentials' \in [KeyIds -> {"free", "ours", "foreign"}]
        /\ \A k \in KeyIds : credentials[k] = "ours" => credentials'[k] = "ours"
    BY <1>8, <2>1 DEF PostLost, CreationInv
  <2>3. PICK call \in {Done, [creator[p] EXCEPT !.via = "curl"]} : Goes(p, call)
    BY <1>8 DEF PostLost
  <2>4. call \in CallType /\ call.pc # "stores" /\ (call.pc = "posts" => call.key \in KeyIds)
    BY <1>0, <1>a, <2>1, <2>3, CallTypes DEF CallType
  <2>5. QED
    BY <1>8, <2>2, <2>3, <2>4, CallGoesOn DEF PostLost, caches
<1>9. ASSUME NEW p \in Creators, Created(p)
      PROVE  CreationInv'
  <2>1. creator[p].pc = "posts" /\ creator[p].key \in KeyIds
    BY <1>0, <1>9 DEF Created, Backed
  <2>2. /\ credentials' \in [KeyIds -> {"free", "ours", "foreign"}]
        /\ \A k \in KeyIds : credentials[k] = "ours" => credentials'[k] = "ours"
        /\ credentials'[creator[p].key] = "ours"
    BY <1>9, <2>1 DEF Created, CreationInv
  <2>3. PICK call : call = [creator[p] EXCEPT !.pc = "stores"] /\ Goes(p, call)
    BY <1>9 DEF Created
  <2>4. call \in CallType /\ call.pc = "stores" /\ call.key = creator[p].key
    BY <1>0, <2>3 DEF CallType, Stages
  <2>5. Ours(call.key)'
    BY <2>1, <2>2, <2>4 DEF Ours
  <2>6. QED
    BY <1>9, <2>2, <2>3, <2>4, <2>5, CallGoesOn DEF Created, caches
<1>10. ASSUME NEW p \in Creators, Conflict(p)
       PROVE  CreationInv'
  <2>1. /\ [creator[p] EXCEPT !.pc = "draws"] \in CallType
        /\ [creator[p] EXCEPT !.pc = "draws"].pc = "draws"
    BY <1>0, <1>b, StageTypes
  <2>2. PICK call \in {Done, [creator[p] EXCEPT !.pc = "draws"]} : Goes(p, call)
    BY <1>10 DEF Conflict
  <2>3. QED
    BY <1>a, <1>10, <2>1, <2>2, NothingAtStake DEF Conflict, kong, caches
<1>11. ASSUME NEW p \in Creators, NotCreated(p)
       PROVE  CreationInv'
  <2>1. staleCopy' \in {staleCopy, NoKey}
    BY <1>11 DEF NotCreated
  <2>2. QED
    BY <1>a, <1>11, <2>1, NothingAtStake DEF NotCreated, kong
<1>12. ASSUME NEW p \in Creators, StoreAndReturn(p)
       PROVE  CreationInv'
  <2>1. Ours(creator[p].key)
    BY <1>0, <1>12 DEF StoreAndReturn, Backed
  <2>2. /\ UNCHANGED credentials /\ Goes(p, Done)
        /\ UNCHANGED told \/ told' = [told EXCEPT ![p] = creator[p].key]
        /\ primaryCopy' \in {primaryCopy, creator[p].key}
        /\ staleCopy' \in {staleCopy, creator[p].key}
    BY <1>12 DEF StoreAndReturn, kong
  <2>3. credentials' \in [KeyIds -> {"free", "ours", "foreign"}]
    BY <2>2 DEF CreationInv
  <2>4. QED
    BY <1>a, <2>1, <2>2, <2>3, CallGoesOn
<1>13. ASSUME NEW p \in Creators, BreakerTimeout(p)
       PROVE  CreationInv'
  <2>1. /\ [creator[p] EXCEPT !.heard = FALSE] \in CallType
        /\ [creator[p] EXCEPT !.heard = FALSE].pc = creator[p].pc
        /\ [creator[p] EXCEPT !.heard = FALSE].key = creator[p].key
    BY <1>0, CallTypes DEF CallType
  <2>2. QED
    BY <1>13, <2>1, NothingAtStake DEF BreakerTimeout, kong, caches
<1>14. CASE UNCHANGED creationVars
  BY <1>14 DEF creationVars, CreationInv, Backed, Ours
<1>15. QED
  BY <1>1, <1>2, <1>3, <1>4, <1>5, <1>6, <1>7, <1>8, <1>9, <1>10, <1>11, <1>12, <1>13, <1>14
     DEF CreationNext

\* The calls of createConsumerSecret keep to their types, a call that is
\* about to store its credential stores one of Kong, and every copy that was
\* made is of one that Kong holds.
THEOREM CreationKeepsInv == CreationSpec => []CreationInv
<1>1. QED
  BY CreationInvInit, CreationInvNext, PTL DEF CreationSpec

\* A credential that a caller is given or that a cache holds is one that
\* Kong holds for the consumer, for any number of creators, keys and
\* attempts.
THEOREM CredentialsExist == CreationSpec => []CredentialsAreKongs
<1>1. CreationInv => CredentialsAreKongs
  BY DEF CreationInv, CredentialsAreKongs, Copies, Ours
<1>2. QED
  BY <1>1, CreationKeepsInv, PTL

\* The mode is one of two, and so is what Kong knows of the realm.
RealmTypes == konnect \in BOOLEAN /\ realm \in BOOLEAN

\* The realm does not exist at the start.
LEMMA RealmTypesInit == CreationInit => RealmTypes
BY DEF CreationInit, RealmTypes

\* Nothing but the creation of the realm touches them.
LEMMA RealmTypesNext == RealmTypes /\ [CreationNext]_creationVars => RealmTypes'
<1> SUFFICES ASSUME RealmTypes, [CreationNext]_creationVars
             PROVE  RealmTypes'
  OBVIOUS
<1>1. UNCHANGED <<konnect, realm>> \/ (UNCHANGED konnect /\ realm' = TRUE)
  BY DEF CreationNext, creationVars, kong, CreateConsumerSecret, Denied, Throws, CheckRealm,
         CreateRealm, ResolveConsumerId, NextAttempt, PostLost, Created, Conflict, NotCreated,
         StoreAndReturn, BreakerTimeout
<1>2. QED
  BY <1>1 DEF RealmTypes

\* The invariant says of calls and copies what the types ask for.
LEMMA CreationTypes == CreationInv /\ RealmTypes => CreationTypeOK
BY DEF CreationInv, RealmTypes, CreationTypeOK, Copies, CallType, Ours

\* For any creators, keys and attempts: no call makes more attempts than it
\* may, and nothing but drawn keys is ever copied.
THEOREM CreationKeepsTypes == CreationSpec => []CreationTypeOK
<1>1. QED
  BY CreationInvInit, CreationInvNext, RealmTypesInit, RealmTypesNext, CreationTypes, PTL
     DEF CreationSpec
=============================================================================
