----------------------------- MODULE Identities -----------------------------
(***************************************************************************)
(* Organizations, nodes and custom identities of a multiparty network:     *)
(* registration by a member (networkmap, definitions/sender_identity.go),  *)
(* and the handlers of claims, verifications and updates at one member     *)
(* (definitions/handler_identity_*.go) over the identity manager and its   *)
(* cache (identity/identitymanager.go).  The member who registers has seen *)
(* the whole ledger; the member modelled here receives the payloads in any *)
(* order, and handles the pins of a page in one database transaction.      *)
(***************************************************************************)
EXTENDS Integers, Sequences, FiniteSets, SequencesExt

CONSTANTS
    Identity,       \* identities that members want to register, by ID
    TypeID,         \* TypeID[i]: "org", "node" or "custom"
    ParentID,       \* ParentID[i]: the parent, or NoParent
    NameID,         \* NameID[i]: its DID; two identities may ask for one
    KeyID,          \* KeyID[i]: the key that signs for it; a node: its peer ID
    NoParent,
    MaxUpdates,     \* bound: profile updates
    PageID,         \* pins handled in one transaction
    MaxFailsID      \* bound: transactions that fail

NotKnown == "unknown"
Unregistered == -1
KeysID == {KeyID[i] : i \in Identity}
IsNode(i) == TypeID[i] = "node"

VARIABLES
    ledgerID,   \* pins: [kind, of, claim, author, key, profile]
    verifyID,   \* claims whose verification the sender has still to send
    arrivedID,  \* pins whose payload is here
    offsetID,   \* last pin the aggregator has read
    rewindsID,  \* pins of batches to read again
    doneID,     \* doneID[p]: "pending", "confirmed" or "rejected"
    identID,    \* table of identities: the profile, or Unregistered
    keyOfID,    \* table of verifiers: the identity of a key
    cacheID,    \* identityCache: by ID the profile, by key the identity
    seenID,     \* what a member who has had every payload at once makes of the ledger
    failsID
varsID == <<ledgerID, seenID, verifyID, arrivedID, offsetID, rewindsID, doneID, identID, keyOfID, cacheID, failsID>>

EmptyCache == [id |-> [i \in Identity |-> Unregistered], key |-> [k \in KeysID |-> NotKnown]]
Blank == [done |-> <<>>, ident |-> [i \in Identity |-> Unregistered],
          keyOf |-> [k \in KeysID |-> NotKnown], cache |-> EmptyCache]
InitID == /\ ledgerID = <<>> /\ verifyID = {} /\ arrivedID = {} /\ offsetID = 0 /\ rewindsID = {}
          /\ doneID = <<>> /\ identID = Blank.ident /\ keyOfID = Blank.keyOf
          /\ cacheID = EmptyCache /\ failsID = 0 /\ seenID = Blank
-----------------------------------------------------------------------------
(* Lookups that prefer the cache and fill it.  The state of a member is a *)
(* record s of the four tables above.                                     *)
KnownByID(s, i) == s.cache.id[i] # Unregistered \/ s.ident[i] # Unregistered
cachedIdentityLookupByID(s, i) ==
    IF s.cache.id[i] = Unregistered /\ s.ident[i] # Unregistered
    THEN [s EXCEPT !.cache.id[i] = s.ident[i]] ELSE s
AuthorOfKey(s, k) == IF s.cache.key[k] # NotKnown THEN s.cache.key[k] ELSE s.keyOf[k]
cachedIdentityLookupByVerifierRef(s, k) == [s EXCEPT !.cache.key[k] = AuthorOfKey(s, k)]

Ancestors[i \in Identity] ==
    IF ParentID[i] = NoParent THEN {} ELSE {ParentID[i]} \cup Ancestors[ParentID[i]]
validateParentType(i) ==
    ParentID[i] # NoParent =>
        TypeID[ParentID[i]] \in (IF TypeID[i] = "custom" THEN {"org", "custom"} ELSE {"org"})
ChainKnown(s, i) == \A a \in Ancestors[i] : KnownByID(s, a)
VerifyIdentityChain(s, i) ==
    /\ ChainKnown(s, i)
    /\ \A a \in Ancestors[i] \cup {i} : validateParentType(a)
ChainCached(s, i) ==
    [s EXCEPT !.cache.id = [a \in Identity |-> IF a \in Ancestors[i] /\ @[a] = Unregistered /\ s.ident[a] # Unregistered
                                               THEN s.ident[a] ELSE @[a]]]

getExpectedSigner(i) == IF IsNode(i) /\ ParentID[i] # NoParent THEN ParentID[i] ELSE i
-----------------------------------------------------------------------------
(* The handlers: the state after the handler and what becomes of the pin. *)
HandledID(s, action) == [s |-> s, action |-> action]
SameDID(i) == {j \in Identity \ {i} : NameID[j] = NameID[i]}

(* confirmVerificationForClaim: a confirmed verification of this claim,   *)
(* by the parent.                                                         *)
Verifications(s, p) ==
    LET m == ledgerID[p] IN
    {q \in DOMAIN s.done : /\ ledgerID[q].kind = "verify" /\ s.done[q] = "confirmed"
                           /\ ledgerID[q].author = NameID[ParentID[m.of]]
                           /\ ledgerID[q].of = m.of /\ ledgerID[q].claim = p}

NeedsVerification(i) == ParentID[i] # NoParent /\ ~IsNode(i)

(* handleIdentityClaim: park, reject, confirm without effect until the    *)
(* parent has verified it, or store the verifier and the identity.        *)
TakenByKey(s, i) == s.keyOf[KeyID[i]] \notin {NotKnown, i}
Taken(s, i) == TakenByKey(s, i) \/ \E j \in SameDID(i) : s.ident[j] # Unregistered
handleIdentityClaim(s0, p, verified) ==
    LET i == ledgerID[p].of
        s == ChainCached(s0, i)
    IN CASE ~VerifyIdentityChain(s, i) -> HandledID(s, "wait")
         [] ledgerID[p].author # NameID[getExpectedSigner(i)] -> HandledID(s, "rejected")
         [] Taken(s, i) -> HandledID(s, "rejected")
         [] NeedsVerification(i) /\ ~verified /\ Verifications(s, p) = {} -> HandledID(s, "confirmed")
         [] OTHER -> HandledID([s EXCEPT !.keyOf[KeyID[i]] = i,
                                       !.ident[i] = IF @ = Unregistered THEN 0 ELSE @],
                             "confirmed")

(* handleIdentityVerificationBroadcast: a claim that is confirmed, in the *)
(* database or earlier in this transaction, is handled again.             *)
handleIdentityVerification(s0, p) ==
    LET m == ledgerID[p]
        par == ParentID[m.of]
        s == cachedIdentityLookupByID(s0, par)
    IN CASE ~KnownByID(s, par) \/ NameID[par] # m.author -> HandledID(s, "rejected")
         [] s.done[m.claim] # "confirmed" -> HandledID(s, "confirmed")
         [] OTHER -> handleIdentityClaim(s, m.claim, TRUE)

(* handleIdentityUpdate changes the identity in the cache and writes it.  *)
handleIdentityUpdate(s0, p) ==
    LET i == ledgerID[p].of
        s == cachedIdentityLookupByID(ChainCached(s0, i), i)
    IN CASE ~KnownByID(s, i) -> HandledID(s, "rejected")
         [] ~VerifyIdentityChain(s, i) -> HandledID(s, "wait")
         [] NameID[getExpectedSigner(i)] # ledgerID[p].author -> HandledID(s, "rejected")
         [] OTHER -> HandledID([s EXCEPT !.cache.id[i] = ledgerID[p].profile,
                                       !.ident[i] = ledgerID[p].profile], "confirmed")

HandleDefinitionBroadcast(s, p) ==
    CASE ledgerID[p].kind = "claim"  -> handleIdentityClaim(s, p, FALSE)
      [] ledgerID[p].kind = "verify" -> handleIdentityVerification(s, p)
      [] ledgerID[p].kind = "update" -> handleIdentityUpdate(s, p)

(* checkOnchainConsistency, then the handler.                             *)
DispatchedID(s0, p) ==
    LET m == ledgerID[p]
        s == cachedIdentityLookupByVerifierRef(s0, m.key)
        who == AuthorOfKey(s0, m.key)
    IN CASE who = NotKnown /\ m.kind # "claim" -> HandledID(s, "wait")
         [] who # NotKnown /\ NameID[who] # m.author -> HandledID(s, "rejected")
         [] OTHER -> HandleDefinitionBroadcast(s, p)

(* A pin is handled when its payload is here and no earlier pin of its    *)
(* topic, the DID, is left.                                               *)
TopicID(p) == NameID[ledgerID[p].of]
ReadyPin(s, p, arrived) == /\ p \in arrived /\ s.done[p] = "pending"
                           /\ \A q \in 1..(p - 1) : TopicID(q) = TopicID(p) => s.done[q] # "pending"
processPin(s, p, arrived) ==
    IF ~ReadyPin(s, p, arrived) THEN s
    ELSE LET r == DispatchedID(s, p)
         IN IF r.action = "wait" THEN r.s ELSE [r.s EXCEPT !.done[p] = r.action]
PinsFrom(from, to) == [n \in 1..(to - from + 1) |-> from + n - 1]
ProcessPins(s, from, to, arrived) ==
    FoldLeft(LAMBDA acc, p : processPin(acc, p, arrived), s, PinsFrom(from, to))
-----------------------------------------------------------------------------
PinID(kind, of, claim, author, key, profile) ==
    [kind |-> kind, of |-> of, claim |-> claim, author |-> author, key |-> key, profile |-> profile]
Claims(i) == {p \in DOMAIN ledgerID : ledgerID[p].kind = "claim" /\ ledgerID[p].of = i}

(* The member who sends has every payload first, and handles the pins in  *)
(* their order.                                                           *)
SenderReady == Len(seenID.done) = Len(ledgerID)
senderHandles ==
    LET p == Len(seenID.done) + 1 IN
    /\ ~SenderReady
    /\ \E s \in {processPin([seenID EXCEPT !.done = Append(@, "pending")], p, {p})} : seenID' = s
    /\ UNCHANGED <<ledgerID, verifyID, arrivedID, offsetID, rewindsID, doneID, identID, keyOfID, cacheID, failsID>>
submitID(m) == ledgerID' = Append(ledgerID, m) /\ doneID' = Append(doneID, "pending")

(* ResolveInputSigningIdentity: a registered key signs for its identity   *)
(* alone; a key nobody has registered may sign for any known author.      *)
ResolveInputSigningIdentity(s, i, k) ==
    IF s.keyOf[k] # NotKnown THEN s.keyOf[k] = i ELSE KnownByID(s, i)
(* ResolveIdentitySigner: who signed the claim of an identity.            *)
ResolveIdentitySigner(i) == ledgerID[CHOOSE p \in Claims(i) : TRUE]

(* RegisterIdentity checks the chain of parents and sends the claim; for  *)
(* a child that is no node the parent's verification is to follow.        *)
RegisterIdentity(i) ==
    /\ Claims(i) = {} /\ SenderReady /\ VerifyIdentityChain(seenID, i)
    /\ IF IsNode(i)
       THEN LET signer == ResolveIdentitySigner(ParentID[i])
            IN submitID(PinID("claim", i, 0, signer.author, signer.key, 0)) /\ UNCHANGED verifyID
       ELSE /\ submitID(PinID("claim", i, 0, NameID[i], KeyID[i], 0))
            /\ verifyID' = IF ParentID[i] = NoParent THEN verifyID ELSE verifyID \cup {Len(ledgerID) + 1}
    /\ UNCHANGED <<seenID, arrivedID, offsetID, rewindsID, identID, keyOfID, cacheID, failsID>>
sendVerification(p) ==
    LET i == ledgerID[p].of
        signer == ResolveIdentitySigner(ParentID[i])
    IN /\ SenderReady /\ p \in verifyID /\ verifyID' = verifyID \ {p}
       /\ IF ResolveInputSigningIdentity(seenID, ParentID[i], signer.key)
          THEN submitID(PinID("verify", i, p, signer.author, signer.key, 0))
          ELSE UNCHANGED <<ledgerID, doneID>>
       /\ UNCHANGED <<seenID, arrivedID, offsetID, rewindsID, identID, keyOfID, cacheID, failsID>>

(* updateIdentityID signs as the claim was signed.                        *)
UpdatesID == Cardinality({p \in DOMAIN ledgerID : ledgerID[p].kind = "update"})
UpdateIdentity(i) ==
    /\ SenderReady /\ UpdatesID < MaxUpdates /\ seenID.ident[i] # Unregistered
    /\ LET signer == ResolveIdentitySigner(i) IN
       submitID(PinID("update", i, 0, signer.author, signer.key, UpdatesID + 1))
    /\ UNCHANGED <<seenID, verifyID, arrivedID, offsetID, rewindsID, identID, keyOfID, cacheID, failsID>>
-----------------------------------------------------------------------------
(* A payload arrives and asks for a rewind; the aggregator goes back to   *)
(* the pin, or reads the next page.                                       *)
payloadArrives(p) ==
    /\ SenderReady /\ p \in DOMAIN ledgerID \ arrivedID
    /\ arrivedID' = arrivedID \cup {p}
    /\ rewindsID' = IF p <= offsetID THEN rewindsID \cup {p} ELSE rewindsID
    /\ UNCHANGED <<ledgerID, seenID, verifyID, offsetID, doneID, identID, keyOfID, cacheID, failsID>>
LastOfPage == IF offsetID + PageID < Len(ledgerID) THEN offsetID + PageID ELSE Len(ledgerID)
PageResult == ProcessPins([done |-> doneID, ident |-> identID, keyOf |-> keyOfID, cache |-> cacheID],
                          offsetID + 1, LastOfPage, arrivedID)
processPinsDBGroup ==
    /\ SenderReady /\ rewindsID = {} /\ offsetID < Len(ledgerID)
    /\ \E s \in {PageResult} :
       /\ doneID' = s.done /\ identID' = s.ident /\ keyOfID' = s.keyOf /\ cacheID' = s.cache
    /\ offsetID' = LastOfPage
    /\ UNCHANGED <<ledgerID, seenID, verifyID, arrivedID, rewindsID, failsID>>
rewindID ==
    /\ rewindsID # {}
    /\ offsetID' = (CHOOSE p \in rewindsID : \A q \in rewindsID : p <= q) - 1 /\ rewindsID' = {}
    /\ UNCHANGED <<ledgerID, seenID, verifyID, arrivedID, doneID, identID, keyOfID, cacheID, failsID>>

(* The transaction of a page fails: the tables are as before, the cache   *)
(* is not.  An entry of the cache expires.                                *)
pageFails ==
    /\ SenderReady /\ rewindsID = {} /\ offsetID < Len(ledgerID) /\ failsID < MaxFailsID
    /\ \E s \in {PageResult} : cacheID' = s.cache
    /\ failsID' = failsID + 1
    /\ UNCHANGED <<ledgerID, seenID, verifyID, arrivedID, offsetID, rewindsID, doneID, identID, keyOfID>>
cacheExpires ==
    /\ cacheID # EmptyCache /\ cacheID' = EmptyCache
    /\ UNCHANGED <<ledgerID, seenID, verifyID, arrivedID, offsetID, rewindsID, doneID, identID, keyOfID, failsID>>

NextID == \/ \E i \in Identity : RegisterIdentity(i) \/ UpdateIdentity(i)
          \/ \E p \in DOMAIN ledgerID : sendVerification(p) \/ payloadArrives(p)
          \/ senderHandles \/ processPinsDBGroup \/ rewindID \/ pageFails \/ cacheExpires
SpecID == InitID /\ [][NextID]_varsID

(* Fairness: payloads arrive, a sender sends what it began, and the       *)
(* aggregator goes on.                                                    *)
FairID ==
    /\ WF_varsID(senderHandles) /\ WF_varsID(processPinsDBGroup) /\ WF_varsID(rewindID)
    /\ WF_varsID(\E p \in DOMAIN ledgerID : sendVerification(p))
    /\ WF_varsID(\E p \in DOMAIN ledgerID : payloadArrives(p))
-----------------------------------------------------------------------------
(* A child is registered only when its claim and a verification of that   *)
(* claim, signed by its parent, are both on the ledger and were accepted, *)
(* whichever of the two was handled first.                                *)
VerifiedByParent ==
    \A i \in Identity : identID[i] # Unregistered /\ ParentID[i] # NoParent =>
        /\ \E p \in Claims(i) : doneID[p] = "confirmed"
        /\ identID[ParentID[i]] # Unregistered
        /\ IsNode(i) \/ \E q \in DOMAIN ledgerID :
              /\ ledgerID[q].kind = "verify" /\ ledgerID[q].of = i /\ doneID[q] = "confirmed"
              /\ ledgerID[q].author = NameID[ParentID[i]]

(* When nothing is left to handle, this member knows the identities and   *)
(* profiles that a member with every payload at hand knows: the first     *)
(* claim of a DID wins everywhere, whatever came late.  Claims of one key *)
(* for two DIDs are on two topics and do not have this property.          *)
AllHandled == SenderReady /\ \A p \in DOMAIN ledgerID : p \in arrivedID /\ doneID[p] # "pending"
MembersAgree ==
    AllHandled => identID = seenID.ident /\ keyOfID = seenID.keyOf

(* No claim stays parked: in the end every pin of the ledger is decided.  *)
ClaimsDecided == []<>AllHandled
=============================================================================
