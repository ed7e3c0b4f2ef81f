--------------------------- MODULE MarbleRunProofs ---------------------------
(***************************************************************************)
(* Theorems about MarbleRun, for any number of calls and any coordinators,  *)
(* others, lists of certificates, expected values and instances.            *)
(***************************************************************************)
EXTENDS MarbleRun, TLAPS

(* The lists of which the last certificate is the root of a coordinator in  *)
(* an enclave as expected.                                                 *)
TrustedLists ==
  {l \in Lists : \E d \in Coordinators : Trusted(d) /\ l[Len(l)] = d.root}

(* What is stored in the element, or was when a call began, is such a list. *)
PinsTrusted ==
  /\ certs \in TrustedLists \cup {<<>>, Missing}
  /\ \A c \in Calls : pinned[c] \in TrustedLists \cup {<<>>}

(* Server p presents what chains up to the certificate that list l pins as  *)
(* the root.                                                               *)
ChainPinned(l, p) ==
  /\ Len(l) > 1 /\ Unparsable \notin ToSet(l)
  /\ ChainsUp(p.chain[1], {l[1]} \cup ToSet(Tail(p.chain)), {l[2]})

(* A manifest is never taken from anybody whose certificates are not        *)
(* pinned, and a coordinator gives its own.                                 *)
ManifestsPinned ==
  \A c \in Calls : Claimed(c, "marblerun/manifest") =>
    /\ server[c] \in Peers /\ ChainPinned(pinned[c], server[c])
    /\ server[c] \in Coordinators =>
         claim[c].body \in {<<>>, Data(<<>>), Data([Manifest |-> server[c].manifest])}

Inv == TypeOK /\ PinsTrusted /\ ManifestsPinned

-----------------------------------------------------------------------------
(* A stored list is a sequence of certificates and other blocks.            *)
LEMMA ListsAreSequences ==
  ASSUME NEW l \in Lists
  PROVE  /\ l \in Seq(Certificates \cup {Unparsable}) /\ l # <<>> /\ Len(l) \in Nat /\ Len(l) > 0
         /\ \A k \in 1..Len(l) : l[k] \in ToSet(l)
         /\ Unparsable \notin ToSet(l) => \A k \in 1..Len(l) : l[k] \in Certificates
<1>1. l \in Seq(Certificates \cup {Unparsable}) /\ l # <<>>
  BY ListsAssumption
<1>2. \A k \in 1..Len(l) : l[k] \in Certificates \cup {Unparsable}
  BY <1>1
<1>3. \A k \in 1..Len(l) : l[k] \in ToSet(l)
  BY <1>1 DEF ToSet
<1>4. Len(l) \in Nat /\ Len(l) > 0
  BY <1>1
<1> QED
  BY <1>1, <1>2, <1>3, <1>4

(* The certificates of a chain are certificates.                            *)
LEMMA ChainsAreSequences ==
  ASSUME NEW p \in Peers
  PROVE  p.chain[1] \in Certificates /\ ToSet(Tail(p.chain)) \subseteq Certificates
<1>1. p.chain \in Seq(Certificates) /\ p.chain # <<>>
  BY ListsAssumption
<1>2. p.chain[1] \in Certificates
  BY <1>1
<1>3. Tail(p.chain) \in Seq(Certificates)
  BY <1>1
<1> QED
  BY <1>2, <1>3 DEF ToSet

(* What chains up to a certificate that coordinator d made was made by d    *)
(* too, since it makes no CA but of its own keys.                           *)
LEMMA ChainsAreCertified ==
  ASSUME NEW d \in Coordinators, NEW r \in Certificates, CertifiedBy(d, r),
         NEW leaf \in Certificates, NEW inters \in SUBSET Certificates,
         ChainsUp(leaf, inters, {r})
  PROVE  CertifiedBy(d, leaf)
<1> DEFINE world == inters \cup {r} \cup {leaf}
           S == {x \in world : CertifiedBy(d, x)}
<1>1. {r} \subseteq S /\ S \in SUBSET world
  OBVIOUS
<1>2. ASSUME NEW x \in world, NEW y \in S, SignedBy(x, y)
      PROVE  x \in S
  <2>1. y \in Certificates /\ y.ca /\ CertifiedBy(d, y) /\ x.issuer = y.key
    BY <1>2 DEF SignedBy
  <2>2. y.key \in Keys(d.root)
    BY <2>1, RootAssumption
  <2> QED
    BY <2>1, <2>2 DEF CertifiedBy
<1>3. leaf \in S
  <2> HIDE DEF S
  <2> QED
    BY <1>1, <1>2 DEF ChainsUp
<1> QED
  BY <1>3

(* A coordinator that presents what another made is in the same enclave.    *)
LEMMA CertifiedSame ==
  ASSUME NEW d \in Coordinators, NEW e \in Coordinators, CertifiedBy(d, e.chain[1])
  PROVE  d.report = e.report
<1>1. CertifiedBy(e, e.chain[1])
  BY RootAssumption
<1>2. Keys(d.root) \cap Keys(e.root) # {}
  BY <1>1 DEF CertifiedBy
<1> QED
  BY <1>2, RootAssumption

(* A root is made by its own coordinator.                                   *)
LEMMA RootIsCertified ==
  ASSUME NEW d \in Coordinators
  PROVE  d.root.key \in Keys(d.root) /\ CertifiedBy(d, d.root)
<1>1. d.root.key \in Keys(d.root)
  BY DEF Keys
<1> QED
  BY <1>1, RootAssumption DEF CertifiedBy

LEMMA TrustedListsAreLists == TrustedLists \subseteq Lists
BY DEF TrustedLists

(* What rule coordinator succeeds on ends with the root of a coordinator in *)
(* an enclave as expected (rules/marblerun/public.go:70-97).                *)
LEMMA VerifiedListTrusted ==
  ASSUME NEW q \in Claims,
         ValidateCoordinator(q, CoordinatorEVS, TRUE) = "Success"
  PROVE  q.body["data"]["Cert"] \in TrustedLists
<1> DEFINE data == q.body["data"]
<1>1. DecodeCoordinator(CoordinatorEVS) = "ok"
  <2>1. DecodeCoordinator(CoordinatorEVS) # "Success"
    BY DEF DecodeCoordinator
  <2> QED
    BY <2>1 DEF ValidateCoordinator
<1>2. {"Quote", "Cert"} \subseteq DOMAIN Field(q.body, "data", <<>>)
  BY <1>1 DEF ValidateCoordinator
<1>3. q.body \in [{"data"} -> Objects] /\ Field(q.body, "data", <<>>) = data
  BY <1>2 DEF Field, Claims
<1>4. data \in [Quote : {d.report : d \in Coordinators} \cup {Unparsable},
                Cert : Lists \cup {Unparsable}]
  BY <1>2, <1>3 DEF Objects
<1>5. /\ data["Cert"] # Unparsable /\ data["Quote"] # Unparsable
      /\ BoundTo(data["Cert"], data["Quote"])
      /\ Acceptable(data["Quote"], CoordinatorEVS["coordinator"])
  BY <1>1, <1>2, <1>3 DEF ValidateCoordinator
<1>6. data["Cert"] \in Lists
  BY <1>4, <1>5
<1>7. PICK e \in Coordinators : data["Quote"] = e.report
  BY <1>4, <1>5
<1>8. data["Cert"][Len(data["Cert"])] = e.root /\ Trusted(e)
  BY <1>5, <1>7, RootAssumption DEF BoundTo, Trusted
<1> QED
  BY <1>6, <1>8 DEF TrustedLists

-----------------------------------------------------------------------------
LEMMA InitInv == Init => Inv
<1> SUFFICES ASSUME Init PROVE Inv
  OBVIOUS
<1>1. TypeOK
  BY ListsAssumption DEF Init, TypeOK
<1>2. PinsTrusted /\ ManifestsPinned
  BY DEF Init, PinsTrusted, ManifestsPinned, Claimed
<1> QED
  BY <1>1, <1>2 DEF Inv

(* What makes a step preserve the invariant whose only change to a claim    *)
(* is that call c ends with one.                                            *)
LEMMA ErrorIsClaim == Error \in Claims
BY DEF Error, Claims

LEMMA ClaimsAreNotMissing ==
  ASSUME NEW q \in Claims
  PROVE  q # Missing
BY ListsAssumption

LEMMA AttestStep ==
  ASSUME Inv, NEW c \in Calls, NEW i \in Intents, Attest(c, i)
  PROVE  /\ deployed' \in Peers
         /\ certs' \in Lists \cup {<<>>, Missing}
         /\ intent' \in [Calls -> Intents \cup {Missing}]
         /\ pinned' \in [Calls -> Lists \cup {<<>>}]
         /\ server' \in [Calls -> Peers \cup {Missing}]
         /\ PinsTrusted'
         /\ intent'[c] = i /\ server'[c] = Missing /\ pinned'[c] = certs
         /\ \A d \in Calls \ {c} :
              intent'[d] = intent[d] /\ server'[d] = server[d] /\ pinned'[d] = pinned[d]
BY ListsAssumption DEF Inv, TypeOK, PinsTrusted, Attest

(* Where the other calls stay as they are, only the claim of one matters.   *)
LEMMA OtherClaimsStay ==
  ASSUME Inv, NEW c \in Calls, ~Claimed(c, "marblerun/manifest")',
         \A d \in Calls \ {c} : claim'[d] = claim[d] /\ server'[d] = server[d] /\ pinned'[d] = pinned[d]
  PROVE  ManifestsPinned'
<1> SUFFICES ASSUME NEW d \in Calls, Claimed(d, "marblerun/manifest")'
             PROVE  /\ server'[d] \in Peers /\ ChainPinned(pinned'[d], server'[d])
                    /\ server'[d] \in Coordinators =>
                         claim'[d].body \in
                           {<<>>, Data(<<>>), Data([Manifest |-> server'[d].manifest])}
  BY DEF ManifestsPinned
<1>1. d # c
  OBVIOUS
<1>2. claim'[d] = claim[d] /\ server'[d] = server[d] /\ pinned'[d] = pinned[d]
  BY <1>1
<1>3. Claimed(d, "marblerun/manifest")
  BY <1>2 DEF Claimed
<1> QED
  BY <1>2, <1>3 DEF Inv, ManifestsPinned

LEMMA CallUnaskedInv ==
  ASSUME Inv, NEW c \in Calls, CallUnasked(c)
  PROVE  Inv'
<1>1. PICK i \in {"marblerun/null", "tpm2/quote"}, q \in Claims :
        /\ Attest(c, i) /\ Done(c, q)
        /\ q.bodytype \in {"*ERROR", i} \ {"marblerun/manifest"}
  <2>1. [bodytype |-> "marblerun/null", body |-> <<>>] \in Claims
    BY DEF Claims, Intents
  <2> QED
    BY <2>1, ErrorIsClaim DEF CallUnasked, Error
<1>2. i \in Intents
  BY DEF Intents
<1>3. /\ claim' \in [Calls -> Claims \cup {Missing}] /\ claim'[c] = q
      /\ pc' \in [Calls -> {"idle", "asking", "done", "panic"}] /\ pc'[c] = "done"
      /\ \A d \in Calls \ {c} : claim'[d] = claim[d] /\ pc'[d] = pc[d]
  BY <1>1 DEF Done, Inv, TypeOK
<1>4. TypeOK'
  BY <1>1, <1>2, <1>3, AttestStep, ClaimsAreNotMissing DEF Inv, TypeOK
<1>5. ManifestsPinned'
  <2>1. ~Claimed(c, "marblerun/manifest")'
    BY <1>1, <1>3 DEF Claimed
  <2> QED
    BY <1>1, <1>2, <1>3, <2>1, AttestStep, OtherClaimsStay
<1> QED
  BY <1>1, <1>2, <1>4, <1>5, AttestStep DEF Inv

LEMMA CallInv ==
  ASSUME Inv, NEW c \in Calls, Call(c)
  PROVE  Inv'
<1>1. PICK i \in {"marblerun/quote", "marblerun/manifest", "marblerun/updatelogs"} :
        /\ Attest(c, i)
        /\ IF MayAsk(i)
           THEN pc' = [pc EXCEPT ![c] = "asking"] /\ claim' = [claim EXCEPT ![c] = Missing]
           ELSE Done(c, Error)
  BY DEF Call
<1>2. i \in Intents
  BY DEF Intents
<1>3. PICK q \in {Missing, Error} :
      /\ claim' \in [Calls -> Claims \cup {Missing}] /\ claim'[c] = q
      /\ pc' \in [Calls -> {"idle", "asking", "done", "panic"}]
      /\ pc'[c] = IF q = Missing THEN "asking" ELSE "done"
      /\ q = Missing => MayAsk(i)
      /\ \A d \in Calls \ {c} : claim'[d] = claim[d] /\ pc'[d] = pc[d]
  <2>1. CASE MayAsk(i)
    BY <1>1, <2>1 DEF Inv, TypeOK
  <2>2. CASE ~MayAsk(i)
    BY <1>1, <2>2, ErrorIsClaim, ClaimsAreNotMissing DEF Done, Inv, TypeOK
  <2> QED
    BY <2>1, <2>2
<1>4. Error.bodytype = "*ERROR" /\ Error # Missing
  BY ErrorIsClaim, ClaimsAreNotMissing DEF Error
<1>5. TypeOK'
  BY <1>1, <1>2, <1>3, <1>4, AttestStep DEF Inv, TypeOK, MayAsk
<1>6. ManifestsPinned'
  <2>1. ~Claimed(c, "marblerun/manifest")'
    BY <1>3, <1>4 DEF Claimed
  <2> QED
    BY <1>1, <1>2, <1>3, <2>1, AttestStep, OtherClaimsStay
<1> QED
  BY <1>1, <1>2, <1>5, <1>6, AttestStep DEF Inv

-----------------------------------------------------------------------------
LEMMA AnsweredStep ==
  ASSUME Inv, NEW c \in Calls, Answered(c)
  PROVE  /\ server' \in [Calls -> Peers \cup {Missing}]
         /\ server'[c] = deployed /\ deployed \in Peers
         /\ \A d \in Calls \ {c} : server'[d] = server[d]
         /\ PinsTrusted'
         /\ UNCHANGED <<deployed, certs, intent, pinned>>
         /\ pc[c] = "asking" /\ claim[c] = Missing /\ intent[c] \in Intents \cup {Missing}
BY DEF Inv, TypeOK, PinsTrusted, Answered

LEMMA BodiesAreObjects ==
  ASSUME Inv, NEW c \in Calls, NEW b \in Bodies(c) \cup {<<>>}
  PROVE  /\ b \in {<<>>} \cup [{"data"} -> Objects]
         /\ intent[c] = "marblerun/manifest" /\ deployed \in Coordinators =>
              b \in {<<>>, Data(<<>>), Data([Manifest |-> deployed.manifest])}
<1>1. ASSUME NEW x \in Objects PROVE Data(x) \in [{"data"} -> Objects]
  BY DEF Data
<1>2. <<>> \in Objects
  BY DEF Objects
<1>3. CASE b = <<>>
  BY <1>3
<1>4. CASE b # <<>> /\ intent[c] = "marblerun/manifest"
  <2> DEFINE told == IF deployed \in Coordinators THEN {deployed} ELSE Coordinators
  <2>1. b \in {Data([Manifest |-> d.manifest]) : d \in told} \cup {Data(<<>>)}
    BY <1>4 DEF Bodies
  <2>2. \A d \in Coordinators : [Manifest |-> d.manifest] \in Objects
    BY DEF Objects
  <2>3. told \subseteq Coordinators
    OBVIOUS
  <2>4. CASE b = Data(<<>>)
    BY <1>1, <1>2, <2>4
  <2>5. CASE b # Data(<<>>)
    <3>1. PICK d \in told : b = Data([Manifest |-> d.manifest])
      BY <2>1, <2>5
    <3>2. [Manifest |-> d.manifest] \in Objects
      BY <2>2, <2>3
    <3>3. deployed \in Coordinators => d = deployed
      OBVIOUS
    <3> QED
      BY <1>1, <3>1, <3>2, <3>3
  <2> QED
    BY <2>4, <2>5
<1>5. CASE intent[c] = "marblerun/updatelogs"
  <2>1. [UpdateLog |-> {}] \in [UpdateLog : {{}}]
    OBVIOUS
  <2>2. [UpdateLog |-> {}] \in Objects
    BY <2>1 DEF Objects
  <2>3. Bodies(c) = {Data([UpdateLog |-> {}])}
    BY <1>5 DEF Bodies
  <2> QED
    BY <1>1, <1>5, <2>2, <2>3
<1>6. CASE b # <<>> /\ intent[c] \notin {"marblerun/manifest", "marblerun/updatelogs"}
  <2> DEFINE X == [Quote : {d.report : d \in Coordinators} \cup {Unparsable},
                   Cert : Lists \cup {Unparsable}]
  <2>1. X \subseteq Objects
    BY DEF Objects
  <2>2. CASE deployed \in Coordinators
    <3>1. CertificatesOf(deployed) \in Lists
      BY <2>2, ListsAssumption
    <3>2. [Quote |-> deployed.report, Cert |-> CertificatesOf(deployed)] \in X
      BY <2>2, <3>1
    <3>3. b = Data([Quote |-> deployed.report, Cert |-> CertificatesOf(deployed)])
      BY <1>6, <2>2 DEF Bodies
    <3> QED
      BY <1>1, <1>6, <2>1, <3>2, <3>3
  <2>3. CASE deployed \notin Coordinators
    <3>1. b \in {Data(x) : x \in X}
      BY <1>6, <2>3 DEF Bodies
    <3> HIDE DEF X
    <3>2. PICK x \in X : b = Data(x)
      BY <3>1
    <3> QED
      BY <1>1, <1>6, <2>1, <3>2
  <2> QED
    BY <2>2, <2>3
<1> QED
  BY <1>3, <1>4, <1>5, <1>6

LEMMA AnswerInv ==
  ASSUME Inv, NEW c \in Calls, Answer(c)
  PROVE  Inv'
<1>1. Answered(c) /\ Connects(c)
  BY DEF Answer
<1>2. PICK b \in Bodies(c) \cup {<<>>} : Done(c, [bodytype |-> intent[c], body |-> b])
  BY DEF Answer
<1> DEFINE q == [bodytype |-> intent[c], body |-> b]
<1>3. intent[c] \in Intents
  BY <1>1 DEF Inv, TypeOK, Answered
<1>4. q \in Claims
  BY <1>3, BodiesAreObjects DEF Claims
<1>5. /\ claim' \in [Calls -> Claims \cup {Missing}] /\ claim'[c] = q
      /\ pc' \in [Calls -> {"idle", "asking", "done", "panic"}] /\ pc'[c] = "done"
      /\ \A d \in Calls \ {c} : claim'[d] = claim[d] /\ pc'[d] = pc[d]
  BY <1>2, <1>4 DEF Done, Inv, TypeOK
<1>6. TypeOK'
  BY <1>1, <1>4, <1>5, AnsweredStep, ClaimsAreNotMissing DEF Inv, TypeOK
<1>8. ManifestsPinned'
  <2> SUFFICES ASSUME NEW d \in Calls, Claimed(d, "marblerun/manifest")'
               PROVE  /\ server'[d] \in Peers /\ ChainPinned(pinned'[d], server'[d])
                      /\ server'[d] \in Coordinators =>
                           claim'[d].body \in
                             {<<>>, Data(<<>>), Data([Manifest |-> server'[d].manifest])}
    BY DEF ManifestsPinned
  <2>1. CASE d = c
    <3>1. intent[c] = "marblerun/manifest"
      BY <1>5, <2>1 DEF Claimed
    <3>2. pinned[c] # <<>> /\ Unparsable \notin ToSet(pinned[c])
      BY <1>1, <3>1 DEF Inv, TypeOK, Answered
    <3>3. ChainPinned(pinned[c], deployed)
      BY <1>1, <3>2 DEF Connects, ChainPinned
    <3>4. ChainPinned(pinned'[c], server'[c])
      BY <1>1, <3>3, AnsweredStep
    <3> QED
      BY <1>1, <1>5, <2>1, <3>1, <3>4, AnsweredStep, BodiesAreObjects
  <2>2. CASE d # c
    BY <1>1, <1>5, <2>2, AnsweredStep DEF Inv, ManifestsPinned, Claimed
  <2> QED
    BY <2>1, <2>2
<1> QED
  BY <1>1, <1>6, <1>8, AnsweredStep DEF Inv

(* The two ways in which a call can end without an answer's body.           *)
LEMMA AnswerFailsInv ==
  ASSUME Inv, NEW c \in Calls, AnswerFails(c) \/ AnswerPanics(c)
  PROVE  Inv'
<1>1. Answered(c)
  BY DEF AnswerFails, AnswerPanics
<1>2. PICK q \in {Missing, Error} :
      /\ claim' \in [Calls -> Claims \cup {Missing}] /\ claim'[c] = q
      /\ pc' \in [Calls -> {"idle", "asking", "done", "panic"}]
      /\ pc'[c] = IF q = Missing THEN "panic" ELSE "done"
      /\ \A d \in Calls \ {c} : claim'[d] = claim[d] /\ pc'[d] = pc[d]
  <2>1. CASE AnswerFails(c)
    BY <2>1, ErrorIsClaim, ClaimsAreNotMissing DEF AnswerFails, Done, Inv, TypeOK
  <2>2. CASE AnswerPanics(c)
    BY <1>1, <2>2, AnsweredStep DEF AnswerPanics, Inv, TypeOK
  <2> QED
    BY <2>1, <2>2
<1>3. Error.bodytype = "*ERROR" /\ Error # Missing
  BY ErrorIsClaim, ClaimsAreNotMissing DEF Error
<1>4. TypeOK'
  <2>1. claim[c]' # Missing <=> pc[c]' = "done"
    BY <1>2, <1>3
  <2>2. pc[c]' # "asking" /\ (claim[c]' # Missing => claim[c]'.bodytype = "*ERROR")
    BY <1>2, <1>3
  <2>3. intent[c] \in Intents
    BY <1>1 DEF Inv, TypeOK, Answered
  <2>4. ASSUME NEW d \in Calls
        PROVE  /\ claim'[d] # Missing <=> pc'[d] = "done"
               /\ pc'[d] # "idle" => intent'[d] \in Intents
               /\ pc'[d] = "asking" => IF pinned'[d] = <<>> THEN intent'[d] = "marblerun/quote"
                                       ELSE Unparsable \notin ToSet(pinned'[d])
               /\ claim'[d] # Missing => claim'[d].bodytype \in {"*ERROR", intent'[d]}
    <3>1. CASE d = c
      BY <1>1, <2>1, <2>2, <2>3, <3>1, AnsweredStep
    <3>2. CASE d # c
      BY <1>1, <1>2, <2>4, <3>2, AnsweredStep DEF Inv, TypeOK
    <3> QED
      BY <3>1, <3>2
  <2>5. /\ deployed' \in Peers
        /\ certs' \in Lists \cup {<<>>, Missing}
        /\ intent' \in [Calls -> Intents \cup {Missing}]
        /\ pinned' \in [Calls -> Lists \cup {<<>>}]
        /\ server' \in [Calls -> Peers \cup {Missing}]
    BY <1>1, AnsweredStep DEF Inv, TypeOK
  <2> QED
    BY <1>2, <2>4, <2>5 DEF TypeOK
<1>5. ManifestsPinned'
  BY <1>1, <1>2, <1>3, AnsweredStep DEF Inv, ManifestsPinned, Claimed
<1> QED
  BY <1>1, <1>4, <1>5, AnsweredStep DEF Inv

(* When the process ends, no call that was under way gets a claim.          *)
LEMMA CallbackPanicsInv ==
  ASSUME Inv, NEW c \in Calls, CallbackPanics(c)
  PROVE  Inv'
<1>1. UNCHANGED <<deployed, certs, intent, pinned, claim, server>>
  BY DEF CallbackPanics
<1>2. \A d \in Calls : pc'[d] = IF pc[d] = "asking" THEN "panic" ELSE pc[d]
  BY DEF CallbackPanics
<1>3. pc' \in [Calls -> {"idle", "asking", "done", "panic"}]
  BY DEF CallbackPanics, Inv, TypeOK
<1>4. TypeOK'
  BY <1>1, <1>2, <1>3 DEF Inv, TypeOK
<1> QED
  BY <1>1, <1>4 DEF Inv, PinsTrusted, ManifestsPinned, Claimed

-----------------------------------------------------------------------------
(* The steps of the client and of the operator of the coordinator change    *)
(* no call.                                                                 *)
LEMMA EnvironmentInv ==
  ASSUME Inv, PutCerts \/ Redeploy
  PROVE  Inv'
<1>1. UNCHANGED <<pc, intent, pinned, claim, server>>
  BY DEF PutCerts, Redeploy
<1>2. deployed' \in Peers
  BY DEF PutCerts, Redeploy, Inv, TypeOK
<1>3. certs' \in TrustedLists \cup {<<>>, Missing}
  <2>1. CASE Redeploy
    BY <2>1 DEF Redeploy, Inv, PinsTrusted
  <2>2. CASE PutCerts
    <3> SUFFICES ASSUME certs' \notin {<<>>, Missing} PROVE certs' \in TrustedLists
      OBVIOUS
    <3>1. PICK c \in Calls :
            /\ claim[c] # Missing
            /\ ValidateCoordinator(claim[c], CoordinatorEVS, TRUE) = "Success"
            /\ certs' = claim[c].body["data"]["Cert"]
      BY <2>2 DEF PutCerts
    <3>2. claim[c] \in Claims
      BY <3>1 DEF Inv, TypeOK
    <3> QED
      BY <3>1, <3>2, VerifiedListTrusted
  <2> QED
    BY <2>1, <2>2
<1>4. TypeOK'
  BY <1>1, <1>2, <1>3, TrustedListsAreLists DEF Inv, TypeOK
<1> QED
  BY <1>1, <1>3, <1>4 DEF Inv, PinsTrusted, ManifestsPinned, Claimed

LEMMA StepInv == Inv /\ [Next]_vars => Inv'
<1> SUFFICES ASSUME Inv, [Next]_vars PROVE Inv'
  OBVIOUS
<1>1. CASE UNCHANGED vars
  BY <1>1 DEF vars, Inv, TypeOK, PinsTrusted, ManifestsPinned, Claimed
<1>2. CASE \E c \in Calls : CallUnasked(c)
  BY <1>2, CallUnaskedInv
<1>3. CASE \E c \in Calls : Call(c)
  BY <1>3, CallInv
<1>4. CASE \E c \in Calls : Answer(c)
  BY <1>4, AnswerInv
<1>5. CASE \E c \in Calls : AnswerFails(c) \/ AnswerPanics(c)
  BY <1>5, AnswerFailsInv
<1>6. CASE \E c \in Calls : CallbackPanics(c)
  BY <1>6, CallbackPanicsInv
<1>7. CASE PutCerts \/ Redeploy
  BY <1>7, EnvironmentInv
<1> QED
  BY <1>1, <1>2, <1>3, <1>4, <1>5, <1>6, <1>7 DEF Next

LEMMA Invariance == Spec => []Inv
BY InitInv, StepInv, PTL DEF Spec

-----------------------------------------------------------------------------
(* Every variable keeps its type, and without certificates only a quote is  *)
(* asked for (TypeOK).                                                      *)
THEOREM TypeCorrect == Spec => []TypeOK
<1>1. Inv => TypeOK
  BY DEF Inv
<1> QED
  BY <1>1, Invariance, PTL

-----------------------------------------------------------------------------
(* A manifest is that of somebody with a certificate of a coordinator in an *)
(* enclave as expected, if the list pinned has two certificates.            *)
LEMMA AnswererIsCertified ==
  ASSUME Inv, NEW c \in Calls, Claimed(c, "marblerun/manifest"), Len(pinned[c]) = 2
  PROVE  \E d \in Coordinators : Trusted(d) /\ CertifiedBy(d, server[c].chain[1])
<1> DEFINE l == pinned[c]
<1>1. server[c] \in Peers /\ ChainPinned(pinned[c], server[c])
  BY DEF Inv, ManifestsPinned
<1>2. l \in TrustedLists
  BY DEF Inv, PinsTrusted
<1>3. l[1] \in Certificates /\ l[2] \in Certificates
  BY <1>1, <1>2, ListsAreSequences DEF ChainPinned, TrustedLists
<1>4. PICK d \in Coordinators : Trusted(d) /\ l[2] = d.root
  BY <1>2 DEF TrustedLists
<1> DEFINE leaf == server[c].chain[1]
           inters == {l[1]} \cup ToSet(Tail(server[c].chain))
<1>5. leaf \in Certificates /\ inters \in SUBSET Certificates
  BY <1>1, <1>3, ChainsAreSequences
<1>6. ChainsUp(leaf, inters, {l[2]})
  BY <1>1 DEF ChainPinned
<1>7. CertifiedBy(d, l[2])
  BY <1>4, RootIsCertified
<1>8. CertifiedBy(d, leaf)
  <2> HIDE DEF leaf, inters, l
  <2> QED
    BY <1>3, <1>5, <1>6, <1>7, ChainsAreCertified
<1> QED
  BY <1>4, <1>8

(* What a rule finds in a manifest of a coordinator stands in that of one   *)
(* in an enclave as expected.                                              *)
LEMMA FoundIsVouched ==
  ASSUME Inv, NEW c \in Calls, Claimed(c, "marblerun/manifest"), Len(pinned[c]) = 2,
         server[c] \in Coordinators, NEW section, NEW name,
         LookUp(claim[c], ManifestEVS, section, name) = "found"
  PROVE  /\ Vouches(server[c], section, name)
         /\ Section(claim[c], section) = server[c].manifest[section]
<1> DEFINE body == claim[c].body
           m == server[c].manifest
<1>1. body \in {<<>>, Data(<<>>), Data([Manifest |-> m])}
  BY DEF Inv, ManifestsPinned
<1>2. "data" \in DOMAIN body /\ name \in DOMAIN Section(claim[c], section)
  BY DEF LookUp
<1>3. Manifest(claim[c]) # Unparsable /\ section \in DOMAIN Manifest(claim[c])
      /\ Section(claim[c], section) = Manifest(claim[c])[section]
  BY <1>2 DEF Section, Field
<1>4. body = Data([Manifest |-> m])
  <2>1. CASE body = Data(<<>>)
    BY <1>3, <2>1 DEF Manifest, Field, Data
  <2> QED
    BY <1>1, <1>2, <2>1
<1>5. Manifest(claim[c]) = m
  BY <1>4 DEF Manifest, Field, Data
<1>6. PICK d \in Coordinators : Trusted(d) /\ CertifiedBy(d, server[c].chain[1])
  BY AnswererIsCertified
<1>7. Trusted(server[c])
  BY <1>6, CertifiedSame DEF Trusted
<1> QED
  BY <1>2, <1>3, <1>5, <1>7 DEF Vouches

(* "Success" is no result of looking an entry up.                           *)
LEMMA LookUpDoesNotSucceed ==
  ASSUME NEW q, NEW evs, NEW section, NEW name
  PROVE  LookUp(q, evs, section, name) # "Success"
BY DEF LookUp

LEMMA SamePackageSameEnclave ==
  ASSUME NEW p, NEW q, SamePackage(p, q), {"SecurityVersion", "Debug"} \subseteq DOMAIN p
  PROVE  SameEnclave(p, q)
<1>1. /\ DOMAIN Zero = {"SecurityVersion", "UniqueID", "SignerID", "Debug"}
      /\ Zero["SecurityVersion"] = 0 /\ Zero["Debug"] = FALSE
      /\ Zero["UniqueID"] = <<>> /\ Zero["SignerID"] = <<>>
  BY DEF Zero
<1>2. \A k \in {"SecurityVersion", "UniqueID", "SignerID", "Debug"} :
        Field(p, k, Zero[k]) = Field(q, k, Zero[k])
  BY <1>1 DEF SamePackage
<1>3. p["SecurityVersion"] = Field(p, "SecurityVersion", 0) /\ p["Debug"] = Field(p, "Debug", FALSE)
  BY DEF Field
<1> QED
  BY <1>1, <1>2, <1>3 DEF SameEnclave

(* A rule that succeeds found the entry, and found it as expected.          *)
LEMMA AcceptedIsFound ==
  ASSUME NEW c, NEW section, NEW name, Accepted(c, section, name)
  PROVE  /\ LookUp(claim[c], ManifestEVS, section, name) = "found"
         /\ Agrees(section, Section(claim[c], section)[name], ManifestEVS[section][name])
<1>1. CASE /\ section = "Infrastructures"
           /\ ValidateInfrastructure(claim[c], ManifestEVS, name) = "Success"
  BY <1>1, LookUpDoesNotSucceed DEF ValidateInfrastructure, Verdict, Agrees
<1>2. CASE section = "Marbles" /\ ValidateMarble(claim[c], ManifestEVS, name) = "Success"
  BY <1>2, LookUpDoesNotSucceed DEF ValidateMarble, Verdict, Agrees
<1>3. CASE section = "Packages" /\ ValidatePackage(claim[c], ManifestEVS, name) = "Success"
  <2> DEFINE entry == Section(claim[c], "Packages")[name]
  <2>1. /\ LookUp(claim[c], ManifestEVS, "Packages", name) = "found"
        /\ {"SecurityVersion", "Debug"} \subseteq DOMAIN entry
        /\ SamePackage(entry, ManifestEVS["Packages"][name])
    BY <1>3, LookUpDoesNotSucceed DEF ValidatePackage, Verdict
  <2>2. SameEnclave(entry, ManifestEVS["Packages"][name])
    BY <2>1, SamePackageSameEnclave
  <2> QED
    BY <1>3, <2>1, <2>2 DEF Agrees
<1> QED
  BY <1>1, <1>2, <1>3 DEF Accepted

(* What a rule succeeds on in a manifest is vouched for by a coordinator in *)
(* an enclave as expected, or was said by somebody whom it gave a           *)
(* certificate, whatever was asked, stored and deployed since the first     *)
(* quote (ValidateInfrastructure, ValidateMarble and ValidatePackage).      *)
THEOREM TrustedManifests == Spec => []ManifestIsTrusted
<1>1. Inv => ManifestIsTrusted
  <2> SUFFICES ASSUME Inv, NEW c \in Calls, Claimed(c, "marblerun/manifest"), Len(pinned[c]) = 2,
                      NEW section \in {"Infrastructures", "Marbles", "Packages"},
                      NEW name \in DOMAIN ManifestEVS[section], Accepted(c, section, name)
               PROVE  /\ \E d \in Coordinators : Trusted(d) /\ CertifiedBy(d, server[c].chain[1])
                      /\ server[c] \in Coordinators =>
                           /\ Vouches(server[c], section, name)
                           /\ Agrees(section, server[c].manifest[section][name],
                                     ManifestEVS[section][name])
    BY DEF ManifestIsTrusted
  <2>1. /\ LookUp(claim[c], ManifestEVS, section, name) = "found"
        /\ Agrees(section, Section(claim[c], section)[name], ManifestEVS[section][name])
    BY AcceptedIsFound
  <2> QED
    BY <2>1, AnswererIsCertified, FoundIsVouched
<1> QED
  BY <1>1, Invariance, PTL

(* An instance whose certificate passes has it from a coordinator in an     *)
(* enclave as expected, if the stored certificates are a chain              *)
(* (ValidateMarbleInstance).                                                *)
THEOREM TrustedIssuers == Spec => []InstanceOfTrustedCoordinator
<1>1. Inv => InstanceOfTrustedCoordinator
  <2> SUFFICES ASSUME Inv, NEW i \in Instances,
                      ValidateMarbleInstance(i, "coordinator", certs) = "Success",
                      IsChain(certs)
               PROVE  /\ i.signature.key = i.data.Certificate.key
                      /\ i.data.Nonce = i.ExpectedNonce
                      /\ \E d \in Coordinators : Trusted(d) /\ CertifiedBy(d, i.data.Certificate)
    BY DEF InstanceOfTrustedCoordinator
  <2> DEFINE cert == i.data.Certificate
  <2>1. /\ certs # Missing /\ Len(certs) = 2 /\ certs[1] # Unparsable /\ certs[2] # Unparsable
        /\ i.data # Unparsable /\ cert # Unparsable
        /\ i.signature = [of |-> i.data, key |-> cert.key]
        /\ ChainsUp(cert, {certs[1]}, {certs[1]}) /\ i.data.Nonce = i.ExpectedNonce
    BY DEF ValidateMarbleInstance, Issued
  <2>2. certs \in TrustedLists
    <3>1. Len(<<>>) = 0
      OBVIOUS
    <3>2. ASSUME certs = <<>> PROVE FALSE
      <4>1. Len(certs) = 0
        BY <3>1, <3>2
      <4> QED
        BY <2>1, <4>1
    <3> QED
      BY <2>1, <3>2 DEF Inv, PinsTrusted
  <2>3. PICK d \in Coordinators : Trusted(d) /\ certs[2] = d.root
    BY <2>1, <2>2 DEF TrustedLists
  <2>4. certs[1] \in Certificates
    <3>1. certs \in Lists
      BY <2>2, TrustedListsAreLists
    <3>2. certs \in Seq(Certificates \cup {Unparsable})
      BY <3>1, ListsAreSequences
    <3>3. \A k \in 1..Len(certs) : certs[k] \in Certificates \cup {Unparsable}
      BY <3>2
    <3> QED
      BY <2>1, <3>3
  <2>5. CertifiedBy(d, certs[1])
    BY <2>3, RootIsCertified DEF IsChain, SignedBy, CertifiedBy
  <2>6. cert \in Certificates
    BY <2>1, ListsAssumption
  <2>7. {certs[1]} \in SUBSET Certificates
    BY <2>4
  <2>8. CertifiedBy(d, cert)
    BY <2>1, <2>4, <2>5, <2>6, <2>7, ChainsAreCertified
  <2> QED
    BY <2>1, <2>3, <2>8
<1> QED
  BY <1>1, Invariance, PTL
=============================================================================
