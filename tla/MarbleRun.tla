------------------------------- MODULE MarbleRun -------------------------------
(***************************************************************************)
(* The protocol of ga10/protocols/marblerun and the chain of trust that its *)
(* claims and rules build: a client asks for a quote of the coordinator,    *)
(* has it verified, stores the certificates of the result in the element,   *)
(* and from then on these certificates say who may answer.  Meanwhile the   *)
(* coordinator is deployed anew or its manifest updated, somebody else      *)
(* answers at its address, and the element is changed while calls are under *)
(* way.                                                                    *)
(***************************************************************************)
EXTENDS MarbleRules, FiniteSets, SequencesExt

CONSTANTS
  Calls,            \* calls of the protocol
  Coordinators,     \* what may answer at the coordinator's address: their
                    \* certificates root and inter, the chain they present,
                    \* their report and their manifest
  Others,           \* and those that are none: the chain they present
  Certificates,     \* all the certificates that there are
  Lists,            \* lists of certificates that anybody may give
  CoordinatorEVS,   \* expected values for the policy that asks for a quote
  ManifestEVS,      \* expected values for the policy that asks for a manifest
  Instances         \* elements of marble instances

Peers == Coordinators \cup Others

(* A coordinator's certificates: intermediate, and root.                   *)
CertificatesOf(d) == <<d.inter, d.root>>

Intents == {"marblerun/quote", "marblerun/manifest", "marblerun/updatelogs",
            "marblerun/null", "tpm2/quote"}

(* The JSON objects that a call may give, and the claims made of them.      *)
Objects ==
  {<<>>} \cup [Manifest : {d.manifest : d \in Coordinators}] \cup [UpdateLog : {{}}] \cup
  [Quote : {d.report : d \in Coordinators} \cup {Unparsable}, Cert : Lists \cup {Unparsable}]

Claims == [bodytype : Intents \cup {"*ERROR"}, body : {<<>>} \cup [{"data"} -> Objects]]

(* A PEM block need not be a certificate, and a list of them not be one of  *)
(* a coordinator; but it is not empty.                                     *)
ASSUME ListsAssumption ==
  /\ Lists \subseteq Seq(Certificates \cup {Unparsable}) \ {<<>>}
  /\ \A i \in Instances :
       i.data # Unparsable => i.data.Certificate \in Certificates \cup {Unparsable}
  /\ \A p \in Peers : p.chain \in Seq(Certificates) \ {<<>>}
  /\ {CertificatesOf(d) : d \in Coordinators} \subseteq Lists
  /\ Missing \notin Claims \cup Peers \cup Lists \cup {<<>>}

Keys(root) == UNION {{d.root.key, d.inter.key} : d \in {e \in Coordinators : e.root = root}}

(* Coordinator d made the certificate.                                      *)
CertifiedBy(d, x) == x.issuer \in Keys(d.root)

(* The keys of a root and its intermediate certificates are generated in an *)
(* enclave, whose report carries the root, and do not leave it.  They make  *)
(* no CA of another key, and what a coordinator presents is made by them.   *)
ASSUME RootAssumption ==
  \A d \in Coordinators :
    /\ d.root = d.report.Data /\ d.root.issuer = d.root.key
    /\ CertifiedBy(d, d.chain[1])
    /\ \A x \in Certificates : x.ca /\ CertifiedBy(d, x) => x.key \in Keys(d.root)
    /\ \A e \in Coordinators : Keys(d.root) \cap Keys(e.root) # {} => d.report = e.report

VARIABLES
  deployed,  \* who answers at the coordinator's address
  certs,     \* MRCoordinator.Certs of the coordinator's element, or Missing
  pc,        \* "idle" -> "asking" -> "done" or "panic"
  intent,    \* per call: the policy's intent
  pinned,    \* per call: the certificates in the element that it was given
  claim,     \* per call: the claim made of it
  server     \* per call: who answered it

vars == <<deployed, certs, pc, intent, pinned, claim, server>>

Init ==
  /\ deployed \in Peers
  /\ certs = <<>>
  /\ pc = [c \in Calls |-> "idle"]
  /\ intent = [c \in Calls |-> Missing]
  /\ pinned = [c \in Calls |-> <<>>]
  /\ claim = [c \in Calls |-> Missing]
  /\ server = [c \in Calls |-> Missing]

-----------------------------------------------------------------------------
Error == [bodytype |-> "*ERROR", body |-> <<>>]

Attest(c, i) ==
  /\ pc[c] # "asking" /\ certs # Missing
  /\ intent' = [intent EXCEPT ![c] = i]
  /\ pinned' = [pinned EXCEPT ![c] = certs]
  /\ server' = [server EXCEPT ![c] = Missing]
  /\ UNCHANGED <<deployed, certs>>

Done(c, result) ==
  /\ pc' = [pc EXCEPT ![c] = "done"]
  /\ claim' = [claim EXCEPT ![c] = result]

(* An intent that nobody need be asked about, or that the protocol has not. *)
CallUnasked(c) ==
  /\ \/ Attest(c, "marblerun/null") /\ Done(c, [bodytype |-> "marblerun/null", body |-> <<>>])
     \/ Attest(c, "tpm2/quote") /\ Done(c, Error)

(* Mutant of MayAsk: a connection that cannot be checked is not checked.    *)
MayAskAlways(i) == Unparsable \notin ToSet(certs)

(* Only a quote may be asked for as long as there are no certificates, and  *)
(* nothing if one does not parse.                                          *)
MayAsk(i) == IF certs = <<>> THEN i = "marblerun/quote" ELSE Unparsable \notin ToSet(certs)

Call(c) ==
  \E i \in {"marblerun/quote", "marblerun/manifest", "marblerun/updatelogs"} :
    /\ Attest(c, i)
    /\ IF MayAsk(i)
       THEN /\ pc' = [pc EXCEPT ![c] = "asking"]
            /\ claim' = [claim EXCEPT ![c] = Missing]
       ELSE Done(c, Error)

(* The first certificate that the server presents chains up to the second   *)
(* that is pinned, with the help of the first and of those it presents      *)
(* besides; what else it is for is not looked at.                           *)
Connects(c) ==
  pinned[c] # <<>> =>
    /\ Len(pinned[c]) > 1
    /\ ChainsUp(deployed.chain[1], {pinned[c][1]} \cup ToSet(Tail(deployed.chain)), {pinned[c][2]})

Data(data) == [k \in {"data"} |-> data]

(* What a coordinator answers, and what others may: any parts they had of   *)
(* coordinators, or no encodings at all.                                   *)
Bodies(c) ==
  LET told == IF deployed \in Coordinators THEN {deployed} ELSE Coordinators
  IN  IF intent[c] = "marblerun/manifest"
      THEN {Data([Manifest |-> d.manifest]) : d \in told} \cup {Data(<<>>)}
      ELSE IF intent[c] = "marblerun/updatelogs" THEN {Data([UpdateLog |-> {}])}
      ELSE IF deployed \in Coordinators
      THEN {Data([Quote |-> deployed.report, Cert |-> CertificatesOf(deployed)])}
      ELSE {Data(x) : x \in [Quote : {d.report : d \in Coordinators} \cup {Unparsable},
                              Cert : Lists \cup {Unparsable}]}

Answered(c) ==
  /\ pc[c] = "asking"
  /\ server' = [server EXCEPT ![c] = deployed]
  /\ UNCHANGED <<deployed, certs, intent, pinned>>

Answer(c) ==
  /\ Answered(c) /\ Connects(c)
  /\ \E b \in Bodies(c) \cup {<<>>} : Done(c, [bodytype |-> intent[c], body |-> b])

(* The connection fails or is refused, the answer is not JSON, or its       *)
(* status is not 200.                                                      *)
AnswerFails(c) == Answered(c) /\ Done(c, Error)

(* A status other than 200 with the body null leaves Call a nil map, and it *)
(* panics when it notes the error there.                                   *)
AnswerPanics(c) ==
  /\ Answered(c) /\ Connects(c)
  /\ pc' = [pc EXCEPT ![c] = "panic"]
  /\ UNCHANGED claim

(* With a single certificate the callback that checks the connection indexes *)
(* past the list.  It runs in a goroutine of the http transport, where      *)
(* nobody recovers, and so the process ends, and is started again.          *)
CallbackPanics(c) ==
  /\ pc[c] = "asking" /\ Len(pinned[c]) = 1
  /\ pc' = [d \in Calls |-> IF pc[d] = "asking" THEN "panic" ELSE pc[d]]
  /\ UNCHANGED <<deployed, certs, intent, pinned, claim, server>>

-----------------------------------------------------------------------------
(* The client stores the certificates in the result of a verification, or   *)
(* removes them; or the element is deleted, and added again.                *)
PutCerts ==
  /\ certs' \in {<<>>, Missing} \cup
       {claim[c].body["data"]["Cert"] :
          c \in {c \in Calls : /\ claim[c] # Missing
                               /\ claim[c].bodytype = "marblerun/quote"
                               /\ ValidateCoordinator(claim[c], CoordinatorEVS, TRUE) = "Success"}}
  /\ UNCHANGED <<deployed, pc, intent, pinned, claim, server>>

(* Another deployment, an update of this one, which keeps its root, or      *)
(* somebody else at the address.                                           *)
Redeploy ==
  /\ deployed' \in Peers \ {deployed}
  /\ UNCHANGED <<certs, pc, intent, pinned, claim, server>>

Next ==
  \/ \E c \in Calls :
       \/ CallUnasked(c)
       \/ Call(c)
       \/ Answer(c)
       \/ AnswerFails(c)
       \/ AnswerPanics(c)
       \/ CallbackPanics(c)
  \/ PutCerts
  \/ Redeploy

Spec == Init /\ [][Next]_vars
-----------------------------------------------------------------------------
(***************************************************************************)
(* Properties.                                                             *)
(***************************************************************************)

(* Every variable keeps its type; a call has a claim when it is done and    *)
(* none before, and one without certificates is under way only for a quote, *)
(* one with certificates only with ones that parse                          *)
(* (protocols/marblerun/public.go:97-113).                                  *)
TypeOK ==
  /\ deployed \in Peers
  /\ certs \in Lists \cup {<<>>, Missing}
  /\ pc \in [Calls -> {"idle", "asking", "done", "panic"}]
  /\ intent \in [Calls -> Intents \cup {Missing}]
  /\ pinned \in [Calls -> Lists \cup {<<>>}]
  /\ claim \in [Calls -> Claims \cup {Missing}]
  /\ server \in [Calls -> Peers \cup {Missing}]
  /\ \A c \in Calls :
       /\ claim[c] # Missing <=> pc[c] = "done"
       /\ pc[c] # "idle" => intent[c] \in Intents
       /\ pc[c] = "asking" => IF pinned[c] = <<>> THEN intent[c] = "marblerun/quote"
                              ELSE Unparsable \notin ToSet(pinned[c])
       /\ claim[c] # Missing => claim[c].bodytype \in {"*ERROR", intent[c]}

Claimed(c, i) == claim[c] # Missing /\ claim[c].bodytype = i

Trusted(d) == Acceptable(d.report, CoordinatorEVS["coordinator"])

(* Coordinator d is in an enclave as expected, and its manifest has the     *)
(* entry.                                                                   *)
Vouches(d, section, name) ==
  Trusted(d) /\ section \in DOMAIN d.manifest /\ name \in DOMAIN d.manifest[section]

SameEnclave(p, q) ==
  /\ p["SecurityVersion"] = Field(q, "SecurityVersion", 0)
  /\ p["Debug"] = Field(q, "Debug", FALSE)
  /\ \A k \in {"UniqueID", "SignerID"} : Field(p, k, <<>>) = Field(q, k, <<>>)

(* The rule on the entry of a section succeeds.                             *)
Accepted(c, section, name) ==
  \/ /\ section = "Infrastructures"
     /\ ValidateInfrastructure(claim[c], ManifestEVS, name) = "Success"
  \/ section = "Marbles" /\ ValidateMarble(claim[c], ManifestEVS, name) = "Success"
  \/ section = "Packages" /\ ValidatePackage(claim[c], ManifestEVS, name) = "Success"

Agrees(section, p, q) == IF section = "Packages" THEN SameEnclave(p, q) ELSE p = q

(* If a rule on the manifest succeeds in a claim of an element with two     *)
(* certificates, then whoever answered has a certificate of a coordinator   *)
(* that runs in an enclave as expected; and if it was a coordinator, it is   *)
(* this one, and what the rule is about stands in its manifest as expected. *)
(* The first quote was asked of anybody, who may answer with parts of       *)
(* others, and the element's certificates and the deployment changed at any *)
(* time since (protocols/marblerun/public.go:57-105).  A coordinator's list  *)
(* has two certificates; the rule also accepts a longer one, of which       *)
(* nothing but the last is known.  The ProductID of a package is not        *)
(* compared.                                                               *)
ManifestIsTrusted ==
  \A c \in Calls : Claimed(c, "marblerun/manifest") /\ Len(pinned[c]) = 2 =>
    \A section \in {"Infrastructures", "Marbles", "Packages"} :
      \A name \in DOMAIN ManifestEVS[section] : Accepted(c, section, name) =>
        /\ \E d \in Coordinators : Trusted(d) /\ CertifiedBy(d, server[c].chain[1])
        /\ server[c] \in Coordinators =>
             /\ Vouches(server[c], section, name)
             /\ Agrees(section, server[c].manifest[section][name], ManifestEVS[section][name])

(* The list is a coordinator's: the second certificate issued the first.    *)
IsChain(l) == Len(l) = 2 /\ SignedBy(l[1], l[2])

(* If rule marbleinstance succeeds, and the certificates in the             *)
(* coordinator's element at the time, whichever of many they are, are a     *)
(* chain, then the instance's certificate was issued by a coordinator in an *)
(* enclave as expected, for the nonce that ga10 knows                       *)
(* (rules/marblerun/public.go:313).  No rule checks that they are one.      *)
InstanceOfTrustedCoordinator ==
  \A i \in Instances :
    ValidateMarbleInstance(i, "coordinator", certs) = "Success" /\ IsChain(certs) =>
      /\ i.signature.key = i.data.Certificate.key
      /\ i.data.Nonce = i.ExpectedNonce
      /\ \E d \in Coordinators : Trusted(d) /\ CertifiedBy(d, i.data.Certificate)
=============================================================================
