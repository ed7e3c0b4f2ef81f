------------------------------ MODULE MarbleRules ------------------------------
(***************************************************************************)
(* The rules of ga10/rules/marblerun and the expected values they decode   *)
(* (ga10/structures/expectedValues.go).                                    *)
(*                                                                         *)
(* A JSON object is a function from the keys that are present.  A rule     *)
(* returns its result value, "VerifyCallFailure" if it also returns an     *)
(* error, which is what Verify makes of that, and "panic" where it takes   *)
(* a missing key for granted.                                              *)
(*                                                                         *)
(* A certificate has the key that it is for and that of its issuer, which   *)
(* are the same for a root, and says if it is of a CA.                      *)
(***************************************************************************)
EXTENDS Naturals, Sequences

CONSTANTS
  Unparsable,  \* text or data that is not what it should encode
  Missing      \* no such parameter, or no such element

Field(object, key, default) == IF key \in DOMAIN object THEN object[key] ELSE default

-----------------------------------------------------------------------------
(* Decoding the expected value of a coordinator: "ok", or how it fails.  A  *)
(* UniqueID or a SignerID is asked for, and then a SignerID used.           *)
DecodeCoordinator(evs) ==
  IF "coordinator" \notin DOMAIN evs THEN "panic"
  ELSE LET ev == evs["coordinator"]
       IN  IF \/ "SecurityVersion" \notin DOMAIN ev
              \/ {"UniqueID", "SignerID"} \cap DOMAIN ev = {}
              \/ Field(ev, "UniqueID", Missing) = Unparsable THEN "VerifyCallFailure"
           ELSE IF "SignerID" \notin DOMAIN ev THEN "panic"
           ELSE IF ev["SignerID"] = Unparsable \/ "ProductID" \notin DOMAIN ev
                THEN "VerifyCallFailure"
           ELSE "ok"

(* The enclave that a report is about is as expected; zeros are not         *)
(* compared, and Debug neither.                                            *)
Acceptable(report, ev) ==
  /\ ev["SecurityVersion"] <= report.SecurityVersion
  /\ ev["ProductID"] \in {0, report.ProductID}
  /\ Field(ev, "UniqueID", report.UniqueID) = report.UniqueID
  /\ ev["SignerID"] = report.SignerID
  /\ Field(ev, "ValidateTCB", TRUE) => report.TCBStatus \in {"UpToDate", "SWHardeningNeeded"}

(* Mutant of BoundTo: it is the first certificate that is compared.         *)
BoundToFirst(certs, report) == certs[1] = report.Data

(* The report carries the hash of the last certificate.                     *)
BoundTo(certs, report) == certs[Len(certs)] = report.Data

(* pccs: the provisioning service confirms that the report is genuine.  The *)
(* list may have any number of blocks, whose contents nobody looks at but   *)
(* for the last one's hash.                                                *)
ValidateCoordinator(claim, evs, pccs) ==
  IF DecodeCoordinator(evs) # "ok" THEN DecodeCoordinator(evs)
  ELSE IF ~({"Quote", "Cert"} \subseteq DOMAIN Field(claim.body, "data", <<>>)) THEN "panic"
  ELSE LET data == claim.body["data"]
       IN  IF data["Cert"] = Unparsable THEN "Fail"
           ELSE IF data["Quote"] = Unparsable THEN "VerifyCallFailure"
           ELSE IF /\ pccs /\ BoundTo(data["Cert"], data["Quote"])
                   /\ Acceptable(data["Quote"], evs["coordinator"]) THEN "Success"
           ELSE "Fail"

-----------------------------------------------------------------------------
(* getManifest: Unparsable also stands for a manifest that is not there.    *)
Manifest(claim) == Field(claim.body["data"], "Manifest", Unparsable)

(* A section of it, empty if it is not there.                              *)
Section(claim, section) ==
  IF Manifest(claim) = Unparsable THEN <<>> ELSE Field(Manifest(claim), section, <<>>)

(* A rule on the entry that a parameter names finds it in the expected      *)
(* value and in the manifest before it compares the two.                    *)
LookUp(claim, evs, section, name) ==
  IF name = Missing THEN "MissingExpectedValue"
  ELSE IF section \notin DOMAIN evs THEN "panic"
  ELSE IF Field(evs[section], name, Unparsable) = Unparsable THEN "VerifyCallFailure"
  ELSE IF "data" \notin DOMAIN claim.body THEN "panic"
  ELSE IF name \notin DOMAIN Section(claim, section) THEN "Fail"
  ELSE "found"

Verdict(equal) == IF equal THEN "Success" ELSE "Fail"

(* The four texts of an infrastructure are one value here, Unparsable if    *)
(* one of them is not there.                                               *)
ValidateInfrastructure(claim, evs, name) ==
  LET found == LookUp(claim, evs, "Infrastructures", name)
      entry == Section(claim, "Infrastructures")[name]
  IN  IF found # "found" THEN found
      ELSE IF entry = Unparsable THEN "panic"
      ELSE Verdict(entry = evs["Infrastructures"][name])

Zero == [SecurityVersion |-> 0, UniqueID |-> <<>>, SignerID |-> <<>>, Debug |-> FALSE]

(* Mutant of SamePackage: what is not expected is not compared.             *)
SamePackageIfExpected(p, q) ==
  \A k \in DOMAIN Zero \cap DOMAIN q : Field(p, k, Zero[k]) = q[k]

(* Equal of MarbleRunPackageEV: a key not there has its zero value, and the *)
(* ProductID is not compared.                                              *)
SamePackage(p, q) == \A k \in DOMAIN Zero : Field(p, k, Zero[k]) = Field(q, k, Zero[k])

ValidatePackage(claim, evs, name) ==
  LET found == LookUp(claim, evs, "Packages", name)
      entry == Section(claim, "Packages")[name]
  IN  IF found # "found" THEN found
      ELSE IF Unparsable \in {Field(entry, "UniqueID", <<>>), Field(entry, "SignerID", <<>>)}
      THEN "Fail"
      ELSE IF ~({"ProductID", "SecurityVersion", "Debug"} \subseteq DOMAIN entry) THEN "panic"
      ELSE Verdict(SamePackage(entry, evs["Packages"][name]))

(* It goes through all marbles of the manifest, each of which must name a   *)
(* package, even if the one it looks for is not there.                      *)
ValidateMarble(claim, evs, name) ==
  LET found == LookUp(claim, evs, "Marbles", name)
      marbles == Section(claim, "Marbles")
  IN  IF found \notin {"found", "Fail"} THEN found
      ELSE IF \E m \in DOMAIN marbles : marbles[m] = Unparsable THEN "panic"
      ELSE IF found = "Fail" THEN "Fail"
      ELSE Verdict(marbles[name] = evs["Marbles"][name])

-----------------------------------------------------------------------------
SignedBy(x, y) == y.ca /\ x.issuer = y.key

(* Verify of a certificate: it is in any set that has the roots, and what a  *)
(* member of it issued.                                                    *)
ChainsUp(leaf, intermediates, roots) ==
  LET world == intermediates \cup roots \cup {leaf}
  IN  \A S \in SUBSET world :
        roots \subseteq S /\ (\A x \in world : (\E y \in S : SignedBy(x, y)) => x \in S)
          => leaf \in S

(* Mutant of Issued: the certificate may come from anywhere.                *)
IssuedByAny(cert, certs) == cert # Missing

(* The root is the certificate that stands first in the coordinator's list, *)
(* the intermediate one; the pool with the other is not used.               *)
Issued(cert, certs) == ChainsUp(cert, {certs[1]}, {certs[1]})

(* An instance is an element with a request for a certificate signed by its *)
(* key, certs the list in the coordinator's element as it is now.  A request *)
(* has the certificate, its common name, and if it is complete, that is,    *)
(* names a country and a locality.                                          *)
ValidateMarbleInstance(instance, coordinatorID, certs) ==
  IF coordinatorID = Missing THEN "RuleCallFailure"
  ELSE IF certs = Missing \/ Unparsable \in {instance.data, instance.signature} THEN "Fail"
  ELSE LET request == instance.data
           cert == request.Certificate
       IN  IF \/ cert = Unparsable
              \/ instance.signature # [of |-> request, key |-> cert.key]
              \/ Len(certs) # 2 \/ Unparsable \in {certs[1], certs[2]}
              \/ request.CommonName # instance.Name THEN "Fail"
           ELSE IF ~Issued(cert, certs) THEN "VerifyCallFailure"
           ELSE IF request.Nonce # instance.ExpectedNonce THEN "Fail"
           ELSE IF ~request.complete THEN "panic"
           ELSE "Success"
=============================================================================
