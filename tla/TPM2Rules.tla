------------------------------ MODULE TPM2Rules ------------------------------
(***************************************************************************)
(* The rules of ga10/rules/tpm2rules, which judge the quote in a claim.    *)
(*                                                                         *)
(* A claim has a body (a record: a key of the JSON body is a field), the   *)
(* call parameters cps and the public attestation key of its element, with *)
(* type and name, or Unparsable.  The quote in a body stands for both its  *)
(* texts, quote and signature.                                             *)
(*                                                                         *)
(* Bytes are a sequence of pieces, each as long as one digest: the value of *)
(* a PCR is one piece, an entry of a claim of PCRs is any number of them,  *)
(* and hashes are as different as what they hash.                          *)
(*                                                                         *)
(* A rule that returns an error besides its value gives VerifyCallFailure, *)
(* which is what Verify makes of it.                                       *)
(***************************************************************************)
EXTENDS Integers, SequencesExt

CONSTANT
  Unparsable  \* text that is not what it should encode

(* No such claim: what has no body.                                         *)
NotFound == [error |-> "no such claim"]

(* Bytes as text.                                                           *)
Hex(bytes) == [encoding |-> "hex", of |-> bytes]

(* What is hashed are the entries one after the other, without their        *)
(* lengths.                                                                *)
Digest(hash, entries, list) ==
  [hash |-> hash, of |-> FlattenSeq([k \in DOMAIN list |-> entries[list[k]]])]

(* The members of a set of numbers in ascending order.  (The provers cannot *)
(* expand SetToSortSeq.)                                                   *)
Ascending(S) ==
  CHOOSE l \in [1..Cardinality(S) -> S] : \A j, k \in DOMAIN l : j < k => l[j] < l[k]

(* Mutant of TPMSPCRSelectionToList: the loop over the bits ends too early. *)
SelectionButLast(selections) ==
  FlattenSeq([n \in DOMAIN selections |->
                Ascending({i \in selections[n] : \E j \in selections[n] : i < j})])

(* A quote has a list of selections, each of them a set of PCRs.            *)
TPMSPCRSelectionToList(selections) ==
  FlattenSeq([n \in DOMAIN selections |-> Ascending(selections[n])])

(* Unmarshal checks the magic number, so that such a structure is Unparsable. *)
Decodes(claim) == "quote" \in DOMAIN claim.body /\ claim.body.quote # Unparsable

IsQuote(attest) == attest.type = "quote"

HasQuote(claim) == Decodes(claim) /\ IsQuote(claim.body.quote)

FirmwareRule(claim, evs) ==
  IF ~HasQuote(claim) THEN "VerifyCallFailure"
  ELSE IF /\ "firmwareVersion" \in DOMAIN evs
          /\ evs.firmwareVersion = claim.body.quote.firmware THEN "Success"
  ELSE "Fail"

(* What has a wrong number did not decode.                                  *)
MagicNumberRule(claim) == IF HasQuote(claim) THEN "Success" ELSE "VerifyCallFailure"

IsSafe(claim) ==
  IF ~HasQuote(claim) THEN "VerifyCallFailure"
  ELSE IF claim.body.quote.safe THEN "Success"
  ELSE "Fail"

AttestedPCRDigest(claim, evs) ==
  IF ~HasQuote(claim) THEN "VerifyCallFailure"
  ELSE IF /\ "attestedValue" \in DOMAIN evs
          /\ evs.attestedValue = Hex(claim.body.quote.digest) THEN "Success"
  ELSE "Fail"

(* The public part of a key as ParseTPMKey reads it: its type and itself.   *)
ParseTPMKey(ak) == IF ak.type \in {"RSA", "ECC"} THEN ak ELSE Unparsable

(* The scheme of the signature asks for a key of one type.                  *)
VerifySignature(quote, key) ==
  /\ \/ quote.sigAlg = "ECDSA" /\ key.type = "ECC"
     \/ quote.sigAlg = "RSASSA" /\ key.type = "RSA"
  /\ quote.key = key.name

ValidSignature(claim) ==
  IF ~HasQuote(claim) \/ claim.ak = Unparsable \/ ParseTPMKey(claim.ak) = Unparsable
  THEN "VerifyCallFailure"
  ELSE IF VerifySignature(claim.body.quote, ParseTPMKey(claim.ak)) THEN "Success"
  ELSE "Fail"

(* Mutant of ValidNonce: the nonce may have any type.                       *)
ValidNonceAnyType(claim) ==
  IF ~HasQuote(claim) THEN "VerifyCallFailure"
  ELSE IF claim.body.quote.extraData # claim.cps["tpm2/nonce"].bytes THEN "Fail"
  ELSE "Success"

(* A nonce that requestFromTA made comes back from the database with type   *)
(* Binary, one that a policy or a caller supplied has type string.          *)
ValidNonce(claim) ==
  IF ~HasQuote(claim) THEN "VerifyCallFailure"
  ELSE IF "tpm2/nonce" \notin DOMAIN claim.cps THEN "RuleCallFailure"
  ELSE IF claim.cps["tpm2/nonce"].type # "Binary" THEN "RuleCallFailure"
  ELSE IF claim.body.quote.extraData # claim.cps["tpm2/nonce"].bytes THEN "Fail"
  ELSE "Success"

(* The indexes expected are a list, like those of the quote.                *)
checkPCRSelection(claim, evs) ==
  IF ~HasQuote(claim) THEN "VerifyCallFailure"
  ELSE IF "pcrselection" \notin DOMAIN evs THEN "MissingExpectedValue"
  ELSE IF Unparsable \in ToSet(evs.pcrselection) THEN "VerifyCallFailure"
  ELSE LET list == TPMSPCRSelectionToList(claim.body.quote.selection)
       IN  IF Len(evs.pcrselection) = Len(list) /\ ToSet(evs.pcrselection) \subseteq ToSet(list)
           THEN "Success" ELSE "Fail"

(* Mutant of SameDigest: the loop is over the map of entries, whose order   *)
(* Go leaves open, and not over the selection.                             *)
SameDigestAnyOrder(pcrs, quote) ==
  LET list == TPMSPCRSelectionToList(quote.selection)
  IN  \E other \in [DOMAIN list -> ToSet(list)] :
        ToSet(other) = ToSet(list) /\ Digest("sha256", pcrs, other) = quote.digest

(* The TPM hashes with the hash of its key's scheme, the rule with SHA-256. *)
SameDigest(pcrs, quote) ==
  Digest("sha256", pcrs, TPMSPCRSelectionToList(quote.selection)) = quote.digest

(* The digest of the quote is compared with the PCRs in another claim, the  *)
(* one that parameter pcrscid names.  The first entry that is missing or    *)
(* no hexadecimal text ends the loop; how long it is does not matter.       *)
checkQuoteDigest256(claim, pcrsClaim) ==
  IF ~HasQuote(claim) \/ pcrsClaim = NotFound THEN "VerifyCallFailure"
  ELSE IF "sha256" \notin DOMAIN pcrsClaim.body THEN "panic"
  ELSE LET list == TPMSPCRSelectionToList(claim.body.quote.selection)
           entries == pcrsClaim.body.sha256
           present(k) == list[k] \in DOMAIN entries
       IN  IF \E k \in DOMAIN list : /\ \A j \in 1..k : present(j)
                                     /\ entries[list[k]] = Unparsable THEN "VerifyCallFailure"
           ELSE IF (\A k \in DOMAIN list : present(k)) /\ SameDigest(entries, claim.body.quote)
           THEN "Success" ELSE "Fail"
=============================================================================
