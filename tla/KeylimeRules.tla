----------------------------- MODULE KeylimeRules -----------------------------
(***************************************************************************)
(* The rules of ga10/rules/keylime, which judge a claim with a log: the    *)
(* event log of the firmware or the measurement list of IMA.  They compare *)
(* it with another claim, of PCRs, and let the Keylime service, asked over *)
(* HTTP, decide on the log.                                                *)
(*                                                                         *)
(* A PCR is a hash chain, one digest: the bank and the sequence of what was *)
(* extended.                                                               *)
(* An event log is a sequence of pairs of PCR and measurement, an IMA list *)
(* a sequence of measurements, all of them extended into PCR 10.           *)
(***************************************************************************)
EXTENDS TPM2Rules

Chain(bank, measured) == << <<bank, measured>> >>

(* What an event log has for a PCR, in the order of the log.                *)
MeasuredInto(i, log) ==
  LET lines == Ascending({k \in DOMAIN log : log[k][1] = i})
  IN  [n \in DOMAIN lines |-> log[lines[n]][2]]

(* The PCRs that an event log has entries for, as it explains them.         *)
Replay(bank, log) == [i \in {e[1] : e \in ToSet(log)} |-> Chain(bank, MeasuredInto(i, log))]

(* The answers of the service, if there is one: the event log is one that   *)
(* the reference state allows, and what the PCRs are then.                 *)
MBResponse(log, bank, refstate) ==
  [failure |-> log \notin refstate,
   hashes |-> IF log = Unparsable THEN <<>> ELSE Replay(bank, log)]

(* Mutant of Explains: the service wants the list to end at the PCR.        *)
ExplainsWhole(list, bank, value) == value = Chain(bank, list)

(* The list explains the PCR up to one of its lines.                        *)
Explains(list, bank, value) ==
  \E k \in 0..Len(list) : value = Chain(bank, SubSeq(list, 1, k))

IMAResponse(list, bank, value, policy) ==
  [failure |-> ~(Explains(list, bank, value) /\ ToSet(list) \subseteq policy)]

(* Mutant of SamePCRs: the loop ends at PCR 0 instead of going on.          *)
SamePCRsUpTo0(hashes, pcrs) ==
  \/ 0 \in DOMAIN hashes
  \/ \A i \in DOMAIN hashes : i \in DOMAIN pcrs /\ pcrs[i] = hashes[i]

(* PCR 0 is skipped.  Both texts lack their leading zeros, which keeps      *)
(* different hashes of a bank different.                                   *)
SamePCRs(hashes, pcrs) ==
  \A i \in DOMAIN hashes \ {0} : i \in DOMAIN pcrs /\ pcrs[i] = hashes[i]

(* What both rules want before they ask the service.                        *)
Prepared(claim, log, needed, params, pcrsClaim) ==
  /\ log \in DOMAIN claim.body
  /\ needed \subseteq DOMAIN params
  /\ pcrsClaim # NotFound

(* up: the service answers with status 200 and what can be read.            *)
ValidateMB(claim, evs, params, pcrsClaim, up) ==
  IF ~Prepared(claim, "eventlog", {"hash_alg", "pcrs_inquote", "pcrscid"}, params, pcrsClaim)
  THEN "Fail"
  ELSE IF params.hash_alg \notin DOMAIN pcrsClaim.body \/ "mb_refstate" \notin DOMAIN evs
  THEN "panic"
  ELSE LET resp == MBResponse(claim.body.eventlog, params.hash_alg, evs.mb_refstate)
       IN  IF up /\ ~resp.failure /\ SamePCRs(resp.hashes, pcrsClaim.body[params.hash_alg])
           THEN "Success" ELSE "Fail"

(* Mutant of ValidateIMA: only that the service answers is looked at.       *)
ValidateIMAAnswered(claim, evs, params, pcrsClaim, up) ==
  IF ~Prepared(claim, "asciilog", {"hash_alg", "pcrscid"}, params, pcrsClaim) THEN "Fail"
  ELSE IF up THEN "Success" ELSE "Fail"

ValidateIMA(claim, evs, params, pcrsClaim, up) ==
  IF \/ ~Prepared(claim, "asciilog", {"hash_alg", "pcrscid"}, params, pcrsClaim)
     \/ claim.body.asciilog = Unparsable THEN "Fail"
  ELSE IF \/ params.hash_alg \notin DOMAIN pcrsClaim.body
          \/ 10 \notin DOMAIN pcrsClaim.body[params.hash_alg]
          \/ "runtime_policy" \notin DOMAIN evs THEN "panic"
  ELSE LET resp == IMAResponse(claim.body.asciilog, params.hash_alg,
                               pcrsClaim.body[params.hash_alg][10], evs.runtime_policy)
       IN  IF up /\ ~resp.failure THEN "Success" ELSE "Fail"
=============================================================================
