---------------------------- MODULE A10HTTPRESTv2 ----------------------------
(***************************************************************************)
(* Protocol A10HTTPRESTv2: ga10 asks a trust agent for the PCRs or a quote *)
(* of its TPM or for a log, and the answers become claims.  The platform   *)
(* goes on meanwhile: it extends PCRs between any two reads and may        *)
(* restart.  What answers need not be the trust agent: an endpoint is any  *)
(* URL.                                                                    *)
(***************************************************************************)
EXTENDS TrustAgent

CONSTANTS
  Calls,       \* calls of the protocol, each one request of ga10
  Policies,    \* per call: policies it may be made with, with intent and parameters
  Additional,  \* per call: additional parameters it may have
  Key,         \* the element's key, as its handle and as its public part say
  Foreign,     \* per call: answers that another service may give
  Relay,       \* TRUE: an earlier quote may be answered again
  MaxEvents,   \* bound on what happens to the platform
  Extensions,  \* what may be extended, pairs of PCR and measurement
  Unreadable,  \* the PCRs that the TPM may refuse to read
  None

(* A nonce that a policy or a caller supplies is a text, and is none that a *)
(* call makes at random; the body of another service, which has no key of   *)
(* the TPM, has no quote signed with the element's.                        *)
ASSUME CallAssumption ==
  /\ MaxEvents \in Nat /\ Extensions \subseteq Pcrs \X Measurements
  /\ \A c \in Calls : None \notin {p.intent : p \in Policies[c]}
  /\ \A c \in Calls : \A m \in {p.parameters : p \in Policies[c]} \cup Additional[c] :
       "tpm2/nonce" \in DOMAIN m =>
         m["tpm2/nonce"].type # "Binary" /\ m["tpm2/nonce"].bytes \notin Calls
  /\ \A c \in Calls : \A b \in {a.body : a \in Foreign[c]} :
       /\ "asciilog" \in DOMAIN b => b.asciilog \in Logs
       /\ "quote" \in DOMAIN b =>
            b.quote = Unparsable \/ ~IsQuote(b.quote)
              \/ (b.quote.key # Key /\ b.quote.selection \in Seq(SUBSET Pcrs))

VARIABLES
  tpm,     \* the platform and its TPM
  events,  \* how often it changed
  pc,      \* "idle" -> "sent" -> ("reading") -> "done" or "panic"
  intent, cps, claim,  \* per call: intent, call parameters, claim
  got,     \* per call: the PCRs read so far, pairs of index and value
  held     \* per call that gave no error: states the platform had meanwhile

vars == <<tpm, events, pc, intent, cps, claim, got, held>>

(* The JSON value null, a body without any key.                             *)
Null == [null |-> None]

(* The trust agent is at work.                                              *)
Under(c) == pc[c] \in {"sent", "reading"}

Claimed(c) == pc[c] = "done"

Init ==
  /\ tpm = Started(FirstStart, 0)
  /\ events = 0
  /\ pc = [c \in Calls |-> "idle"]
  /\ intent = [c \in Calls |-> None]
  /\ cps = [c \in Calls |-> None]
  /\ claim = [c \in Calls |-> None]
  /\ got = [c \in Calls |-> <<>>]
  /\ held = [c \in Calls |-> {}]

-----------------------------------------------------------------------------
(* The second map takes precedence.                                         *)
mergeMaps(m1, m2) ==
  [k \in DOMAIN m1 \cup DOMAIN m2 |-> IF k \in DOMAIN m2 THEN m2[k] ELSE m1[k]]

(* Some parameters come from the element.  The nonce of a call is named by  *)
(* the call: no two calls make the same.                                    *)
InitialParameters(c, i) ==
  LET supplied == CASE i = "tpm2/pcrs"     -> {"tpm2/device"}
                    [] i = "tpm2/quote"    -> {"tpm2/device", "tpm2/akhandle", "tpm2/nonce"}
                    [] i = "uefi/eventlog" -> {"uefi/eventlog"}
                    [] i = "ima/asciilog"  -> {"ima/ASCIIlog"}
                    [] i = "txt/log"       -> {"ima/log"}
                    [] OTHER               -> {}
  IN  [k \in supplied |-> CASE k = "tpm2/device"   -> "tpm0"
                             [] k = "tpm2/akhandle" -> Key
                             [] k = "tpm2/nonce"    -> [type |-> "Binary", bytes |-> c]
                             [] OTHER               -> "log"]

CallParameters(c, i, policy, additional) ==
  mergeMaps(mergeMaps(InitialParameters(c, i), policy), additional)

Send(c, i, parameters) ==
  /\ pc[c] = "idle"
  /\ pc' = [pc EXCEPT ![c] = "sent"]
  /\ intent' = [intent EXCEPT ![c] = i]
  /\ cps' = [cps EXCEPT ![c] = parameters]
  /\ held' = [held EXCEPT ![c] = {tpm}]
  /\ UNCHANGED <<tpm, events, claim, got>>

Request(c) ==
  \E p \in Policies[c], a \in Additional[c] :
    Send(c, p.intent, CallParameters(c, p.intent, p.parameters, a))

(* What makes requestFromTA give up with a nil map, or panic itself: the    *)
(* body is null, a text or structure of the quote does not decode (that     *)
(* attestableData.Decode failed is not looked at before Parse uses it), or  *)
(* the quote has an empty list of selections, of which Parse takes the      *)
(* first.  (A selection may well select nothing.)                          *)
Undecodable(b) ==
  \/ b = Null
  \/ /\ "quote" \in DOMAIN b
     /\ b.quote # Unparsable => IsQuote(b.quote) /\ b.quote.selection = <<>>

(* Call makes a claim of what requestFromTA returns, an error claim if that *)
(* is an error.  To note the error in a map that is nil is a panic.         *)
Panics(c, a) ==
  \/ a.kind = "error" /\ a.body = Null
  \/ intent[c] = "tpm2/quote" /\ a.kind = "ok" /\ Undecodable(a.body)

(* Mutant of Usable: it is not checked what the structure attests.          *)
UsableUnchecked(c, a) ==
  /\ a.kind = "ok"
  /\ intent[c] = "tpm2/quote" => "quote" \in DOMAIN a.body

Usable(c, a) ==
  /\ a.kind = "ok"
  /\ intent[c] = "tpm2/quote" => "quote" \in DOMAIN a.body /\ IsQuote(a.body.quote)

(* The error is added to the body that was answered.                        *)
Claim(c, a) ==
  [bodytype |-> IF Usable(c, a) THEN intent[c] ELSE "*ERROR",
   body |-> IF Usable(c, a) THEN a.body ELSE mergeMaps(a.body, [error |-> None]),
   cps |-> cps[c],
   ak |-> [type |-> IF Scheme[Key].alg = "ECDSA" THEN "ECC" ELSE "RSA", name |-> Key]]

(* Answer a arrives: ga10 makes its claim of it.                            *)
Call(c, a) ==
  /\ IF Panics(c, a) THEN /\ pc' = [pc EXCEPT ![c] = "panic"]
                         /\ UNCHANGED claim
     ELSE /\ pc' = [pc EXCEPT ![c] = "done"]
          /\ claim' = [claim EXCEPT ![c] = Claim(c, a)]
  /\ got' = [got EXCEPT ![c] = <<>>]
  /\ held' = [held EXCEPT ![c] = IF ~Panics(c, a) /\ Usable(c, a) THEN @ ELSE {}]
  /\ UNCHANGED <<tpm, events, intent, cps>>

(* The TPM may refuse, or its device may be in use, whatever is asked.      *)
TAQuote(c) ==
  /\ pc[c] = "sent" /\ intent[c] = "tpm2/quote"
  /\ \/ Call(c, Quote(tpm, cps[c]))
     \/ Quote(tpm, cps[c]).kind = "ok" /\ Call(c, Answer("error"))

TAOpenTPM(c) ==
  /\ pc[c] = "sent" /\ intent[c] = "tpm2/pcrs"
  /\ \/ Call(c, Answer("error"))
     \/ /\ cps[c]["tpm2/device"] # Unparsable
        /\ pc' = [pc EXCEPT ![c] = "reading"]
        /\ UNCHANGED <<tpm, events, intent, cps, claim, got, held>>

(* The PCRs are read one by one; those the TPM does not give are left out.  *)
TAReadPCR(c) ==
  /\ pc[c] = "reading" /\ Len(got[c]) < Cardinality(Pcrs)
  /\ LET i == Ascending(Pcrs)[Len(got[c]) + 1]
     IN  \E v \in {Read(tpm, i)} \cup {None : x \in {i} \cap Unreadable} :
           got' = [got EXCEPT ![c] = Append(@, <<i, v>>)]
  /\ UNCHANGED <<tpm, events, pc, intent, cps, claim, held>>

TAPCRs(c) ==
  /\ pc[c] = "reading" /\ Len(got[c]) = Cardinality(Pcrs)
  /\ LET bank == {r \in ToSet(got[c]) : r[2] # None}
     IN  Call(c, [kind |-> "ok",
                  body |-> [sha256 |-> [i \in {r[1] : r \in bank} |->
                                          (CHOOSE r \in bank : r[1] = i)[2]]]])

TALog(c) ==
  /\ pc[c] = "sent" /\ intent[c] \notin {"tpm2/pcrs", "tpm2/quote"}
  /\ \E a \in LogAnswers(tpm, intent[c], cps[c]) : Call(c, a)

(* The connection fails, or something other than the trust agent answers.   *)
OtherAnswer(c) ==
  /\ pc[c] = "sent"
  /\ \/ Call(c, Answer("closed"))
     \/ \E a \in Foreign[c] : Call(c, a)
     \/ \E d \in Calls : /\ Relay /\ Claimed(d) /\ HasQuote(claim[d])
                         /\ Call(c, [kind |-> "ok", body |-> [quote |-> claim[d].body.quote]])

-----------------------------------------------------------------------------
(* What a running platform does to itself.                                  *)
Running(new) ==
  /\ tpm' = new
  /\ held' = [c \in Calls |-> IF Under(c) THEN held[c] \cup {new} ELSE held[c]]
  /\ UNCHANGED <<pc, intent, cps, claim, got>>

(* The platform measures something into a PCR.                              *)
Extend ==
  /\ events < MaxEvents /\ events' = events + 1
  /\ \E e \in Extensions : Running([tpm EXCEPT !.pcrs[e[1]] = Append(@, e[2])])

(* IMA lists what it measures before it extends PCR 10 with it; the second  *)
(* is no event of its own.                                                  *)
IMAList ==
  /\ 10 \in Pcrs /\ events < MaxEvents /\ events' = events + 1
  /\ \E m \in Measurements : Running([tpm EXCEPT !.ima = Append(@, m)])

IMAExtend ==
  /\ 10 \in Pcrs /\ Len(tpm.pcrs[10]) < Len(tpm.ima)
  /\ UNCHANGED events
  /\ Running([tpm EXCEPT !.pcrs[10] = Append(@, tpm.ima[Len(@) + 1])])

(* It restarts: the PCRs are reset, and requests to its agent are cut off.  *)
Restart ==
  /\ events < MaxEvents /\ events' = events + 1
  /\ \E start \in Starts : tpm' = Started(start, tpm.resets + 1)
  /\ pc' = [c \in Calls |-> IF Under(c) THEN "done" ELSE pc[c]]
  /\ claim' = [c \in Calls |-> IF Under(c) THEN Claim(c, Answer("closed")) ELSE claim[c]]
  /\ got' = [c \in Calls |-> IF Under(c) THEN <<>> ELSE got[c]]
  /\ held' = [c \in Calls |-> IF Under(c) THEN {} ELSE held[c]]
  /\ UNCHANGED <<intent, cps>>

Next ==
  \/ \E c \in Calls :
       \/ Request(c)
       \/ TAQuote(c)
       \/ TAOpenTPM(c)
       \/ TAReadPCR(c)
       \/ TAPCRs(c)
       \/ TALog(c)
       \/ OtherAnswer(c)
  \/ Extend
  \/ IMAList
  \/ IMAExtend
  \/ Restart

Spec == Init /\ [][Next]_vars
-----------------------------------------------------------------------------
(***************************************************************************)
(* Properties.                                                             *)
(***************************************************************************)
CONSTANTS
  ExpectedValues,  \* what a client may expect of a quote
  RefStates,       \* reference states of Keylime: sets of event logs
  RuntimePolicies  \* runtime policies of Keylime: sets of measurements

(* What is no event log is of no reference state.                           *)
ASSUME RefStatesAssumption == \A refstate \in RefStates : Unparsable \notin refstate

(* Every variable keeps its type.  A claim has the call's intent and then a *)
(* quote if that was asked for, with at least one selection, though maybe   *)
(* of no PCR, or it is an error (a10httprestv2/public.go:162, which panics  *)
(* otherwise).                                                             *)
TypeOK ==
  /\ tpm \in States /\ events \in 0..MaxEvents
  /\ pc \in [Calls -> {"idle", "sent", "reading", "done", "panic"}]
  /\ \A c \in Calls : intent[c] \in {p.intent : p \in Policies[c]} \cup {None}
  /\ held \in [Calls -> SUBSET States]
  /\ \A c \in Calls :
       /\ pc[c] = "idle" <=> intent[c] = None
       /\ claim[c] # None => Claimed(c)
       /\ Claimed(c) =>
            /\ claim[c].bodytype \in {"*ERROR", intent[c]}
            /\ claim[c].bodytype = "tpm2/quote" =>
                 HasQuote(claim[c]) /\ claim[c].body.quote.selection \in Seq(SUBSET Pcrs) \ {<<>>}

Quoted(c) == Claimed(c) /\ claim[c].bodytype = "tpm2/quote"

Genuine(c) ==
  Quoted(c) /\ ValidSignature(claim[c]) = "Success" /\ ValidNonce(claim[c]) = "Success"

(* If the rules on signature, nonce, safe flag, firmware, PCR selection and *)
(* attested value all succeed on a claim, then at one moment between the    *)
(* request and its answer the TPM was safe, had the expected firmware and   *)
(* its PCRs in the expected selection (or in a larger one, if the expected  *)
(* list has duplicates) held the expected value, whatever was extended,     *)
(* restarted or answered from an earlier quote (tpm2rules).                *)
AttestationIsSound ==
  \A c \in Calls : Genuine(c) /\ IsSafe(claim[c]) = "Success" =>
    \A evs \in ExpectedValues :
      /\ checkPCRSelection(claim[c], evs) = "Success"
      /\ AttestedPCRDigest(claim[c], evs) = "Success"
      /\ FirmwareRule(claim[c], evs) = "Success"
      => \E s \in held[c], b \in Banks, selection \in SUBSET Pcrs :
           /\ s.safe /\ s.firmware = evs.firmwareVersion
           /\ ToSet(evs.pcrselection) \subseteq selection
           /\ Cardinality(selection) = Len(evs.pcrselection)
           /\ evs.attestedValue = Hex(Digest(Scheme[Key].hash, Bank(s, b), Ascending(selection)))

(* The PCRs that the quote in a claim selects.                              *)
Selected(c) == UNION ToSet(claim[c].body.quote.selection)

PCRsClaimed(d) == Claimed(d) /\ intent[d] = "tpm2/pcrs" /\ "sha256" \in DOMAIN claim[d].body

(* An entry is a text of one digest.                                        *)
IsDigest(entry) == Len(entry) = 1 /\ entry = <<entry[1]>>

(* A claim of PCRs that a genuine quote vouches for.  Its entries have to   *)
(* be digests, which rule quoteDigest256 takes for granted: it succeeds     *)
(* however the same bytes are divided among the entries.                   *)
Vouched(q, d) ==
  /\ PCRsClaimed(d) /\ Genuine(q) /\ checkQuoteDigest256(claim[q], claim[d]) = "Success"
  /\ \A i \in Selected(q) : IsDigest(claim[d].body.sha256[i])

(* If rule quoteDigest256 succeeds on a genuine quote and a claim of PCRs,  *)
(* whose entries are digests, the PCRs that the quote selects were in the   *)
(* TPM's bank all at once while the quote was made, although the claim read *)
(* them one by one and at another time, or is not of the TPM at all         *)
(* (tpm2rules/public.go:180).                                              *)
PCRsClaimMatchesQuote ==
  \A c, d \in Calls :
    Vouched(c, d) => \E s \in held[c] : \A i \in Selected(c) :
                       claim[d].body.sha256[i] = Bank(s, cps[c]["bank"])[i]

(* Rule quoteDigest256 does not raise a false alarm if the key's scheme has *)
(* hash sha256: it succeeds on a genuine quote of bank sha256 and PCRs that *)
(* the trust agent read, each of them, while the TPM was in the same,       *)
(* single state (tpm2rules/public.go:204).                                 *)
NoFalseAlarm ==
  \A c, d \in Calls :
    /\ Genuine(c) /\ cps[c]["bank"] = "sha256" /\ Scheme[Key].hash = "sha256"
    /\ PCRsClaimed(d) /\ claim[d].bodytype = "tpm2/pcrs" /\ DOMAIN claim[d].body.sha256 = Pcrs
    /\ \A e \in Calls : claim[d].body \notin {a.body : a \in Foreign[e]}
    /\ \E s \in held[c] : held[c] = {s} /\ held[d] = {s}
    => checkQuoteDigest256(claim[c], claim[d]) = "Success"

(* The parameters of a Keylime rule that is called with the PCRs of d.      *)
RuleParameters(d) == [hash_alg |-> "sha256", pcrs_inquote |-> Pcrs, pcrscid |-> d]

(* If rule keylime_ima succeeds on a list and a claim of PCRs that a quote  *)
(* of PCR 10 vouches for, then while the quote was made the TPM had in PCR  *)
(* 10 only what the runtime policy allows.  List and PCRs may come from     *)
(* anywhere, and be of another time or boot (keylime/public.go:176).       *)
IMAIsSound ==
  \A q \in {x \in Calls : Quoted(x)}, d \in Calls : Vouched(q, d) =>
    \A c \in {x \in Calls : Claimed(x)}, policy \in RuntimePolicies :
      /\ 10 \in Selected(q)
      /\ ValidateIMA(claim[c], [runtime_policy |-> policy], RuleParameters(d), claim[d], TRUE)
           = "Success"
      => \E s \in held[q] : ToSet(s.pcrs[10]) \subseteq policy

(* If rule keylime_mb succeeds on an event log and a claim of PCRs that a   *)
(* quote vouches for, then the log is of the reference state, and while the *)
(* quote was made the TPM had in all the quoted PCRs, but PCR 0, what that  *)
(* log says, wherever log and PCRs come from (keylime/public.go:112-127).  *)
MeasuredBootIsSound ==
  \A q \in {x \in Calls : Quoted(x)}, d \in Calls : Vouched(q, d) =>
    \A c \in {x \in Calls : Claimed(x)}, refstate \in RefStates :
      ValidateMB(claim[c], [mb_refstate |-> refstate], RuleParameters(d), claim[d], TRUE)
        = "Success"
      => \E s \in held[q], log \in refstate :
           \A i \in Selected(q) \ {0} :
             i \in DOMAIN Replay("sha256", log) => Read(s, i) = Replay("sha256", log)[i]

(* Only IMA extends PCR 10.                                                 *)
PCR10IsOfIMA ==
  /\ 10 \in Pcrs
  /\ \A e \in Extensions : e[1] # 10
  /\ \A start \in Starts : \A e \in ToSet(start.eventlog) : e[1] # 10

(* Rule keylime_ima does not raise a false alarm about a platform on which  *)
(* only allowed things happen: it succeeds if PCR 10 was read no later than *)
(* the list and in the same boot, whatever IMA measured between.            *)
IMANoFalseAlarm ==
  PCR10IsOfIMA => \A c \in {x \in Calls : Claimed(x) /\ intent[x] = "ima/asciilog"}, d \in Calls :
    /\ "asciilog" \in DOMAIN claim[c].body
    /\ \E t \in held[c] : claim[c].body.asciilog = t.ima
    /\ PCRsClaimed(d) /\ 10 \in DOMAIN claim[d].body.sha256
    /\ \E s \in held[d] : claim[d].body.sha256[10] = Read(s, 10)
    /\ \A s \in held[d], t \in held[c] : s.resets = t.resets /\ Len(s.ima) <= Len(t.ima)
    => \A policy \in RuntimePolicies : ToSet(claim[c].body.asciilog) \subseteq policy =>
         ValidateIMA(claim[c], [runtime_policy |-> policy], RuleParameters(d), claim[d], TRUE)
           = "Success"

(* What goes wrong in a call is encoded in an error claim (a10httprestv2/   *)
(* public.go:26).                                                          *)
ErrorsAreEncoded == \A c \in Calls : pc[c] # "panic"
=============================================================================
