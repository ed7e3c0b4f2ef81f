------------------------------ MODULE TrustAgent ------------------------------
(***************************************************************************)
(* The trust agent ta10, the platform it runs on and the TPM it asks: what *)
(* its endpoints answer to a request.  An answer is of kind "ok", with a   *)
(* body, "error" (a status that is not 200) or "closed" (the handler       *)
(* panicked, and net/http closed the connection).  What ga10 does with it  *)
(* is in module A10HTTPRESTv2.                                             *)
(***************************************************************************)
EXTENDS KeylimeRules

CONSTANTS
  Pcrs,          \* indexes of the PCRs
  Measurements,  \* what is measured into them
  Starts,        \* ways in which the platform may start
  FirstStart,    \* the way it started first
  Banks,         \* the banks of the TPM
  Scheme,        \* the scheme of each key in the TPM: signature algorithm and hash
  UnsafeMode,    \* the agent was started with -unsafe
  Files          \* contents of files other than the logs

Keys == DOMAIN Scheme

(* What a log may look like: lines of an event log or of an IMA list.       *)
Logs == Seq(Measurements \cup (Pcrs \X Measurements)) \cup {Unparsable}

Firmware == {s.firmware : s \in Starts}

ASSUME TPMAssumption ==
  /\ Pcrs \subseteq 0..23 /\ 0 \in Pcrs /\ "sha256" \in Banks /\ UnsafeMode \in BOOLEAN
  /\ FirstStart \in Starts
  /\ \A s \in Starts : s.safe \in BOOLEAN /\ s.eventlog \in Seq(Pcrs \X Measurements)
  /\ Files \subseteq Logs
  /\ Unparsable \notin Seq(Measurements) \cup Seq(Banks \X Seq(Measurements \cup Firmware))

EventLogs == {s.eventlog : s \in Starts}

(* The platform: what was extended into each PCR since it started, the      *)
(* clock's flag, the firmware and its event log, the list of IMA, and how   *)
(* often the platform was reset.                                            *)
States ==
  [pcrs : [Pcrs -> Seq(Measurements \cup Firmware)], safe : BOOLEAN, firmware : Firmware,
   eventlog : EventLogs, ima : Seq(Measurements), resets : Nat]

(* At the start the firmware extends the PCRs as its log says, but PCR 0    *)
(* with itself first, which the log of the demo machines does not have.     *)
Started(start, resets) ==
  [pcrs |-> [i \in Pcrs |->
     (IF i = 0 THEN <<start.firmware>> ELSE <<>>) \o MeasuredInto(i, start.eventlog)],
   safe |-> start.safe, firmware |-> start.firmware, eventlog |-> start.eventlog,
   ima |-> <<>>, resets |-> resets]

(* The banks measure the same events with different hashes.                 *)
Bank(s, b) == [i \in Pcrs |-> Chain(b, s.pcrs[i])]

(* A PCR is read; the TPM may refuse that.                                  *)
Read(s, i) == Bank(s, "sha256")[i]

(* An index that is not a number of 8 bits counts as 0.                     *)
Indexes(pcrSelection) == {IF i \in 0..255 THEN i ELSE 0 : i \in ToSet(pcrSelection)}

(* What the TPM signs: a digest over the selected PCRs in ascending order,  *)
(* with the hash of the key's scheme, as the caller names none.  Of a bank  *)
(* that it does not have the TPM selects nothing.                          *)
TPMQuote(s, key, nonce, b, selection) ==
  LET chosen == IF b \in Banks THEN selection ELSE {}
  IN  [type |-> "quote", selection |-> <<chosen>>,
       digest |-> Digest(Scheme[key].hash, Bank(s, b), Ascending(chosen)), extraData |-> nonce,
       safe |-> s.safe, firmware |-> s.firmware, key |-> key, sigAlg |-> Scheme[key].alg]

(* An answer with nothing in its body that ga10 looks for.                  *)
Answer(kind) == [kind |-> kind, body |-> <<>>]

Quote(s, params) ==
  IF ~({"pcrSelection", "bank", "tpm2/nonce"} \subseteq DOMAIN params) THEN Answer("closed")
  ELSE IF \/ params["tpm2/nonce"].bytes = Unparsable
          \/ params["tpm2/akhandle"] \notin Keys
          \/ params["tpm2/device"] = Unparsable
          \/ ~(Indexes(params["pcrSelection"]) \subseteq Pcrs) THEN Answer("error")
  ELSE [kind |-> "ok",
        body |-> [quote |-> TPMQuote(s, params["tpm2/akhandle"], params["tpm2/nonce"].bytes,
                                     params["bank"], Indexes(params["pcrSelection"]))]]

(* Which file is read: the log of the kernel, "log", wherever the caller    *)
(* says it is, or in unsafe mode whatever file the caller names.            *)
GetEventLogLocation(params, key) ==
  IF ~UnsafeMode THEN "log" ELSE IF key \in DOMAIN params THEN params[key] ELSE "<nil>"

(* The contents that may be read at a location; a file may not exist.       *)
ReadFile(location, log) ==
  IF location = "log" THEN {log} ELSE IF location = "<nil>" THEN {} ELSE Files

(* What the agent may answer for the intents that do not need the TPM.      *)
Eventlog(s, params) ==
  {Answer("error")} \cup
  {[kind |-> "ok", body |-> [eventlog |-> f]] :
     f \in ReadFile(GetEventLogLocation(params, "uefi/eventlog"), s.eventlog)}

ASCIILog(s, params) ==
  {Answer("error")} \cup
  {[kind |-> "ok", body |-> [asciilog |-> f]] :
     f \in ReadFile(GetEventLogLocation(params, "ima/ASCIIlog"), s.ima)}

Sysinfo == {[kind |-> "ok", body |-> [unsafe |-> UnsafeMode]]}

(* There is no endpoint for txt/log: status 404.                            *)
LogAnswers(s, intent, params) ==
  IF intent = "uefi/eventlog" THEN Eventlog(s, params)
  ELSE IF intent = "ima/asciilog" THEN ASCIILog(s, params)
  ELSE IF intent = "sys/info" THEN Sysinfo
  ELSE {Answer("error")}
=============================================================================
