# Verification of the attestation engine

TLA+ models of the attestation engine GA10 (`src/ga10`) and its trust agent
TA10 (`src/ta10`), what TLC checks of them on small instances, and theorems that
TLAPS proves about them for any size.

GA10 keeps an inventory of machines, asks their trust agents for evidence
(*claims*), judges claims by rules (*results*) and groups both in *sessions*
that are signed when they are closed. Everything is kept in MongoDB; the
functions of `ga10/operations` are called from a REST interface and from a web
form. Every request runs in a goroutine of its own and **no code locks
anything**: an operation is a few database calls, and MongoDB makes one call on
one document atomic, nothing more. That is where most of what is hard comes
from; the rest comes from platforms and coordinators that change while they are
asked about, and from a process whose goroutines can each end it.

## 1. Inventory of the system

| Component | State | Operations | What is hard | What makes it correct |
|---|---|---|---|---|
| Sessions (`operations/sessions.go`, REST `endpointsSession.go`) | collection `sessions`: lists of claim and result ids, closing time, signature | open, close, append a claim, append a result | read, check and replace are separate calls; a replacement can fail after it was applied; crashes | documents are never torn, list only stored items, contain only what was asked for; with one client, operations are atomic |
| Claims, results (`claims.go`, `results.go`) | two collections, only ever added to | add | order of storing and listing | references hold |
| Attestation, verification (`attestation.go`, `verification.go`, REST `endpointsAttestVerify.go`, web `attest.go`) | none of their own; stages of a request | attest, verify, the web form that opens a session, attests, verifies rule by rule, closes | long sequences of calls, each of which can fail or panic; values read before and used after | results are about stored claims; the form's session is complete and closed |
| Inventory (`elements.go`, `policies.go`, `expectedValues.go`, `opaqueobjects.go`) | four collections | add, replace, delete | look-up and change are separate calls | deletions are final and reported once; the log accounts for everything |
| Protocol A10HTTPRESTv2 (`protocols/a10httprestv2`) | the call's parameters | six intents: merge parameters, send, decode | answers that fail, are foreign, repeated or undecodable | errors become error claims |
| Trust agent (`ta10/tpm2`, `ima`, `uefi`, `sys`, `common`) | its unsafe mode; all else is the TPM's and the kernel's | read PCRs, quote, read the event log and the IMA list | the platform changes between registers, between evidence and log, or restarts; unsafe mode reads any file | answers are what the platform held |
| Rules about quotes (`rules/tpm2rules`, `utilities/tpm.go`) | none | pure judgements | lists versus sets, order of registers, kinds of nonces, algorithms of signatures | success implies the expected state |
| Keylime rules (`rules/keylime`) | none | ask the Keylime service, over HTTP, about an event log or an IMA list, with the PCRs of another claim of the session | a log, the PCRs and a quote are three claims, taken at three times | success implies the measured state |
| MarbleRun (`protocols/marblerun`, `rules/marblerun`, `structures/expectedValues.go`) | certificates in the coordinator's element | ask a coordinator, judge quote, manifest, instance | the first quote comes over an unchecked connection; lists of certificates of any length; redeployment; certificates replaced meanwhile | what is accepted comes from an expected enclave |
| Null, sys and test container rules; null, netconf and test container protocols | none | constants, comparison of a field | | (not modelled) |
| Registries (`protocols.go`, `rules.go`) | two maps, filled at start-up | register, look up | Go maps must not be read while they are written; a missing entry is called | complete before the first request |
| Logging (`logging/logging.go`) | collection `logs`, broker, file | write to three sinks in parallel, with a wait group | errors are ignored; the file may not open, and is closed after the wait group's Done; nobody waits for the broker | the sinks keep the order, and tell the truth |
| Health report (`endpointsHealth.go`, `count.go`) | none | count | names of collections | counts agree |
| Start-up, servers, x3270 (`ga10.go`, `services`) | goroutines, a wait group, file descriptors | configure, connect, register, start services, accept | a panic or `Fatal` of any goroutine ends the process, in the middle of what others do | all services, or none |
| Data layer, configuration | connections, a constant | connect, load | either succeeds or panics | (its start in Engine; contents not modelled) |

Components interact by direct calls within a request (web and REST to
operations, operations to protocols, rules, data layer and log), through the
shared collections between requests, and over HTTP with trust agents and
coordinators. There are no callbacks other than the protocol and rule functions
in the registries and the one that checks a coordinator's connection.

## 2. Modules

| Module | Models | Used by |
|---|---|---|
| `SessionDocs` | a session document: what opening, closing and appending make of it | `SessionContract`, `Sessions` |
| `SessionContract` | abstract specification: atomic session operations | refined by `Sessions` |
| `Sessions` | session operations, claims and results as the REST endpoints call them | `AttestVerify` |
| `SessionsProofs` | theorems about `Sessions` | `AttestVerifyProofs` |
| `AttestVerify` | Attest, Verify, postAttest, postVerify and the web form; composes `Sessions` | |
| `AttestVerifyProofs` | theorems about `AttestVerify` | |
| `Items` | elements, policies, expected values, opaque objects | |
| `ItemsProofs` | theorems about `Items` | |
| `TPM2Rules` | rules about quotes, as operators | `TrustAgent` |
| `TPM2RulesProofs` | theorems about these operators | `A10HTTPRESTv2Proofs` |
| `KeylimeRules` | the two Keylime rules and what they rely on of the service, as operators | `A10HTTPRESTv2` |
| `TrustAgent` | platform, TPM and the agent's endpoints, as operators | `A10HTTPRESTv2` |
| `A10HTTPRESTv2` | calls of the protocol while the platform changes; composes agent, protocol and rules | |
| `A10HTTPRESTv2Proofs` | theorems about `A10HTTPRESTv2` and the rules it composes | |
| `MarbleRules` | MarbleRun rules and expected values, as operators | `MarbleRun` |
| `MarbleRun` | calls of that protocol, the client that stores certificates, redeployment | |
| `MarbleRunProofs` | theorems about `MarbleRun` | |
| `Engine` | one life of the process: main, registries, services, file descriptors, logging | |
| `EngineProofs` | theorems about `Engine` | |
| `MC*` | model-checking instances of these | |

How state and actions correspond to the code:

* **Sessions.** `session`, `claims`, `results`, `log` are the collections,
  `opened` the documents that exist. A handler is one request: `pc` is where it
  is, `op`, `sid`, `item` the operation and its arguments, `snap` its copy of
  the session document. An endpoint (`PostSession`, `PutSessionClaim`, ...)
  starts a request; then one action per database call: `Get` (the endpoint's
  look-up), `ReadToClose`/`ReadToAdd`, `AddClaimToSession`/`AddResultToSession`
  (the existence check and the append to the copy), `Write` (ReplaceOne of the
  whole document), `MakeLogEntry`. `ReadFails`, `CheckFails`, `WriteFails` are
  the database's failures; `WriteFails` may happen after the write. `Crash` is
  the death of the process, which loses the requests and keeps the database.
* **AttestVerify** adds to each handler a `stage`, what its caller does when the
  current session operation is done, so that an Attest is a call of the
  protocol, an `AddClaim`, an `AddClaimToSession`, with the error path after each.
* **Items** has the same kind of handlers over four collections in one function
  `store`. A crash needs no action: a handler that never takes another step is one.
  The request to delete an opaque object runs two operations one after the other,
  the second on the element whose itemid is the object's value, if there is one.
* **A10HTTPRESTv2** has one `tpm`, changed by `Extend` and `Restart` at any time,
  and per call its parameters, the answer and the claim made of it. `OtherAnswer`
  is whatever else may be at the end of a URL: a failing connection, another
  service, and (constant `Relay`) one that repeats an earlier quote, which is
  what the rule about nonces is there for. `held` remembers the states the
  platform had during the call. A PCR is the chain of what it was extended with
  since the last start (`Chain`), so that a PCR is explained by exactly one list.
  Bytes are sequences of pieces of one digest's length each: a register is one
  piece, an entry of a claim may be any number of them, and `Digest` is over all
  the pieces, so that entries cut up differently have the same digest, as in
  `checkQuoteDigest256`, which does not look at lengths. The TPM hashes with the
  hash of the key's signing scheme (constant `Scheme`), the rule always with sha256.
  The registers that a digest is over are put in order by `Ascending`, as the
  TPM does and the rule does with its map. A quote has a list of selections, any of
  which may be of no register. An error claim keeps the body that was answered.
  A start measures firmware and then the event log; the kernel puts a measurement
  into the IMA list before it extends PCR 10. Logs are read as they are when the
  request arrives, and in unsafe mode from whatever file the caller names. Of a
  claim of PCRs only bank sha256 is kept, which the rules read. The Keylime
  service is external: `KeylimeRules` says that it accepts an event log of the
  reference state and returns the PCRs that the log explains, which the rule then
  compares, and that it accepts an IMA list of allowed measurements of which a
  prefix explains PCR 10. A rule that takes a missing key for granted, as of an
  error claim (`rules/keylime/public.go:87` and `203`), has the value "panic".
* **MarbleRun** has one coordinator address, at which `deployed` answers, a
  coordinator or not, and one element with `certs`. `server` remembers who answered
  a call. A certificate is a key, its issuer's key and whether it is a CA; `ChainsUp`
  stands for `x509.Verify`. Who is no coordinator may answer with any list of
  certificates and any coordinator's report. The rule compares the last certificate
  with the report, the protocol pins the second and the instance rule uses the first:
  the model has these positions, lists of one to three, and lists whose root did not
  issue what is before it. With a list of one the callback that checks the connection
  panics (`CallbackPanics`). A marble of the coordinator has a certificate that chains
  up to the same root, and connects like a coordinator.
* **Engine** has one `pc` per goroutine of `ga10.go` and the services. A goroutine
  that calls `MakeLogEntry` is `Ready` to go on when the three goroutines that
  `writing` stands for have called Done. An entry is who made it and its number
  there; `log` and `lost` say for each sink which entries were written and which
  writes failed. `opened` are the entries whose goroutine has the log file open: it
  is closed by the deferred Close, a step of its own (`CloseLogfile`) after Done.
  `outbox` is what the broker's client was given: publishing is handing over, and
  `Send` happens when it does, or never if the process ends. `Files` counts the
  descriptors that come and go: listeners, connections and open log files. Killing the process needs no action: the
  logs then hold what they hold in the state it is killed in.
* **SessionContract** is `INSTANCE`d by `Sessions` with `sessions` the documents
  that exist, as a function on `opened`, and the two collections as they are; what
  handlers hold is not part of it. Its actions are the operations, each atomic.

What is abstracted: a hash is what was hashed, a signature what was signed and
by which key, so no two different things collide; a nonce is named by the call
that made it; texts that do not decode are the single value `Unparsable`;
timestamps other than the closing time are left out, since nothing reads them.
MongoDB and HTTP are modelled by what the code relies on: a database call on one
document is atomic and may fail; an HTTP request is answered once or fails.

## 3. Runs

Nine runs must pass, three show that the code contradicts what it, or its
documentation, says. Each property has a mutant: the definition it guards,
changed as a plausible bug would, after which TLC finds the property violated.

| Run | Instance | What it shows |
|---|---|---|
| `Sessions_concurrent` | 3 handlers, 2 sessions, 2 claims, 1 result; faults, lost log entries, crashes | documents list only stored items (`ListsRefer`), are signed exactly if closed and over a prefix of their lists (`SignatureMatches`), contain nothing nobody asked for (`EntriesComeFromRequests`) |
| `Sessions_single_client` | the same with one request per session at a time | appends that were acknowledged stay, closing is final and happens once, the log accounts for both (`AuditTrail`), and the handlers implement the atomic `SessionContract` |
| `Sessions_reopened` (violation) | 2 handlers, 1 session, no fault | an append that had read the session before it was closed writes it back open and unsigned |
| `AttestVerify_concurrent` | 2 handlers on one shared session, faults, crashes, panics | results are about stored claims and tell error claims from others; a claim id that was answered is stored, and listed if nobody else worked on the session |
| `AttestVerify_live` | 2 handlers, one rule up to twice in the form, panics, fairness | requests to close take effect, a form closes its session, and one that ends leaves it signed over exactly its claim and results (`WebSessionComplete`) |
| `AttestVerify_lost_ev` (violation) | one form | the expected value used is not in the result: `ev, err :=` shadows it |
| `Items_requests` | 3 handlers, one item of each kind, an opaque object whose value is the element's itemid and another, faults | a reported deletion is final and reported once; the log accounts for items and deletions |
| `A10HTTPRESTv2_attest` | 2 calls, 2 registers in 2 banks, 2 platform events | the soundness of the rules (`AttestationIsSound`, `PCRsClaimMatchesQuote`), and no false alarm of quoteDigest256 for keys that sign with sha256 |
| `A10HTTPRESTv2_logs` | a quote, a claim of PCRs and a claim of a log; 3 registers, 2 measurements, 2 platform events, unsafe mode, an impostor | what the Keylime rules accept together with the quote is what the TPM held (`MeasuredBootIsSound`, `IMAIsSound`), and a platform whose list only grew raises no alarm |
| `A10HTTPRESTv2_nil_map` (violation) | 1 call | an undecodable quote, or null, is not encoded as an error but panics |
| `MarbleRun_chain` | 2 calls, 3 coordinators, a marble, a stranger, 8 lists of certificates | what the rules accept of an element with two certificates comes from who has a certificate of an expected enclave (`ManifestIsTrusted`), and an instance's certificate from one if the list is a chain (`InstanceOfTrustedCoordinator`), whatever was redeployed, answered and stored meanwhile |
| `Engine_startup` | no service, one or two, 2 clients, 3 descriptors, a write that may fail for each sink | no request meets a registry that is being filled; the logs are in order and true whenever the process ends; the terminal's panic is on record; the process ends up with all services or ends (`ServesAllOrEnds`); the log file is closed after every entry (`LogfilesAreClosed`) |

Bounds and why they are enough. Every conflict in this code is between the read
of one request and the write of another, which two handlers show; the third in
`Sessions_concurrent` and `Items_requests` lets a bystander write between them,
and the claims and results a session can be given are few because a handler adds
one. `Items_requests` has one content, since no property is about what an item says:
a replacement is seen by whether it inserts. Two registers suffice for an order, a selection that is not everything, and
a state torn between two reads; two calls for a quote that belongs to another
call. `MaxEvents` (2) bounds the changes of the platform: one between two reads and one
after, or a restart and what is measured then. `MaxRules` bounds the rules of a
form, per handler; `Handlers` bounds the requests, since each serves one.
`MaxFiles` (3) is as many as a listener and two clients hold, so that another
service finds none for its entry in the log file. `MaxOutbox` (1) is the length of the
queue of the broker's client, which takes one message and hands it to the sender
(the channel of paho.mqtt.golang is unbuffered). `CommandLines` and `MayLose` bound
which services are asked for and which writes fail: the terminal and an http service
together, the web service alone, and one write of each sink, of the entries that the
properties are about. One rule and no protocol are registered: both are registered
by the same kind of call, one after the other. What is proved holds for any values of
these. Three coordinators are one that is expected, the same with another manifest and
one that fails the TCB check; the lists are theirs and what the rule takes or refuses
for another reason. A system in which all requests are served has nothing left
to do, hence `CHECK_DEADLOCK FALSE` everywhere. Symmetry is used
only for invariants and for sets that no `CHOOSE` picks from, and in the run with
the refinement, whose abstract specification is symmetric too; not in the run
with liveness.

Some properties hold under a restriction that the run names. `ClosedOnce`,
`CloseIsFinal` and `AcknowledgedAppendsKept` hold with one client per session, as
the scripts in `scripts/attAutomation` work; with `SingleClient = FALSE` all three
fail, and `Sessions_reopened` keeps one of those failures on record.
`SignatureMatches` speaks of a prefix, because appending to a closed session is
accepted and does not sign again.

Three conditions on what the rules show stand in the properties themselves, since
the code does not check them, and TLC finds each property violated without its own.
`PCRsClaimMatchesQuote`, `IMAIsSound` and `MeasuredBootIsSound` assume that the
entries of the claim of PCRs are digests: rule quoteDigest256 hashes the entries one
after the other, of whatever length (`rules/tpm2rules/public.go:212`), so that a
claim that divides the same bytes differently passes. `NoFalseAlarm` assumes that
the key's scheme has hash sha256: the trust agent leaves the hash to the key
(`ta10/tpm2/endpointstpm2.go:183`), the rule has sha256 only (`public.go:204`).
`ManifestIsTrusted` assumes an element with two certificates, and
`InstanceOfTrustedCoordinator` that the second of two issued the first: the coordinator
rule takes any number, binds only the last to the report, and does not check
who issued the others (`rules/marblerun/public.go:44-75`).

`ManifestIsTrusted` says "has a certificate of an expected coordinator" and not "is
one": the connection is checked for a chain to the pinned root, not for what the
certificate is for, so a marble of that coordinator may answer as well. And a
record of the terminal's panic is in the database and the log file, but only with
the broker's client: it may die with the process.

Fairness (`AttestVerify_live`): a request that the code can continue is continued,
as goroutines are scheduled; nothing makes a client send a request, or the trust
agent answer. The HTTP client has no timeout, so liveness of the form is stated
from the moment the agent has answered. A panic in a handler ends its request,
and the session stays open: the property allows for just that.

Fairness (`Engine_startup`): one weak fairness condition per goroutine, together
with the writes of its log entries, since goroutines are scheduled and the calls
of the database and the broker's client return, and one each for the deferred
closing of the log file and for the goroutine in which the broker's client sends. Nothing makes a client connect
or leave, an entry get lost, or a service that runs fail.

## 4. Proofs

Every safety invariant and the refinement that a passing run checks is proved by
TLAPS, for any number of requests, documents, rules, calls, registers and
platform events, with the faults and crashes that the module has. The proofs of
one module share an invariant that is inductive; its parts are named below.

* `SessionsProofs`: `TypeCorrect`, `ReferencesHold` (`ListsRefer`),
  `SignaturesMatch` (`SignatureMatches`). None is inductive: any handler may at
  any later time write the copy it holds, so the invariant `Inv` says of every
  **copy** what it says of every **document**, namely that its lists refer to
  stored items and that its signature, if any, is over its closing time and a
  prefix of its lists (`Sound`). `Sound` is kept by the functions that change a document
  (`ClosedSound`, `ClaimListedSound`, `ResultListedSound`) and by growth of the
  collections (`SoundGrows`); then there is one lemma per kind of step.
* `SessionsProofs`: `EntriesHold` (`EntriesComeFromRequests`). A copy may hold an entry
  more than the document was given, the one its own handler is about to write, so
  `EntriesInv` counts for a copy the handlers that have appended and its own
  (`CopyAppenders`), and needs that its own is not among the others yet. A count is
  one of a finite set: that only finitely many handlers have begun is part of the
  invariant, so that the theorem assumes nothing of the number of requests.
* `SessionsProofs`: `AuditTrailHolds` (`AuditTrail`), unless log entries are lost (`LogLoss`).
  `TrailInv` says that a document, and a copy apart from what its own handler does
  with it, is accounted for in the log or by a handler about to log (`Accounted`),
  and that an error ends an operation (`Reporting`). The run checks it with one
  client per session; the proof does not need that.
* `SessionsProofs`: `Refinement`, that `Sessions` implements `SessionContract` when
  `SingleClient` is TRUE. Its invariant adds that at most one handler works on a
  session and that what it holds is what the session contains, changed as its
  operation does; then `Write` is the abstract operation and every other step a
  stutter or an insertion.
* `SessionsProofs`, under `SingleClient` too: `ClosingIsFinal`, `ClosingIsUnique` and
  `AppendsAreKept`. From the refinement's invariant every step keeps a closing time
  and extends the lists (`SessionsKept`), and an operation is reported as done only
  by the write of its copy (`SucceededStep`). Two closings cannot both be reported,
  because the second would have to write over an open session.
* `AttestVerifyProofs`: `TypeCorrectAll`, `ResultsReferToClaimsHold`,
  `AcceptedClaimsListedHolds`, and, without faults, `WebSessionCompleteHolds`. A handler
  is in two places at once: in a stage of its caller and in a session operation that
  the stage waits for. `InvAll` relates them (`Sane`): which operation with which
  arguments a stage waits for, whom a handler serves, and that what it chose exists.
  On top of it come the truth of each stored result (`Truthful`), with the claim as it
  was when it was read before the rule ran; that an attached claim stays in a session
  that others leave alone (`Accepted`); and, for the form, what its session holds at
  each stage and before and after each write (`Progress`, with the copy between them,
  `Copy`), from a session that nobody had used before (`Unused`).
* `ItemsProofs`: `TypeCorrect`, `DeletionsAreFinal`, `DeletionsAreUnique` and
  `AuditTrailHolds`. An insertion cannot undo a deletion because its id is fresh
  (`AddsAreFresh`), a replacement cannot because it does not insert. The log
  accounts for what is stored because every insertion, also one that reports an
  error, goes on to log (`AdditionsLogged`).
* `TPM2RulesProofs`: `AscendingLists`, `DigestIsOfSelection` and `SelectionChecked`, about
  the operators, for any finite selection. `Ascending` picks the list by what it is, and
  that there is one is proved by a smallest number of members for which there would
  be none, since induction over a predicate is out of the prover's reach.
* `A10HTTPRESTv2Proofs`: `TypeCorrect` and all six properties of the rules. What a rule
  accepts, it accepts of a claim that may be an impostor's; so `Inv` says of every
  claim that a quote in it signed with the element's key was made by the TPM while the
  call whose nonce it has was open (`Made`, in `Bodies`), and of every call that it holds
  its own nonce, or none that a call makes (`Nonces`). `AttestationIsSoundHolds` and
  `PCRsClaimMatchesQuoteHolds` follow with `DigestIsOfSelection`, which for entries that
  are single pieces takes a digest apart again, and
  `IMAIsSoundHolds` and `MeasuredBootIsSoundHolds` from the latter. That there is no
  false alarm needs more. For `NoFalseAlarmHolds`, every register read so far was in the
  TPM in a state of this call (`ReadInv`). For `IMANoFalseAlarmHolds`, the lists of all
  states of one boot that any call remembers are prefixes of each other, and what is in
  PCR 10 is a prefix of the list (`History`, `Behind`).
* `EngineProofs`: `TypeCorrect`, `RegistriesAreComplete`, `LogsAreInOrder`, `LogIsTrue`
  and `PanicsAreOnRecord`, for any registrations, command lines, clients, descriptors,
  queues of the broker's client and losses.
  The invariant relates where main is to what is registered and which entry it
  made last (`MainInv`), the wait group to the services asked for (`WaitInv`), where
  a service is to where main is (`ServiceInv`), and the sinks to the last entry of
  each goroutine: every earlier one is in all of them, lost there or published, and
  the last in exactly those it is no longer being written to (`LogInv`). From this
  what is published next is preceded by nothing that is in the broker or on its way
  (`InOrder`), and so the broker's client never sends out of order (`OutboxInv`).
* `MarbleRunProofs`: `TypeCorrect`, `TrustedManifests` and `TrustedIssuers`, for any
  calls, peers, certificates, lists, expected values and instances. The
  chain of trust is the invariant: the last certificate of what is in the element, or
  was when a call began, is the root of a coordinator in an enclave as expected
  (`PinsTrusted`), because only what rule coordinator succeeded on is stored
  (`VerifiedListTrusted`); and a manifest is claimed only of who connected
  (`ManifestsPinned`). That who connects to a list of two has a certificate of that
  root's keys is `AnswererIsCertified`: by `RootAssumption` the CAs that these keys
  certify are all that coordinator's, and a chain has no other beginning
  (`ChainsAreCertified`, on the least closed set that `ChainsUp` is).

Assumptions, named in the modules and evaluated by TLC: `IdsAssumption`,
`ConfigAssumption`, `RulesAssumption`, `ItemsAssumption`, `RegistrationAssumption`,
`BoundsAssumption`, `CommandLinesAssumption`, `ListsAssumption` and `TPMAssumption` say what the constants are. `MissingAssumption`
and `RefStatesAssumption` say that the mark for nothing is none of the things, and that
what is no event log is in no reference state. Two are about the world outside.
`CallAssumption`: a nonce that a policy or a caller supplies is a text, which no call
makes at random, and a foreign service, which has no key of the TPM, has no quote
signed with the element's; quotes of the element that are repeated are not foreign
but `Relay`. `RootAssumption`: the keys of a root and its intermediate certificates do
not leave the enclave they were made in, whose report carries the root, and make no CA
of another key. A coordinator whose own binary is updated
and keeps its sealed root, so that one root has two reports, is thereby excluded.

Some theorems have a condition on the constants, and the run that checks the
property has it too: `AuditTrailHolds` of `Sessions` that no log entry is lost,
`WebSessionCompleteHolds` that neither the database nor the process fails, and the
refinement with its consequences that a session has one client. `IMANoFalseAlarm` states
its own condition, that only IMA extends PCR 10 (`PCR10IsOfIMA`).

What the proofs found. The type of a quote's selection was written
`SUBSET Pcrs \ {{}}`, which is that of any set of PCRs, so that TLC checked less than was
meant, and which the code does not ensure either: it is now that the list of selections
is not empty (`utilities/tpm.go:177`), and a quote may be of no register. A list of expected PCRs with a
duplicate is accepted for a larger selection (`tpm2rules/public.go:169`), which
`AttestationIsSound` had taken for impossible: it now says which PCRs held the
attested value, and the run has such a list. A digest over entries of any length
cannot be taken apart, so that three properties need the condition above. And the invariant for the web form
named a stage that does not exist, which TLC could not tell from a true one.

Only model-checked: the liveness properties (`CloseTakesEffect`, `WebClosesSession`,
`ServesAllOrEnds`, `LogfilesAreClosed`), which are out of the prover's reach. That the code does not do what
it says, in the three runs that must fail, is a counterexample and needs no proof.

## 5. Not modelled, and the plan

Not modelled:

* listings and pages, which only read; the health report, whose counts of expected
  values and opaque objects are of collections that do not exist;
* the null, sys and test container rules and the null, netconf and test container
  protocols: constants, or one comparison. `AttestVerify` has every answer that any
  protocol or rule can give;
* the contents of the configuration and of messages to the broker, deployment
  files, the automation scripts;
* which key signs, and how; that two keys or nonces collide;
* the encoding of expected digests: the rules compare hexadecimal text
  (`rules/tpm2rules/public.go:57`), the documentation shows base64.

Hazards without a property, each with its reason in `PROJECT.json`: updates of a
document by two clients; the error told for an append that was made; several expected
values of one pair; indexes of PCRs that do not parse; an element with a single
certificate; the coordinator's expected value without a SignerID.

Next, in this order:

1. What the two conditions on certificates would need in the code, as a variant of rule
   coordinator that checks the length and the chain.
2. The look-up of an expected value when a pair has several (`Items`).
