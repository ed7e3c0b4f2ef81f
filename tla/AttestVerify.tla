---------------------------- MODULE AttestVerify ----------------------------
(***************************************************************************)
(* Attestation and verification: Attest (ga10/operations/attestation.go),  *)
(* Verify (verification.go), the REST endpoints postAttest and postVerify  *)
(* and the web form's processAttest, which opens a session, attests,       *)
(* verifies rule by rule and closes the session.                           *)
(*                                                                         *)
(* They call the operations of module Sessions.  A handler's pc says where *)
(* it is in such a call, "done" when it is in none; its stage says what    *)
(* its caller does then.                                                   *)
(***************************************************************************)
EXTENDS Sessions

CONSTANTS
  Rules, NoRule, \* names in the rule database, and one that is not
  NeedsEV,       \* those whose rule needs an expected value
  MaxRules,      \* bound, per handler: rules ticked on its web form
  Panics         \* TRUE: unknown protocols and rules are asked for, and the code
                 \* of a protocol or a rule may panic

ASSUME RulesAssumption ==
  /\ NeedsEV \subseteq Rules /\ NoRule \notin Rules
  /\ MaxRules \in [Handlers -> Nat] /\ Panics \in BOOLEAN

VARIABLES
  caller,     \* the endpoint a handler serves, or "none"
  stage,      \* what it does when its current operation is done
  mine,       \* processAttest: the id of the session it opened
  ses,        \* the session passed to Attest or Verify; NoId for a blank one
  claim,      \* the claim attested or verified; NoId for none
  asked,      \* the rules to verify the claim with
  nth,        \* how many of them Verify has been called for
  claimDoc,   \* contents of collection "claims"
  resultDoc   \* contents of collection "results"

jobs == <<caller, stage, mine, ses, claim, asked, nth, claimDoc, resultDoc>>
allVars == <<vars, jobs>>

Callers == {"none", "postAttest", "postVerify", "processAttest"}

(* "open" to "close": the call of that name is due, or just returned;       *)
(* "end": the response is sent.                                            *)
Stages == {"none", "open", "fetch", "call", "addClaim", "attach", "attested",
           "verify", "addResult", "attachResult", "close", "end"}

(* What a client posts has no session here, and a result posted is NoResult.*)
Blank == [type |-> "", session |-> NoId]

NoResult == [claim |-> NoId, rule |-> NoRule, value |-> "", session |-> NoId, ev |-> FALSE]

Values == {"", "RuleAnswer", "VerifyCallFailure", "MissingExpectedValue",
           "VerifyClaimErrorAttempt"}

InitAll ==
  /\ Init /\ claims = {} /\ results = {}
  /\ caller = [h \in Handlers |-> "none"]
  /\ stage = [h \in Handlers |-> "none"]
  /\ mine = [h \in Handlers |-> NoId]
  /\ ses = [h \in Handlers |-> NoId]
  /\ claim = [h \in Handlers |-> NoId]
  /\ asked = [h \in Handlers |-> <<>>]
  /\ nth = [h \in Handlers |-> 0]
  /\ claimDoc = [c \in Cids |-> Blank]
  /\ resultDoc = [r \in Rids |-> NoResult]

Working(h) ==
  pc[h] \notin {"idle", "dead"} /\ ~(pc[h] = "done" /\ stage[h] \in {"none", "end"})

At(h, here) == pc[h] = "done" /\ stage[h] = here

GoTo(h, next) == stage' = [stage EXCEPT ![h] = next]

(* The handler enters an operation of module Sessions.                      *)
Call(h, operation, s, i, step, next) ==
  /\ op' = [op EXCEPT ![h] = operation]
  /\ sid' = [sid EXCEPT ![h] = s]
  /\ item' = [item EXCEPT ![h] = i]
  /\ Go(h, step) /\ GoTo(h, next)
  /\ UNCHANGED <<stores, snap, outcome>>

(* A panic in a request: net/http drops the connection, the process lives.  *)
Panic(h) ==
  /\ Panics /\ Go(h, "dead")
  /\ UNCHANGED <<stores, op, sid, item, snap, outcome, jobs>>

-----------------------------------------------------------------------------
(* Requests.                                                                *)
Accept(h, endpoint, next) ==
  /\ pc[h] = "idle" /\ Go(h, "done")
  /\ caller' = [caller EXCEPT ![h] = endpoint]
  /\ GoTo(h, next)
  /\ UNCHANGED <<stores, op, sid, item, snap, outcome, mine, nth, claimDoc, resultDoc>>

PostAttest(h) ==
  \E s \in Sids :
    /\ Accept(h, "postAttest", "fetch")
    /\ ses' = [ses EXCEPT ![h] = s]
    /\ UNCHANGED <<claim, asked>>

PostVerify(h) ==
  \E s \in Sids, c \in Cids, r \in Rules \cup {NoRule} :
    /\ Accept(h, "postVerify", "fetch")
    /\ ses' = [ses EXCEPT ![h] = s]
    /\ claim' = [claim EXCEPT ![h] = c]
    /\ asked' = [asked EXCEPT ![h] = <<r>>]

(* Attesting only, the form's Av = "AO", is verifying with no rule.         *)
ProcessAttest(h) ==
  \E n \in 0..MaxRules[h] :
    \E rs \in [1..n -> IF Panics THEN Rules \cup {NoRule} ELSE Rules] :
      /\ Accept(h, "processAttest", "open")
      /\ asked' = [asked EXCEPT ![h] = rs]
      /\ UNCHANGED <<ses, claim>>

(* The requests of module Sessions.  What a client posts is stored as it is.*)
OtherRequest(h) ==
  /\ Request(h)
  /\ IF op'[h] = "AddClaim"
     THEN \E type \in {"data", "*ERROR"} :
            claimDoc' = [claimDoc EXCEPT ![item'[h]] = [type |-> type, session |-> NoId]]
     ELSE UNCHANGED claimDoc
  /\ IF op'[h] = "AddResult"
     THEN resultDoc' = [resultDoc EXCEPT ![item'[h]] = NoResult]
     ELSE UNCHANGED resultDoc
  /\ UNCHANGED <<caller, stage, mine, ses, claim, asked, nth>>

-----------------------------------------------------------------------------
(* processAttest opens a session.  It drops the error, and goes on with the *)
(* id of a session that may not be stored.                                 *)
WebOpen(h) ==
  /\ At(h, "open")
  /\ \E s \in Fresh(Sids) :
       /\ Call(h, "OpenSession", s, NoId, "insert", "fetch")
       /\ mine' = [mine EXCEPT ![h] = s]
       /\ ses' = [ses EXCEPT ![h] = s]
  /\ UNCHANGED <<caller, claim, asked, nth, claimDoc, resultDoc>>

(* The look-ups before Attest drop their errors too: a session that is not  *)
(* found becomes a blank one.                                              *)
FetchToAttest(h) ==
  /\ At(h, "fetch") /\ caller[h] \in {"postAttest", "processAttest"}
  /\ \/ ses[h] \in opened /\ UNCHANGED ses
     \/ /\ ses[h] \notin opened \/ Faults
        /\ ses' = [ses EXCEPT ![h] = NoId]
  /\ GoTo(h, "call")
  /\ UNCHANGED <<vars, caller, mine, claim, asked, nth, claimDoc, resultDoc>>

(* Attest calls the element's protocol and stores what it answers as a      *)
(* claim; an unknown protocol has no call function.                        *)
CallProtocol(h) ==
  /\ At(h, "call")
  /\ \/ \E c \in Fresh(Cids), type \in {"data", "*ERROR"} :
          /\ Call(h, "AddClaim", NoId, c, "insert", "addClaim")
          /\ claim' = [claim EXCEPT ![h] = c]
          /\ claimDoc' = [claimDoc EXCEPT ![c] = [type |-> type, session |-> ses[h]]]
          /\ UNCHANGED <<caller, mine, ses, asked, nth, resultDoc>>
     \/ Panic(h)

(* Attest returns; with an error, it returns no claim id.                   *)
AttestReturns(h, c) ==
  /\ claim' = [claim EXCEPT ![h] = c]
  /\ GoTo(h, IF caller[h] = "postAttest" THEN "end" ELSE "attested")
  /\ UNCHANGED <<vars, caller, mine, ses, asked, nth, claimDoc, resultDoc>>

ClaimAdded(h) ==
  /\ At(h, "addClaim")
  /\ IF outcome[h] = "ok"
     THEN /\ Call(h, "AddClaimToSession", ses[h], claim[h], "read", "attach")
          /\ UNCHANGED <<caller, mine, ses, claim, asked, nth, claimDoc, resultDoc>>
     ELSE AttestReturns(h, NoId)

(* Mutant of ClaimAttached: the error of AddClaimToSession is ignored.      *)
ClaimAttachedAnyway(h) == At(h, "attach") /\ AttestReturns(h, claim[h])

ClaimAttached(h) ==
  /\ At(h, "attach")
  /\ AttestReturns(h, IF outcome[h] = "ok" THEN claim[h] ELSE NoId)

(* processAttest reads the claim back; not found, it verifies a blank one.  *)
WebReadClaim(h) ==
  /\ At(h, "attested")
  /\ \/ claim[h] \in claims /\ UNCHANGED claim
     \/ /\ claim[h] \notin claims \/ Faults
        /\ claim' = [claim EXCEPT ![h] = NoId]
  /\ GoTo(h, "verify")
  /\ UNCHANGED <<vars, caller, mine, ses, asked, nth, claimDoc, resultDoc>>

(* Mutants of CanVerify: one of the errors of the look-ups is ignored.      *)
CanVerifyAnyRule(h) == claim[h] \in claims /\ ses[h] \in opened

CanVerifyAnyClaim(h) == asked[h][1] \in Rules /\ ses[h] \in opened

(* postVerify gives up when the claim, rule or session is not found.        *)
CanVerify(h) == claim[h] \in claims /\ asked[h][1] \in Rules /\ ses[h] \in opened

FetchToVerify(h) ==
  /\ At(h, "fetch") /\ caller[h] = "postVerify"
  /\ \/ CanVerify(h) /\ GoTo(h, "verify")
     \/ (~CanVerify(h) \/ Faults) /\ GoTo(h, "end")
  /\ UNCHANGED <<vars, caller, mine, ses, claim, asked, nth, claimDoc, resultDoc>>

-----------------------------------------------------------------------------
(* What Verify can report of a claim: a claim that holds an error is not    *)
(* verified; a rule may need an expected value for its element and policy, *)
(* which is then found or not; a rule answers or fails.                    *)
ClaimOf(h) == IF claim[h] = NoId THEN Blank ELSE claimDoc[claim[h]]

Verdicts(h, rule) ==
  IF ClaimOf(h).type = "*ERROR"
  THEN {"VerifyClaimErrorAttempt"}
  ELSE {"RuleAnswer", "VerifyCallFailure"}
         \cup {value \in {"MissingExpectedValue"} : rule \in NeedsEV}

(* The expected value found goes into a variable of an inner scope          *)
(* (verification.go:90), so the result and its signature hold none.        *)
Verify(h) ==
  /\ At(h, "verify") /\ nth[h] < Len(asked[h])
  /\ LET rule == asked[h][nth[h] + 1]
     IN \/ /\ rule \in Rules \/ ClaimOf(h).type = "*ERROR"
           /\ \E r \in Fresh(Rids), value \in Verdicts(h, rule) :
                /\ Call(h, "AddResult", NoId, r, "insert", "addResult")
                /\ resultDoc' = [resultDoc EXCEPT ![r] =
                     [claim |-> claim[h], rule |-> rule, value |-> value,
                      session |-> ses[h], ev |-> FALSE]]
           /\ nth' = [nth EXCEPT ![h] = @ + 1]
           /\ UNCHANGED <<caller, mine, ses, claim, asked, claimDoc>>
        \/ ClaimOf(h).type # "*ERROR" /\ Panic(h)

(* Mutant of VerifyReturns: it ends the request after the first rule.       *)
VerifyReturnsAtOnce(h) ==
  /\ GoTo(h, "end")
  /\ UNCHANGED <<vars, caller, mine, ses, claim, asked, nth, claimDoc, resultDoc>>

VerifyReturns(h) ==
  /\ GoTo(h, IF caller[h] = "postVerify" THEN "end" ELSE "verify")
  /\ UNCHANGED <<vars, caller, mine, ses, claim, asked, nth, claimDoc, resultDoc>>

ResultAdded(h) ==
  /\ At(h, "addResult")
  /\ IF outcome[h] = "ok"
     THEN /\ Call(h, "AddResultToSession", ses[h], item[h], "read", "attachResult")
          /\ UNCHANGED <<caller, mine, ses, claim, asked, nth, claimDoc, resultDoc>>
     ELSE VerifyReturns(h)

ResultAttached(h) == At(h, "attachResult") /\ VerifyReturns(h)

(* Mutant of WebClose: the last rule is skipped.                            *)
WebCloseEarly(h) ==
  /\ At(h, "verify") /\ caller[h] = "processAttest" /\ nth[h] + 1 >= Len(asked[h])
  /\ Call(h, "CloseSession", mine[h], NoId, "read", "close")
  /\ UNCHANGED <<caller, mine, ses, claim, asked, nth, claimDoc, resultDoc>>

(* After the last rule processAttest closes its session and drops the error.*)
WebClose(h) ==
  /\ At(h, "verify") /\ caller[h] = "processAttest" /\ nth[h] = Len(asked[h])
  /\ Call(h, "CloseSession", mine[h], NoId, "read", "close")
  /\ UNCHANGED <<caller, mine, ses, claim, asked, nth, claimDoc, resultDoc>>

WebRedirect(h) ==
  /\ At(h, "close") /\ GoTo(h, "end")
  /\ UNCHANGED <<vars, caller, mine, ses, claim, asked, nth, claimDoc, resultDoc>>

-----------------------------------------------------------------------------
(* The process dies and is restarted: see Crash of module Sessions.         *)
Restart ==
  /\ Faults /\ \E h \in Handlers : Working(h)
  /\ pc' = [h \in Handlers |-> IF Working(h) THEN "dead" ELSE pc[h]]
  /\ UNCHANGED <<stores, op, sid, item, snap, outcome, jobs>>

(* A step inside an operation of module Sessions.  Attest and Verify leave  *)
(* the itemid of what they add blank, so it is never refused.              *)
OperationStep(h) ==
  /\ Step(h) /\ (stage[h] # "none" => ~RefuseItemID(h))
  /\ UNCHANGED jobs

LocalStep(h) ==
  \/ OperationStep(h)
  \/ WebOpen(h)
  \/ FetchToAttest(h)
  \/ ClaimAdded(h)
  \/ ClaimAttached(h)
  \/ WebReadClaim(h)
  \/ FetchToVerify(h)
  \/ Verify(h)
  \/ ResultAdded(h)
  \/ ResultAttached(h)
  \/ WebClose(h)
  \/ WebRedirect(h)

NextAll ==
  \/ Restart
  \/ \E h \in Handlers :
       \/ OtherRequest(h)
       \/ PostAttest(h)
       \/ PostVerify(h)
       \/ ProcessAttest(h)
       \/ LocalStep(h)
       \/ CallProtocol(h)

SpecAll == InitAll /\ [][NextAll]_allVars

(* Goroutines that can run are run and MongoDB answers.  Nothing is assumed *)
(* of CallProtocol: the http client that waits for the trust agent has no  *)
(* timeout, and may wait for ever.                                         *)
FairSpecAll == SpecAll /\ \A h \in Handlers : WF_allVars(LocalStep(h))

-----------------------------------------------------------------------------
(***************************************************************************)
(* Properties.                                                             *)
(***************************************************************************)
(* Every variable keeps its type, and postVerify verifies only with a rule  *)
(* and a session it has found.                                             *)
TypeOKAll ==
  /\ Typed
  /\ caller \in [Handlers -> Callers]
  /\ stage \in [Handlers -> Stages]
  /\ mine \in [Handlers -> Sids \cup {NoId}]
  /\ ses \in [Handlers -> Sids \cup {NoId}]
  /\ claim \in [Handlers -> Cids \cup {NoId}]
  /\ asked \in [Handlers -> Seq(Rules \cup {NoRule})]
  /\ nth \in [Handlers -> Nat]
  /\ claimDoc \in [Cids -> [type : {"", "data", "*ERROR"}, session : Sids \cup {NoId}]]
  /\ resultDoc \in [Rids -> [claim : Cids \cup {NoId}, rule : Rules \cup {NoRule},
                            value : Values, session : Sids \cup {NoId}, ev : BOOLEAN]]
  /\ \A h \in Handlers :
       /\ caller[h] = "none" <=> stage[h] = "none"
       /\ nth[h] <= Len(asked[h])
       /\ caller[h] = "postVerify" /\ stage[h] \notin {"fetch", "end"}
            => ses[h] \in opened /\ asked[h][1] \in Rules

(* No other request was about session s.                                    *)
Unshared(h, s) == \A g \in Handlers \ {h} : s \notin {sid[g], ses[g], mine[g]}

(* A client that postAttest answered with a claim id finds the claim stored *)
(* and in its session, if nobody else worked on the session: a claim that   *)
(* could not be attached is answered with an error (attestation.go:88-91).  *)
AcceptedClaimsListed ==
  \A h \in Handlers :
    caller[h] = "postAttest" /\ At(h, "end") /\ claim[h] # NoId
      => /\ claim[h] \in claims
         /\ Unshared(h, ses[h]) => Listed(ses[h], claim[h])

(* Whatever handlers interleave, every result that Verify stored is about a *)
(* stored claim and says that the claim was not verified exactly when it    *)
(* holds an error; or it is about no claim, which happens when the web form *)
(* verifies after its Attest failed (verification.go: checkClaimError on    *)
(* the claim that was read before).                                         *)
ResultsReferToClaims ==
  \A r \in results :
    LET d == resultDoc[r]
        ofError == d.value = "VerifyClaimErrorAttempt"
    IN d.value # "" =>
         \/ d.claim \in claims /\ (ofError <=> claimDoc[d.claim].type = "*ERROR")
         \/ d.claim = NoId /\ ~ofError

(* When the web form's request ends, its session is signed over exactly the *)
(* claim made for it and one result per rule ticked, in order, if nothing   *)
(* failed and nobody else worked on it (attest.go: processAttest).          *)
WebSessionComplete ==
  \A h \in Handlers :
    caller[h] = "processAttest" /\ At(h, "end") /\ Unshared(h, mine[h]) =>
      LET signed == session[mine[h]].footer
      IN /\ signed.claims = <<claim[h]>>
         /\ Len(signed.results) = Len(asked[h])
         /\ \A k \in DOMAIN asked[h] :
              /\ resultDoc[signed.results[k]].rule = asked[h][k]
              /\ resultDoc[signed.results[k]].claim = claim[h]

(* Once the trust agent has answered, the session the web form opened is    *)
(* eventually closed, unless a rule panics (attest.go:104).                 *)
WebClosesSession ==
  \A h \in Handlers, s \in Sids :
    (caller[h] = "processAttest" /\ stage[h] = "addClaim" /\ mine[h] = s)
      ~> (session[s].closed # 0 \/ pc[h] = "dead")

(* A result that holds the answer of a rule that needs an expected value    *)
(* holds that value (templates/result.html:16 links it from the result).    *)
ExpectedValueRecorded ==
  \A r \in results :
    LET d == resultDoc[r] IN d.value = "RuleAnswer" /\ d.rule \in NeedsEV => d.ev
=============================================================================
