------------------------- MODULE AttestVerifyProofs -------------------------
(***************************************************************************)
(* Theorems about AttestVerify, for any number of handlers, sessions,      *)
(* claims, results and rules.                                              *)
(***************************************************************************)
EXTENDS AttestVerify, SessionsProofs

(* The operations of module Sessions have arguments they can work with.     *)
(* One that reads a session may be given NoId, but does not find it then.   *)
Args(h) ==
  /\ op[h] = "none" => pc[h] \in {"idle", "done", "dead"}
  /\ op[h] \in Inserts => pc[h] \in {"insert", "log", "done", "dead"}
  /\ op[h] = "OpenSession" => sid[h] \in Sids
  /\ op[h] \in {"AddClaim", "AddClaimToSession"} => item[h] \in Cids
  /\ op[h] \in {"AddResult", "AddResultToSession"} => item[h] \in Rids
  /\ pc[h] \in {"check", "write"} => sid[h] \in opened
  /\ pc[h] = "write" /\ op[h] = "AddClaimToSession" => Holds(snap[h].claims, item[h])

(* Each endpoint goes through stages of its own, and works on no session    *)
(* but the one it opened or looked up.                                     *)
Serves(h) ==
  /\ pc[h] = "idle" =>
       /\ caller[h] = "none" /\ nth[h] = 0
       /\ sid[h] = NoId /\ mine[h] = NoId /\ ses[h] = NoId /\ claim[h] = NoId
  /\ caller[h] = "none" <=> stage[h] = "none"
  /\ caller[h] = "postAttest" => stage[h] \in {"fetch", "call", "addClaim", "attach", "end"}
  /\ caller[h] = "postVerify" =>
       stage[h] \in {"fetch", "verify", "addResult", "attachResult", "end"}
  /\ caller[h] # "processAttest" =>
       mine[h] = NoId /\ (stage[h] \in {"fetch", "call", "verify"} => sid[h] = NoId)
  /\ caller[h] = "processAttest" =>
       /\ sid[h] \in {mine[h], NoId} /\ ses[h] \in {mine[h], NoId}
       /\ mine[h] = NoId <=> stage[h] = "open"
  /\ stage[h] \in {"open", "call", "attested", "verify", "end"} => pc[h] \in {"done", "dead"}

(* Which operation a stage waits for, and with which arguments.             *)
Waits(h) ==
  /\ stage[h] = "fetch" /\ caller[h] = "processAttest" =>
       op[h] = "OpenSession" /\ sid[h] = mine[h] /\ ses[h] = mine[h]
  /\ stage[h] = "addClaim" =>
       /\ op[h] = "AddClaim" /\ sid[h] = NoId /\ item[h] = claim[h]
       /\ pc[h] \in {"log", "done"} /\ outcome[h] = "ok" => claim[h] \in claims
  /\ stage[h] = "attach" =>
       op[h] = "AddClaimToSession" /\ sid[h] = ses[h] /\ item[h] = claim[h] /\ claim[h] \in claims
  /\ stage[h] = "addResult" => op[h] = "AddResult" /\ sid[h] = NoId
  /\ stage[h] = "attachResult" => op[h] = "AddResultToSession" /\ sid[h] = ses[h]
  /\ stage[h] = "close" => op[h] = "CloseSession" /\ sid[h] = mine[h]
  /\ stage[h] \in {"verify", "addResult", "attachResult", "close"} =>
       claim[h] \in claims \cup {NoId}

(* What is verified.                                                        *)
Chosen(h) ==
  /\ nth[h] <= Len(asked[h])
  /\ caller[h] = "postVerify" /\ stage[h] \notin {"fetch", "end"}
       => ses[h] \in opened /\ asked[h][1] \in Rules

JobsTyped ==
  /\ caller \in [Handlers -> Callers]
  /\ stage \in [Handlers -> Stages]
  /\ mine \in [Handlers -> Sids \cup {NoId}]
  /\ ses \in [Handlers -> Sids \cup {NoId}]
  /\ claim \in [Handlers -> Cids \cup {NoId}]
  /\ asked \in [Handlers -> Seq(Rules \cup {NoRule})]
  /\ nth \in [Handlers -> Nat]
  /\ claimDoc \in [Cids -> [type : {"", "data", "*ERROR"}, session : Sids \cup {NoId}]]
  /\ resultDoc \in [Rids -> [claim : Cids \cup {NoId}, rule : Rules \cup {NoRule},
                            value : Values, session : Sids \cup {NoId}, ev : BOOLEAN]]

Sane(h) == Args(h) /\ Serves(h) /\ Waits(h) /\ Chosen(h)

InvAll == Typed /\ JobsTyped /\ \A h \in Handlers : Sane(h)

-----------------------------------------------------------------------------
(***************************************************************************)
(* How a step of one handler affects the others.                           *)
(***************************************************************************)
(* Handler g does not move, and the collections grow at most.               *)
Still(g) ==
  /\ pc'[g] = pc[g] /\ op'[g] = op[g] /\ sid'[g] = sid[g] /\ item'[g] = item[g]
  /\ snap'[g] = snap[g] /\ outcome'[g] = outcome[g]
  /\ caller'[g] = caller[g] /\ stage'[g] = stage[g] /\ mine'[g] = mine[g] /\ ses'[g] = ses[g]
  /\ claim'[g] = claim[g] /\ asked'[g] = asked[g] /\ nth'[g] = nth[g]

Grow == opened \subseteq opened' /\ claims \subseteq claims' /\ results \subseteq results'

LEMMA StillSane ==
  ASSUME NEW g \in Handlers, Sane(g), Still(g), Grow
  PROVE  Sane(g)'
<1> USE DEF Sane, Still, Grow
<1>1. Args(g)'
  BY DEF Args
<1>2. Serves(g)'
  BY DEF Serves
<1>3. Waits(g)'
  BY DEF Waits
<1>4. Chosen(g)'
  BY DEF Chosen
<1> QED
  BY <1>1, <1>2, <1>3, <1>4

LEMMA InitInvAll == InitAll => InvAll
<1> SUFFICES ASSUME InitAll PROVE InvAll
  OBVIOUS
<1>1. NewSession \in Document
  BY NewSound DEF Sound
<1>2. Typed
  BY <1>1 DEF InitAll, Init, Typed, Steps, Outcomes
<1>3. JobsTyped
  <2>1. <<>> \in Seq(Rules \cup {NoRule})
    OBVIOUS
  <2>2. Blank \in [type : {"", "data", "*ERROR"}, session : Sids \cup {NoId}]
    BY DEF Blank
  <2>3. NoResult \in [claim : Cids \cup {NoId}, rule : Rules \cup {NoRule},
                     value : Values, session : Sids \cup {NoId}, ev : BOOLEAN]
    BY DEF NoResult, Values
  <2> QED
    BY <2>1, <2>2, <2>3 DEF InitAll, JobsTyped, Callers, Stages
<1>4. ASSUME NEW h \in Handlers PROVE Sane(h)
  BY DEF InitAll, Init, Sane, Args, Serves, Waits, Chosen, Inserts
<1> QED
  BY <1>2, <1>3, <1>4 DEF InvAll

(* A handler starts an operation with arguments of the operation's types.   *)
Entered(h, o, s, i, step) ==
  /\ op' = [op EXCEPT ![h] = o] /\ sid' = [sid EXCEPT ![h] = s]
  /\ item' = [item EXCEPT ![h] = i] /\ pc' = [pc EXCEPT ![h] = step]
  /\ UNCHANGED <<stores, snap, outcome>>

LEMMA EnteredTyped ==
  ASSUME InvAll, NEW h \in Handlers, NEW o \in Operations, NEW s \in Sids \cup {NoId},
         NEW i \in Cids \cup Rids \cup {NoId}, NEW step \in {"get", "read", "insert"},
         o \in Inserts => step = "insert",
         o = "OpenSession" => s \in Sids,
         o \in {"AddClaim", "AddClaimToSession"} => i \in Cids,
         o \in {"AddResult", "AddResultToSession"} => i \in Rids,
         Entered(h, o, s, i, step)
  PROVE  /\ Typed' /\ Grow /\ Args(h)'
         /\ op'[h] = o /\ sid'[h] = s /\ item'[h] = i /\ pc'[h] = step
         /\ \A g \in Handlers \ {h} :
              /\ pc'[g] = pc[g] /\ op'[g] = op[g] /\ sid'[g] = sid[g] /\ item'[g] = item[g]
              /\ snap'[g] = snap[g] /\ outcome'[g] = outcome[g]
<1>1. Typed'
  BY DEF Entered, InvAll, Typed, stores, Steps
<1>2. /\ op'[h] = o /\ sid'[h] = s /\ item'[h] = i /\ pc'[h] = step
      /\ \A g \in Handlers \ {h} :
           /\ pc'[g] = pc[g] /\ op'[g] = op[g] /\ sid'[g] = sid[g] /\ item'[g] = item[g]
           /\ snap'[g] = snap[g] /\ outcome'[g] = outcome[g]
  BY DEF Entered, InvAll, Typed
<1>3. Args(h)'
  BY <1>2 DEF Args, Operations, Inserts
<1>4. Grow
  BY DEF Entered, stores, Grow
<1> QED
  BY <1>1, <1>2, <1>3, <1>4

-----------------------------------------------------------------------------
(***************************************************************************)
(* Steps inside an operation of module Sessions.                           *)
(***************************************************************************)
LEMMA StepFrame ==
  ASSUME InvAll, NEW h \in Handlers, Step(h)
  PROVE  /\ UNCHANGED <<op, sid, item>> /\ Grow
         /\ pc[h] \notin {"idle", "done", "dead"} /\ pc'[h] \notin {"idle", "get", "insert", "dead"}
         /\ \A g \in Handlers \ {h} :
              pc'[g] = pc[g] /\ snap'[g] = snap[g] /\ outcome'[g] = outcome[g]
<1> USE DEF InvAll, Typed, Go, Return, stores, Grow
<1>1. CASE OpenSession(h) \/ AddClaim(h) \/ AddResult(h)
  BY <1>1 DEF OpenSession, AddClaim, AddResult, InsertOne
<1>2. CASE RefuseItemID(h) \/ Get(h) \/ ReadFails(h) \/ CheckFails(h)
  BY <1>2 DEF RefuseItemID, Get, ReadFails, CheckFails
<1>3. CASE ReadToClose(h) \/ ReadToAdd(h) \/ AddClaimToSession(h) \/ AddResultToSession(h)
  BY <1>3 DEF ReadToClose, ReadToAdd, AddClaimToSession, AddResultToSession
<1>4. CASE Write(h) \/ WriteFails(h) \/ MakeLogEntry(h)
  BY <1>4 DEF Write, WriteFails, MakeLogEntry
<1> QED
  BY <1>1, <1>2, <1>3, <1>4 DEF Step

LEMMA StepTyped ==
  ASSUME InvAll, NEW h \in Handlers, Step(h)
  PROVE  Typed'
<1> USE DEF InvAll, Typed, Go, Return, stores, Steps, Outcomes
<1>a. Args(h)
  BY DEF Sane
<1>1. CASE OpenSession(h)
  BY <1>a, <1>1 DEF OpenSession, InsertOne, Args
<1>2. CASE AddClaim(h)
  BY <1>a, <1>2 DEF AddClaim, InsertOne, Args
<1>3. CASE AddResult(h)
  BY <1>a, <1>3 DEF AddResult, InsertOne, Args
<1>4. CASE RefuseItemID(h) \/ Get(h) \/ ReadFails(h) \/ CheckFails(h)
  BY <1>4 DEF RefuseItemID, Get, ReadFails, CheckFails
<1>5. CASE ReadToClose(h)
  <2>1. sid[h] \in Sids /\ session[sid[h]] \in Document /\ clock + 1 \in Nat
    BY <1>5 DEF ReadToClose, Found
  <2>2. ClosedAt(session[sid[h]], clock + 1) \in Document
    BY <2>1 DEF ClosedAt, HashablePart, Document, Footer
  <2> QED
    BY <1>5, <2>1, <2>2 DEF ReadToClose
<1>6. CASE ReadToAdd(h)
  BY <1>6 DEF ReadToAdd, Found
<1>7. CASE AddClaimToSession(h)
  <2>1. ClaimListed(snap[h], item[h]) \in Document
    BY <1>a, <1>7 DEF AddClaimToSession, Args, ClaimListed, Document, Footer
  <2> QED
    BY <1>7, <2>1 DEF AddClaimToSession
<1>8. CASE AddResultToSession(h)
  <2>1. ResultListed(snap[h], item[h]) \in Document
    BY <1>a, <1>8 DEF AddResultToSession, Args, ResultListed, Document, Footer
  <2> QED
    BY <1>8, <2>1 DEF AddResultToSession
<1>9. CASE Write(h) \/ WriteFails(h)
  BY <1>9 DEF Write, WriteFails
<1>10. CASE MakeLogEntry(h)
  BY <1>a, <1>10 DEF MakeLogEntry, Entry, Args
<1> QED
  BY <1>1, <1>2, <1>3, <1>4, <1>5, <1>6, <1>7, <1>8, <1>9, <1>10 DEF Step

(* What an operation needs to know about itself.                            *)
LEMMA StepArgs ==
  ASSUME InvAll, NEW h \in Handlers, Step(h)
  PROVE  Args(h)'
<1> USE DEF InvAll, Typed, Go, Return, stores
<1>1. UNCHANGED <<op, sid, item>> /\ Grow /\ pc[h] \notin {"idle", "done", "dead"}
  BY StepFrame
<1>2. Args(h)
  BY DEF Sane
<1>3. pc'[h] \in {"check", "write"} => sid[h] \in opened
  <2>1. CASE Found(h) \/ pc[h] = "check"
    BY <1>2, <2>1 DEF Found, Args
  <2>2. CASE ~Found(h) /\ pc[h] # "check"
    BY <2>2 DEF Step, OpenSession, AddClaim, AddResult, InsertOne, RefuseItemID, Get, ReadFails,
       ReadToClose, ReadToAdd, CheckFails, AddClaimToSession, AddResultToSession, Write,
       WriteFails, MakeLogEntry
  <2> QED
    BY <2>1, <2>2
<1>4. pc'[h] = "write" /\ op[h] = "AddClaimToSession" => Holds(snap'[h].claims, item[h])
  <2> SUFFICES ASSUME pc'[h] = "write", op[h] = "AddClaimToSession"
               PROVE  Holds(snap'[h].claims, item[h])
    OBVIOUS
  <2>1. AddClaimToSession(h)
    BY DEF Step, OpenSession, AddClaim, AddResult, InsertOne, RefuseItemID, Get, ReadFails,
       ReadToClose, ReadToAdd, CheckFails, AddResultToSession, Write, WriteFails, MakeLogEntry
  <2>2. snap'[h].claims = Append(snap[h].claims, item[h])
    BY <2>1 DEF AddClaimToSession, ClaimListed
  <2>3. snap[h].claims \in Seq(Cids) /\ item[h] \in Cids
    BY <1>2 DEF Document, Args
  <2> QED
    BY <2>2, <2>3, HoldsAppended
<1>5. op[h] \in Inserts => pc'[h] \in {"insert", "log", "done", "dead"}
  BY <1>1, <1>2 DEF Args, Step, OpenSession, AddClaim, AddResult, InsertOne,
     RefuseItemID, Get, ReadFails, ReadToClose, ReadToAdd, CheckFails, AddClaimToSession,
     AddResultToSession, Write, WriteFails, MakeLogEntry
<1> QED
  BY <1>1, <1>2, <1>3, <1>4, <1>5 DEF Args, Grow

(* The stage of a handler is the same, and what it waits for holds on.      *)
LEMMA OperationStepInv ==
  ASSUME InvAll, NEW h \in Handlers, OperationStep(h)
  PROVE  InvAll'
<1>1. Step(h) /\ UNCHANGED jobs
  BY DEF OperationStep
<1>2. UNCHANGED <<op, sid, item>> /\ Grow
      /\ pc[h] \notin {"idle", "done", "dead"} /\ pc'[h] \notin {"idle", "get", "insert", "dead"}
      /\ \A g \in Handlers \ {h} :
           pc'[g] = pc[g] /\ snap'[g] = snap[g] /\ outcome'[g] = outcome[g]
  BY <1>1, StepFrame
<1>3. Typed' /\ JobsTyped'
  BY <1>1, StepTyped DEF InvAll, JobsTyped, jobs
<1>4. Args(h)'
  BY <1>1, StepArgs
<1>5. Serves(h)'
  BY <1>1, <1>2 DEF InvAll, Sane, Serves, jobs
<1>6. Chosen(h)'
  BY <1>1, <1>2 DEF InvAll, Sane, Chosen, jobs, Grow
<1>7. Waits(h)'
  <2>1. ASSUME stage[h] = "addClaim", pc'[h] \in {"log", "done"}, outcome'[h] = "ok"
        PROVE  claim[h] \in claims'
    <3>1. op[h] = "AddClaim" /\ item[h] = claim[h]
          /\ (pc[h] \in {"log", "done"} /\ outcome[h] = "ok" => claim[h] \in claims)
      BY <2>1 DEF InvAll, Sane, Waits
    <3>2. CASE pc[h] = "log"
      BY <1>1, <1>2, <2>1, <3>1, <3>2 DEF Step, OpenSession, AddClaim, AddResult, InsertOne,
         RefuseItemID, Get, ReadFails, ReadToClose, ReadToAdd, CheckFails, AddClaimToSession,
         AddResultToSession, Write, WriteFails, MakeLogEntry, Grow
    <3>3. CASE pc[h] # "log"
      <4>1. pc[h] = "insert"
        BY <1>2, <3>1, <3>3 DEF InvAll, Sane, Args, Inserts
      <4> QED
        BY <1>1, <2>1, <3>1, <4>1 DEF InvAll, Typed, Go, Return, Step, OpenSession, AddClaim,
           AddResult, InsertOne, RefuseItemID, Get, ReadFails, ReadToClose, ReadToAdd, CheckFails,
           AddClaimToSession, AddResultToSession, Write, WriteFails, MakeLogEntry
    <3> QED
      BY <3>2, <3>3
  <2> QED
    BY <1>1, <1>2, <2>1 DEF InvAll, Sane, Waits, jobs, Grow
<1>8. \A g \in Handlers \ {h} : Sane(g)'
  BY <1>1, <1>2, StillSane DEF InvAll, Still, jobs
<1> QED
  BY <1>3, <1>4, <1>5, <1>6, <1>7, <1>8 DEF InvAll, Sane

-----------------------------------------------------------------------------
(***************************************************************************)
(* Requests.                                                               *)
(***************************************************************************)
LEMMA AcceptInv ==
  ASSUME InvAll, NEW h \in Handlers, PostAttest(h) \/ PostVerify(h) \/ ProcessAttest(h)
  PROVE  InvAll'
<1> USE DEF InvAll
<1>1. PICK endpoint \in {"postAttest", "postVerify", "processAttest"} :
        /\ Accept(h, endpoint, IF endpoint = "processAttest" THEN "open" ELSE "fetch")
        /\ endpoint = "postAttest" => PostAttest(h)
        /\ endpoint = "postVerify" => PostVerify(h)
        /\ endpoint = "processAttest" => ProcessAttest(h)
  BY DEF PostAttest, PostVerify, ProcessAttest
<1> DEFINE first == IF endpoint = "processAttest" THEN "open" ELSE "fetch"
<1>2. /\ pc[h] = "idle" /\ pc' = [pc EXCEPT ![h] = "done"]
      /\ caller' = [caller EXCEPT ![h] = endpoint] /\ stage' = [stage EXCEPT ![h] = first]
      /\ UNCHANGED <<stores, op, sid, item, snap, outcome, mine, nth, claimDoc, resultDoc>>
  BY <1>1 DEF Accept, Go, GoTo
<1>3. /\ ses' \in [Handlers -> Sids \cup {NoId}] /\ claim' \in [Handlers -> Cids \cup {NoId}]
      /\ asked' \in [Handlers -> Seq(Rules \cup {NoRule})]
      /\ endpoint = "processAttest" => ses' = ses /\ claim' = claim
      /\ \A g \in Handlers \ {h} : ses'[g] = ses[g] /\ claim'[g] = claim[g] /\ asked'[g] = asked[g]
  <2>1. CASE endpoint = "postAttest"
    BY <1>1, <2>1 DEF PostAttest, JobsTyped
  <2>2. CASE endpoint = "postVerify"
    <3>1. \A r \in Rules \cup {NoRule} : <<r>> \in Seq(Rules \cup {NoRule})
      OBVIOUS
    <3>2. PICK s \in Sids, c \in Cids, r \in Rules \cup {NoRule} :
            /\ ses' = [ses EXCEPT ![h] = s] /\ claim' = [claim EXCEPT ![h] = c]
            /\ asked' = [asked EXCEPT ![h] = <<r>>]
      BY <1>1, <2>2 DEF PostVerify
    <3> QED
      BY <2>2, <3>1, <3>2 DEF JobsTyped
  <2>3. CASE endpoint = "processAttest"
    <3>1. PICK n \in 0..MaxRules[h] :
            \E rs \in [1..n -> Rules \cup {NoRule}] : asked' = [asked EXCEPT ![h] = rs]
      BY <1>1, <2>3 DEF ProcessAttest
    <3>2. \A rs \in [1..n -> Rules \cup {NoRule}] : rs \in Seq(Rules \cup {NoRule})
      <4>1. n \in Nat
        BY RulesAssumption
      <4> QED
        BY <4>1
    <3>3. UNCHANGED <<ses, claim>>
      BY <1>1, <2>3 DEF ProcessAttest
    <3> QED
      BY <3>1, <3>2, <3>3 DEF JobsTyped
  <2> QED
    BY <2>1, <2>2, <2>3
<1>4. Typed' /\ JobsTyped' /\ Grow
  BY <1>2, <1>3 DEF Typed, JobsTyped, stores, Steps, Stages, Callers, Grow
<1>5. /\ pc'[h] = "done" /\ op'[h] = op[h] /\ sid'[h] = sid[h] /\ item'[h] = item[h]
      /\ caller'[h] = endpoint /\ stage'[h] = first /\ mine'[h] = mine[h] /\ nth'[h] = nth[h]
  BY <1>2 DEF Typed, JobsTyped
<1>6. Sane(h)'
  <2>0. Sane(h) /\ asked'[h] \in Seq(Rules \cup {NoRule})
    BY <1>3
  <2>1. Args(h)'
    BY <1>2, <1>5, <2>0 DEF Sane, Args
  <2>2. Serves(h)'
    BY <1>2, <1>3, <1>5, <2>0 DEF Sane, Serves
  <2>3. Waits(h)'
    BY <1>5 DEF Waits
  <2>4. Chosen(h)'
    BY <1>2, <1>3, <1>5, <2>0 DEF Sane, Serves, Chosen
  <2> QED
    BY <2>1, <2>2, <2>3, <2>4 DEF Sane
<1>7. \A g \in Handlers \ {h} : Sane(g)'
  <2>1. \A g \in Handlers \ {h} : Still(g)
    BY <1>2, <1>3 DEF Typed, JobsTyped, Still
  <2> QED
    BY <1>4, <2>1, StillSane
<1> QED
  BY <1>4, <1>6, <1>7

(* The requests of module Sessions enter one operation.                     *)
LEMMA RequestEnters ==
  ASSUME InvAll, NEW h \in Handlers, Request(h)
  PROVE  /\ pc[h] = "idle"
         /\ \E o \in Operations, s \in Sids \cup {NoId}, i \in Cids \cup Rids \cup {NoId},
               step \in {"get", "insert"} :
              /\ o \in Inserts <=> step = "insert"
              /\ o = "OpenSession" => s \in Sids
              /\ o \in {"AddClaim", "AddClaimToSession"} => i \in Cids
              /\ o \in {"AddResult", "AddResultToSession"} => i \in Rids
              /\ o = "AddClaim" => i \in Fresh(Cids)
              /\ o = "AddResult" => i \in Fresh(Rids)
              /\ Entered(h, o, s, i, step)
<1> USE DEF Receive, Entered, Go, Operations, Inserts
<1>1. CASE PostSession(h)
  <2>1. PICK s \in Fresh(Sids) : Receive(h, "OpenSession", s, NoId, "insert")
    BY <1>1 DEF PostSession
  <2> QED
    BY <2>1 DEF Fresh
<1>2. CASE PostClaim(h)
  <2>1. PICK c \in Fresh(Cids) : Receive(h, "AddClaim", NoId, c, "insert")
    BY <1>2 DEF PostClaim
  <2> QED
    BY <2>1 DEF Fresh
<1>3. CASE PostResult(h)
  <2>1. PICK r \in Fresh(Rids) : Receive(h, "AddResult", NoId, r, "insert")
    BY <1>3 DEF PostResult
  <2> QED
    BY <2>1 DEF Fresh
<1>4. CASE DeleteSession(h)
  BY <1>4 DEF DeleteSession
<1>5. CASE PutSessionClaim(h)
  BY <1>5 DEF PutSessionClaim
<1>6. CASE PutSessionResult(h)
  BY <1>6 DEF PutSessionResult
<1> QED
  BY <1>1, <1>2, <1>3, <1>4, <1>5, <1>6 DEF Request

LEMMA OtherRequestInv ==
  ASSUME InvAll, NEW h \in Handlers, OtherRequest(h)
  PROVE  InvAll'
<1> USE DEF InvAll
<1>1. PICK o \in Operations, s \in Sids \cup {NoId}, i \in Cids \cup Rids \cup {NoId},
           step \in {"get", "insert"} :
        /\ o \in Inserts <=> step = "insert"
        /\ o = "OpenSession" => s \in Sids
        /\ o \in {"AddClaim", "AddClaimToSession"} => i \in Cids
        /\ o \in {"AddResult", "AddResultToSession"} => i \in Rids
        /\ Entered(h, o, s, i, step)
  BY RequestEnters DEF OtherRequest
<1>2. pc[h] = "idle" /\ UNCHANGED <<caller, stage, mine, ses, claim, asked, nth>>
  BY RequestEnters DEF OtherRequest
<1>3. /\ Typed' /\ Grow /\ Args(h)'
      /\ op'[h] = o /\ sid'[h] = s /\ item'[h] = i /\ pc'[h] = step
      /\ \A g \in Handlers \ {h} :
           /\ pc'[g] = pc[g] /\ op'[g] = op[g] /\ sid'[g] = sid[g] /\ item'[g] = item[g]
           /\ snap'[g] = snap[g] /\ outcome'[g] = outcome[g]
  BY <1>1, EnteredTyped
<1>4. JobsTyped'
  <2>1. claimDoc' \in [Cids -> [type : {"", "data", "*ERROR"}, session : Sids \cup {NoId}]]
    <3>1. \A type \in {"data", "*ERROR"} :
            [type |-> type, session |-> NoId]
              \in [type : {"", "data", "*ERROR"}, session : Sids \cup {NoId}]
      OBVIOUS
    <3>2. claimDoc' = claimDoc \/
            \E type \in {"data", "*ERROR"} :
              claimDoc' = [claimDoc EXCEPT ![item'[h]] = [type |-> type, session |-> NoId]]
      BY DEF OtherRequest
    <3> QED
      BY <3>1, <3>2 DEF JobsTyped
  <2>2. NoResult \in [claim : Cids \cup {NoId}, rule : Rules \cup {NoRule},
                     value : Values, session : Sids \cup {NoId}, ev : BOOLEAN]
    BY DEF NoResult, Values
  <2>3. resultDoc' \in [Rids -> [claim : Cids \cup {NoId}, rule : Rules \cup {NoRule},
                            value : Values, session : Sids \cup {NoId}, ev : BOOLEAN]]
    BY <2>2 DEF OtherRequest, JobsTyped
  <2> QED
    BY <1>2, <2>1, <2>3 DEF JobsTyped
<1>5. Sane(h)'
  BY <1>2, <1>3 DEF Sane, Serves, Waits, Chosen
<1>6. \A g \in Handlers \ {h} : Sane(g)'
  BY <1>2, <1>3, StillSane DEF Still
<1> QED
  BY <1>3, <1>4, <1>5, <1>6

-----------------------------------------------------------------------------
(***************************************************************************)
(* Attest and Verify.                                                      *)
(***************************************************************************)
(* A step that changes stage, session or claim of a handler, nothing else.  *)
Turns(h) ==
  /\ UNCHANGED <<vars, caller, mine, asked, nth, claimDoc, resultDoc>>
  /\ \A g \in Handlers \ {h} : stage'[g] = stage[g] /\ ses'[g] = ses[g] /\ claim'[g] = claim[g]
  /\ stage' \in [Handlers -> Stages] /\ ses' \in [Handlers -> Sids \cup {NoId}]
  /\ claim' \in [Handlers -> Cids \cup {NoId}]

LEMMA TurnsInv ==
  ASSUME InvAll, NEW h \in Handlers, Turns(h), Serves(h)', Waits(h)', Chosen(h)'
  PROVE  InvAll'
<1> USE DEF InvAll, Turns
<1>1. Typed' /\ JobsTyped' /\ Grow
  BY DEF Typed, JobsTyped, vars, stores, locals, Grow
<1>2. Args(h)'
  BY DEF Sane, Args, vars, stores, locals
<1>3. \A g \in Handlers \ {h} : Sane(g)'
  BY <1>1, StillSane DEF Still, vars, locals
<1> QED
  BY <1>1, <1>2, <1>3 DEF Sane

LEMMA FetchToAttestInv ==
  ASSUME InvAll, NEW h \in Handlers, FetchToAttest(h)
  PROVE  InvAll'
<1> USE DEF InvAll
<1>1. /\ pc[h] = "done" /\ stage[h] = "fetch" /\ caller[h] \in {"postAttest", "processAttest"}
      /\ stage' = [stage EXCEPT ![h] = "call"] /\ UNCHANGED claim
      /\ ses' = ses \/ ses' = [ses EXCEPT ![h] = NoId]
      /\ UNCHANGED <<vars, caller, mine, claim, asked, nth, claimDoc, resultDoc>>
  BY DEF FetchToAttest, At, GoTo
<1>2. Turns(h) /\ stage'[h] = "call" /\ ses'[h] \in {ses[h], NoId}
  BY <1>1 DEF Turns, JobsTyped, Stages
<1>3. Serves(h)' /\ Waits(h)' /\ Chosen(h)'
  BY <1>1, <1>2 DEF Sane, Serves, Waits, Chosen, vars, locals
<1> QED
  BY <1>2, <1>3, TurnsInv

LEMMA AttestReturnsInv ==
  ASSUME InvAll, NEW h \in Handlers, stage[h] \in {"addClaim", "attach"}, pc[h] = "done",
         NEW c \in {claim[h], NoId}, AttestReturns(h, c)
  PROVE  InvAll'
<1> USE DEF InvAll
<1> DEFINE next == IF caller[h] = "postAttest" THEN "end" ELSE "attested"
<1>1. /\ stage' = [stage EXCEPT ![h] = next] /\ claim' = [claim EXCEPT ![h] = c]
      /\ UNCHANGED <<vars, caller, mine, ses, asked, nth, claimDoc, resultDoc>>
  BY DEF AttestReturns, GoTo
<1>2. Turns(h) /\ stage'[h] = next
  BY <1>1 DEF Turns, JobsTyped, Stages
<1>3. Serves(h)' /\ Waits(h)' /\ Chosen(h)'
  BY <1>1, <1>2 DEF Sane, Serves, Waits, Chosen, vars, locals, JobsTyped, Callers
<1> QED
  BY <1>2, <1>3, TurnsInv

LEMMA WebReadClaimInv ==
  ASSUME InvAll, NEW h \in Handlers, WebReadClaim(h)
  PROVE  InvAll'
<1> USE DEF InvAll
<1>1. /\ pc[h] = "done" /\ stage[h] = "attested"
      /\ stage' = [stage EXCEPT ![h] = "verify"]
      /\ (claim' = claim /\ claim[h] \in claims) \/ claim' = [claim EXCEPT ![h] = NoId]
      /\ UNCHANGED <<vars, caller, mine, ses, asked, nth, claimDoc, resultDoc>>
  BY DEF WebReadClaim, At, GoTo
<1>2. Turns(h) /\ stage'[h] = "verify" /\ claim'[h] \in claims \cup {NoId}
  BY <1>1 DEF Turns, JobsTyped, Stages
<1>3. Serves(h)' /\ Waits(h)' /\ Chosen(h)'
  BY <1>1, <1>2 DEF Sane, Serves, Waits, Chosen, vars, stores, locals, JobsTyped, Callers
<1> QED
  BY <1>2, <1>3, TurnsInv

LEMMA FetchToVerifyInv ==
  ASSUME InvAll, NEW h \in Handlers, FetchToVerify(h)
  PROVE  InvAll'
<1> USE DEF InvAll
<1>0. \/ stage' = [stage EXCEPT ![h] = "end"]
      \/ CanVerify(h) /\ stage' = [stage EXCEPT ![h] = "verify"]
  BY DEF FetchToVerify, GoTo
<1>1. /\ pc[h] = "done" /\ stage[h] = "fetch" /\ caller[h] = "postVerify"
      /\ UNCHANGED <<vars, caller, mine, ses, claim, asked, nth, claimDoc, resultDoc>>
  BY DEF FetchToVerify, At, GoTo
<1>2. Turns(h) /\ (stage'[h] = "verify" => CanVerify(h)) /\ stage'[h] \in {"end", "verify"}
  <2>1. PICK next \in {"end", "verify"} :
          stage' = [stage EXCEPT ![h] = next] /\ (next = "verify" => CanVerify(h))
    BY <1>0
  <2>2. Turns(h)
    BY <1>1, <2>1 DEF Turns, JobsTyped, Stages
  <2>3. stage'[h] = next
    BY <2>1 DEF JobsTyped
  <2> QED
    BY <2>1, <2>2, <2>3
<1>3. Serves(h)' /\ Waits(h)' /\ Chosen(h)'
  BY <1>1, <1>2 DEF Sane, Serves, Waits, Chosen, vars, stores, locals, CanVerify
<1> QED
  BY <1>2, <1>3, TurnsInv

LEMMA VerifyReturnsInv ==
  ASSUME InvAll, NEW h \in Handlers, stage[h] \in {"addResult", "attachResult"}, pc[h] = "done",
         VerifyReturns(h)
  PROVE  InvAll'
<1> USE DEF InvAll
<1> DEFINE next == IF caller[h] = "postVerify" THEN "end" ELSE "verify"
<1>1. /\ stage' = [stage EXCEPT ![h] = next]
      /\ UNCHANGED <<vars, caller, mine, ses, claim, asked, nth, claimDoc, resultDoc>>
  BY DEF VerifyReturns, GoTo
<1>2. Turns(h) /\ stage'[h] = next
  BY <1>1 DEF Turns, JobsTyped, Stages
<1>3. Serves(h)' /\ Waits(h)' /\ Chosen(h)'
  BY <1>1, <1>2 DEF Sane, Serves, Waits, Chosen, vars, stores, locals, JobsTyped, Callers
<1> QED
  BY <1>2, <1>3, TurnsInv

LEMMA WebRedirectInv ==
  ASSUME InvAll, NEW h \in Handlers, WebRedirect(h)
  PROVE  InvAll'
<1> USE DEF InvAll
<1>1. /\ pc[h] = "done" /\ stage[h] = "close" /\ stage' = [stage EXCEPT ![h] = "end"]
      /\ UNCHANGED <<vars, caller, mine, ses, claim, asked, nth, claimDoc, resultDoc>>
  BY DEF WebRedirect, At, GoTo
<1>2. Turns(h) /\ stage'[h] = "end"
  BY <1>1 DEF Turns, JobsTyped, Stages
<1>3. Serves(h)' /\ Waits(h)' /\ Chosen(h)'
  BY <1>1, <1>2 DEF Sane, Serves, Waits, Chosen, vars, locals
<1> QED
  BY <1>2, <1>3, TurnsInv

(* A handler dies when its request panics or the process is restarted.      *)
LEMMA DeadInv ==
  ASSUME InvAll, UNCHANGED <<stores, op, sid, item, snap, outcome, jobs>>,
         pc' \in [Handlers -> Steps],
         \A g \in Handlers : pc'[g] = pc[g] \/ (pc'[g] = "dead" /\ pc[g] # "idle")
  PROVE  InvAll'
<1>1. Typed' /\ JobsTyped'
  BY DEF InvAll, Typed, JobsTyped, stores, jobs
<1>2. ASSUME NEW g \in Handlers PROVE Sane(g)'
  <2>1. Args(g)'
    BY DEF InvAll, Sane, Args, stores
  <2>2. Serves(g)'
    BY DEF InvAll, Sane, Serves, jobs
  <2>3. Waits(g)' /\ Chosen(g)'
    BY DEF InvAll, Sane, Waits, Chosen, stores, jobs
  <2> QED
    BY <2>1, <2>2, <2>3 DEF Sane
<1> QED
  BY <1>1, <1>2 DEF InvAll

(* A step that enters an operation of module Sessions.                      *)
LEMMA CallEnters ==
  ASSUME NEW h, NEW o, NEW s, NEW i, NEW step, NEW next, Call(h, o, s, i, step, next)
  PROVE  Entered(h, o, s, i, step) /\ stage' = [stage EXCEPT ![h] = next]
BY DEF Call, Entered, Go, GoTo

(* What else such a step may change, all of it of the same handler.         *)
Prepares(h) ==
  /\ UNCHANGED <<caller, asked>>
  /\ \A g \in Handlers \ {h} :
       mine'[g] = mine[g] /\ ses'[g] = ses[g] /\ claim'[g] = claim[g] /\ nth'[g] = nth[g]

LEMMA CallInv ==
  ASSUME InvAll, NEW h \in Handlers, NEW o \in Operations, NEW s \in Sids \cup {NoId},
         NEW i \in Cids \cup Rids \cup {NoId}, NEW step \in {"read", "insert"},
         NEW next \in Stages,
         o \in Inserts => step = "insert",
         o = "OpenSession" => s \in Sids,
         o \in {"AddClaim", "AddClaimToSession"} => i \in Cids,
         o \in {"AddResult", "AddResultToSession"} => i \in Rids,
         Call(h, o, s, i, step, next), Prepares(h), JobsTyped',
         /\ op'[h] = o /\ sid'[h] = s /\ item'[h] = i /\ pc'[h] = step /\ stage'[h] = next
         /\ claims' = claims
         => Serves(h)' /\ Waits(h)' /\ Chosen(h)'
  PROVE  InvAll'
<1>1. /\ Typed' /\ Grow /\ Args(h)'
      /\ op'[h] = o /\ sid'[h] = s /\ item'[h] = i /\ pc'[h] = step
      /\ \A g \in Handlers \ {h} :
           /\ pc'[g] = pc[g] /\ op'[g] = op[g] /\ sid'[g] = sid[g] /\ item'[g] = item[g]
           /\ snap'[g] = snap[g] /\ outcome'[g] = outcome[g]
  BY CallEnters, EnteredTyped
<1>2. stage'[h] = next /\ \A g \in Handlers \ {h} : stage'[g] = stage[g]
  <2>1. stage' = [stage EXCEPT ![h] = next]
    BY CallEnters
  <2> QED
    BY <2>1 DEF InvAll, JobsTyped
<1>3. claims' = claims
  BY CallEnters DEF Entered, stores
<1>4. \A g \in Handlers \ {h} : Sane(g)'
  <2>1. \A g \in Handlers \ {h} : Still(g)
    BY <1>1, <1>2 DEF Prepares, Still
  <2> QED
    BY <1>1, <2>1, StillSane DEF InvAll
<1> QED
  BY <1>1, <1>2, <1>3, <1>4 DEF InvAll, Sane

LEMMA WebOpenInv == ASSUME InvAll, NEW h \in Handlers, WebOpen(h) PROVE InvAll'
<1> USE DEF InvAll
<1>1. PICK s \in Fresh(Sids) :
        /\ Call(h, "OpenSession", s, NoId, "insert", "fetch")
        /\ mine' = [mine EXCEPT ![h] = s] /\ ses' = [ses EXCEPT ![h] = s]
  BY DEF WebOpen
<1>2. /\ pc[h] = "done" /\ stage[h] = "open" /\ s \in Sids
      /\ UNCHANGED <<caller, claim, asked, nth, claimDoc, resultDoc>>
  BY DEF WebOpen, At, Fresh
<1>3. Prepares(h) /\ JobsTyped' /\ mine'[h] = s /\ ses'[h] = s
  <2>1. stage' \in [Handlers -> Stages]
    BY <1>1 DEF Call, GoTo, JobsTyped, Stages
  <2> QED
    BY <1>1, <1>2, <2>1 DEF Prepares, JobsTyped
<1>4. /\ op'[h] = "OpenSession" /\ sid'[h] = s /\ pc'[h] = "insert" /\ stage'[h] = "fetch"
      => Serves(h)' /\ Waits(h)' /\ Chosen(h)'
  <2> SUFFICES ASSUME op'[h] = "OpenSession", sid'[h] = s, pc'[h] = "insert", stage'[h] = "fetch"
               PROVE  Serves(h)' /\ Waits(h)' /\ Chosen(h)'
    OBVIOUS
  <2>1. caller[h] = "processAttest"
    BY <1>2 DEF Sane, Serves, JobsTyped, Callers
  <2>2. Serves(h)'
    BY <1>2, <1>3, <2>1, IdsAssumption DEF Serves
  <2>3. Waits(h)'
    BY <1>3 DEF Waits
  <2>4. Chosen(h)'
    BY <1>2, <2>1 DEF Sane, Chosen
  <2> QED
    BY <2>2, <2>3, <2>4
<1> QED
  BY <1>1, <1>2, <1>3, <1>4, CallInv DEF Operations, Inserts, Stages

LEMMA CallProtocolInv == ASSUME InvAll, NEW h \in Handlers, CallProtocol(h) PROVE InvAll'
<1> USE DEF InvAll
<1>1. ASSUME NEW c \in Fresh(Cids), NEW type \in {"data", "*ERROR"},
             Call(h, "AddClaim", NoId, c, "insert", "addClaim"),
             claim' = [claim EXCEPT ![h] = c],
             claimDoc' = [claimDoc EXCEPT ![c] = [type |-> type, session |-> ses[h]]],
             UNCHANGED <<caller, mine, ses, asked, nth, resultDoc>>
      PROVE  InvAll'
  <2>1. stage[h] = "call" /\ c \in Cids
    BY DEF CallProtocol, At, Fresh
  <2>2. Prepares(h) /\ JobsTyped' /\ claim'[h] = c
    <3>1. stage' \in [Handlers -> Stages]
      BY <1>1 DEF Call, GoTo, JobsTyped, Stages
    <3>2. [type |-> type, session |-> ses[h]]
            \in [type : {"", "data", "*ERROR"}, session : Sids \cup {NoId}]
      BY DEF JobsTyped
    <3> QED
      BY <1>1, <2>1, <3>1, <3>2 DEF Prepares, JobsTyped
  <2>3. /\ op'[h] = "AddClaim" /\ sid'[h] = NoId /\ item'[h] = c
        /\ pc'[h] = "insert" /\ stage'[h] = "addClaim"
        => Serves(h)' /\ Waits(h)' /\ Chosen(h)'
    BY <1>1, <2>1, <2>2 DEF Sane, Serves, Waits, Chosen
  <2> QED
    BY <1>1, <2>1, <2>2, <2>3, CallInv DEF Operations, Inserts, Stages
<1>2. CASE Panic(h)
  <2>1. /\ pc' = [pc EXCEPT ![h] = "dead"]
        /\ UNCHANGED <<stores, op, sid, item, snap, outcome, jobs>>
    BY <1>2 DEF Panic, Go
  <2> QED
    BY <2>1, DeadInv DEF CallProtocol, At, Typed, Steps
<1> QED
  BY <1>1, <1>2 DEF CallProtocol

LEMMA ClaimAddedInv == ASSUME InvAll, NEW h \in Handlers, ClaimAdded(h) PROVE InvAll'
<1> USE DEF InvAll
<1>1. pc[h] = "done" /\ stage[h] = "addClaim"
  BY DEF ClaimAdded, At
<1>2. CASE outcome[h] = "ok"
  <2>1. /\ Call(h, "AddClaimToSession", ses[h], claim[h], "read", "attach")
        /\ UNCHANGED <<caller, mine, ses, claim, asked, nth, claimDoc, resultDoc>>
    BY <1>2 DEF ClaimAdded
  <2>2. Prepares(h) /\ JobsTyped'
    <3>1. stage' \in [Handlers -> Stages]
      BY <2>1 DEF Call, GoTo, JobsTyped, Stages
    <3> QED
      BY <2>1, <3>1 DEF Prepares, JobsTyped
  <2>3. claim[h] \in claims /\ claim[h] \in Cids /\ ses[h] \in Sids \cup {NoId}
    BY <1>1, <1>2 DEF Sane, Waits, Typed, JobsTyped
  <2>4. /\ op'[h] = "AddClaimToSession" /\ sid'[h] = ses[h] /\ item'[h] = claim[h]
        /\ pc'[h] = "read" /\ stage'[h] = "attach" /\ claims' = claims
        => Serves(h)' /\ Waits(h)' /\ Chosen(h)'
    <3>1. opened' = opened
      BY <2>1 DEF Call, stores
    <3> QED
      BY <1>1, <2>1, <2>3, <3>1 DEF Sane, Serves, Waits, Chosen
  <2> QED
    BY <2>1, <2>2, <2>3, <2>4, CallInv DEF Operations, Inserts, Stages
<1>3. CASE outcome[h] # "ok"
  BY <1>1, <1>3, AttestReturnsInv DEF ClaimAdded
<1> QED
  BY <1>2, <1>3

LEMMA ClaimAttachedInv == ASSUME InvAll, NEW h \in Handlers, ClaimAttached(h) PROVE InvAll'
BY AttestReturnsInv DEF ClaimAttached, At

(* What Verify may report is a value of a result.                           *)
LEMMA VerdictsTyped ==
  ASSUME NEW h, NEW rule, NEW value \in Verdicts(h, rule)
  PROVE  /\ value \in Values /\ value # ""
         /\ value = "VerifyClaimErrorAttempt" <=> ClaimOf(h).type = "*ERROR"
BY DEF Verdicts, Values

LEMMA VerifyInv == ASSUME InvAll, NEW h \in Handlers, Verify(h) PROVE InvAll'
<1> USE DEF InvAll
<1> DEFINE rule == asked[h][nth[h] + 1]
<1>1. pc[h] = "done" /\ stage[h] = "verify" /\ nth[h] < Len(asked[h])
  BY DEF Verify, At
<1>2. ASSUME NEW r \in Fresh(Rids), NEW value \in Verdicts(h, rule),
             Call(h, "AddResult", NoId, r, "insert", "addResult"),
             resultDoc' = [resultDoc EXCEPT ![r] =
                            [claim |-> claim[h], rule |-> rule, value |-> value,
                             session |-> ses[h], ev |-> FALSE]],
             nth' = [nth EXCEPT ![h] = @ + 1],
             UNCHANGED <<caller, mine, ses, claim, asked, claimDoc>>
      PROVE  InvAll'
  <2>1. r \in Rids /\ rule \in Rules \cup {NoRule} /\ value \in Values
    <3>1. nth[h] \in Nat /\ asked[h] \in Seq(Rules \cup {NoRule})
      BY DEF JobsTyped
    <3>2. nth[h] + 1 \in 1..Len(asked[h])
      BY <1>1, <3>1
    <3>3. rule \in Rules \cup {NoRule}
      BY <3>1, <3>2
    <3> HIDE DEF rule
    <3>4. value \in Values
      BY VerdictsTyped
    <3> QED
      BY <3>3, <3>4 DEF Fresh
  <2>2. Prepares(h) /\ JobsTyped' /\ nth'[h] = nth[h] + 1
    <3>1. stage' \in [Handlers -> Stages]
      BY <1>2 DEF Call, GoTo, JobsTyped, Stages
    <3>2. [claim |-> claim[h], rule |-> rule, value |-> value, session |-> ses[h], ev |-> FALSE]
            \in [claim : Cids \cup {NoId}, rule : Rules \cup {NoRule},
                 value : Values, session : Sids \cup {NoId}, ev : BOOLEAN]
      BY <2>1 DEF JobsTyped
    <3> HIDE DEF rule
    <3>3. resultDoc' \in [Rids -> [claim : Cids \cup {NoId}, rule : Rules \cup {NoRule},
                            value : Values, session : Sids \cup {NoId}, ev : BOOLEAN]]
      BY <1>2, <3>2 DEF JobsTyped
    <3>4. nth'[h] = nth[h] + 1 /\ nth' \in [Handlers -> Nat]
      <4>1. nth \in [Handlers -> Nat] /\ nth[h] + 1 \in Nat
        <5>1. nth \in [Handlers -> Nat]
          BY DEF JobsTyped
        <5>2. nth[h] \in Nat
          BY <5>1
        <5> QED
          BY <5>1, <5>2
      <4> QED
        BY <1>2, <4>1
    <3>5. Prepares(h)
      BY <1>2 DEF Prepares, JobsTyped
    <3>6. JobsTyped'
      BY <1>2, <3>1, <3>3, <3>4 DEF JobsTyped
    <3> QED
      BY <3>4, <3>5, <3>6
  <2>3. opened' = opened /\ claims' = claims
    BY <1>2 DEF Call, stores
  <2>4. /\ op'[h] = "AddResult" /\ sid'[h] = NoId /\ item'[h] = r
        /\ pc'[h] = "insert" /\ stage'[h] = "addResult"
        => Serves(h)' /\ Waits(h)' /\ Chosen(h)'
    <3> SUFFICES ASSUME op'[h] = "AddResult", sid'[h] = NoId, item'[h] = r,
                        pc'[h] = "insert", stage'[h] = "addResult"
                 PROVE  Serves(h)' /\ Waits(h)' /\ Chosen(h)'
      OBVIOUS
    <3>1. Serves(h)'
      BY <1>1, <1>2 DEF Sane, Serves, JobsTyped, Callers
    <3>2. Waits(h)'
      BY <1>1, <1>2, <2>3 DEF Sane, Waits
    <3>3. nth[h] \in Nat /\ Len(asked[h]) \in Nat
      <4>1. asked[h] \in Seq(Rules \cup {NoRule})
        BY DEF JobsTyped
      <4>2. Len(asked[h]) \in Nat
        BY <4>1
      <4> QED
        BY <4>2 DEF JobsTyped
    <3>4. nth[h] + 1 <= Len(asked[h])
      BY <1>1, <3>3
    <3>5. Chosen(h)'
      BY <1>1, <1>2, <2>2, <2>3, <3>4 DEF Sane, Chosen
    <3> QED
      BY <3>1, <3>2, <3>5
  <2> QED
    BY <1>2, <2>1, <2>2, <2>4, CallInv DEF Operations, Inserts, Stages
<1>3. CASE Panic(h)
  <2>1. /\ pc' = [pc EXCEPT ![h] = "dead"]
        /\ UNCHANGED <<stores, op, sid, item, snap, outcome, jobs>>
    BY <1>3 DEF Panic, Go
  <2> QED
    BY <1>1, <2>1, DeadInv DEF Typed, Steps
<1> QED
  BY <1>2, <1>3 DEF Verify

LEMMA ResultAddedInv == ASSUME InvAll, NEW h \in Handlers, ResultAdded(h) PROVE InvAll'
<1> USE DEF InvAll
<1>1. pc[h] = "done" /\ stage[h] = "addResult"
  BY DEF ResultAdded, At
<1>2. CASE outcome[h] = "ok"
  <2>1. /\ Call(h, "AddResultToSession", ses[h], item[h], "read", "attachResult")
        /\ UNCHANGED <<caller, mine, ses, claim, asked, nth, claimDoc, resultDoc>>
    BY <1>2 DEF ResultAdded
  <2>2. Prepares(h) /\ JobsTyped'
    <3>1. stage' \in [Handlers -> Stages]
      BY <2>1 DEF Call, GoTo, JobsTyped, Stages
    <3> QED
      BY <2>1, <3>1 DEF Prepares, JobsTyped
  <2>3. item[h] \in Rids /\ ses[h] \in Sids \cup {NoId}
    BY <1>1 DEF Sane, Waits, Args, JobsTyped
  <2>4. opened' = opened
    BY <2>1 DEF Call, stores
  <2>5. /\ op'[h] = "AddResultToSession" /\ sid'[h] = ses[h] /\ item'[h] = item[h]
        /\ pc'[h] = "read" /\ stage'[h] = "attachResult" /\ claims' = claims
        => Serves(h)' /\ Waits(h)' /\ Chosen(h)'
    BY <1>1, <2>1, <2>4 DEF Sane, Serves, Waits, Chosen
  <2> QED
    BY <2>1, <2>2, <2>3, <2>5, CallInv DEF Operations, Inserts, Stages
<1>3. CASE outcome[h] # "ok"
  BY <1>1, <1>3, VerifyReturnsInv DEF ResultAdded
<1> QED
  BY <1>2, <1>3

LEMMA ResultAttachedInv == ASSUME InvAll, NEW h \in Handlers, ResultAttached(h) PROVE InvAll'
BY VerifyReturnsInv DEF ResultAttached, At

LEMMA WebCloseInv == ASSUME InvAll, NEW h \in Handlers, WebClose(h) PROVE InvAll'
<1> USE DEF InvAll
<1>1. /\ pc[h] = "done" /\ stage[h] = "verify" /\ caller[h] = "processAttest"
      /\ Call(h, "CloseSession", mine[h], NoId, "read", "close")
      /\ UNCHANGED <<caller, mine, ses, claim, asked, nth, claimDoc, resultDoc>>
  BY DEF WebClose, At
<1>2. Prepares(h) /\ JobsTyped'
  <2>1. stage' \in [Handlers -> Stages]
    BY <1>1 DEF Call, GoTo, JobsTyped, Stages
  <2> QED
    BY <1>1, <2>1 DEF Prepares, JobsTyped
<1>3. mine[h] \in Sids \cup {NoId}
  BY DEF JobsTyped
<1>4. /\ op'[h] = "CloseSession" /\ sid'[h] = mine[h] /\ pc'[h] = "read" /\ stage'[h] = "close"
      /\ claims' = claims
      => Serves(h)' /\ Waits(h)' /\ Chosen(h)'
  BY <1>1 DEF Sane, Serves, Waits, Chosen
<1> QED
  BY <1>1, <1>2, <1>3, <1>4, CallInv DEF Operations, Inserts, Stages

LEMMA RestartInvAll == ASSUME InvAll, Restart PROVE InvAll'
<1>1. /\ pc' = [h \in Handlers |-> IF Working(h) THEN "dead" ELSE pc[h]]
      /\ UNCHANGED <<stores, op, sid, item, snap, outcome, jobs>>
  BY DEF Restart
<1> QED
  BY <1>1, DeadInv DEF Working, InvAll, Typed, Steps

LEMMA StepInvAll == InvAll /\ [NextAll]_allVars => InvAll'
<1> SUFFICES ASSUME InvAll, [NextAll]_allVars PROVE InvAll'
  OBVIOUS
<1>1. CASE UNCHANGED allVars
  <2>1. Typed' /\ JobsTyped' /\ Grow
    BY <1>1 DEF InvAll, allVars, vars, stores, locals, jobs, Typed, JobsTyped, Grow
  <2>2. \A g \in Handlers : Still(g)
    BY <1>1 DEF allVars, vars, locals, jobs, Still
  <2> QED
    BY <2>1, <2>2, StillSane DEF InvAll
<1>2. ASSUME NEW h \in Handlers,
             OtherRequest(h) \/ PostAttest(h) \/ PostVerify(h) \/ ProcessAttest(h)
      PROVE  InvAll'
  BY <1>2, OtherRequestInv, AcceptInv
<1>3. ASSUME NEW h \in Handlers, LocalStep(h) PROVE InvAll'
  BY <1>3, OperationStepInv, WebOpenInv, FetchToAttestInv, ClaimAddedInv, ClaimAttachedInv,
     WebReadClaimInv, FetchToVerifyInv, VerifyInv, ResultAddedInv, ResultAttachedInv,
     WebCloseInv, WebRedirectInv DEF LocalStep
<1> QED
  BY <1>1, <1>2, <1>3, CallProtocolInv, RestartInvAll DEF NextAll

(* The types, and what the handlers' waiting says of their jobs, hold       *)
(* whatever requests interleave, fail or die.                              *)
THEOREM InvarianceAll == SpecAll => []InvAll
BY InitInvAll, StepInvAll, PTL DEF SpecAll

(* Every variable keeps its type, and postVerify verifies with what exists. *)
THEOREM TypeCorrectAll == SpecAll => []TypeOKAll
<1>1. InvAll => TypeOKAll
  BY DEF InvAll, JobsTyped, Sane, Serves, Chosen, TypeOKAll
<1> QED
  BY <1>1, InvarianceAll, PTL

-----------------------------------------------------------------------------
(***************************************************************************)
(* What a step of the system can change.                                   *)
(***************************************************************************)
Move(h) ==
  \/ OtherRequest(h) \/ PostAttest(h) \/ PostVerify(h) \/ ProcessAttest(h)
  \/ LocalStep(h) \/ CallProtocol(h)

LEMMA CallStill ==
  ASSUME InvAll, NEW h \in Handlers, NEW o, NEW s, NEW i, NEW step, NEW next,
         Call(h, o, s, i, step, next), Prepares(h), NEW g \in Handlers \ {h}
  PROVE  Still(g)
BY DEF InvAll, Typed, JobsTyped, Call, Go, GoTo, Prepares, Still

LEMMA TurnsStill ==
  ASSUME InvAll, NEW h \in Handlers, NEW g \in Handlers \ {h},
         UNCHANGED <<vars, caller, mine, asked, nth>>,
         stage'[g] = stage[g] /\ ses'[g] = ses[g] /\ claim'[g] = claim[g]
  PROVE  Still(g)
BY DEF vars, locals, Still

(* Only the handler that moves changes.                                     *)
LEMMA OthersStill ==
  ASSUME InvAll, NEW h \in Handlers, Move(h), NEW g \in Handlers \ {h}
  PROVE  Still(g)
<1> USE DEF InvAll
<1>1. CASE OtherRequest(h)
  <2>1. PICK o, s, i, step : Entered(h, o, s, i, step)
    BY <1>1, RequestEnters DEF OtherRequest
  <2> QED
    BY <1>1, <2>1 DEF OtherRequest, Entered, Typed, Still
<1>2. CASE PostAttest(h) \/ PostVerify(h) \/ ProcessAttest(h)
  <2>1. \E endpoint, next : Accept(h, endpoint, next)
    BY <1>2 DEF PostAttest, PostVerify, ProcessAttest
  <2>2. /\ pc'[g] = pc[g] /\ caller'[g] = caller[g] /\ stage'[g] = stage[g]
        /\ UNCHANGED <<op, sid, item, snap, outcome, mine, nth>>
    BY <2>1 DEF Accept, Go, GoTo, Typed, JobsTyped
  <2>3. ses'[g] = ses[g] /\ claim'[g] = claim[g] /\ asked'[g] = asked[g]
    <3>1. CASE PostAttest(h)
      BY <3>1 DEF PostAttest, JobsTyped
    <3>2. CASE PostVerify(h)
      BY <3>2 DEF PostVerify, JobsTyped
    <3>3. CASE ProcessAttest(h)
      BY <3>3 DEF ProcessAttest, JobsTyped
    <3> QED
      BY <1>2, <3>1, <3>2, <3>3
  <2> QED
    BY <2>2, <2>3 DEF Still
<1>3. CASE OperationStep(h)
  BY <1>3, StepFrame DEF OperationStep, jobs, Still
<1>4. CASE WebOpen(h)
  <2>1. Prepares(h)
    BY <1>4 DEF WebOpen, Prepares, JobsTyped
  <2> QED
    BY <1>4, <2>1, CallStill DEF WebOpen
<1>5. CASE FetchToAttest(h) \/ WebReadClaim(h) \/ FetchToVerify(h) \/ WebRedirect(h)
  BY <1>5, TurnsStill DEF FetchToAttest, WebReadClaim, FetchToVerify, WebRedirect, GoTo, JobsTyped
<1>6. CASE ClaimAdded(h) \/ ClaimAttached(h)
  <2>1. CASE \E s, c : /\ Call(h, "AddClaimToSession", s, c, "read", "attach")
                       /\ UNCHANGED <<caller, mine, ses, claim, asked, nth, claimDoc, resultDoc>>
    BY <2>1, CallStill DEF Prepares
  <2>2. CASE \E c : AttestReturns(h, c)
    BY <2>2, TurnsStill DEF AttestReturns, GoTo, JobsTyped
  <2> QED
    BY <1>6, <2>1, <2>2 DEF ClaimAdded, ClaimAttached
<1>7. CASE ResultAdded(h) \/ ResultAttached(h)
  <2>1. CASE \E s, r : /\ Call(h, "AddResultToSession", s, r, "read", "attachResult")
                       /\ UNCHANGED <<caller, mine, ses, claim, asked, nth, claimDoc, resultDoc>>
    BY <2>1, CallStill DEF Prepares
  <2>2. CASE VerifyReturns(h)
    BY <2>2, TurnsStill DEF VerifyReturns, GoTo, JobsTyped
  <2> QED
    BY <1>7, <2>1, <2>2 DEF ResultAdded, ResultAttached
<1>8. CASE Panic(h)
  BY <1>8 DEF Panic, Go, jobs, Typed, Still
<1>9. CASE Verify(h) \/ CallProtocol(h) \/ WebClose(h)
  <2>1. CASE \E o, s, i, step, next : Call(h, o, s, i, step, next) /\ Prepares(h)
    BY <2>1, CallStill
  <2>2. Panic(h) \/ \E o, s, i, step, next : Call(h, o, s, i, step, next) /\ Prepares(h)
    <3>1. CASE Verify(h)
      BY <3>1 DEF Verify, Prepares, JobsTyped
    <3>2. CASE CallProtocol(h)
      BY <3>2 DEF CallProtocol, Prepares, JobsTyped
    <3>3. CASE WebClose(h)
      BY <3>3 DEF WebClose, Prepares, JobsTyped
    <3> QED
      BY <1>9, <3>1, <3>2, <3>3
  <2> QED
    BY <1>8, <2>1, <2>2
<1> QED
  BY <1>1, <1>2, <1>3, <1>4, <1>5, <1>6, <1>7, <1>9 DEF Move, LocalStep

(* A handler that works on a session, or opened it, does not let go of it.  *)
LEMMA NoneLetsGo ==
  ASSUME InvAll, [NextAll]_allVars, NEW g \in Handlers, NEW s \in Sids, s \in {sid[g], mine[g]}
  PROVE  s \in {sid'[g], mine'[g]}
<1> USE DEF InvAll
<1>0. s # NoId /\ Args(g) /\ Serves(g) /\ Waits(g)
  BY IdsAssumption DEF Sane
<1>1. CASE UNCHANGED <<sid, mine>>
  BY <1>1
<1>2. CASE OtherRequest(g)
  BY <1>0, <1>2, RequestEnters DEF OtherRequest, Serves
<1>3. CASE WebOpen(g)
  BY <1>0, <1>3 DEF WebOpen, At, Serves, JobsTyped, Callers
<1>4. CASE ClaimAdded(g) \/ ResultAdded(g)
  BY <1>0, <1>4 DEF ClaimAdded, ResultAdded, At, Waits, Call, AttestReturns, VerifyReturns, vars, locals
<1>5. CASE CallProtocol(g)
  BY <1>0, <1>5 DEF CallProtocol, At, Serves, Call, Panic, jobs, JobsTyped, Callers
<1>6. CASE Verify(g)
  BY <1>0, <1>6 DEF Verify, At, Serves, Call, Panic, jobs, JobsTyped, Callers
<1>7. CASE WebClose(g)
  BY <1>0, <1>7 DEF WebClose, At, Serves, Call, Typed
<1>8. ASSUME NEW h \in Handlers, Move(h) PROVE s \in {sid'[g], mine'[g]}
  <2>1. CASE g # h
    BY <1>8, <2>1, OthersStill DEF Still
  <2>2. CASE Move(g)
    <3>1. CASE PostAttest(g) \/ PostVerify(g) \/ ProcessAttest(g)
      BY <1>1, <3>1 DEF PostAttest, PostVerify, ProcessAttest, Accept
    <3>2. CASE OperationStep(g)
      BY <1>1, <3>2, StepFrame DEF OperationStep, jobs
    <3>3. CASE FetchToAttest(g) \/ WebReadClaim(g) \/ FetchToVerify(g) \/ WebRedirect(g)
      BY <1>1, <3>3 DEF FetchToAttest, WebReadClaim, FetchToVerify, WebRedirect, vars, locals
    <3>4. CASE ClaimAttached(g) \/ ResultAttached(g)
      BY <1>1, <3>4 DEF ClaimAttached, ResultAttached, AttestReturns, VerifyReturns, vars, locals
    <3> QED
      BY <1>2, <1>3, <1>4, <1>5, <1>6, <1>7, <2>2, <3>1, <3>2, <3>3, <3>4 DEF Move, LocalStep
  <2> QED
    BY <1>8, <2>1, <2>2
<1>9. CASE Restart \/ UNCHANGED allVars
  BY <1>1, <1>9 DEF Restart, jobs, allVars, vars, locals
<1> QED
  BY <1>8, <1>9 DEF NextAll, Move

(* A document changes when a handler writes its copy of it.                 *)
LEMMA DocumentChange ==
  ASSUME InvAll, [NextAll]_allVars, NEW s \in Sids, session'[s] # session[s]
  PROVE  \E g \in Handlers :
           /\ OperationStep(g) /\ (Write(g) \/ WriteFails(g))
           /\ pc[g] = "write" /\ sid[g] = s /\ session'[s] = snap[g]
<1> USE DEF InvAll
<1>1. PICK h \in Handlers : Move(h)
  BY DEF NextAll, Move, Restart, allVars, vars, stores
<1>2. CASE OperationStep(h)
  <2>1. Write(h) \/ WriteFails(h)
    BY <1>2 DEF OperationStep, Step, OpenSession, AddClaim, AddResult, InsertOne, RefuseItemID, Get,
       ReadFails, ReadToClose, ReadToAdd, CheckFails, AddClaimToSession, AddResultToSession,
       MakeLogEntry, stores
  <2>2. pc[h] = "write" /\ session' = [session EXCEPT ![sid[h]] = snap[h]]
    BY <2>1 DEF Write, WriteFails
  <2>3. sid[h] = s /\ session'[s] = snap[h]
    BY <2>2 DEF Typed
  <2> QED
    BY <1>2, <2>1, <2>2, <2>3
<1>3. CASE ~OperationStep(h)
  <2>1. CASE OtherRequest(h)
    BY <2>1, RequestEnters DEF OtherRequest, Entered, stores
  <2>2. CASE PostAttest(h) \/ PostVerify(h) \/ ProcessAttest(h)
    BY <2>2 DEF PostAttest, PostVerify, ProcessAttest, Accept, stores
  <2>3. CASE WebOpen(h) \/ ClaimAdded(h) \/ ResultAdded(h) \/ WebClose(h) \/ Verify(h) \/ CallProtocol(h)
    BY <2>3 DEF WebOpen, ClaimAdded, ResultAdded, WebClose, Verify, CallProtocol, Call, Panic,
       AttestReturns, VerifyReturns, vars, stores
  <2>4. CASE FetchToAttest(h) \/ WebReadClaim(h) \/ FetchToVerify(h) \/ WebRedirect(h)
             \/ ClaimAttached(h) \/ ResultAttached(h)
    BY <2>4 DEF FetchToAttest, WebReadClaim, FetchToVerify, WebRedirect, ClaimAttached,
       ResultAttached, AttestReturns, VerifyReturns, vars, stores
  <2> QED
    BY <1>1, <1>3, <2>1, <2>2, <2>3, <2>4 DEF Move, LocalStep
<1> QED
  BY <1>2, <1>3

(* Nothing is dropped from a collection.                                    *)
LEMMA CollectionsGrow == ASSUME InvAll, [NextAll]_allVars PROVE Grow
<1> USE DEF InvAll, Grow
<1>1. ASSUME NEW h \in Handlers, Move(h) PROVE Grow
  <2>1. CASE OtherRequest(h)
    BY <2>1, RequestEnters DEF OtherRequest, Entered, stores
  <2>2. CASE PostAttest(h) \/ PostVerify(h) \/ ProcessAttest(h)
    BY <2>2 DEF PostAttest, PostVerify, ProcessAttest, Accept, stores
  <2>3. CASE WebOpen(h) \/ ClaimAdded(h) \/ ResultAdded(h) \/ WebClose(h) \/ Verify(h) \/ CallProtocol(h)
    BY <2>3 DEF WebOpen, ClaimAdded, ResultAdded, WebClose, Verify, CallProtocol, Call, Panic,
       AttestReturns, VerifyReturns, vars, stores
  <2>4. CASE FetchToAttest(h) \/ WebReadClaim(h) \/ FetchToVerify(h) \/ WebRedirect(h)
             \/ ClaimAttached(h) \/ ResultAttached(h)
    BY <2>4 DEF FetchToAttest, WebReadClaim, FetchToVerify, WebRedirect, ClaimAttached,
       ResultAttached, AttestReturns, VerifyReturns, vars, stores
  <2>5. CASE OperationStep(h)
    BY <2>5, StepFrame DEF OperationStep
  <2> QED
    BY <1>1, <2>1, <2>2, <2>3, <2>4, <2>5 DEF Move, LocalStep
<1>2. CASE Restart \/ UNCHANGED allVars
  BY <1>2 DEF Restart, allVars, vars, stores
<1> QED
  BY <1>1, <1>2 DEF NextAll, Move

(* The contents of a claim are those of its first insertion.                *)
LEMMA ClaimContents ==
  ASSUME InvAll, [NextAll]_allVars, NEW c \in Cids, claimDoc'[c] # claimDoc[c]
  PROVE  c \in Fresh(Cids)
<1> USE DEF InvAll
<1>1. PICK h \in Handlers : Move(h)
  BY DEF NextAll, Move, Restart, allVars, jobs
<1>2. CASE OtherRequest(h)
  <2>1. op'[h] = "AddClaim" => item'[h] \in Fresh(Cids)
    BY <1>2, RequestEnters DEF OtherRequest, Entered, Typed
  <2> QED
    BY <1>2, <2>1 DEF OtherRequest, JobsTyped
<1>3. CASE CallProtocol(h)
  BY <1>3 DEF CallProtocol, Panic, jobs, JobsTyped
<1>4. CASE PostAttest(h) \/ PostVerify(h) \/ ProcessAttest(h)
  BY <1>4 DEF PostAttest, PostVerify, ProcessAttest, Accept
<1>5. CASE WebOpen(h) \/ ClaimAdded(h) \/ ResultAdded(h) \/ WebClose(h) \/ Verify(h)
  BY <1>5 DEF WebOpen, ClaimAdded, ResultAdded, WebClose, Verify, Panic, AttestReturns,
     VerifyReturns, jobs
<1>6. CASE FetchToAttest(h) \/ WebReadClaim(h) \/ FetchToVerify(h) \/ WebRedirect(h)
           \/ ClaimAttached(h) \/ ResultAttached(h) \/ OperationStep(h)
  BY <1>6 DEF FetchToAttest, WebReadClaim, FetchToVerify, WebRedirect, ClaimAttached,
     ResultAttached, AttestReturns, VerifyReturns, OperationStep, jobs
<1> QED
  BY <1>1, <1>2, <1>3, <1>4, <1>5, <1>6 DEF Move, LocalStep

(* The contents of a result are posted, or made by Verify.                  *)
LEMMA ResultContents ==
  ASSUME InvAll, [NextAll]_allVars, NEW r \in Rids, resultDoc'[r] # resultDoc[r]
  PROVE  /\ r \in Fresh(Rids)
         /\ \/ resultDoc'[r] = NoResult
            \/ \E h \in Handlers :
                 /\ stage[h] = "verify" /\ resultDoc'[r].claim = claim[h]
                 /\ resultDoc'[r].value = "VerifyClaimErrorAttempt"
                      <=> ClaimOf(h).type = "*ERROR"
<1> USE DEF InvAll
<1>1. PICK h \in Handlers : Move(h)
  BY DEF NextAll, Move, Restart, allVars, jobs
<1>2. CASE OtherRequest(h)
  <2>1. op'[h] = "AddResult" => item'[h] \in Fresh(Rids)
    BY <1>2, RequestEnters DEF OtherRequest, Entered, Typed
  <2> QED
    BY <1>2, <2>1 DEF OtherRequest, JobsTyped
<1>3. CASE Verify(h)
  <2> DEFINE rule == asked[h][nth[h] + 1]
  <2>1. PICK r2 \in Fresh(Rids), value \in Verdicts(h, rule) :
          resultDoc' = [resultDoc EXCEPT ![r2] = [claim |-> claim[h], rule |-> rule,
                          value |-> value, session |-> ses[h], ev |-> FALSE]]
    BY <1>3 DEF Verify, Panic, jobs
  <2> HIDE DEF rule
  <2>2. r = r2 /\ resultDoc'[r] = [claim |-> claim[h], rule |-> rule,
                          value |-> value, session |-> ses[h], ev |-> FALSE]
    BY <2>1 DEF JobsTyped
  <2>3. value = "VerifyClaimErrorAttempt" <=> ClaimOf(h).type = "*ERROR"
    BY VerdictsTyped
  <2> QED
    BY <1>3, <2>2, <2>3 DEF Verify, At
<1>4. CASE PostAttest(h) \/ PostVerify(h) \/ ProcessAttest(h)
  BY <1>4 DEF PostAttest, PostVerify, ProcessAttest, Accept
<1>5. CASE WebOpen(h) \/ ClaimAdded(h) \/ ResultAdded(h) \/ WebClose(h) \/ CallProtocol(h)
  BY <1>5 DEF WebOpen, ClaimAdded, ResultAdded, WebClose, CallProtocol, Panic, AttestReturns,
     VerifyReturns, jobs
<1>6. CASE FetchToAttest(h) \/ WebReadClaim(h) \/ FetchToVerify(h) \/ WebRedirect(h)
           \/ ClaimAttached(h) \/ ResultAttached(h) \/ OperationStep(h)
  BY <1>6 DEF FetchToAttest, WebReadClaim, FetchToVerify, WebRedirect, ClaimAttached,
     ResultAttached, AttestReturns, VerifyReturns, OperationStep, jobs
<1> QED
  BY <1>1, <1>2, <1>3, <1>4, <1>5, <1>6 DEF Move, LocalStep

-----------------------------------------------------------------------------
(***************************************************************************)
(* Results refer to claims.                                                *)
(***************************************************************************)
(* What the content of a result says of its claim, whether or not the       *)
(* result is stored yet.                                                    *)
Truthful(r) ==
  LET d == resultDoc[r]
      ofError == d.value = "VerifyClaimErrorAttempt"
  IN d.value # "" =>
       \/ d.claim \in claims /\ (ofError <=> claimDoc[d.claim].type = "*ERROR")
       \/ d.claim = NoId /\ ~ofError

LEMMA TruthfulStep ==
  ASSUME InvAll, [NextAll]_allVars, NEW r \in Rids, Truthful(r)
  PROVE  Truthful(r)'
<1>1. claims \subseteq claims' /\ claims \subseteq Cids
  BY CollectionsGrow DEF Grow, InvAll, Typed
<1>2. ASSUME NEW c \in claims PROVE c \in claims' /\ claimDoc'[c] = claimDoc[c]
  BY <1>1, ClaimContents DEF Fresh
<1>3. CASE resultDoc'[r] = resultDoc[r]
  BY <1>1, <1>2, <1>3 DEF Truthful
<1>4. CASE resultDoc'[r] = NoResult
  <2>1. NoResult.value = ""
    BY DEF NoResult
  <2> QED
    BY <1>4, <2>1 DEF Truthful
<1>5. ASSUME NEW h \in Handlers, stage[h] = "verify", resultDoc'[r].claim = claim[h],
             resultDoc'[r].value = "VerifyClaimErrorAttempt" <=> ClaimOf(h).type = "*ERROR"
      PROVE  Truthful(r)'
  <2>1. claim[h] \in claims \cup {NoId} /\ NoId \notin claims
    BY <1>1, <1>5, IdsAssumption DEF InvAll, Sane, Waits
  <2>2. CASE claim[h] = NoId
    BY <1>5, <2>2 DEF Truthful, ClaimOf, Blank
  <2>3. CASE claim[h] \in claims
    <3>1. ClaimOf(h) = claimDoc[claim[h]] /\ claimDoc'[claim[h]] = claimDoc[claim[h]]
      BY <1>2, <2>1, <2>3 DEF ClaimOf
    <3> QED
      BY <1>1, <1>5, <2>3, <3>1 DEF Truthful
  <2> QED
    BY <2>1, <2>2, <2>3
<1> QED
  BY <1>3, <1>4, <1>5, ResultContents

(* Whatever handlers interleave, what Verify stored about a claim is true.  *)
THEOREM ResultsReferToClaimsHold == SpecAll => []ResultsReferToClaims
<1> DEFINE IInv == InvAll /\ \A r \in Rids : Truthful(r)
<1>1. InitAll => IInv
  <2> SUFFICES ASSUME InitAll PROVE IInv
    OBVIOUS
  <2>1. ASSUME NEW r \in Rids PROVE Truthful(r)
    <3>1. resultDoc[r].value = ""
      BY DEF InitAll, NoResult
    <3> QED
      BY <3>1 DEF Truthful
  <2> QED
    BY <2>1, InitInvAll
<1>2. IInv /\ [NextAll]_allVars => IInv'
  <2> SUFFICES ASSUME IInv, [NextAll]_allVars PROVE IInv'
    OBVIOUS
  <2>1. InvAll'
    BY StepInvAll
  <2>2. ASSUME NEW r \in Rids PROVE Truthful(r)'
    BY TruthfulStep
  <2> QED
    BY <2>1, <2>2
<1>3. IInv => ResultsReferToClaims
  BY DEF InvAll, Typed, ResultsReferToClaims, Truthful
<1> QED
  BY <1>1, <1>2, <1>3, PTL DEF SpecAll

-----------------------------------------------------------------------------
(***************************************************************************)
(* Accepted claims are listed.                                             *)
(***************************************************************************)
(* No other handler works on session s, or opened it.                       *)
LeftAlone(h, s) == \A g \in Handlers \ {h} : s \notin {sid[g], mine[g]}

Attached(h) ==
  /\ claim[h] \in claims /\ ses[h] \in Sids
  /\ LeftAlone(h, ses[h]) => Holds(session[ses[h]].claims, claim[h])

(* From the write that is reported as done, the session lists the claim.    *)
Accepted(h) ==
  /\ stage[h] = "attach" /\ pc[h] \in {"log", "done"} /\ outcome[h] = "ok" => Attached(h)
  /\ caller[h] = "postAttest" /\ stage[h] = "end" /\ claim[h] # NoId => Attached(h)

LEMMA LeftAloneBefore ==
  ASSUME InvAll, [NextAll]_allVars, NEW h \in Handlers, NEW s \in Sids, LeftAlone(h, s)'
  PROVE  LeftAlone(h, s)
BY NoneLetsGo DEF LeftAlone

(* While the handler stands still, so does the session that is left to it.  *)
LEMMA AttachedKept ==
  ASSUME InvAll, [NextAll]_allVars, NEW h \in Handlers, Attached(h),
         ses'[h] = ses[h], claim'[h] = claim[h], ~(Write(h) \/ WriteFails(h))
  PROVE  Attached(h)'
<1>1. ses[h] \in Sids /\ claims \subseteq claims'
  BY CollectionsGrow DEF Attached, Grow
<1>2. ASSUME LeftAlone(h, ses[h])' PROVE Holds(session'[ses[h]].claims, claim[h])
  <2>1. LeftAlone(h, ses[h])
    BY <1>1, <1>2, LeftAloneBefore
  <2>2. session'[ses[h]] = session[ses[h]]
    BY <1>1, <2>1, DocumentChange DEF LeftAlone
  <2> QED
    BY <2>1, <2>2 DEF Attached
<1> QED
  BY <1>1, <1>2 DEF Attached, LeftAlone

LEMMA AcceptedStep ==
  ASSUME InvAll, [NextAll]_allVars, NEW h \in Handlers, Accepted(h)
  PROVE  Accepted(h)'
<1> USE DEF InvAll
<1>0. Serves(h) /\ Waits(h) /\ Args(h)
  BY DEF Sane
<1>1. CASE \/ Still(h)
           \/ UNCHANGED <<caller, stage, ses, claim, outcome>> /\ pc'[h] \in {pc[h], "dead"}
  <2>1. ~(Write(h) \/ WriteFails(h)) \/ pc[h] = "write"
    BY DEF Write, WriteFails
  <2>2. Attached(h) /\ pc[h] # "write" => Attached(h)'
    BY <1>1, <2>1, AttachedKept DEF Still
  <2>3. stage[h] = "end" => pc[h] # "write"
    BY <1>0 DEF Serves
  <2> QED
    BY <1>1, <2>2, <2>3 DEF Accepted, Still
<1>2. CASE OperationStep(h)
  <2>1. UNCHANGED <<caller, stage, ses, claim, op, sid, item>> /\ stage[h] # "end"
    BY <1>0, <1>2, StepFrame DEF OperationStep, jobs, Serves
  <2> SUFFICES ASSUME stage[h] = "attach", pc'[h] \in {"log", "done"}, outcome'[h] = "ok"
               PROVE  Attached(h)'
    BY <2>1 DEF Accepted
  <2>2. /\ op[h] = "AddClaimToSession" /\ sid[h] = ses[h] /\ item[h] = claim[h]
        /\ claim[h] \in claims
    BY <1>0 DEF Waits
  <2>3. CASE Write(h)
    <3>1. pc[h] = "write" /\ sid[h] \in Sids /\ session'[sid[h]] = snap[h]
      BY <1>0, <2>3 DEF Write, Args, Typed
    <3>2. Holds(snap[h].claims, item[h])
      BY <1>0, <2>2, <3>1 DEF Args
    <3>3. claims' = claims
      BY <2>3 DEF Write
    <3> QED
      BY <2>1, <2>2, <3>1, <3>2, <3>3 DEF Attached
  <2>4. CASE MakeLogEntry(h)
    <3>1. pc[h] = "log" /\ outcome' = outcome
      BY <2>4 DEF MakeLogEntry
    <3>2. Attached(h) /\ ~(Write(h) \/ WriteFails(h))
      BY <3>1 DEF Accepted, Write, WriteFails
    <3> QED
      BY <2>1, <3>2, AttachedKept
  <2>5. Write(h) \/ MakeLogEntry(h)
    BY <1>2, <2>2 DEF OperationStep, Step, Typed, Go, Return, OpenSession, AddClaim, AddResult,
       InsertOne, RefuseItemID, Get, ReadFails, ReadToClose, ReadToAdd, CheckFails,
       AddClaimToSession, AddResultToSession, WriteFails
  <2> QED
    BY <2>3, <2>4, <2>5
<1>3. CASE ClaimAttached(h)
  <2>1. /\ stage[h] = "attach" /\ pc[h] = "done"
        /\ claim'[h] = IF outcome[h] = "ok" THEN claim[h] ELSE NoId
        /\ UNCHANGED <<vars, caller, ses>>
        /\ stage'[h] \in {"end", "attested"}
    BY <1>3 DEF ClaimAttached, At, AttestReturns, GoTo, JobsTyped
  <2>2. ~(Write(h) \/ WriteFails(h))
    BY <2>1 DEF Write, WriteFails
  <2>3. outcome[h] = "ok" => Attached(h)'
    BY <2>1, <2>2, AttachedKept DEF Accepted
  <2> QED
    BY <2>1, <2>3 DEF Accepted
<1>4. CASE ClaimAdded(h)
  <2>1. \/ stage'[h] = "attach" /\ pc'[h] = "read"
        \/ stage'[h] \in {"end", "attested"} /\ claim'[h] = NoId
    BY <1>4 DEF ClaimAdded, Call, AttestReturns, Go, GoTo, Typed, JobsTyped
  <2> QED
    BY <2>1 DEF Accepted
<1>5. CASE PostAttest(h) \/ PostVerify(h) \/ ProcessAttest(h)
  <2>1. stage'[h] \in {"fetch", "open"}
    BY <1>5 DEF PostAttest, PostVerify, ProcessAttest, Accept, GoTo, JobsTyped
  <2> QED
    BY <2>1 DEF Accepted
<1>6. CASE WebOpen(h) \/ FetchToAttest(h) \/ (CallProtocol(h) /\ ~Panic(h)) \/ (Verify(h) /\ ~Panic(h))
           \/ WebReadClaim(h) \/ WebClose(h)
  <2>1. stage'[h] \in {"fetch", "call", "addClaim", "addResult", "verify", "close"}
    BY <1>6 DEF WebOpen, FetchToAttest, CallProtocol, Verify, WebReadClaim, WebClose, Call, GoTo,
       JobsTyped
  <2> QED
    BY <2>1 DEF Accepted
<1>7. CASE ResultAdded(h) \/ ResultAttached(h) \/ FetchToVerify(h) \/ WebRedirect(h)
  <2>1. stage'[h] # "attach" /\ caller'[h] # "postAttest"
    BY <1>0, <1>7 DEF ResultAdded, ResultAttached, FetchToVerify, WebRedirect, VerifyReturns, At,
       Call, GoTo, JobsTyped, Serves
  <2> QED
    BY <2>1 DEF Accepted
<1>8. CASE OtherRequest(h)
  BY <1>0, <1>8, RequestEnters DEF OtherRequest, Serves, Accepted
<1>9. CASE Panic(h)
  BY <1>1, <1>9 DEF Panic, jobs, Go, Typed
<1>10. CASE Restart \/ UNCHANGED allVars
  BY <1>1, <1>10 DEF Restart, jobs, allVars, vars, locals, Typed
<1>11. ASSUME NEW g \in Handlers \ {h}, Move(g) PROVE Still(h)
  BY <1>11, OthersStill
<1>12. CASE Move(h)
  BY <1>2, <1>3, <1>4, <1>5, <1>6, <1>7, <1>8, <1>9, <1>12 DEF Move, LocalStep
<1> QED
  BY <1>1, <1>10, <1>11, <1>12 DEF NextAll, Move

(* A claim that a client was told of is stored, and in its session.         *)
THEOREM AcceptedClaimsListedHolds == SpecAll => []AcceptedClaimsListed
<1> DEFINE IInv == InvAll /\ \A h \in Handlers : Accepted(h)
<1>1. InitAll => IInv
  BY InitInvAll DEF InitAll, Accepted
<1>2. IInv /\ [NextAll]_allVars => IInv'
  <2> SUFFICES ASSUME IInv, [NextAll]_allVars PROVE IInv'
    OBVIOUS
  <2>1. InvAll'
    BY StepInvAll
  <2>2. ASSUME NEW h \in Handlers PROVE Accepted(h)'
    BY AcceptedStep
  <2> QED
    BY <2>1, <2>2
<1>3. IInv => AcceptedClaimsListed
  <2> SUFFICES ASSUME IInv, NEW h \in Handlers, caller[h] = "postAttest", At(h, "end"),
                      claim[h] # NoId
               PROVE  claim[h] \in claims /\ (Unshared(h, ses[h]) => Listed(ses[h], claim[h]))
    BY DEF AcceptedClaimsListed
  <2>1. Attached(h)
    BY DEF Accepted, At
  <2>2. Unshared(h, ses[h]) => Holds(session[ses[h]].claims, claim[h])
    BY <2>1 DEF Attached, LeftAlone, Unshared
  <2>3. session[ses[h]].claims \in Seq(Cids) /\ session[ses[h]].results \in Seq(Rids)
    BY <2>1 DEF Attached, InvAll, Typed, Document
  <2>4. Holds(session[ses[h]].claims, claim[h]) => Listed(ses[h], claim[h])
    BY <2>3, HoldsOccurs DEF Listed
  <2> QED
    BY <2>1, <2>2, <2>4 DEF Attached
<1> QED
  BY <1>1, <1>2, <1>3, PTL DEF SpecAll

-----------------------------------------------------------------------------
(***************************************************************************)
(* The session of the web form.                                            *)
(***************************************************************************)
(* The list holds n stored results: of the rules, in order, and claim c.    *)
Verified(list, n, rules, c, R, D) ==
  /\ Len(list) = n
  /\ \A k \in 1..n : list[k] \in R /\ D[list[k]].rule = rules[k] /\ D[list[k]].claim = c

(* The session lists the claim and the results of the first n rules.        *)
Lists(h, d, n) ==
  /\ d.claims = <<claim[h]>> /\ d.closed = 0
  /\ Verified(d.results, n, asked[h], claim[h], results, resultDoc)

Signed(h, d) ==
  /\ d.footer.claims = <<claim[h]>>
  /\ Verified(d.footer.results, Len(asked[h]), asked[h], claim[h], results, resultDoc)

(* A result is about the rule that Verify was called for last.              *)
About(h, r) == resultDoc[r].rule = asked[h][nth[h]] /\ resultDoc[r].claim = claim[h]

Wrote(h) == pc[h] \in {"log", "done"}

(* What the session d holds, and what has been reported, at every stage.    *)
Progress(h, d) ==
  /\ stage[h] # "fetch" => mine[h] \in opened /\ ses[h] = mine[h]
  /\ stage[h] = "fetch" =>
       d = NewSession /\ nth[h] = 0 /\ (Wrote(h) => outcome[h] = "ok" /\ mine[h] \in opened)
  /\ stage[h] = "call" => d = NewSession /\ nth[h] = 0
  /\ stage[h] = "addClaim" =>
       d = NewSession /\ nth[h] = 0 /\ (Wrote(h) => outcome[h] = "ok")
  /\ stage[h] = "attach" =>
       /\ nth[h] = 0 /\ outcome[h] = "ok"
       /\ d = IF Wrote(h) THEN ClaimListed(NewSession, claim[h]) ELSE NewSession
  /\ stage[h] = "attested" =>
       nth[h] = 0 /\ claim[h] \in claims /\ d = ClaimListed(NewSession, claim[h])
  /\ stage[h] = "verify" => claim[h] \in claims /\ Lists(h, d, nth[h])
  /\ stage[h] = "addResult" =>
       /\ claim[h] \in claims /\ nth[h] > 0 /\ About(h, item[h])
       /\ Lists(h, d, nth[h] - 1)
       /\ Wrote(h) => outcome[h] = "ok" /\ item[h] \in results
  /\ stage[h] = "attachResult" =>
       /\ claim[h] \in claims /\ nth[h] > 0 /\ About(h, item[h])
       /\ item[h] \in results /\ outcome[h] = "ok"
       /\ Lists(h, d, IF Wrote(h) THEN nth[h] ELSE nth[h] - 1)
  /\ stage[h] = "close" => IF Wrote(h) THEN Signed(h, d) ELSE Lists(h, d, Len(asked[h]))
  /\ stage[h] = "end" => Signed(h, d)

(* How the handler's copy differs from the session.                         *)
Copy(h, d) ==
  /\ pc[h] = "check" => snap[h] = d /\ op[h] # "CloseSession"
  /\ pc[h] = "write" =>
       /\ op[h] = "AddClaimToSession" => snap[h] = ClaimListed(d, item[h])
       /\ op[h] = "AddResultToSession" => snap[h] = ResultListed(d, item[h])
       /\ op[h] = "CloseSession" => \E t \in Nat : snap[h] = ClosedAt(d, t)

OnWeb(h) == Progress(h, session[mine[h]]) /\ Copy(h, session[mine[h]])

Web(h) ==
  caller[h] = "processAttest" /\ pc[h] # "dead" =>
    /\ stage[h] = "open" => nth[h] = 0
    /\ stage[h] # "open" /\ LeftAlone(h, mine[h]) => OnWeb(h)

(* The document of an id that nobody has worked on is the empty one.        *)
Unused(s) == (\A g \in Handlers : s \notin {sid[g], mine[g]}) => session[s] = NewSession

LEMMA VerifiedGrows ==
  ASSUME NEW list, NEW n, NEW rules, NEW c, NEW R, NEW R2, NEW D, NEW D2,
         Verified(list, n, rules, c, R, D), R \subseteq R2, \A r \in R : D2[r] = D[r]
  PROVE  Verified(list, n, rules, c, R2, D2)
BY DEF Verified

LEMMA VerifiedAppended ==
  ASSUME NEW S, NEW list \in Seq(S), NEW n \in Nat, NEW rules, NEW c, NEW R, NEW D,
         Verified(list, n, rules, c, R, D), NEW r \in S,
         r \in R, D[r].rule = rules[n + 1], D[r].claim = c
  PROVE  Verified(Append(list, r), n + 1, rules, c, R, D)
<1>1. /\ Len(Append(list, r)) = n + 1 /\ Append(list, r)[n + 1] = r
      /\ \A k \in 1..n : Append(list, r)[k] = list[k]
  BY DEF Verified
<1>2. ASSUME NEW k \in 1..(n + 1), k # n + 1 PROVE k \in 1..n
  BY <1>2
<1> QED
  BY <1>1, <1>2 DEF Verified

(* A write of a copy with an item appended is never one that changes nothing.*)
LEMMA AppendDiffers ==
  ASSUME NEW S, NEW list \in Seq(S), NEW i \in S
  PROVE  Append(list, i) # list
<1>1. Len(Append(list, i)) # Len(list)
  OBVIOUS
<1> QED
  BY <1>1

LEMMA UnusedStep ==
  ASSUME InvAll, [NextAll]_allVars, NEW s \in Sids, Unused(s)
  PROVE  Unused(s)'
<1> SUFFICES ASSUME \A g \in Handlers : s \notin {sid'[g], mine'[g]}
             PROVE  session'[s] = NewSession
  BY DEF Unused
<1>1. \A g \in Handlers : s \notin {sid[g], mine[g]}
  BY NoneLetsGo
<1>2. session'[s] = session[s]
  BY <1>1, DocumentChange
<1> QED
  BY <1>1, <1>2 DEF Unused

(* The results that are stored, or about to be, keep their contents.        *)
LEMMA ResultKept ==
  ASSUME InvAll, [NextAll]_allVars
  PROVE  /\ \A r \in results : resultDoc'[r] = resultDoc[r]
         /\ \A h \in Handlers : op[h] = "AddResult" => resultDoc'[item[h]] = resultDoc[item[h]]
<1>1. results \subseteq Rids /\ \A h \in Handlers : op[h] = "AddResult" => item[h] \in Rids
  BY DEF InvAll, Typed, Sane, Args
<1>2. \A r \in results : r \notin Fresh(Rids)
  BY DEF Fresh
<1>3. \A h \in Handlers : op[h] = "AddResult" => item[h] \notin Fresh(Rids)
  BY DEF Fresh, Inserts
<1> QED
  BY <1>1, <1>2, <1>3, ResultContents

(* The others leave the form's session and its results as they are.         *)
LEMMA WebStill ==
  ASSUME InvAll, [NextAll]_allVars, NEW h \in Handlers, Still(h), Web(h)
  PROVE  Web(h)'
<1> USE DEF InvAll
<1> SUFFICES ASSUME caller[h] = "processAttest", pc[h] # "dead", stage[h] # "open",
                    LeftAlone(h, mine[h])'
             PROVE  OnWeb(h)'
  BY DEF Web, Still
<1>1. mine[h] \in Sids /\ Serves(h) /\ Waits(h)
  BY DEF Sane, Serves, JobsTyped
<1>2. LeftAlone(h, mine[h])
  <2>1. mine'[h] = mine[h]
    BY DEF Still
  <2> QED
    BY <1>1, <2>1, LeftAloneBefore DEF LeftAlone
<1>3. session'[mine[h]] = session[mine[h]]
  <2>1. ~(Write(h) \/ WriteFails(h))
    BY DEF Write, WriteFails, Go, Return, Typed, Still
  <2> QED
    BY <1>1, <1>2, <2>1, DocumentChange DEF LeftAlone
<1>4. Grow
  BY CollectionsGrow
<1>5. /\ \A r \in results : resultDoc'[r] = resultDoc[r]
      /\ stage[h] = "addResult" => resultDoc'[item[h]] = resultDoc[item[h]]
  BY <1>1, ResultKept DEF Waits
<1>6. \A list, n : Verified(list, n, asked[h], claim[h], results, resultDoc)
                     => Verified(list, n, asked[h], claim[h], results', resultDoc')
  BY <1>4, <1>5, VerifiedGrows DEF Grow
<1>7. OnWeb(h)
  BY <1>2 DEF Web
<1>8. Copy(h, session[mine[h]])'
  BY <1>3, <1>7 DEF OnWeb, Copy, Still
<1>9. Progress(h, session[mine[h]])'
  <2> DEFINE d == session[mine[h]]
  <2>1. \A n : Lists(h, d, n) => /\ d.claims = <<claim[h]>> /\ d.closed = 0
                                 /\ Verified(d.results, n, asked'[h], claim'[h], results', resultDoc')
    BY <1>6 DEF Lists, Still
  <2>2. Signed(h, d) =>
          /\ d.footer.claims = <<claim[h]>>
          /\ Verified(d.footer.results, Len(asked[h]), asked'[h], claim'[h], results', resultDoc')
    BY <1>6 DEF Signed, Still
  <2>3. d' = d
    BY <1>3 DEF Still
  <2>4. \A n : Lists(h, d, n) =>
          /\ d'.claims = <<claim'[h]>> /\ d'.closed = 0
          /\ Verified(d'.results, n, asked'[h], claim'[h], results', resultDoc')
    BY <2>1, <2>3 DEF Still
  <2>5. Signed(h, d) => Signed(h, d)'
    BY <2>2, <2>3 DEF Signed, Still
  <2>6. stage[h] \in {"addResult", "attachResult"} => (About(h, item[h]) => About(h, item[h])')
    BY <1>5, <1>7 DEF OnWeb, Progress, About, Still
  <2>7. Progress(h, d)
    BY <1>7 DEF OnWeb
  <2> HIDE DEF d
  <2>8. Progress(h, d)'
    BY <1>4, <2>3, <2>4, <2>5, <2>6, <2>7 DEF Progress, Wrote, Lists, Still, Grow
  <2> QED
    BY <2>8 DEF d
<1> QED
  BY <1>8, <1>9 DEF OnWeb

(* The form's own steps outside the operations of module Sessions.          *)
LEMMA WebTurns ==
  ASSUME InvAll, NEW h \in Handlers, ~Faults, caller[h] = "processAttest", OnWeb(h),
         \/ FetchToAttest(h) \/ ClaimAttached(h) \/ WebReadClaim(h) \/ ResultAttached(h)
         \/ WebRedirect(h)
  PROVE  OnWeb(h)'
<1> USE DEF InvAll
<1>0. Waits(h) /\ pc[h] = "done"
  BY DEF Sane, FetchToAttest, ClaimAttached, WebReadClaim, ResultAttached, WebRedirect, At
<1>1. UNCHANGED <<vars, caller, mine, asked, nth, claimDoc, resultDoc>>
  BY DEF FetchToAttest, ClaimAttached, WebReadClaim, ResultAttached, WebRedirect, AttestReturns,
         VerifyReturns
<1> DEFINE d == session[mine[h]]
<1>2. d' = d /\ pc'[h] = "done"
  BY <1>0, <1>1 DEF vars, stores, locals
<1>3. Progress(h, d)
  BY DEF OnWeb
<1>4. ses'[h] = ses[h] /\ claim'[h] = claim[h]
  <2>1. CASE FetchToAttest(h)
    BY <1>0, <1>3, <2>1 DEF FetchToAttest, At, Progress, Wrote, Waits
  <2>2. CASE ClaimAttached(h)
    <3>1. outcome[h] = "ok"
      BY <1>3, <2>2 DEF ClaimAttached, At, Progress
    <3> QED
      BY <2>2, <3>1 DEF ClaimAttached, AttestReturns, JobsTyped
  <2>3. CASE WebReadClaim(h)
    BY <1>3, <2>3 DEF WebReadClaim, At, Progress
  <2>4. CASE ResultAttached(h) \/ WebRedirect(h)
    BY <2>4 DEF ResultAttached, WebRedirect, VerifyReturns
  <2> QED
    BY <2>1, <2>2, <2>3, <2>4
<1>5. CASE FetchToAttest(h)
  <2>1. stage[h] = "fetch" /\ stage'[h] = "call"
    BY <1>5 DEF FetchToAttest, At, GoTo, JobsTyped
  <2> HIDE DEF d
  <2>2. Progress(h, d)'
    BY <1>0, <1>1, <1>2, <1>3, <1>4, <2>1 DEF Progress, Wrote, Waits, vars, stores
  <2> QED
    BY <1>2, <2>2 DEF OnWeb, Copy, d
<1>6. CASE ClaimAttached(h)
  <2>1. stage[h] = "attach" /\ stage'[h] = "attested"
    BY <1>6 DEF ClaimAttached, At, AttestReturns, GoTo, JobsTyped
  <2> HIDE DEF d
  <2>2. Progress(h, d)'
    BY <1>0, <1>1, <1>2, <1>3, <1>4, <2>1 DEF Progress, Wrote, Waits, vars, stores
  <2> QED
    BY <1>2, <2>2 DEF OnWeb, Copy, d
<1>7. CASE WebReadClaim(h)
  <2>1. stage[h] = "attested" /\ stage'[h] = "verify"
    BY <1>7 DEF WebReadClaim, At, GoTo, JobsTyped
  <2>2. ClaimListed(NewSession, claim[h]).claims = <<claim[h]>>
        /\ ClaimListed(NewSession, claim[h]).closed = 0
    BY DEF ClaimListed, NewSession
  <2>3. Verified(ClaimListed(NewSession, claim[h]).results, 0, asked[h], claim[h], results, resultDoc)
    BY DEF ClaimListed, NewSession, Verified
  <2>4. Lists(h, d, 0)'
    BY <1>1, <1>2, <1>3, <1>4, <2>1, <2>2, <2>3 DEF Progress, Lists, vars, stores
  <2> HIDE DEF d
  <2>5. Progress(h, d)'
    BY <1>0, <1>1, <1>2, <1>3, <1>4, <2>1, <2>4 DEF Progress, Wrote, Waits, vars, stores
  <2> QED
    BY <1>2, <2>5 DEF OnWeb, Copy, d
<1>8. CASE ResultAttached(h)
  <2>1. stage[h] = "attachResult" /\ stage'[h] = "verify"
    BY <1>8 DEF ResultAttached, At, VerifyReturns, GoTo, JobsTyped
  <2> HIDE DEF d
  <2>2. Progress(h, d)'
    BY <1>0, <1>1, <1>2, <1>3, <1>4, <2>1 DEF Progress, Wrote, Waits, Lists, vars, stores
  <2> QED
    BY <1>2, <2>2 DEF OnWeb, Copy, d
<1>9. CASE WebRedirect(h)
  <2>1. stage[h] = "close" /\ stage'[h] = "end"
    BY <1>9 DEF WebRedirect, At, GoTo, JobsTyped
  <2> HIDE DEF d
  <2>2. Progress(h, d)'
    BY <1>0, <1>1, <1>2, <1>3, <1>4, <2>1 DEF Progress, Wrote, Waits, Signed, vars, stores
  <2> QED
    BY <1>2, <2>2 DEF OnWeb, Copy, d
<1> QED
  BY <1>5, <1>6, <1>7, <1>8, <1>9

(* The form enters an operation: all that was done so far was reported.     *)
LEMMA WebCalls ==
  ASSUME InvAll, [NextAll]_allVars, NEW h \in Handlers, ~Faults, caller[h] = "processAttest",
         OnWeb(h), ~Panic(h),
         \/ ClaimAdded(h) \/ CallProtocol(h) \/ Verify(h) \/ ResultAdded(h) \/ WebClose(h)
  PROVE  OnWeb(h)'
<1> USE DEF InvAll
<1>0. Waits(h) /\ pc[h] = "done"
  BY DEF Sane, ClaimAdded, CallProtocol, Verify, ResultAdded, WebClose, At
<1> DEFINE d == session[mine[h]]
<1>1. Progress(h, d)
  BY DEF OnWeb
<1>2. UNCHANGED <<stores, outcome, caller, mine, ses, asked>>
  BY <1>0, <1>1 DEF ClaimAdded, CallProtocol, Verify, ResultAdded, WebClose, Call, At, Progress, Wrote,
     AttestReturns, VerifyReturns, vars, locals
<1>3. d' = d
  BY <1>2 DEF stores
<1>4. CASE CallProtocol(h)
  <2>1. stage[h] = "call" /\ stage'[h] = "addClaim" /\ pc'[h] = "insert" /\ nth' = nth
    BY <1>4 DEF CallProtocol, At, Call, Go, GoTo, Typed, JobsTyped
  <2> HIDE DEF d
  <2>2. Progress(h, d)'
    BY <1>1, <1>2, <1>3, <2>1 DEF Progress, Wrote, stores
  <2> QED
    BY <2>1, <2>2 DEF OnWeb, Copy, d
<1>5. CASE ClaimAdded(h)
  <2>0. stage[h] = "addClaim" /\ outcome[h] = "ok"
    BY <1>0, <1>1, <1>5 DEF ClaimAdded, At, Progress, Wrote
  <2>1. /\ stage'[h] = "attach" /\ pc'[h] = "read" /\ nth' = nth /\ claim' = claim
    BY <1>5, <2>0 DEF ClaimAdded, Call, Go, GoTo, Typed, JobsTyped
  <2> HIDE DEF d
  <2>2. Progress(h, d)'
    BY <1>1, <1>2, <1>3, <2>0, <2>1 DEF Progress, Wrote, stores
  <2> QED
    BY <2>1, <2>2 DEF OnWeb, Copy, d
<1>6. CASE Verify(h)
  <2>1. /\ stage[h] = "verify" /\ stage'[h] = "addResult" /\ pc'[h] = "insert"
        /\ claim' = claim /\ nth'[h] = nth[h] + 1 /\ nth[h] \in Nat
    BY <1>6 DEF Verify, At, Call, Go, GoTo, Typed, JobsTyped
  <2>2. About(h, item[h])'
    <3>1. PICK r \in Fresh(Rids), value \in Verdicts(h, asked[h][nth[h] + 1]) :
            /\ item' = [item EXCEPT ![h] = r]
            /\ resultDoc' = [resultDoc EXCEPT ![r] =
                 [claim |-> claim[h], rule |-> asked[h][nth[h] + 1], value |-> value,
                  session |-> ses[h], ev |-> FALSE]]
      BY <1>6 DEF Verify, Call
    <3>2. item'[h] = r /\ r \in Rids
      BY <3>1 DEF Typed, Fresh
    <3>3. resultDoc'[r] = [claim |-> claim[h], rule |-> asked[h][nth[h] + 1], value |-> value,
                           session |-> ses[h], ev |-> FALSE]
      BY <3>1, <3>2 DEF JobsTyped
    <3> QED
      BY <1>2, <2>1, <3>2, <3>3 DEF About
  <2>3. Lists(h, d, nth[h])
    BY <1>1, <2>1 DEF Progress
  <2>4. Verified(d.results, nth[h], asked[h], claim[h], results', resultDoc')
    <3>1. results' = results
      BY <1>2 DEF stores
    <3> QED
      BY <2>3, <3>1, ResultKept, VerifiedGrows DEF Lists
  <2>5. nth'[h] > 0 /\ nth'[h] - 1 = nth[h]
    BY <2>1
  <2>6. /\ claim'[h] \in claims' /\ mine'[h] \in opened' /\ ses'[h] = mine'[h]
        /\ d'.claims = <<claim'[h]>> /\ d'.closed = 0
        /\ Verified(d'.results, nth'[h] - 1, asked'[h], claim'[h], results', resultDoc')
    BY <1>1, <1>2, <1>3, <2>1, <2>3, <2>4, <2>5 DEF Progress, Lists, stores
  <2> HIDE DEF d
  <2>7. Progress(h, d)'
    BY <2>1, <2>2, <2>5, <2>6 DEF Progress, Lists, Wrote
  <2> QED
    BY <2>1, <2>7 DEF OnWeb, Copy, d
<1>7. CASE ResultAdded(h)
  <2>0. stage[h] = "addResult" /\ outcome[h] = "ok"
    BY <1>0, <1>1, <1>7 DEF ResultAdded, At, Progress, Wrote
  <2>1. /\ stage'[h] = "attachResult" /\ pc'[h] = "read" /\ item'[h] = item[h]
        /\ UNCHANGED <<nth, claim, resultDoc>>
    BY <1>7, <2>0 DEF ResultAdded, Call, Go, GoTo, Typed, JobsTyped
  <2> HIDE DEF d
  <2>2. Progress(h, d)'
    BY <1>0, <1>1, <1>2, <1>3, <2>0, <2>1 DEF Progress, Wrote, Lists, About, stores
  <2> QED
    BY <2>1, <2>2 DEF OnWeb, Copy, d
<1>8. CASE WebClose(h)
  <2>1. /\ stage[h] = "verify" /\ nth[h] = Len(asked[h])
        /\ stage'[h] = "close" /\ pc'[h] = "read" /\ UNCHANGED <<nth, claim, resultDoc>>
    BY <1>8 DEF WebClose, At, Call, Go, GoTo, Typed, JobsTyped
  <2> HIDE DEF d
  <2>2. Progress(h, d)'
    BY <1>1, <1>2, <1>3, <2>1 DEF Progress, Wrote, Lists, stores
  <2> QED
    BY <2>1, <2>2 DEF OnWeb, Copy, d
<1> QED
  BY <1>4, <1>5, <1>6, <1>7, <1>8

(* The form's write: the document becomes the copy, which differs from it.  *)
LEMMA WebWrite ==
  ASSUME InvAll, NEW h \in Handlers, OnWeb(h), UNCHANGED jobs, Write(h),
         mine[h] \in Sids, sid[h] = mine[h],
         \/ stage[h] = "attach" /\ op[h] = "AddClaimToSession" /\ item[h] = claim[h]
         \/ stage[h] = "attachResult" /\ op[h] = "AddResultToSession"
         \/ stage[h] = "close" /\ op[h] = "CloseSession"
  PROVE  OnWeb(h)'
<1> USE DEF InvAll
<1> DEFINE d == session[mine[h]]
<1>1. /\ pc[h] = "write" /\ d \in Document /\ Args(h) /\ item' = item
      /\ UNCHANGED <<opened, claims, results>>
  BY DEF Write, Typed, Sane
<1>2. Progress(h, d) /\ Copy(h, d)
  BY DEF OnWeb
<1>3. d' = snap[h]
  BY DEF Write, Typed, jobs
<1>4. pc'[h] \in {"log", "done"} /\ (snap[h] # d => outcome'[h] = "ok")
  BY DEF Write, Go, Return, Typed
<1>5. CASE stage[h] = "attach" /\ op[h] = "AddClaimToSession" /\ item[h] = claim[h]
  <2>1. snap[h] = ClaimListed(d, claim[h]) /\ claim[h] \in Cids /\ d = NewSession
    BY <1>1, <1>2, <1>5 DEF Copy, Progress, Wrote, Args
  <2>2. d.claims \in Seq(Cids)
    BY <1>1 DEF Document
  <2>3. snap[h] # d
    BY <2>1, <2>2, AppendDiffers DEF ClaimListed
  <2> HIDE DEF d
  <2>4. Progress(h, d)'
    BY <1>1, <1>2, <1>3, <1>4, <1>5, <2>1, <2>3 DEF Progress, Wrote, jobs
  <2> QED
    BY <1>4, <2>4 DEF OnWeb, Copy, d
<1>6. CASE stage[h] = "attachResult" /\ op[h] = "AddResultToSession"
  <2>1. /\ snap[h] = ResultListed(d, item[h]) /\ item[h] \in Rids
        /\ Lists(h, d, nth[h] - 1) /\ About(h, item[h])
        /\ item[h] \in results /\ nth[h] > 0 /\ nth[h] \in Nat
    BY <1>1, <1>2, <1>6 DEF Copy, Progress, Wrote, Args, JobsTyped
  <2>2. d.results \in Seq(Rids) /\ nth[h] - 1 \in Nat /\ (nth[h] - 1) + 1 = nth[h]
    BY <1>1, <2>1 DEF Document
  <2>3. Append(d.results, item[h]) # d.results
    BY <2>1, <2>2, AppendDiffers
  <2>4. /\ snap[h].claims = d.claims /\ snap[h].closed = d.closed
        /\ snap[h].results = Append(d.results, item[h])
    BY <2>1 DEF ResultListed
  <2>5. Verified(snap[h].results, nth[h], asked[h], claim[h], results, resultDoc)
    <3>1. Verified(Append(d.results, item[h]), (nth[h] - 1) + 1, asked[h], claim[h], results, resultDoc)
      BY <2>1, <2>2, VerifiedAppended DEF Lists, About
    <3> QED
      BY <2>2, <2>4, <3>1
  <2>6. outcome'[h] = "ok"
    BY <1>4, <2>3, <2>4
  <2>7. Lists(h, d, nth[h])'
    BY <1>1, <1>3, <2>1, <2>4, <2>5 DEF Lists, jobs
  <2> HIDE DEF d
  <2>8. Progress(h, d)'
    BY <1>1, <1>2, <1>4, <1>6, <2>1, <2>6, <2>7 DEF Progress, Wrote, About, jobs
  <2> QED
    BY <1>4, <2>8 DEF OnWeb, Copy, d
<1>7. CASE stage[h] = "close" /\ op[h] = "CloseSession"
  <2>1. PICK t \in Nat : snap[h] = ClosedAt(d, t)
    BY <1>1, <1>2, <1>7 DEF Copy
  <2>2. Lists(h, d, Len(asked[h]))
    BY <1>1, <1>2, <1>7 DEF Progress, Wrote
  <2>3. snap[h].footer.claims = d.claims /\ snap[h].footer.results = d.results
    BY <2>1 DEF ClosedAt, HashablePart
  <2>4. Signed(h, d)'
    BY <1>1, <1>3, <2>2, <2>3 DEF Lists, Signed, jobs
  <2> HIDE DEF d
  <2>5. Progress(h, d)'
    BY <1>1, <1>2, <1>4, <1>7, <2>4 DEF Progress, Wrote, jobs
  <2> QED
    BY <1>4, <2>5 DEF OnWeb, Copy, d
<1> QED
  BY <1>5, <1>6, <1>7

LEMMA WebOperation ==
  ASSUME InvAll, NEW h \in Handlers, ~Faults, caller[h] = "processAttest", OnWeb(h),
         OperationStep(h)
  PROVE  OnWeb(h)'
<1> USE DEF InvAll
<1> DEFINE d == session[mine[h]]
<1>1. /\ Step(h) /\ UNCHANGED jobs /\ UNCHANGED <<op, sid, item>> /\ Grow
      /\ pc[h] \notin {"idle", "done", "dead"} /\ stage[h] # "none"
      /\ Args(h) /\ Serves(h) /\ Waits(h) /\ Progress(h, d) /\ Copy(h, d)
  BY StepFrame DEF OperationStep, Sane, OnWeb, Serves
<1>2. mine[h] \in Sids /\ d \in Document
  BY <1>1 DEF Serves, JobsTyped, Typed
<1>3. /\ op[h] \in Inserts =>
           /\ pc[h] \in {"insert", "log"}
           /\ \/ stage[h] = "fetch" /\ op[h] = "OpenSession" /\ sid[h] = mine[h]
              \/ stage[h] = "addClaim" /\ op[h] = "AddClaim"
              \/ stage[h] = "addResult" /\ op[h] = "AddResult"
      /\ op[h] \notin Inserts =>
           /\ sid[h] = mine[h] /\ mine[h] \in opened
           /\ \/ stage[h] = "attach" /\ op[h] = "AddClaimToSession" /\ item[h] = claim[h]
                 /\ claim[h] \in claims
              \/ stage[h] = "attachResult" /\ op[h] = "AddResultToSession" /\ item[h] \in results
              \/ stage[h] = "close" /\ op[h] = "CloseSession"
  BY <1>1 DEF Args, Serves, Waits, Progress, Inserts, JobsTyped, Stages
<1>4. CASE OpenSession(h) \/ AddClaim(h) \/ AddResult(h)
  <2>1. /\ d' = d /\ pc[h] = "insert" /\ pc'[h] = "log" /\ outcome'[h] = "ok" /\ op[h] \in Inserts
        /\ op[h] = "OpenSession" => sid[h] \in opened'
        /\ op[h] = "AddResult" => item[h] \in results'
    BY <1>1, <1>4 DEF OpenSession, AddClaim, AddResult, InsertOne, Go, Typed, Inserts, jobs
  <2>2. \A n : Lists(h, d, n) =>
          /\ d'.claims = <<claim'[h]>> /\ d'.closed = 0
          /\ Verified(d'.results, n, asked'[h], claim'[h], results', resultDoc')
    BY <1>1, <2>1, VerifiedGrows DEF Lists, Grow, jobs
  <2> HIDE DEF d
  <2>3. Progress(h, d)'
    BY <1>1, <1>3, <2>1, <2>2 DEF Progress, Wrote, Lists, About, Grow, jobs
  <2> QED
    BY <2>1, <2>3 DEF OnWeb, Copy, d
<1>5. CASE MakeLogEntry(h)
  <2>1. d' = d /\ UNCHANGED <<opened, claims, results, outcome>> /\ pc[h] = "log" /\ pc'[h] = "done"
    BY <1>1, <1>5 DEF MakeLogEntry, Go, Typed, jobs
  <2> HIDE DEF d
  <2>2. Progress(h, d)'
    BY <1>1, <2>1 DEF Progress, Wrote, Lists, Signed, About, jobs
  <2> QED
    BY <2>1, <2>2 DEF OnWeb, Copy, d
<1>6. CASE Get(h) \/ ReadToAdd(h) \/ AddClaimToSession(h) \/ AddResultToSession(h) \/ ReadToClose(h)
  <2>1. /\ pc[h] \in {"get", "read", "check"} /\ op[h] \notin Inserts
        /\ UNCHANGED <<opened, session, claims, results>>
    BY <1>3, <1>6 DEF Get, ReadToAdd, AddClaimToSession, AddResultToSession, ReadToClose, stores
  <2>2. d' = d /\ Found(h)
    BY <1>1, <1>3, <2>1 DEF Found, jobs
  <2>3. stage[h] = "close" => d.closed = 0
    BY <1>1, <2>1 DEF Progress, Wrote, Lists
  <2>4. pc'[h] \in {"read", "check", "write"} /\ outcome'[h] = outcome[h]
    <3>1. CASE Get(h)
      BY <2>2, <3>1 DEF Get, Go, Typed
    <3>2. CASE ReadToClose(h)
      BY <1>3, <2>1, <2>3, <3>2 DEF ReadToClose, Go, Typed
    <3>3. CASE ReadToAdd(h) \/ AddClaimToSession(h) \/ AddResultToSession(h)
      BY <3>3 DEF ReadToAdd, AddClaimToSession, AddResultToSession, Go, Typed
    <3> QED
      BY <1>6, <3>1, <3>2, <3>3
  <2>5. Copy(h, d)'
    <3>1. CASE Get(h)
      <4>1. pc'[h] = "read"
        BY <2>2, <3>1 DEF Get, Go, Typed
      <4> QED
        BY <4>1 DEF Copy
    <3>2. CASE ReadToClose(h)
      <4>1. op[h] = "CloseSession" /\ snap'[h] = ClosedAt(d, clock + 1) /\ clock + 1 \in Nat
            /\ pc'[h] = "write"
        BY <1>3, <2>1, <2>3, <3>2 DEF ReadToClose, Go, Typed
      <4> HIDE DEF d
      <4> QED
        BY <1>1, <2>2, <4>1 DEF Copy
    <3>3. CASE ReadToAdd(h)
      BY <1>1, <1>3, <2>1, <2>2, <3>3 DEF ReadToAdd, Copy, Go, Typed
    <3>4. CASE AddClaimToSession(h)
      <4>1. /\ op[h] = "AddClaimToSession" /\ snap'[h] = ClaimListed(d, item[h]) /\ pc'[h] = "write"
        BY <1>1, <3>4 DEF AddClaimToSession, Copy, Go, Typed
      <4> HIDE DEF d
      <4> QED
        BY <1>1, <2>2, <4>1 DEF Copy
    <3>5. CASE AddResultToSession(h)
      <4>1. /\ op[h] = "AddResultToSession" /\ snap'[h] = ResultListed(d, item[h])
            /\ pc'[h] = "write"
        BY <1>1, <3>5 DEF AddResultToSession, Copy, Go, Typed
      <4> HIDE DEF d
      <4> QED
        BY <1>1, <2>2, <4>1 DEF Copy
    <3> QED
      BY <1>6, <3>1, <3>2, <3>3, <3>4, <3>5
  <2> HIDE DEF d
  <2>6. Progress(h, d)'
    BY <1>1, <1>3, <2>1, <2>2, <2>4 DEF Progress, Wrote, Lists, Signed, About, jobs
  <2> QED
    BY <2>5, <2>6 DEF OnWeb, d
<1>7. CASE Write(h)
  <2>1. op[h] \notin Inserts
    BY <1>3, <1>7 DEF Write
  <2> QED
    BY <1>1, <1>2, <1>3, <1>7, <2>1, WebWrite
<1>8. ~(RefuseItemID(h) \/ ReadFails(h) \/ CheckFails(h) \/ WriteFails(h))
  BY <1>1, <1>3 DEF OperationStep, RefuseItemID, ReadFails, CheckFails, WriteFails, Found, Exists, Copy,
     Inserts
<1> QED
  BY <1>1, <1>4, <1>5, <1>6, <1>7, <1>8 DEF Step

LEMMA WebMove ==
  ASSUME InvAll, [NextAll]_allVars, NEW h \in Handlers, ~Faults, Move(h), Web(h),
         \A s \in Sids : Unused(s)
  PROVE  Web(h)'
<1> USE DEF InvAll
<1> SUFFICES ASSUME caller'[h] = "processAttest", pc'[h] # "dead" PROVE Web(h)'
  BY DEF Web
<1>0. Serves(h) /\ Waits(h)
  BY DEF Sane
<1>1. CASE OtherRequest(h)
  BY <1>0, <1>1, RequestEnters DEF OtherRequest, Serves
<1>2. CASE PostAttest(h) \/ PostVerify(h) \/ ProcessAttest(h)
  <2>1. ProcessAttest(h)
    BY <1>2 DEF PostAttest, PostVerify, Accept, JobsTyped
  <2>2. stage'[h] = "open" /\ nth'[h] = 0
    BY <1>0, <2>1 DEF ProcessAttest, Accept, GoTo, Serves, JobsTyped
  <2> QED
    BY <2>2 DEF Web
<1>3. CASE WebOpen(h)
  <2>1. PICK s \in Fresh(Sids) :
          /\ Call(h, "OpenSession", s, NoId, "insert", "fetch")
          /\ mine' = [mine EXCEPT ![h] = s]
    BY <1>3 DEF WebOpen
  <2>2. /\ s \in Sids /\ mine'[h] = s /\ stage'[h] = "fetch" /\ pc'[h] = "insert"
        /\ session' = session /\ nth' = nth /\ caller' = caller
    BY <1>3, <2>1 DEF WebOpen, Call, Go, GoTo, stores, Fresh, Typed, JobsTyped
  <2>3. caller[h] = "processAttest" /\ stage[h] = "open" /\ pc[h] = "done" /\ nth[h] = 0
    BY <1>3, <2>2 DEF WebOpen, At, Web
  <2>4. sid[h] = NoId /\ mine[h] = NoId /\ s # NoId
    BY <1>0, <2>2, <2>3, IdsAssumption DEF Serves
  <2> SUFFICES ASSUME LeftAlone(h, s)' PROVE OnWeb(h)'
    BY <2>2 DEF Web, LeftAlone
  <2>5. LeftAlone(h, s)
    BY <2>2, LeftAloneBefore
  <2>6. session[s] = NewSession
    BY <2>2, <2>4, <2>5 DEF LeftAlone, Unused
  <2> QED
    BY <2>2, <2>3, <2>6 DEF OnWeb, Progress, Copy, Wrote
<1>4. CASE (LocalStep(h) /\ ~WebOpen(h)) \/ CallProtocol(h)
  <2>1. /\ caller[h] = "processAttest" /\ mine' = mine /\ ~Panic(h)
        /\ stage[h] # "open" /\ pc[h] # "dead"
    <3>1. ~Panic(h)
      BY DEF Panic, Go, Typed
    <3>2. caller' = caller /\ mine' = mine
      BY <1>4, <3>1 DEF LocalStep, OperationStep, FetchToAttest, ClaimAdded, ClaimAttached, WebReadClaim,
         FetchToVerify, Verify, ResultAdded, ResultAttached, WebClose, WebRedirect, CallProtocol,
         AttestReturns, VerifyReturns, jobs
    <3>3. CASE OperationStep(h)
      BY <1>0, <3>1, <3>2, <3>3, StepFrame DEF OperationStep, Serves
    <3>4. CASE ~OperationStep(h)
      BY <1>4, <3>2, <3>1, <3>4 DEF LocalStep, FetchToAttest, ClaimAdded, ClaimAttached, WebReadClaim,
         FetchToVerify, Verify, ResultAdded, ResultAttached, WebClose, WebRedirect, CallProtocol, At
    <3> QED
      BY <3>1, <3>2, <3>3, <3>4
  <2>2. mine[h] \in Sids
    BY <1>0, <2>1 DEF Serves, JobsTyped
  <2>3. stage'[h] # "open"
    <3>1. CASE OperationStep(h)
      BY <2>1, <3>1 DEF OperationStep, jobs
    <3>2. CASE ~OperationStep(h)
      BY <1>4, <2>1, <3>2 DEF LocalStep, FetchToAttest, ClaimAdded, ClaimAttached, WebReadClaim,
         FetchToVerify, Verify, ResultAdded, ResultAttached, WebClose, WebRedirect, CallProtocol,
         AttestReturns, VerifyReturns, Call, GoTo, JobsTyped
    <3> QED
      BY <3>1, <3>2
  <2> SUFFICES ASSUME LeftAlone(h, mine[h])' PROVE OnWeb(h)'
    BY <2>3 DEF Web
  <2>4. LeftAlone(h, mine[h])
    BY <2>1, <2>2, LeftAloneBefore DEF LeftAlone
  <2>5. OnWeb(h)
    BY <2>1, <2>4 DEF Web
  <2>6. CASE OperationStep(h)
    BY <2>1, <2>5, <2>6, WebOperation
  <2>7. CASE \/ FetchToAttest(h) \/ ClaimAttached(h) \/ WebReadClaim(h) \/ ResultAttached(h)
             \/ WebRedirect(h)
    BY <2>1, <2>5, <2>7, WebTurns
  <2>8. CASE ClaimAdded(h) \/ CallProtocol(h) \/ Verify(h) \/ ResultAdded(h) \/ WebClose(h)
    BY <2>1, <2>5, <2>8, WebCalls
  <2>9. ~FetchToVerify(h)
    BY <2>1 DEF FetchToVerify
  <2> QED
    BY <1>4, <2>6, <2>7, <2>8, <2>9 DEF LocalStep
<1> QED
  BY <1>1, <1>2, <1>3, <1>4 DEF Move, LocalStep

LEMMA WebStep ==
  ASSUME InvAll, [NextAll]_allVars, NEW h \in Handlers, ~Faults, Web(h),
         \A s \in Sids : Unused(s)
  PROVE  Web(h)'
<1>1. CASE Move(h)
  BY <1>1, WebMove
<1>2. ASSUME NEW g \in Handlers \ {h}, Move(g) PROVE Web(h)'
  BY <1>2, OthersStill, WebStill
<1>3. CASE UNCHANGED allVars
  <2>1. Still(h)
    BY <1>3 DEF allVars, vars, locals, jobs, Still
  <2> QED
    BY <2>1, WebStill
<1>4. ~Restart
  BY DEF Restart
<1> QED
  BY <1>1, <1>2, <1>3, <1>4 DEF NextAll, Move

(* What the web form signs is complete, when no call and no process fails.  *)
THEOREM WebSessionCompleteHolds == ~Faults => (SpecAll => []WebSessionComplete)
<1> SUFFICES ASSUME ~Faults PROVE SpecAll => []WebSessionComplete
  OBVIOUS
<1> DEFINE IInv == InvAll /\ (\A s \in Sids : Unused(s)) /\ \A h \in Handlers : Web(h)
<1>1. InitAll => IInv
  BY InitInvAll DEF InitAll, Init, Unused, Web
<1>2. IInv /\ [NextAll]_allVars => IInv'
  <2> SUFFICES ASSUME IInv, [NextAll]_allVars PROVE IInv'
    OBVIOUS
  <2>1. InvAll'
    BY StepInvAll
  <2>2. ASSUME NEW s \in Sids PROVE Unused(s)'
    BY UnusedStep
  <2>3. ASSUME NEW h \in Handlers PROVE Web(h)'
    BY WebStep
  <2> QED
    BY <2>1, <2>2, <2>3
<1>3. IInv => WebSessionComplete
  <2> SUFFICES ASSUME IInv, NEW h \in Handlers, caller[h] = "processAttest", At(h, "end"),
                      Unshared(h, mine[h])
               PROVE  LET signed == session[mine[h]].footer
                      IN /\ signed.claims = <<claim[h]>>
                         /\ Len(signed.results) = Len(asked[h])
                         /\ \A k \in DOMAIN asked[h] :
                              /\ resultDoc[signed.results[k]].rule = asked[h][k]
                              /\ resultDoc[signed.results[k]].claim = claim[h]
    BY DEF WebSessionComplete
  <2>1. OnWeb(h)
    BY DEF Web, LeftAlone, Unshared, At
  <2>2. Signed(h, session[mine[h]])
    BY <2>1 DEF OnWeb, Progress, At
  <2>3. DOMAIN asked[h] = 1..Len(asked[h])
    <3>1. asked[h] \in Seq(Rules \cup {NoRule})
      BY DEF InvAll, JobsTyped
    <3> QED
      BY <3>1
  <2> QED
    BY <2>2, <2>3 DEF Signed, Verified
<1> QED
  BY <1>1, <1>2, <1>3, PTL DEF SpecAll
=============================================================================
