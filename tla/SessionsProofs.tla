--------------------------- MODULE SessionsProofs ---------------------------
(***************************************************************************)
(* Theorems about Sessions, for any number of handlers, sessions, claims   *)
(* and results.                                                            *)
(***************************************************************************)
EXTENDS Sessions, SequenceTheorems, FiniteSetTheorems, TLAPS

(* A document whose lists refer to stored items and whose footer matches.   *)
Sound(d, C, R) ==
  /\ d \in Document
  /\ d.claims \in Seq(C) /\ d.results \in Seq(R)
  /\ SignedAsClosed(d)

(* The inductive invariant: copies in handlers are as sound as documents,   *)
(* since any handler may write its copy at any later time.                  *)
Inv ==
  /\ TypeOK
  /\ \A s \in Sids : Sound(session[s], claims, results)
  /\ \A h \in Handlers : Sound(snap[h], claims, results)

-----------------------------------------------------------------------------
(* The empty document is sound.                                             *)
LEMMA NewSound ==
  ASSUME NEW C, NEW R
  PROVE  Sound(NewSession, C, R)
  BY DEF Sound, Document, Footer, NewSession, Unsigned, SignedAsClosed, IsPrefixOf

(* A document stays sound while the collections grow.                       *)
LEMMA SoundGrows ==
  ASSUME NEW C, NEW R, NEW C2, NEW R2, C \subseteq C2, R \subseteq R2,
         NEW d, Sound(d, C, R)
  PROVE  Sound(d, C2, R2)
  BY SeqMonotonic DEF Sound

(* Closing a sound document gives a sound one.                              *)
LEMMA ClosedSound ==
  ASSUME NEW C, NEW R, NEW d, Sound(d, C, R), NEW t \in Nat
  PROVE  Sound(ClosedAt(d, t), C, R)
<1>1. IsPrefixOf(d.claims, d.claims) /\ IsPrefixOf(d.results, d.results)
  BY LenProperties DEF Sound, Document, Footer, IsPrefixOf
<1> QED
  BY <1>1 DEF Sound, Document, Footer, SignedAsClosed, ClosedAt, HashablePart

(* What is a prefix of a list is one of the list with an item appended.     *)
LEMMA PrefixOfAppend ==
  ASSUME NEW S, NEW s \in Seq(S), NEW t \in Seq(S), NEW e \in S, IsPrefixOf(s, t)
  PROVE  Append(t, e) \in Seq(S) /\ IsPrefixOf(s, Append(t, e))
  BY DEF IsPrefixOf

(* Appending a stored claim gives a sound document.                         *)
LEMMA ClaimListedSound ==
  ASSUME NEW C, NEW R, C \subseteq Cids, NEW d, Sound(d, C, R), NEW c \in C
  PROVE  Sound(ClaimListed(d, c), C, R)
<1>1. /\ Append(d.claims, c) \in Seq(C)
      /\ Append(d.claims, c) \in Seq(Cids)
      /\ IsPrefixOf(d.footer.claims, Append(d.claims, c))
  BY PrefixOfAppend DEF Sound, Document, Footer, SignedAsClosed
<1> QED
  BY <1>1 DEF Sound, Document, Footer, SignedAsClosed, ClaimListed

(* Appending a stored result gives a sound document.                        *)
LEMMA ResultListedSound ==
  ASSUME NEW C, NEW R, R \subseteq Rids, NEW d, Sound(d, C, R), NEW r \in R
  PROVE  Sound(ResultListed(d, r), C, R)
<1>1. /\ Append(d.results, r) \in Seq(R)
      /\ Append(d.results, r) \in Seq(Rids)
      /\ IsPrefixOf(d.footer.results, Append(d.results, r))
  BY PrefixOfAppend DEF Sound, Document, Footer, SignedAsClosed
<1> QED
  BY <1>1 DEF Sound, Document, Footer, SignedAsClosed, ResultListed

-----------------------------------------------------------------------------
(* The invariant holds initially.                                           *)
LEMMA InitInv == Init => Inv
<1> SUFFICES ASSUME Init PROVE Inv
  OBVIOUS
<1>1. \A C, R : Sound(NewSession, C, R)
  BY NewSound
<1>2. NewSession \in Document
  BY <1>1 DEF Sound
<1>3. TypeOK
  BY <1>2 DEF Init, TypeOK, Typed, Steps, Outcomes
<1> QED
  BY <1>1, <1>3 DEF Init, Inv

(* A step that changes neither documents nor copies, and drops no claim and *)
(* no result, keeps them sound.                                             *)
LEMMA Framed ==
  ASSUME Inv, UNCHANGED <<session, snap>>, claims \subseteq claims', results \subseteq results'
  PROVE  /\ \A s \in Sids : Sound(session'[s], claims', results')
         /\ \A h \in Handlers : Sound(snap'[h], claims', results')
<1>1. ASSUME NEW s \in Sids PROVE Sound(session'[s], claims', results')
  BY SoundGrows DEF Inv
<1>2. ASSUME NEW h \in Handlers PROVE Sound(snap'[h], claims', results')
  BY SoundGrows DEF Inv
<1> QED
  BY <1>1, <1>2

(* Receiving a request with arguments of the operation's types.             *)
LEMMA ReceiveInv ==
  ASSUME Inv, NEW h \in Handlers, NEW o \in Operations,
         NEW s \in Sids \cup {NoId}, NEW i \in Cids \cup Rids \cup {NoId}, NEW step \in Steps,
         o \notin {"AddClaim", "AddResult"} => s \in Sids,
         o \in {"AddClaim", "AddClaimToSession"} => i \in Cids,
         o \in {"AddResult", "AddResultToSession"} => i \in Rids,
         Receive(h, o, s, i, step)
  PROVE  Inv'
<1>1. TypeOK'
  BY DEF Inv, TypeOK, Typed, Receive, Go, stores, Operations
<1> QED
  BY <1>1, Framed DEF Inv, Receive, stores

(* Any request.                                                             *)
LEMMA RequestInv ==
  ASSUME Inv, NEW h \in Handlers, Request(h)
  PROVE  Inv'
<1> USE ReceiveInv DEF Operations, Steps, Fresh
<1>1. CASE PostSession(h)
  BY <1>1 DEF PostSession
<1>2. CASE PostClaim(h)
  BY <1>2 DEF PostClaim
<1>3. CASE PostResult(h)
  BY <1>3 DEF PostResult
<1>4. CASE DeleteSession(h)
  BY <1>4 DEF DeleteSession
<1>5. CASE PutSessionClaim(h)
  BY <1>5 DEF PutSessionClaim
<1>6. CASE PutSessionResult(h)
  BY <1>6 DEF PutSessionResult
<1> QED
  BY <1>1, <1>2, <1>3, <1>4, <1>5, <1>6 DEF Request

(* The steps that insert a document.                                        *)
LEMMA InsertInv ==
  ASSUME Inv, NEW h \in Handlers, OpenSession(h) \/ AddClaim(h) \/ AddResult(h)
  PROVE  Inv'
<1>1. TypeOK'
  <2> USE DEF Inv, TypeOK, Typed, InsertOne, Go, Steps, Outcomes
  <2>1. CASE OpenSession(h)
    BY <2>1 DEF OpenSession
  <2>2. CASE AddClaim(h)
    BY <2>2 DEF AddClaim
  <2>3. CASE AddResult(h)
    BY <2>3 DEF AddResult
  <2> QED
    BY <2>1, <2>2, <2>3
<1>2. UNCHANGED <<session, snap>> /\ claims \subseteq claims' /\ results \subseteq results'
  BY DEF OpenSession, AddClaim, AddResult, InsertOne
<1> QED
  BY <1>1, <1>2, Framed DEF Inv

(* The steps that end or continue a handler without touching a document.    *)
LEMMA ControlInv ==
  ASSUME Inv, NEW h \in Handlers,
         \/ RefuseItemID(h) \/ Get(h) \/ ReadFails(h) \/ CheckFails(h) \/ MakeLogEntry(h)
         \/ Crash
  PROVE  Inv'
<1>1. TypeOK'
  <2> USE DEF Inv, TypeOK, Typed, Go, Return, Steps, Outcomes, stores
  <2>1. CASE RefuseItemID(h)
    BY <2>1 DEF RefuseItemID
  <2>2. CASE Get(h)
    BY <2>2 DEF Get
  <2>3. CASE ReadFails(h)
    BY <2>3 DEF ReadFails
  <2>4. CASE CheckFails(h)
    BY <2>4 DEF CheckFails
  <2>5. CASE MakeLogEntry(h)
    BY <2>5 DEF MakeLogEntry, Entry
  <2>6. CASE Crash
    BY <2>6 DEF Crash, InFlight
  <2> QED
    BY <2>1, <2>2, <2>3, <2>4, <2>5, <2>6
<1>2. UNCHANGED <<session, snap, claims, results>>
  BY DEF RefuseItemID, Get, ReadFails, CheckFails, MakeLogEntry, Crash, stores
<1> QED
  BY <1>1, <1>2, Framed DEF Inv

(* The steps that change a handler's copy.                                  *)
LEMMA CopyInv ==
  ASSUME Inv, NEW h \in Handlers,
         \/ ReadToClose(h) \/ ReadToAdd(h) \/ AddClaimToSession(h) \/ AddResultToSession(h)
  PROVE  Inv'
<1>1. /\ UNCHANGED <<opened, session, claims, results, log, op, sid, item>>
      /\ clock' \in Nat
      /\ pc' \in [Handlers -> Steps] /\ outcome' \in [Handlers -> Outcomes]
      /\ pc[h] # "idle" /\ \A g \in Handlers : g # h => pc'[g] = pc[g]
  BY DEF Inv, TypeOK, Typed, ReadToClose, ReadToAdd, AddClaimToSession, AddResultToSession,
         Go, Return, Steps, Outcomes, stores
<1>2. /\ claims \subseteq Cids /\ results \subseteq Rids /\ clock \in Nat
      /\ Sound(snap[h], claims, results) /\ snap \in [Handlers -> Document]
  BY DEF Inv, TypeOK, Typed
<1>3. PICK d : Sound(d, claims, results) /\ snap' = [snap EXCEPT ![h] = d]
  <2>1. CASE ReadToClose(h)
    <3>1. Sound(session[sid[h]], claims, results)
      BY <2>1 DEF Inv, TypeOK, Typed, ReadToClose, Found
    <3>2. Sound(ClosedAt(session[sid[h]], clock + 1), claims, results)
      BY <1>2, <3>1, ClosedSound
    <3>3. snap = [snap EXCEPT ![h] = snap[h]]
      BY <1>2
    <3> QED
      BY <1>2, <2>1, <3>2, <3>3 DEF ReadToClose
  <2>2. CASE ReadToAdd(h)
    BY <2>2 DEF Inv, TypeOK, Typed, ReadToAdd, Found
  <2>3. CASE AddClaimToSession(h)
    <3>1. Sound(ClaimListed(snap[h], item[h]), claims, results)
      BY <1>2, <2>3, ClaimListedSound DEF AddClaimToSession, Exists
    <3> QED
      BY <2>3, <3>1 DEF AddClaimToSession
  <2>4. CASE AddResultToSession(h)
    <3>1. Sound(ResultListed(snap[h], item[h]), claims, results)
      BY <1>2, <2>4, ResultListedSound DEF AddResultToSession, Exists
    <3> QED
      BY <2>4, <3>1 DEF AddResultToSession
  <2> QED
    BY <2>1, <2>2, <2>3, <2>4
<1>4. d \in Document
  BY <1>3 DEF Sound
<1>5. TypeOK'
  BY <1>1, <1>2, <1>3, <1>4 DEF Inv, TypeOK, Typed
<1> QED
  BY <1>1, <1>2, <1>3, <1>5 DEF Inv

(* The steps that replace a stored document by a copy.                      *)
LEMMA ReplaceInv ==
  ASSUME Inv, NEW h \in Handlers, Write(h) \/ WriteFails(h)
  PROVE  Inv'
<1>1. /\ UNCHANGED <<opened, claims, results, log, clock, op, sid, item, snap>>
      /\ pc' \in [Handlers -> Steps] /\ outcome' \in [Handlers -> Outcomes]
      /\ pc[h] # "idle" /\ \A g \in Handlers : g # h => pc'[g] = pc[g]
  BY DEF Inv, TypeOK, Typed, Write, WriteFails, Go, Return, Steps, Outcomes
<1>2. session' = session \/ session' = [session EXCEPT ![sid[h]] = snap[h]]
  BY DEF Write, WriteFails
<1>3. /\ session \in [Sids -> Document] /\ snap[h] \in Document
      /\ Sound(snap[h], claims, results)
  BY DEF Inv, TypeOK, Typed
<1>4. session' \in [Sids -> Document]
  BY <1>2, <1>3
<1>5. TypeOK'
  BY <1>1, <1>4 DEF Inv, TypeOK, Typed
<1>6. \A s \in Sids : Sound(session'[s], claims, results)
  BY <1>2, <1>3 DEF Inv
<1> QED
  BY <1>1, <1>5, <1>6 DEF Inv

(* Every step keeps the invariant.                                          *)
LEMMA StepInv == Inv /\ [Next]_vars => Inv'
<1> SUFFICES ASSUME Inv, [Next]_vars PROVE Inv'
  OBVIOUS
<1>1. CASE UNCHANGED vars
  <2>1. TypeOK'
    BY <1>1 DEF Inv, TypeOK, Typed, vars, stores, locals
  <2> QED
    BY <1>1, <2>1 DEF Inv, vars, stores, locals
<1>2. ASSUME NEW h \in Handlers, Step(h) PROVE Inv'
  BY <1>2, InsertInv, ControlInv, CopyInv, ReplaceInv DEF Step
<1>3. CASE Crash
  <2>1. CASE Handlers = {}
    BY <1>3, <2>1 DEF Crash, InFlight
  <2> QED
    BY <1>3, <2>1, ControlInv
<1> QED
  BY <1>1, <1>2, <1>3, RequestInv DEF Next

-----------------------------------------------------------------------------
(* Inv is an invariant of the specification.                                *)
THEOREM Invariance == Spec => []Inv
  BY InitInv, StepInv, PTL DEF Spec

(* Type correctness.                                                        *)
THEOREM TypeCorrect == Spec => []TypeOK
<1>1. Inv => TypeOK
  BY DEF Inv
<1> QED
  BY <1>1, Invariance, PTL

(* Sessions list only stored claims and results, whatever interleaves.      *)
THEOREM ReferencesHold == Spec => []ListsRefer
<1>1. Inv => ListsRefer
  BY DEF Inv, Sound, ListsRefer, Refers
<1> QED
  BY <1>1, Invariance, PTL

(* Footers match the documents they are in, whatever interleaves.           *)
THEOREM SignaturesMatch == Spec => []SignatureMatches
<1>1. Inv => SignatureMatches
  BY DEF Inv, Sound, SignatureMatches
<1> QED
  BY <1>1, Invariance, PTL

-----------------------------------------------------------------------------
(***************************************************************************)
(* Refinement.  If a session has one client at a time, a handler's copy is *)
(* current until the handler writes it, so that the write is the contract's *)
(* operation on the document as it is.                                     *)
(***************************************************************************)
Busy(h) == pc[h] \notin {"idle", "done", "dead"}

(* No two handlers in flight work on the same session.                      *)
Alone ==
  \A g, h \in Handlers : Busy(g) /\ Busy(h) /\ g # h => sid[g] # sid[h] \/ sid[g] = NoId

(* What a handler is about to write is its operation on the current document. *)
ToWrite(h, d) ==
  \/ /\ op[h] = "CloseSession" /\ d.closed = 0
     /\ \E t \in Nat \ {0} : snap[h] = ClosedAt(d, t)
  \/ op[h] = "AddClaimToSession" /\ item[h] \in claims /\ snap[h] = ClaimListed(d, item[h])
  \/ op[h] = "AddResultToSession" /\ item[h] \in results /\ snap[h] = ResultListed(d, item[h])

Current(h) ==
  /\ pc[h] = "check" =>
       /\ op[h] \in {"AddClaimToSession", "AddResultToSession"}
       /\ sid[h] \in opened /\ snap[h] = session[sid[h]]
  /\ pc[h] = "write" => sid[h] \in opened /\ ToWrite(h, session[sid[h]])

CopyCurrent == \A h \in Handlers : Current(h)

(* Nothing is written under the id of a session that does not exist.        *)
Untouched == \A s \in Sids \ opened : session[s] = NewSession

RefinementInv == Inv /\ Alone /\ CopyCurrent /\ Untouched

(* Requests keep handlers apart.                                            *)
LEMMA AloneStep ==
  ASSUME SingleClient, Inv, Alone, [Next]_vars
  PROVE  Alone'
<1>1. ASSUME NEW h \in Handlers, NEW o, NEW s, NEW i, NEW step, Receive(h, o, s, i, step)
      PROVE  Alone'
  BY <1>1 DEF Alone, Busy, Receive, Go, InFlight, Inv, TypeOK, Typed
<1>2. ASSUME NEW h \in Handlers, Request(h) PROVE Alone'
  BY <1>1, <1>2 DEF Request, PostSession, PostClaim, PostResult, DeleteSession,
                    PutSessionClaim, PutSessionResult
<1>3. ASSUME NEW h \in Handlers, Step(h) PROVE Alone'
  <2>1. sid' = sid /\ Busy(h) /\ \A g \in Handlers : g # h => pc'[g] = pc[g]
    BY <1>3 DEF Step, OpenSession, AddClaim, AddResult, InsertOne, RefuseItemID, Get, ReadFails,
                ReadToClose, ReadToAdd, CheckFails, AddClaimToSession, AddResultToSession,
                Write, WriteFails, MakeLogEntry, Go, Return, Inv, TypeOK, Typed, Busy, stores
  <2> QED
    BY <2>1 DEF Alone, Busy
<1>4. CASE Crash
  BY <1>4 DEF Crash, Alone, Busy, InFlight
<1>5. CASE UNCHANGED vars
  BY <1>5 DEF vars, locals, Alone, Busy
<1> QED
  BY <1>2, <1>3, <1>4, <1>5 DEF Next

(* A handler that a step leaves alone, and whose document it leaves alone.  *)
LEMMA CurrentFramed ==
  ASSUME NEW g \in Handlers, Current(g),
         op'[g] = op[g], sid'[g] = sid[g], item'[g] = item[g], snap'[g] = snap[g],
         pc'[g] = pc[g] \/ ~Busy(g)',
         pc[g] \in {"check", "write"} => session'[sid[g]] = session[sid[g]],
         opened \subseteq opened', claims \subseteq claims', results \subseteq results'
  PROVE  Current(g)'
  BY DEF Current, ToWrite, Busy

(* Every step keeps the copies current.                                     *)
LEMMA CurrentStep ==
  ASSUME SingleClient, Inv, Alone, CopyCurrent, [Next]_vars
  PROVE  CopyCurrent'
<1>1. ASSUME NEW h \in Handlers, Request(h) PROVE CopyCurrent'
  <2>1. /\ UNCHANGED <<stores, snap>>
        /\ \E step \in {"get", "insert"} : pc' = [pc EXCEPT ![h] = step]
        /\ \A g \in Handlers : g # h => op'[g] = op[g] /\ sid'[g] = sid[g] /\ item'[g] = item[g]
    BY <1>1 DEF Request, PostSession, PostClaim, PostResult, DeleteSession, PutSessionClaim,
                PutSessionResult, Receive, Go, Inv, TypeOK, Typed
  <2>2. ASSUME NEW g \in Handlers, g # h PROVE Current(g)'
    BY <2>1, <2>2, CurrentFramed DEF CopyCurrent, stores, Inv, TypeOK, Typed
  <2>3. Current(h)'
    BY <2>1 DEF Current, Inv, TypeOK, Typed
  <2> QED
    BY <2>2, <2>3 DEF CopyCurrent
<1>2. ASSUME NEW h \in Handlers, Step(h), UNCHANGED <<session, snap>>,
             pc'[h] \notin {"check", "write"}
      PROVE  CopyCurrent'
  <2>1. /\ UNCHANGED <<op, sid, item>>
        /\ opened \subseteq opened' /\ claims \subseteq claims' /\ results \subseteq results'
        /\ \A g \in Handlers : g # h => pc'[g] = pc[g]
    BY <1>2 DEF Step, OpenSession, AddClaim, AddResult, InsertOne, RefuseItemID, Get, ReadFails,
                ReadToClose, ReadToAdd, CheckFails, AddClaimToSession, AddResultToSession,
                Write, WriteFails, MakeLogEntry, Go, Return, Inv, TypeOK, Typed, stores
  <2>2. ASSUME NEW g \in Handlers, g # h PROVE Current(g)'
    BY <1>2, <2>1, <2>2, CurrentFramed DEF CopyCurrent
  <2>3. Current(h)'
    BY <1>2 DEF Current
  <2> QED
    BY <2>2, <2>3 DEF CopyCurrent
<1>3. ASSUME NEW h \in Handlers,
             ReadToClose(h) \/ ReadToAdd(h) \/ AddClaimToSession(h) \/ AddResultToSession(h)
      PROVE  CopyCurrent'
  <2>1. /\ UNCHANGED <<opened, session, claims, results, op, sid, item>>
        /\ \A g \in Handlers : g # h => pc'[g] = pc[g] /\ snap'[g] = snap[g]
    BY <1>3 DEF ReadToClose, ReadToAdd, AddClaimToSession, AddResultToSession, Go, Return,
                Inv, TypeOK, Typed, stores
  <2>2. ASSUME NEW g \in Handlers, g # h PROVE Current(g)'
    BY <2>1, <2>2, CurrentFramed DEF CopyCurrent
  <2>3. Current(h)'
    <3>1. CASE ReadToClose(h)
      <4>1. CASE pc'[h] = "done"
        BY <4>1 DEF Current
      <4>2. CASE pc'[h] # "done"
        <5>1. clock + 1 \in Nat \ {0}
          BY DEF Inv, TypeOK, Typed
        <5>2. /\ op[h] = "CloseSession" /\ sid[h] \in opened /\ session[sid[h]].closed = 0
              /\ snap'[h] = ClosedAt(session[sid[h]], clock + 1) /\ pc'[h] = "write"
          BY <3>1, <4>2 DEF ReadToClose, Found, Return, Go, Inv, TypeOK, Typed
        <5> QED
          BY <2>1, <5>1, <5>2 DEF Current, ToWrite
      <4> QED
        BY <4>1, <4>2
    <3>2. CASE ReadToAdd(h)
      BY <2>1, <3>2 DEF ReadToAdd, Found, Go, Current, Inv, TypeOK, Typed
    <3>3. CASE AddClaimToSession(h)
      BY <2>1, <3>3 DEF AddClaimToSession, Exists, Go, CopyCurrent, Current, ToWrite, Inv, TypeOK, Typed
    <3>4. CASE AddResultToSession(h)
      BY <2>1, <3>4 DEF AddResultToSession, Exists, Go, CopyCurrent, Current, ToWrite, Inv, TypeOK, Typed
    <3> QED
      BY <1>3, <3>1, <3>2, <3>3, <3>4
  <2> QED
    BY <2>2, <2>3 DEF CopyCurrent
<1>4. ASSUME NEW h \in Handlers, Write(h) \/ WriteFails(h) PROVE CopyCurrent'
  <2>1. /\ UNCHANGED <<opened, claims, results, op, sid, item, snap>>
        /\ \A g \in Handlers : g # h => pc'[g] = pc[g]
        /\ pc'[h] \in {"log", "done"} /\ pc[h] = "write"
        /\ session' = session \/ session' = [session EXCEPT ![sid[h]] = snap[h]]
    BY <1>4 DEF Write, WriteFails, Go, Return, Inv, TypeOK, Typed
  <2>2. ASSUME NEW g \in Handlers, g # h PROVE Current(g)'
    <3>1. pc[g] \in {"check", "write"} => sid[g] \in Sids /\ sid[g] # sid[h]
      BY <2>1, <2>2, IdsAssumption DEF Alone, Busy, CopyCurrent, Current, Inv, TypeOK, Typed
    <3>2. pc[g] \in {"check", "write"} => session'[sid[g]] = session[sid[g]]
      BY <2>1, <3>1 DEF Inv, TypeOK, Typed
    <3> QED
      BY <2>1, <2>2, <3>2, CurrentFramed DEF CopyCurrent
  <2>3. Current(h)'
    BY <2>1 DEF Current
  <2> QED
    BY <2>2, <2>3 DEF CopyCurrent
<1>5. CASE Crash
  BY <1>5, CurrentFramed DEF Crash, CopyCurrent, InFlight, Busy, stores
<1>6. CASE UNCHANGED vars
  BY <1>6, CurrentFramed DEF vars, stores, locals, CopyCurrent
<1>7. ASSUME NEW h \in Handlers, Step(h) PROVE CopyCurrent'
  <2>1. \/ UNCHANGED <<session, snap>> /\ pc'[h] \notin {"check", "write"}
        \/ ReadToClose(h) \/ ReadToAdd(h) \/ AddClaimToSession(h) \/ AddResultToSession(h)
        \/ Write(h) \/ WriteFails(h)
    BY <1>7 DEF Step, OpenSession, AddClaim, AddResult, InsertOne, RefuseItemID, Get, ReadFails,
                CheckFails, MakeLogEntry, Go, Return, Inv, TypeOK, Typed, stores
  <2> QED
    BY <1>2, <1>3, <1>4, <1>7, <2>1
<1> QED
  BY <1>1, <1>5, <1>6, <1>7 DEF Next

(* A handler writes only a session it has found.                            *)
LEMMA UntouchedStep ==
  ASSUME Inv, CopyCurrent, Untouched, [Next]_vars
  PROVE  Untouched'
<1>1. ASSUME NEW h \in Handlers, Write(h) \/ WriteFails(h) PROVE Untouched'
  BY <1>1 DEF Write, WriteFails, CopyCurrent, Current, Untouched, Inv, TypeOK, Typed
<1>2. ASSUME NEW h \in Handlers, Step(h) PROVE Untouched'
  <2>1. \/ opened \subseteq opened' /\ session' = session
        \/ Write(h) \/ WriteFails(h)
    BY <1>2 DEF Step, OpenSession, AddClaim, AddResult, InsertOne, RefuseItemID, Get, ReadFails,
                ReadToClose, ReadToAdd, CheckFails, AddClaimToSession, AddResultToSession,
                MakeLogEntry, stores
  <2> QED
    BY <1>1, <1>2, <2>1 DEF Untouched
<1>3. ASSUME NEW h \in Handlers, Request(h) PROVE UNCHANGED <<opened, session>>
  BY <1>3 DEF Request, PostSession, PostClaim, PostResult, DeleteSession, PutSessionClaim,
              PutSessionResult, Receive, stores
<1>4. CASE Crash \/ UNCHANGED vars
  BY <1>4 DEF Crash, vars, stores, Untouched
<1> QED
  BY <1>2, <1>3, <1>4 DEF Next, Untouched

(* The refinement's invariant.                                              *)
THEOREM RefinementInvariance == SingleClient => (Spec => []RefinementInv)
<1> SUFFICES ASSUME SingleClient PROVE Spec => []RefinementInv
  OBVIOUS
<1>1. Init => RefinementInv
  <2>1. Init => Alone
    BY DEF Init, Alone, Busy
  <2>2. Init => CopyCurrent
    BY DEF Init, CopyCurrent, Current
  <2>3. Init => Untouched
    BY DEF Init, Untouched
  <2> QED
    BY <2>1, <2>2, <2>3, InitInv DEF RefinementInv
<1>2. RefinementInv /\ [Next]_vars => RefinementInv'
  BY StepInv, AloneStep, CurrentStep, UntouchedStep DEF RefinementInv
<1> QED
  BY <1>1, <1>2, PTL DEF Spec

(* Every step of the handlers is a step of the contract or leaves it alone. *)
LEMMA ContractStep ==
  ASSUME RefinementInv, [Next]_vars
  PROVE  [Contract!Next]_(Contract!stored)
<1>1. ASSUME NEW h \in Handlers, OpenSession(h)
      PROVE  [Contract!Next]_(Contract!stored)
  <2>1. sid[h] \in Sids /\ opened' \in {opened, opened \cup {sid[h]}}
        /\ UNCHANGED <<session, claims, results>>
    BY <1>1 DEF OpenSession, InsertOne, RefinementInv, Inv, TypeOK, Typed
  <2>2. CASE opened' = opened
    BY <2>1, <2>2 DEF Contract!stored
  <2>3. CASE sid[h] \notin opened /\ opened' = opened \cup {sid[h]}
    <3>1. session[sid[h]] = Contract!NewSession
      BY <2>1, <2>3 DEF RefinementInv, Untouched, NewSession, Unsigned, Contract!NewSession,
                        Contract!Unsigned
    <3>2. Contract!Open(sid[h])
      BY <2>1, <2>3, <3>1 DEF Contract!Open
    <3> QED
      BY <2>1, <3>2 DEF Contract!Next, Contract!Open
  <2> QED
    BY <2>1, <2>2, <2>3
<1>2. ASSUME NEW h \in Handlers, AddClaim(h)
      PROVE  [Contract!Next]_(Contract!stored)
  <2>1. item[h] \in Cids /\ claims' \in {claims, claims \cup {item[h]}}
        /\ UNCHANGED <<opened, session, results>>
    BY <1>2 DEF AddClaim, InsertOne, RefinementInv, Inv, TypeOK, Typed
  <2>2. claims' = claims \/ Contract!StoreClaim(item[h])
    BY <2>1 DEF Contract!StoreClaim
  <2> QED
    BY <2>1, <2>2 DEF Contract!Next, Contract!stored
<1>3. ASSUME NEW h \in Handlers, AddResult(h)
      PROVE  [Contract!Next]_(Contract!stored)
  <2>1. item[h] \in Rids /\ results' \in {results, results \cup {item[h]}}
        /\ UNCHANGED <<opened, session, claims>>
    BY <1>3 DEF AddResult, InsertOne, RefinementInv, Inv, TypeOK, Typed
  <2>2. results' = results \/ Contract!StoreResult(item[h])
    BY <2>1 DEF Contract!StoreResult
  <2> QED
    BY <2>1, <2>2 DEF Contract!Next, Contract!stored
<1>4. ASSUME NEW h \in Handlers, Write(h) \/ WriteFails(h)
      PROVE  [Contract!Next]_(Contract!stored)
  <2>1. /\ UNCHANGED <<opened, claims, results>>
        /\ session' = session \/ session' = [session EXCEPT ![sid[h]] = snap[h]]
    BY <1>4 DEF Write, WriteFails
  <2>2. sid[h] \in opened /\ sid[h] \in Sids /\ ToWrite(h, session[sid[h]])
        /\ session \in [Sids -> Document]
    BY <1>4 DEF Write, WriteFails, RefinementInv, CopyCurrent, Current, Inv, TypeOK, Typed
  <2>3. CASE session' = session
    BY <2>1, <2>3 DEF Contract!stored
  <2>4. CASE /\ session' = [session EXCEPT ![sid[h]] = snap[h]]
             /\ op[h] = "CloseSession"
    <3>1. PICK t \in Nat \ {0} : snap[h] = ClosedAt(session[sid[h]], t)
      BY <2>2, <2>4 DEF ToWrite
    <3>2. session'[sid[h]].closed = t /\ session[sid[h]].closed = 0
      BY <2>2, <2>4, <3>1 DEF ToWrite, ClosedAt
    <3>3. Contract!Close(sid[h])
      BY <2>1, <2>2, <2>4, <3>1, <3>2
         DEF Contract!Close, ClosedAt, HashablePart, Contract!ClosedAt, Contract!HashablePart
    <3> QED
      BY <2>2, <3>3 DEF Contract!Next, Contract!Close
  <2>5. CASE /\ session' = [session EXCEPT ![sid[h]] = snap[h]]
             /\ op[h] = "AddClaimToSession"
    <3>1. Contract!AppendClaim(sid[h], item[h]) /\ item[h] \in Cids
      BY <2>1, <2>2, <2>5
         DEF ToWrite, ClaimListed, Contract!AppendClaim, Contract!ClaimListed, RefinementInv,
             Inv, TypeOK, Typed
    <3> QED
      BY <2>2, <3>1 DEF Contract!Next, Contract!AppendClaim
  <2>6. CASE /\ session' = [session EXCEPT ![sid[h]] = snap[h]]
             /\ op[h] = "AddResultToSession"
    <3>1. Contract!AppendResult(sid[h], item[h]) /\ item[h] \in Rids
      BY <2>1, <2>2, <2>6
         DEF ToWrite, ResultListed, Contract!AppendResult, Contract!ResultListed, RefinementInv,
             Inv, TypeOK, Typed
    <3> QED
      BY <2>2, <3>1 DEF Contract!Next, Contract!AppendResult
  <2> QED
    BY <2>1, <2>2, <2>3, <2>4, <2>5, <2>6 DEF ToWrite
<1>5. ASSUME NEW h \in Handlers, Step(h)
      PROVE  [Contract!Next]_(Contract!stored)
  <2>1. \/ UNCHANGED <<opened, session, claims, results>>
        \/ OpenSession(h) \/ AddClaim(h) \/ AddResult(h) \/ Write(h) \/ WriteFails(h)
    BY <1>5 DEF Step, RefuseItemID, Get, ReadFails, ReadToClose, ReadToAdd, CheckFails,
                AddClaimToSession, AddResultToSession, MakeLogEntry, stores
  <2> QED
    BY <1>1, <1>2, <1>3, <1>4, <2>1 DEF Contract!stored
<1>6. ASSUME NEW h \in Handlers, Request(h)
      PROVE  [Contract!Next]_(Contract!stored)
  BY <1>6 DEF Request, PostSession, PostClaim, PostResult, DeleteSession, PutSessionClaim,
              PutSessionResult, Receive, stores, Contract!stored
<1>7. CASE Crash \/ UNCHANGED vars
  BY <1>7 DEF Crash, vars, stores, Contract!stored
<1> QED
  BY <1>5, <1>6, <1>7 DEF Next

(* With one client per session, Sessions implements SessionContract.        *)
THEOREM Refinement == SingleClient => (Spec => ImplementsContract)
<1> SUFFICES ASSUME SingleClient PROVE Spec => Contract!Spec
  BY DEF ImplementsContract
<1>1. Init => Contract!Init
  BY DEF Init, Contract!Init, NewSession, Unsigned, Contract!NewSession, Contract!Unsigned
<1>2. RefinementInv /\ [Next]_vars => [Contract!Next]_(Contract!stored)
  BY ContractStep
<1> QED
  BY <1>1, <1>2, RefinementInvariance, PTL DEF Spec, Contract!Spec

-----------------------------------------------------------------------------
(***************************************************************************)
(* What a client that has a session for itself may rely on: what it was    *)
(* told has been done stays done.                                          *)
(***************************************************************************)

(* What no step undoes: a closing time, and what a list begins with.        *)
Kept(d, e) ==
  /\ d.closed # 0 => e.closed # 0
  /\ IsPrefixOf(d.claims, e.claims) /\ IsPrefixOf(d.results, e.results)

Holds(seq, i) == \E k \in DOMAIN seq : seq[k] = i

(* An answer is given once, when the operation is over.                     *)
Answered == \A h \in Handlers : outcome[h] = "ok" => pc[h] \in {"log", "done", "dead"}

AppendsHeld ==
  \A h \in Handlers :
    /\ Succeeded(h, "AddClaimToSession") => Holds(session[sid[h]].claims, item[h])
    /\ Succeeded(h, "AddResultToSession") => Holds(session[sid[h]].results, item[h])

PromiseInv == RefinementInv /\ Answered /\ CloseIsFinal /\ ClosedOnce /\ AppendsHeld

LEMMA KeptSame ==
  ASSUME NEW d \in Document
  PROVE  Kept(d, d)
BY LenProperties DEF Kept, Document, IsPrefixOf

LEMMA HoldsGrows ==
  ASSUME NEW S, NEW s \in Seq(S), NEW t \in Seq(S), NEW i, Holds(s, i), IsPrefixOf(s, t)
  PROVE  Holds(t, i)
BY DEF Holds, IsPrefixOf

LEMMA HoldsAppended ==
  ASSUME NEW S, NEW s \in Seq(S), NEW e \in S
  PROVE  Holds(Append(s, e), e)
BY DEF Holds

(* A sequence that holds an item has it at least once.                      *)
LEMMA HoldsOccurs ==
  ASSUME NEW S, NEW s \in Seq(S), NEW i
  PROVE  /\ Occurrences(s, i) \in Nat
         /\ Holds(s, i) => Occurrences(s, i) > 0
<1> DEFINE K == {k \in DOMAIN s : s[k] = i}
<1>1. IsFiniteSet(1..Len(s))
  BY FS_Interval
<1>2. IsFiniteSet(K)
  BY <1>1, FS_Subset
<1>3. Cardinality(K) \in Nat /\ (Cardinality(K) = 0 <=> K = {})
  BY <1>2, FS_CardinalityType, FS_EmptySet
<1> QED
  BY <1>3 DEF Occurrences, Holds

(* The only steps that change a session write what is to be written.        *)
LEMMA SessionStep ==
  ASSUME RefinementInv, [Next]_vars
  PROVE  \/ session' = session
         \/ \E h \in Handlers :
              /\ pc[h] = "write" /\ session' = [session EXCEPT ![sid[h]] = snap[h]]
              /\ sid[h] \in Sids /\ ToWrite(h, session[sid[h]])
<1>1. ASSUME NEW h \in Handlers, Step(h)
      PROVE  session' = session \/ Write(h) \/ WriteFails(h)
  BY <1>1 DEF Step, OpenSession, AddClaim, AddResult, InsertOne, RefuseItemID, Get, ReadFails,
              ReadToClose, ReadToAdd, CheckFails, AddClaimToSession, AddResultToSession,
              MakeLogEntry, stores
<1>2. ASSUME NEW h \in Handlers, Write(h) \/ WriteFails(h)
      PROVE  /\ session' = session \/ session' = [session EXCEPT ![sid[h]] = snap[h]]
             /\ pc[h] = "write" /\ sid[h] \in Sids /\ ToWrite(h, session[sid[h]])
  BY <1>2 DEF Write, WriteFails, RefinementInv, CopyCurrent, Current, Inv, TypeOK, Typed
<1>3. ASSUME NEW h \in Handlers, Request(h) PROVE session' = session
  BY <1>3 DEF Request, PostSession, PostClaim, PostResult, DeleteSession, PutSessionClaim,
              PutSessionResult, Receive, stores
<1>4. CASE Crash \/ UNCHANGED vars
  BY <1>4 DEF Crash, vars, stores
<1> QED
  BY <1>1, <1>2, <1>3, <1>4 DEF Next

LEMMA ToWriteKeeps ==
  ASSUME Inv, NEW h \in Handlers, NEW s \in Sids, ToWrite(h, session[s])
  PROVE  Kept(session[s], snap[h])
<1> DEFINE d == session[s]
<1>1. d \in Document /\ Kept(d, d)
  BY KeptSame DEF Inv, TypeOK, Typed
<1>2. CASE op[h] = "CloseSession"
  <2>1. PICK t \in Nat \ {0} : d.closed = 0 /\ snap[h] = ClosedAt(d, t)
    BY <1>2 DEF ToWrite
  <2> QED
    BY <1>1, <2>1 DEF Kept, ClosedAt
<1>3. CASE op[h] = "AddClaimToSession"
  <2>1. item[h] \in Cids /\ snap[h] = ClaimListed(d, item[h])
    BY <1>3 DEF ToWrite, Inv, TypeOK, Typed
  <2>2. IsPrefixOf(d.claims, Append(d.claims, item[h]))
    BY <1>1, <2>1, PrefixOfAppend DEF Kept, Document
  <2> QED
    BY <1>1, <2>1, <2>2 DEF Kept, ClaimListed
<1>4. CASE op[h] = "AddResultToSession"
  <2>1. item[h] \in Rids /\ snap[h] = ResultListed(d, item[h])
    BY <1>4 DEF ToWrite, Inv, TypeOK, Typed
  <2>2. IsPrefixOf(d.results, Append(d.results, item[h]))
    BY <1>1, <2>1, PrefixOfAppend DEF Kept, Document
  <2> QED
    BY <1>1, <2>1, <2>2 DEF Kept, ResultListed
<1> QED
  BY <1>2, <1>3, <1>4 DEF ToWrite

LEMMA SessionsKept ==
  ASSUME RefinementInv, [Next]_vars, NEW s \in Sids
  PROVE  Kept(session[s], session'[s])
<1>1. session[s] \in Document /\ Kept(session[s], session[s])
  BY KeptSame DEF RefinementInv, Inv, TypeOK, Typed
<1>2. ASSUME NEW h \in Handlers, session' = [session EXCEPT ![sid[h]] = snap[h]],
             sid[h] \in Sids, ToWrite(h, session[sid[h]])
      PROVE  Kept(session[s], session'[s])
  <2>1. Kept(session[sid[h]], snap[h])
    BY <1>2, ToWriteKeeps DEF RefinementInv
  <2> QED
    BY <1>1, <1>2, <2>1 DEF RefinementInv, Inv, TypeOK, Typed
<1> QED
  BY <1>1, <1>2, SessionStep

(* How an operation on a session comes to be reported as done.              *)
Reports(h) ==
  /\ pc[h] = "write" /\ session' = [session EXCEPT ![sid[h]] = snap[h]]
  /\ sid[h] \in Sids /\ ToWrite(h, session[sid[h]])

LEMMA SucceededStep ==
  ASSUME PromiseInv, [Next]_vars, NEW h \in Handlers,
         NEW o \in {"CloseSession", "AddClaimToSession", "AddResultToSession"},
         Succeeded(h, o)'
  PROVE  /\ op[h] = o /\ sid'[h] = sid[h] /\ item'[h] = item[h] /\ sid[h] \in Sids
         /\ Succeeded(h, o) \/ Reports(h)
<1>1. /\ Answered /\ Typed
      /\ op[h] \notin {"AddClaim", "AddResult", "none"} => sid[h] \in Sids
  BY DEF PromiseInv, RefinementInv, Inv, TypeOK
<1>2. ASSUME NEW g \in Handlers, Request(g)
      PROVE  op[h] = o /\ sid'[h] = sid[h] /\ item'[h] = item[h] /\ Succeeded(h, o)
  BY <1>1, <1>2 DEF Request, PostSession, PostClaim, PostResult, DeleteSession, PutSessionClaim,
                    PutSessionResult, Receive, Answered, Succeeded, Typed
<1>3. ASSUME NEW g \in Handlers, Step(g)
      PROVE  op[h] = o /\ sid'[h] = sid[h] /\ item'[h] = item[h]
             /\ (Succeeded(h, o) \/ (g = h /\ Write(h)))
  <2>1. UNCHANGED <<op, sid, item>>
    BY <1>3 DEF Step, OpenSession, AddClaim, AddResult, InsertOne, RefuseItemID, Get, ReadFails,
                ReadToClose, ReadToAdd, CheckFails, AddClaimToSession, AddResultToSession,
                Write, WriteFails, MakeLogEntry, stores
  <2>2. op[h] = o /\ outcome'[h] = "ok"
    BY <2>1 DEF Succeeded
  <2>3. CASE g # h
    BY <1>1, <1>3, <2>2, <2>3
       DEF Step, OpenSession, AddClaim, AddResult, InsertOne, RefuseItemID, Get, ReadFails,
           ReadToClose, ReadToAdd, CheckFails, AddClaimToSession, AddResultToSession,
           Write, WriteFails, MakeLogEntry, Return, stores, Succeeded, Typed
  <2>4. CASE g = h /\ ~Write(h)
    <3>1. ~(OpenSession(h) \/ AddClaim(h) \/ AddResult(h))
      BY <2>2 DEF OpenSession, AddClaim, AddResult, InsertOne
    <3>2. outcome' = outcome
          \/ outcome' = [outcome EXCEPT ![h] = "error"]
          \/ outcome' = [outcome EXCEPT ![h] = "notFound"]
      BY <1>3, <2>4, <3>1 DEF Step, RefuseItemID, Get, ReadFails, ReadToClose, ReadToAdd,
                CheckFails, AddClaimToSession, AddResultToSession, WriteFails, MakeLogEntry,
                Return, stores
    <3>3. outcome[h] = "ok"
      BY <1>1, <2>2, <3>2 DEF Typed
    <3> QED
      BY <2>1, <2>2, <3>3 DEF Succeeded
  <2> QED
    BY <2>1, <2>2, <2>3, <2>4
<1>4. CASE Crash \/ UNCHANGED vars
  BY <1>1, <1>4 DEF Crash, vars, locals, Succeeded
<1>5. ASSUME Write(h) PROVE Reports(h)
  BY <1>1, <1>5 DEF Write, Reports, PromiseInv, RefinementInv, CopyCurrent, Current, Typed
<1> QED
  BY <1>1, <1>2, <1>3, <1>4, <1>5 DEF Next

LEMMA AnsweredStep ==
  ASSUME Inv, Answered, [Next]_vars
  PROVE  Answered'
<1>1. ASSUME NEW h \in Handlers, Request(h) PROVE Answered'
  BY <1>1 DEF Request, PostSession, PostClaim, PostResult, DeleteSession, PutSessionClaim,
              PutSessionResult, Receive, Go, Answered, Inv, TypeOK, Typed
<1>2. ASSUME NEW h \in Handlers, Step(h) PROVE Answered'
  <2>1. /\ \A g \in Handlers : g # h => pc'[g] = pc[g] /\ outcome'[g] = outcome[g]
        /\ outcome'[h] = outcome[h] \/ pc'[h] \in {"log", "done"}
        /\ pc[h] \notin {"log", "done", "dead"} \/ pc'[h] = "done"
    BY <1>2 DEF Step, OpenSession, AddClaim, AddResult, InsertOne, RefuseItemID, Get, ReadFails,
                ReadToClose, ReadToAdd, CheckFails, AddClaimToSession, AddResultToSession,
                Write, WriteFails, MakeLogEntry, Go, Return, Inv, TypeOK, Typed, stores
  <2> QED
    BY <2>1 DEF Answered
<1>3. CASE Crash
  BY <1>3 DEF Crash, Answered, InFlight
<1>4. CASE UNCHANGED vars
  BY <1>4 DEF vars, locals, Answered
<1> QED
  BY <1>1, <1>2, <1>3, <1>4 DEF Next

LEMMA PromiseStep ==
  ASSUME SingleClient, PromiseInv, [Next]_vars
  PROVE  PromiseInv'
<1>1. RefinementInv'
  BY StepInv, AloneStep, CurrentStep, UntouchedStep DEF PromiseInv, RefinementInv
<1>2. Answered'
  BY AnsweredStep DEF PromiseInv, RefinementInv
<1>3. ASSUME NEW s \in Sids
      PROVE  /\ session[s] \in Document /\ session'[s] \in Document
             /\ Kept(session[s], session'[s])
  BY <1>1, SessionsKept DEF PromiseInv, RefinementInv, Inv, TypeOK, Typed
<1>4. CloseIsFinal'
  <2> SUFFICES ASSUME NEW h \in Handlers, Succeeded(h, "CloseSession")'
               PROVE  session'[sid'[h]].closed # 0
    BY DEF CloseIsFinal
  <2>1. /\ op[h] = "CloseSession" /\ sid'[h] = sid[h] /\ sid[h] \in Sids
        /\ Succeeded(h, "CloseSession") \/ Reports(h)
    BY SucceededStep
  <2>2. CASE Succeeded(h, "CloseSession")
    BY <1>3, <2>1, <2>2 DEF PromiseInv, CloseIsFinal, Kept
  <2>3. CASE Reports(h)
    BY <2>1, <2>3 DEF Reports, ToWrite, ClosedAt, PromiseInv, RefinementInv, Inv, TypeOK, Typed
  <2> QED
    BY <2>1, <2>2, <2>3
<1>5. ClosedOnce'
  <2> DEFINE Close(h) == /\ op[h] = "CloseSession" /\ sid'[h] = sid[h] /\ sid[h] \in Sids
                         /\ Succeeded(h, "CloseSession") \/ Reports(h)
  <2> SUFFICES ASSUME NEW g \in Handlers, NEW h \in Handlers, Succeeded(g, "CloseSession")',
                      Succeeded(h, "CloseSession")', sid'[g] = sid'[h]
               PROVE  g = h
    BY DEF ClosedOnce
  <2>1. Close(g) /\ Close(h)
    BY SucceededStep
  <2>2. ASSUME NEW i \in Handlers, NEW j \in Handlers, Close(i), Close(j), Reports(i),
               sid[i] = sid[j]
        PROVE  i = j
    <3>1. session[sid[i]].closed = 0
      BY <2>2 DEF Reports, ToWrite
    <3>2. ~Succeeded(j, "CloseSession")
      BY <2>2, <3>1 DEF PromiseInv, CloseIsFinal
    <3>3. Reports(j)
      BY <2>2, <3>2
    <3> QED
      BY <2>2, <3>3, IdsAssumption DEF Reports, PromiseInv, RefinementInv, Alone, Busy
  <2> QED
    BY <2>1, <2>2 DEF PromiseInv, ClosedOnce
<1>6. AppendsHeld'
  <2>1. ASSUME NEW h \in Handlers, Succeeded(h, "AddClaimToSession")'
        PROVE  Holds(session'[sid'[h]].claims, item'[h])
    <3>1. /\ op[h] = "AddClaimToSession" /\ sid'[h] = sid[h] /\ item'[h] = item[h]
          /\ sid[h] \in Sids /\ item[h] \in Cids
          /\ Succeeded(h, "AddClaimToSession") \/ Reports(h)
      BY <2>1, SucceededStep DEF PromiseInv, RefinementInv, Inv, TypeOK
    <3>2. session[sid[h]].claims \in Seq(Cids) /\ session'[sid[h]].claims \in Seq(Cids)
      BY <1>3, <3>1 DEF Document
    <3>3. CASE Succeeded(h, "AddClaimToSession")
      <4>1. Holds(session[sid[h]].claims, item[h])
        BY <3>3 DEF PromiseInv, AppendsHeld
      <4> QED
        BY <1>3, <3>1, <3>2, <4>1, HoldsGrows DEF Kept
    <3>4. CASE Reports(h)
      <4>1. session'[sid[h]] = ClaimListed(session[sid[h]], item[h])
        BY <3>1, <3>4 DEF Reports, ToWrite, PromiseInv, RefinementInv, Inv, TypeOK, Typed
      <4>2. session'[sid[h]].claims = Append(session[sid[h]].claims, item[h])
        BY <4>1 DEF ClaimListed
      <4> QED
        BY <3>1, <3>2, <4>2, HoldsAppended
    <3> QED
      BY <3>1, <3>3, <3>4
  <2>2. ASSUME NEW h \in Handlers, Succeeded(h, "AddResultToSession")'
        PROVE  Holds(session'[sid'[h]].results, item'[h])
    <3>1. /\ op[h] = "AddResultToSession" /\ sid'[h] = sid[h] /\ item'[h] = item[h]
          /\ sid[h] \in Sids /\ item[h] \in Rids
          /\ Succeeded(h, "AddResultToSession") \/ Reports(h)
      BY <2>2, SucceededStep DEF PromiseInv, RefinementInv, Inv, TypeOK
    <3>2. session[sid[h]].results \in Seq(Rids) /\ session'[sid[h]].results \in Seq(Rids)
      BY <1>3, <3>1 DEF Document
    <3>3. CASE Succeeded(h, "AddResultToSession")
      <4>1. Holds(session[sid[h]].results, item[h])
        BY <3>3 DEF PromiseInv, AppendsHeld
      <4> QED
        BY <1>3, <3>1, <3>2, <4>1, HoldsGrows DEF Kept
    <3>4. CASE Reports(h)
      <4>1. session'[sid[h]] = ResultListed(session[sid[h]], item[h])
        BY <3>1, <3>4 DEF Reports, ToWrite, PromiseInv, RefinementInv, Inv, TypeOK, Typed
      <4>2. session'[sid[h]].results = Append(session[sid[h]].results, item[h])
        BY <4>1 DEF ResultListed
      <4> QED
        BY <3>1, <3>2, <4>2, HoldsAppended
    <3> QED
      BY <3>1, <3>3, <3>4
  <2> QED
    BY <2>1, <2>2 DEF AppendsHeld
<1> QED
  BY <1>1, <1>2, <1>4, <1>5, <1>6 DEF PromiseInv

LEMMA PromiseInvariance == SingleClient => (Spec => []PromiseInv)
<1> SUFFICES ASSUME SingleClient PROVE Spec => []PromiseInv
  OBVIOUS
<1>1. Init /\ RefinementInv => PromiseInv
  BY DEF Init, PromiseInv, Answered, CloseIsFinal, ClosedOnce, AppendsHeld, Succeeded
<1>2. PromiseInv /\ [Next]_vars => PromiseInv'
  BY PromiseStep
<1> QED
  BY <1>1, <1>2, RefinementInvariance, PTL DEF Spec

(* With one client per session, a session whose closing was reported stays  *)
(* closed: no stale write opens it again (CloseSession).                    *)
THEOREM ClosingIsFinal == SingleClient => (Spec => []CloseIsFinal)
<1>1. PromiseInv => CloseIsFinal
  BY DEF PromiseInv
<1> QED
  BY <1>1, PromiseInvariance, PTL

(* With one client per session, only one request is told that it closed a   *)
(* session (CloseSession's check of Timing.Closed).                         *)
THEOREM ClosingIsUnique == SingleClient => (Spec => []ClosedOnce)
<1>1. PromiseInv => ClosedOnce
  BY DEF PromiseInv
<1> QED
  BY <1>1, PromiseInvariance, PTL

(* With one client per session, what was reported as added to a session is  *)
(* in its lists ever after (AddClaimToSession and AddResultToSession).      *)
THEOREM AppendsAreKept == SingleClient => (Spec => []AcknowledgedAppendsKept)
<1>1. PromiseInv => AcknowledgedAppendsKept
  <2> SUFFICES ASSUME PromiseInv, NEW h \in Handlers,
                      Succeeded(h, "AddClaimToSession") \/ Succeeded(h, "AddResultToSession")
               PROVE  Listed(sid[h], item[h])
    BY DEF AcknowledgedAppendsKept
  <2>1. sid[h] \in Sids
    BY DEF Succeeded, PromiseInv, RefinementInv, Inv, TypeOK
  <2>2. /\ session[sid[h]].claims \in Seq(Cids) /\ session[sid[h]].results \in Seq(Rids)
        /\ \/ Holds(session[sid[h]].claims, item[h])
           \/ Holds(session[sid[h]].results, item[h])
    BY <2>1 DEF PromiseInv, AppendsHeld, RefinementInv, Inv, TypeOK, Typed, Document
  <2> QED
    BY <2>2, HoldsOccurs DEF Listed
<1> QED
  BY <1>1, PromiseInvariance, PTL

-----------------------------------------------------------------------------
(***************************************************************************)
(* Every entry of a list comes from a request, with any number of clients. *)
(***************************************************************************)
(* Those who may have put item i into the copy that handler h has of its    *)
(* session: those who may have put it into the session, and h itself.       *)
Adds == {"AddClaimToSession", "AddResultToSession"}

CopyAppenders(h, i) ==
  Appenders(sid[h], i)
    \cup {g \in {h} : pc[g] = "write" /\ op[g] \in Adds /\ item[g] = i}

Within(d, i, S) ==
  Occurrences(d.claims, i) <= Cardinality(S) /\ Occurrences(d.results, i) <= Cardinality(S)

(* A copy owes its entries to requests, like the document it will replace.  *)
EntriesInv ==
  /\ Inv
  /\ IsFiniteSet({h \in Handlers : pc[h] # "idle"})
  /\ \A s \in Sids : \A i : Within(session[s], i, Appenders(s, i))
  /\ \A h \in Handlers : pc[h] \in {"check", "write"} =>
       \A i : Within(snap[h], i, CopyAppenders(h, i))

LEMMA OccurrencesEmpty ==
  ASSUME NEW i
  PROVE  Occurrences(<<>>, i) = 0
<1>1. {k \in DOMAIN <<>> : <<>>[k] = i} = {}
  OBVIOUS
<1> QED
  BY <1>1, FS_EmptySet DEF Occurrences

LEMMA OccurrencesAppended ==
  ASSUME NEW S, NEW s \in Seq(S), NEW e \in S, NEW i
  PROVE  /\ Occurrences(s, i) \in Nat
         /\ Occurrences(Append(s, e), i) =
              IF e = i THEN Occurrences(s, i) + 1 ELSE Occurrences(s, i)
<1> DEFINE K == {k \in DOMAIN s : s[k] = i}
           L == {k \in DOMAIN Append(s, e) : Append(s, e)[k] = i}
           n == Len(s) + 1
<1>1. /\ n \in Nat /\ n \notin DOMAIN s /\ DOMAIN s = 1..Len(s)
      /\ DOMAIN Append(s, e) = DOMAIN s \cup {n}
      /\ Append(s, e)[n] = e /\ \A k \in DOMAIN s : Append(s, e)[k] = s[k]
  OBVIOUS
<1>2. IsFiniteSet(K)
  <2>1. K \subseteq 1..Len(s) /\ Len(s) \in Nat
    BY <1>1
  <2> HIDE DEF K
  <2>2. IsFiniteSet(1..Len(s))
    BY <2>1, FS_Interval
  <2> QED
    BY <2>1, <2>2, FS_Subset
<1>3. e = i => L = K \cup {n}
  BY <1>1
<1>4. e # i => L = K
  BY <1>1
<1>5. n \notin K
  BY <1>1
<1> HIDE DEF K, L, n
<1>6. Cardinality(K) \in Nat
  BY <1>2, FS_CardinalityType
<1>7. Cardinality(K \cup {n}) = Cardinality(K) + 1
  BY <1>2, <1>5, FS_AddElement
<1> QED
  BY <1>3, <1>4, <1>6, <1>7 DEF Occurrences, K, L

LEMMA WithinGrows ==
  ASSUME NEW d \in Document, NEW i, NEW S, NEW T, IsFiniteSet(T), S \subseteq T, Within(d, i, S)
  PROVE  Within(d, i, T)
<1>1. Cardinality(S) \in Nat /\ Cardinality(T) \in Nat /\ Cardinality(S) <= Cardinality(T)
  BY FS_Subset, FS_CardinalityType
<1>2. Occurrences(d.claims, i) \in Nat /\ Occurrences(d.results, i) \in Nat
  BY HoldsOccurs DEF Document
<1> QED
  BY <1>1, <1>2 DEF Within

(* A handler that may have added an item stays one, and handlers come one   *)
(* by one.                                                                  *)
LEMMA AppendersGrow ==
  ASSUME EntriesInv, [Next]_vars
  PROVE  /\ IsFiniteSet({h \in Handlers : pc'[h] # "idle"})
         /\ \A s, i : Appenders(s, i) \subseteq Appenders(s, i)'
         /\ \A s, i : IsFiniteSet(Appenders(s, i)')
<1> USE DEF EntriesInv, Inv, TypeOK, Typed
<1> DEFINE Active == {h \in Handlers : pc[h] # "idle"}
           Active2 == {h \in Handlers : pc'[h] # "idle"}
<1>1. ASSUME NEW h \in Handlers, Request(h)
      PROVE  /\ pc[h] = "idle"
             /\ \A g \in Handlers \ {h} : pc'[g] = pc[g] /\ op'[g] = op[g] /\ sid'[g] = sid[g]
                                          /\ item'[g] = item[g]
  BY <1>1 DEF Request, PostSession, PostClaim, PostResult, DeleteSession, PutSessionClaim,
     PutSessionResult, Receive, Go
<1>2. ASSUME NEW h \in Handlers, Step(h)
      PROVE  /\ UNCHANGED <<op, sid, item>> /\ pc[h] \notin {"idle", "done", "dead"}
             /\ pc[h] = "log" => pc'[h] = "done"
             /\ \A g \in Handlers \ {h} : pc'[g] = pc[g]
  BY <1>2 DEF Step, OpenSession, AddClaim, AddResult, InsertOne, RefuseItemID, Get, ReadFails,
     ReadToClose, ReadToAdd, CheckFails, AddClaimToSession, AddResultToSession, Write, WriteFails,
     MakeLogEntry, Go, Return, stores
<1>3. CASE Crash \/ UNCHANGED vars
  <2>1. /\ UNCHANGED <<op, sid, item>>
        /\ \A g \in Handlers : pc'[g] = pc[g] \/ (pc'[g] = "dead" /\ pc[g] # "idle")
    BY <1>3 DEF Crash, InFlight, vars, locals
  <2>2. Active2 \subseteq Active
    BY <2>1
  <2>3. \A s, i : Appenders(s, i) \subseteq Appenders(s, i)' /\ Appenders(s, i)' \subseteq Active2
    BY <2>1 DEF Appenders
  <2> HIDE DEF Active, Active2
  <2>4. IsFiniteSet(Active2)
    BY <2>2, FS_Subset DEF Active
  <2> QED
    BY <2>3, <2>4, FS_Subset DEF Active2
<1>4. ASSUME NEW h \in Handlers, Request(h) \/ Step(h)
      PROVE  /\ IsFiniteSet(Active2)
             /\ \A s, i : Appenders(s, i) \subseteq Appenders(s, i)'
             /\ \A s, i : IsFiniteSet(Appenders(s, i)')
  <2>1. Active2 \subseteq Active \cup {h}
    BY <1>1, <1>2, <1>4
  <2>2. \A s, i : Appenders(s, i) \subseteq Appenders(s, i)'
    BY <1>1, <1>2, <1>4 DEF Appenders
  <2>3. \A s, i : Appenders(s, i)' \subseteq Active2
    BY DEF Appenders
  <2> HIDE DEF Active, Active2
  <2>4. IsFiniteSet(Active \cup {h})
    BY FS_AddElement DEF Active
  <2>5. IsFiniteSet(Active2)
    BY <2>1, <2>4, FS_Subset
  <2> QED
    BY <2>2, <2>3, <2>5, FS_Subset
<1> QED
  BY <1>3, <1>4 DEF Next

(* The copies of the handlers that do not move.                             *)
LEMMA CopiesKept ==
  ASSUME EntriesInv, [Next]_vars, NEW g \in Handlers, NEW i,
         UNCHANGED <<pc[g], op[g], sid[g], item[g], snap[g]>>, pc[g] \in {"check", "write"}
  PROVE  Within(snap[g], i, CopyAppenders(g, i))'
<1> DEFINE own == {f \in {g} : pc[f] = "write" /\ op[f] \in Adds /\ item[f] = i}
<1>1. own' = own /\ own \subseteq {g}
  OBVIOUS
<1>2. CopyAppenders(g, i) = Appenders(sid[g], i) \cup own
      /\ CopyAppenders(g, i)' = Appenders(sid[g], i)' \cup own
  BY <1>1 DEF CopyAppenders
<1>3. Appenders(sid[g], i) \subseteq Appenders(sid[g], i)' /\ IsFiniteSet(Appenders(sid[g], i)')
  BY AppendersGrow
<1> HIDE DEF own
<1>4. IsFiniteSet(CopyAppenders(g, i)')
  BY <1>1, <1>2, <1>3, FS_Singleton, FS_Subset, FS_Union
<1>5. CopyAppenders(g, i) \subseteq CopyAppenders(g, i)'
  BY <1>2, <1>3
<1>6. snap[g] \in Document /\ Within(snap[g], i, CopyAppenders(g, i))
  BY DEF EntriesInv, Inv, TypeOK, Typed
<1> QED
  BY <1>4, <1>5, <1>6, WithinGrows

(* The copy of the handler that moves.                                      *)
LEMMA OwnCopy ==
  ASSUME EntriesInv, [Next]_vars, NEW h \in Handlers, Step(h), NEW i,
         pc'[h] \in {"check", "write"}
  PROVE  Within(snap[h], i, CopyAppenders(h, i))'
<1> USE DEF EntriesInv, Inv, TypeOK, Typed
<1> DEFINE adds == pc'[h] = "write" /\ op[h] \in Adds /\ item[h] = i
           A == Appenders(sid[h], i)
           A2 == Appenders(sid[h], i)'
           C2 == CopyAppenders(h, i)'
<1>1. UNCHANGED <<op, sid, item>> /\ (ReadToClose(h) \/ ReadToAdd(h)
         \/ AddClaimToSession(h) \/ AddResultToSession(h))
  BY DEF Step, OpenSession, AddClaim, AddResult, InsertOne, RefuseItemID, Get, ReadFails,
     ReadToClose, ReadToAdd, CheckFails, AddClaimToSession, AddResultToSession, Write, WriteFails,
     MakeLogEntry, Go, Return, stores
<1>2. A \subseteq A2 /\ IsFiniteSet(A2) /\ h \notin A2
  <2>1. A \subseteq A2 /\ IsFiniteSet(A2)
    BY <1>1, AppendersGrow
  <2>2. h \notin A2
    BY DEF Appenders
  <2> QED
    BY <2>1, <2>2
<1>3. C2 = A2 \cup {g \in {h} : adds}
  BY <1>1 DEF CopyAppenders
<1> HIDE DEF A, A2, C2
<1>4. /\ Cardinality(A) \in Nat /\ Cardinality(A2) \in Nat /\ Cardinality(A) <= Cardinality(A2)
      /\ Cardinality(A2 \cup {h}) = Cardinality(A2) + 1
  BY <1>2, FS_Subset, FS_CardinalityType, FS_AddElement
<1>5. adds => Cardinality(C2) = Cardinality(A2) + 1
  <2>1. adds => C2 = A2 \cup {h}
    BY <1>3
  <2> HIDE DEF adds
  <2> QED
    BY <1>4, <2>1, Zenon
<1>6. ~adds => Cardinality(C2) = Cardinality(A2)
  <2>1. ~adds => C2 = A2
    BY <1>3
  <2> HIDE DEF adds
  <2> QED
    BY <2>1, Zenon
<1>7. CASE ReadToClose(h) \/ ReadToAdd(h)
  <2>1. sid[h] \in Sids /\ session[sid[h]] \in Document
    BY <1>7 DEF ReadToClose, ReadToAdd, Found
  <2>2. snap'[h].claims = session[sid[h]].claims /\ snap'[h].results = session[sid[h]].results
    BY <1>7 DEF ReadToClose, ReadToAdd, ClosedAt, Go, Return
  <2>3. Within(session[sid[h]], i, A)
    BY <2>1 DEF A
  <2>4. Occurrences(session[sid[h]].claims, i) \in Nat /\ Occurrences(session[sid[h]].results, i) \in Nat
    BY <2>1, HoldsOccurs DEF Document
  <2> QED
    BY <1>4, <1>5, <1>6, <2>2, <2>3, <2>4 DEF Within, C2
<1>8. CASE AddClaimToSession(h) \/ AddResultToSession(h)
  <2>1. pc[h] = "check" /\ op[h] \in Adds /\ pc'[h] = "write" /\ snap[h] \in Document
    BY <1>8 DEF AddClaimToSession, AddResultToSession, Adds, Go
  <2>2. CopyAppenders(h, i) = A
    BY <2>1 DEF CopyAppenders, A
  <2>3. Occurrences(snap[h].claims, i) <= Cardinality(A) /\ Occurrences(snap[h].results, i) <= Cardinality(A)
    BY <2>1, <2>2 DEF Within
  <2>4. Occurrences(snap[h].claims, i) \in Nat /\ Occurrences(snap[h].results, i) \in Nat
    BY <2>1, HoldsOccurs DEF Document
  <2>5. CASE AddClaimToSession(h)
    <3>1. snap'[h].claims = Append(snap[h].claims, item[h]) /\ snap'[h].results = snap[h].results
          /\ item[h] \in Cids
      BY <2>5 DEF AddClaimToSession, ClaimListed
    <3>2. Occurrences(snap'[h].claims, i) = IF item[h] = i THEN Occurrences(snap[h].claims, i) + 1
                                            ELSE Occurrences(snap[h].claims, i)
      BY <2>1, <3>1, OccurrencesAppended DEF Document
    <3> QED
      BY <1>4, <1>5, <1>6, <2>1, <2>3, <2>4, <3>1, <3>2 DEF Within, C2
  <2>6. CASE AddResultToSession(h)
    <3>1. snap'[h].results = Append(snap[h].results, item[h]) /\ snap'[h].claims = snap[h].claims
          /\ item[h] \in Rids
      BY <2>6 DEF AddResultToSession, ResultListed
    <3>2. Occurrences(snap'[h].results, i) = IF item[h] = i THEN Occurrences(snap[h].results, i) + 1
                                             ELSE Occurrences(snap[h].results, i)
      BY <2>1, <3>1, OccurrencesAppended DEF Document
    <3> QED
      BY <1>4, <1>5, <1>6, <2>1, <2>3, <2>4, <3>1, <3>2 DEF Within, C2
  <2> QED
    BY <1>8, <2>5, <2>6
<1> QED
  BY <1>1, <1>7, <1>8

LEMMA EntriesStep == EntriesInv /\ [Next]_vars => EntriesInv'
<1> SUFFICES ASSUME EntriesInv, [Next]_vars PROVE EntriesInv'
  OBVIOUS
<1> USE DEF EntriesInv, Inv, TypeOK, Typed
<1>1. Inv' /\ IsFiniteSet({h \in Handlers : pc'[h] # "idle"})
  BY StepInv, AppendersGrow
<1>2. ASSUME NEW s \in Sids, NEW i PROVE Within(session[s], i, Appenders(s, i))'
  <2>1. Appenders(s, i) \subseteq Appenders(s, i)' /\ IsFiniteSet(Appenders(s, i)')
    BY AppendersGrow
  <2>2. CASE session'[s] = session[s]
    <3>1. session[s] \in Document /\ Within(session[s], i, Appenders(s, i))
      OBVIOUS
    <3> QED
      BY <2>1, <2>2, <3>1, WithinGrows
  <2>3. CASE session'[s] # session[s]
    <3>1. PICK h \in Handlers : Write(h) \/ WriteFails(h)
      BY <2>3 DEF Next, Request, Step, PostSession, PostClaim, PostResult, DeleteSession,
         PutSessionClaim, PutSessionResult, Receive, OpenSession, AddClaim, AddResult, InsertOne,
         RefuseItemID, Get, ReadFails, ReadToClose, ReadToAdd, CheckFails, AddClaimToSession,
         AddResultToSession, MakeLogEntry, Crash, vars, stores
    <3>2. /\ pc[h] = "write" /\ pc'[h] \in {"log", "done"} /\ UNCHANGED <<op, sid, item>>
          /\ session' \in {session, [session EXCEPT ![sid[h]] = snap[h]]}
      BY <3>1 DEF Write, WriteFails, Go, Return
    <3>3. sid[h] = s /\ session'[s] = snap[h] /\ snap[h] \in Document
      BY <2>3, <3>2
    <3>4. Within(snap[h], i, CopyAppenders(h, i))
      BY <3>2
    <3>5. CopyAppenders(h, i) \subseteq Appenders(s, i)'
      <4>1. \A g \in {h} : pc[g] = "write" /\ op[g] \in Adds /\ item[g] = i => g \in Appenders(s, i)'
        BY <3>2, <3>3 DEF Appenders, Adds
      <4> QED
        BY <2>1, <3>3, <4>1 DEF CopyAppenders
    <3> QED
      BY <2>1, <3>3, <3>4, <3>5, WithinGrows
  <2> QED
    BY <2>2, <2>3
<1>3. ASSUME NEW g \in Handlers, NEW i, pc'[g] \in {"check", "write"}
      PROVE  Within(snap[g], i, CopyAppenders(g, i))'
  <2>1. CASE Step(g)
    BY <1>3, <2>1, OwnCopy
  <2>2. CASE UNCHANGED <<pc[g], op[g], sid[g], item[g], snap[g]>>
    BY <1>3, <2>2, CopiesKept
  <2>3. ASSUME NEW h \in Handlers, h # g, Step(h)
        PROVE  UNCHANGED <<pc[g], op[g], sid[g], item[g], snap[g]>>
    BY <2>3 DEF Step, OpenSession, AddClaim, AddResult, InsertOne, RefuseItemID, Get, ReadFails,
       ReadToClose, ReadToAdd, CheckFails, AddClaimToSession, AddResultToSession, Write, WriteFails,
       MakeLogEntry, Go, Return, stores
  <2>4. ASSUME NEW h \in Handlers, Request(h)
        PROVE  pc'[g] \in {"get", "insert"} \/ UNCHANGED <<pc[g], op[g], sid[g], item[g], snap[g]>>
    BY <2>4 DEF Request, PostSession, PostClaim, PostResult, DeleteSession, PutSessionClaim,
       PutSessionResult, Receive, Go
  <2>5. ASSUME Crash \/ UNCHANGED vars
        PROVE  UNCHANGED <<pc[g], op[g], sid[g], item[g], snap[g]>>
    <3>1. UNCHANGED <<op, sid, item, snap>>
      BY <2>5 DEF Crash, vars, locals
    <3>2. pc'[g] = pc[g] \/ pc'[g] = "dead"
      BY <2>5 DEF Crash, vars, locals
    <3>3. pc'[g] = pc[g]
      BY <1>3, <3>2
    <3> QED
      BY <3>1, <3>3
  <2>6. ASSUME NEW h \in Handlers, Request(h) \/ Step(h)
        PROVE  Step(g) \/ UNCHANGED <<pc[g], op[g], sid[g], item[g], snap[g]>>
    BY <1>3, <2>3, <2>4, <2>6
  <2>7. UNCHANGED <<pc[g], op[g], sid[g], item[g], snap[g]>> \/ Step(g)
    BY <2>5, <2>6 DEF Next
  <2> QED
    BY <2>1, <2>2, <2>7
<1> QED
  BY <1>1, <1>2, <1>3

(* No write invents an entry, however many clients share a session.         *)
THEOREM EntriesHold == Spec => []EntriesComeFromRequests
<1>1. Init => EntriesInv
  <2> SUFFICES ASSUME Init PROVE EntriesInv
    OBVIOUS
  <2>1. {h \in Handlers : pc[h] # "idle"} = {}
    BY DEF Init
  <2>2. ASSUME NEW s \in Sids, NEW i PROVE Within(session[s], i, Appenders(s, i))
    <3>1. Appenders(s, i) = {}
      BY DEF Init, Appenders
    <3>2. session[s].claims = <<>> /\ session[s].results = <<>>
      BY DEF Init, NewSession
    <3> QED
      BY <3>1, <3>2, OccurrencesEmpty, FS_EmptySet DEF Within
  <2> QED
    BY <2>1, <2>2, InitInv, FS_EmptySet DEF Init, EntriesInv
<1>2. EntriesInv => EntriesComeFromRequests
  BY DEF EntriesInv, Within, EntriesComeFromRequests
<1> QED
  BY <1>1, <1>2, EntriesStep, PTL DEF Spec

-----------------------------------------------------------------------------
(***************************************************************************)
(* The log accounts for what is in the sessions, with any number of        *)
(* clients, as long as the log itself loses nothing.                       *)
(***************************************************************************)
(* What document d of session s holds is on record; if it is the copy of a  *)
(* handler that does operation o with item i, apart from what that does.    *)
Accounted(d, s, o, i) ==
  /\ d.closed # 0 => o = "CloseSession" \/ Recorded("CloseSession", s, NoId)
  /\ SessionUpdateLogging =>
       /\ \A k \in DOMAIN d.claims :
            \/ o = "AddClaimToSession" /\ d.claims[k] = i
            \/ Recorded("AddClaimToSession", s, d.claims[k])
       /\ \A k \in DOMAIN d.results :
            \/ o = "AddResultToSession" /\ d.results[k] = i
            \/ Recorded("AddResultToSession", s, d.results[k])

(* An error is reported when the operation is over.                         *)
Reporting(h) ==
  /\ pc[h] = "idle" => op[h] = "none"
  /\ op[h] = "CloseSession" => item[h] = NoId
  /\ outcome[h] \notin {"none", "ok"} => pc[h] \in {"log", "done", "dead"}

TrailInv ==
  /\ Inv
  /\ \A h \in Handlers : Reporting(h)
  /\ \A s \in Sids : Accounted(session[s], s, "none", NoId)
  /\ \A h \in Handlers : pc[h] \in {"check", "write"} =>
       Accounted(snap[h], sid[h], op[h], item[h])

(* What each step of a handler changes of itself and of the others.         *)
LEMMA ReportingStep ==
  ASSUME TrailInv, [Next]_vars
  PROVE  /\ \A h \in Handlers : Reporting(h)'
         /\ log \subseteq log'
         /\ \A h \in Handlers : op[h] # "none" => op'[h] = op[h] /\ sid'[h] = sid[h] /\ item'[h] = item[h]
         /\ \A h \in Handlers : outcome[h] \notin {"none", "ok"} => outcome'[h] = outcome[h]
         /\ \A h \in Handlers : pc[h] = "dead" => pc'[h] = "dead"
<1> USE DEF TrailInv, Inv, TypeOK, Typed, Reporting
<1>1. ASSUME NEW h \in Handlers, Request(h)
      PROVE  /\ pc[h] = "idle" /\ UNCHANGED <<log, outcome>>
             /\ op'[h] = "CloseSession" => item'[h] = NoId
             /\ pc'[h] \in {"get", "insert"}
             /\ \A g \in Handlers \ {h} :
                  pc'[g] = pc[g] /\ op'[g] = op[g] /\ sid'[g] = sid[g] /\ item'[g] = item[g]
  BY <1>1 DEF Request, PostSession, PostClaim, PostResult, DeleteSession, PutSessionClaim,
     PutSessionResult, Receive, Go, stores
<1>2. ASSUME NEW h \in Handlers, Step(h)
      PROVE  /\ UNCHANGED <<op, sid, item>> /\ log \subseteq log'
             /\ pc[h] \notin {"idle", "done", "dead"} /\ pc'[h] \notin {"idle", "dead"}
             /\ pc[h] = "log" => outcome' = outcome
             /\ outcome'[h] \notin {"none", "ok"} => pc'[h] \in {"log", "done"}
             /\ \A g \in Handlers \ {h} : pc'[g] = pc[g] /\ outcome'[g] = outcome[g]
  <2>1. CASE OpenSession(h) \/ AddClaim(h) \/ AddResult(h)
    BY <2>1 DEF OpenSession, AddClaim, AddResult, InsertOne, Go
  <2>2. CASE RefuseItemID(h) \/ Get(h) \/ ReadFails(h) \/ CheckFails(h)
    BY <2>2 DEF RefuseItemID, Get, ReadFails, CheckFails, Go, Return, stores
  <2>3. CASE ReadToClose(h) \/ ReadToAdd(h) \/ AddClaimToSession(h) \/ AddResultToSession(h)
    BY <2>3 DEF ReadToClose, ReadToAdd, AddClaimToSession, AddResultToSession, Go, Return, stores
  <2>4. CASE Write(h) \/ WriteFails(h) \/ MakeLogEntry(h)
    BY <2>4 DEF Write, WriteFails, MakeLogEntry, Go, Return
  <2> QED
    BY <1>2, <2>1, <2>2, <2>3, <2>4 DEF Step
<1>3. ASSUME Crash \/ UNCHANGED vars
      PROVE  /\ UNCHANGED <<op, sid, item, outcome, log>>
             /\ \A h \in Handlers : pc'[h] = pc[h] \/ (pc'[h] = "dead" /\ pc[h] # "idle")
  BY <1>3 DEF Crash, InFlight, vars, stores, locals
<1>4. CASE Crash \/ UNCHANGED vars
  BY <1>3, <1>4
<1>5. ASSUME NEW h \in Handlers, Request(h)
      PROVE  /\ \A g \in Handlers : Reporting(g)'
             /\ log \subseteq log'
             /\ \A g \in Handlers : op[g] # "none" => op'[g] = op[g] /\ sid'[g] = sid[g] /\ item'[g] = item[g]
             /\ \A g \in Handlers : outcome[g] \notin {"none", "ok"} => outcome'[g] = outcome[g]
             /\ \A g \in Handlers : pc[g] = "dead" => pc'[g] = "dead"
  BY <1>1, <1>5
<1>6. ASSUME NEW h \in Handlers, Step(h)
      PROVE  /\ \A g \in Handlers : Reporting(g)'
             /\ log \subseteq log'
             /\ \A g \in Handlers : op[g] # "none" => op'[g] = op[g] /\ sid'[g] = sid[g] /\ item'[g] = item[g]
             /\ \A g \in Handlers : outcome[g] \notin {"none", "ok"} => outcome'[g] = outcome[g]
             /\ \A g \in Handlers : pc[g] = "dead" => pc'[g] = "dead"
  BY <1>2, <1>6
<1> QED
  BY <1>4, <1>5, <1>6 DEF Next

(* What is on record stays on record.                                       *)
LEMMA RecordKept ==
  ASSUME TrailInv, [Next]_vars, ~LogLoss, NEW o \in Operations, NEW s, NEW i, Recorded(o, s, i)
  PROVE  Recorded(o, s, i)'
<1> USE DEF TrailInv, Inv, TypeOK, Typed
<1>1. CASE [op |-> o, sid |-> s, item |-> i] \in log
  BY <1>1, ReportingStep DEF Recorded
<1>2. ASSUME NEW h \in Handlers, op[h] = o, sid[h] = s, item[h] = i,
             pc[h] \in {"log", "dead"} \/ outcome[h] \notin {"none", "ok"}
      PROVE  Recorded(o, s, i)'
  <2>1. op'[h] = o /\ sid'[h] = s /\ item'[h] = i
    BY <1>2, ReportingStep DEF Operations
  <2>2. CASE pc'[h] \in {"log", "dead"} \/ outcome'[h] \notin {"none", "ok"}
    BY <2>1, <2>2 DEF Recorded
  <2>3. CASE pc'[h] \notin {"log", "dead"} /\ outcome'[h] \in {"none", "ok"}
    <3>1. pc[h] = "log"
      BY <1>2, <2>3, ReportingStep
    <3>2. MakeLogEntry(h)
      <4>1. \A g \in Handlers : ~Request(h) /\ (Request(g) => pc'[h] = pc[h])
        BY <3>1 DEF Request, PostSession, PostClaim, PostResult, DeleteSession, PutSessionClaim,
           PutSessionResult, Receive, Go
      <4>2. \A g \in Handlers \ {h} : Step(g) => pc'[h] = pc[h]
        BY DEF Step, OpenSession, AddClaim, AddResult, InsertOne, RefuseItemID, Get, ReadFails,
           ReadToClose, ReadToAdd, CheckFails, AddClaimToSession, AddResultToSession, Write,
           WriteFails, MakeLogEntry, Go, Return
      <4>3. Step(h)
        BY <2>3, <3>1, <4>1, <4>2 DEF Next, Crash, InFlight, vars, locals
      <4> QED
        BY <3>1, <4>3 DEF Step, OpenSession, AddClaim, AddResult, InsertOne, RefuseItemID, Get,
           ReadFails, ReadToClose, ReadToAdd, CheckFails, AddClaimToSession, AddResultToSession,
           Write, WriteFails
    <3> QED
      BY <1>2, <3>2 DEF MakeLogEntry, Entry, Recorded
  <2> QED
    BY <2>2, <2>3
<1> QED
  BY <1>1, <1>2 DEF Recorded

(* The step that writes a copy puts on record what it did.                  *)
LEMMA WriteRecorded ==
  ASSUME TrailInv, NEW h \in Handlers, Write(h) \/ WriteFails(h), NEW o, NEW s, NEW i,
         op[h] = o, sid[h] = s, item[h] = i, o = "CloseSession" \/ SessionUpdateLogging
  PROVE  Recorded(o, s, i)'
<1>1. UNCHANGED <<op, sid, item>>
  BY DEF Write, WriteFails
<1>2. pc'[h] = "log" \/ outcome'[h] = "error"
  BY DEF TrailInv, Inv, TypeOK, Typed, Write, WriteFails, Go, Return, LogsUpdate
<1> QED
  BY <1>1, <1>2 DEF Recorded

LEMMA TrailStep == ~LogLoss /\ TrailInv /\ [Next]_vars => TrailInv'
<1> SUFFICES ASSUME ~LogLoss, TrailInv, [Next]_vars PROVE TrailInv'
  OBVIOUS
<1> USE DEF TrailInv, Inv, TypeOK, Typed
<1>1. Inv' /\ \A h \in Handlers : Reporting(h)'
  BY StepInv, ReportingStep
<1>2. ASSUME NEW s \in Sids PROVE Accounted(session[s], s, "none", NoId)'
  <2>1. CASE session'[s] = session[s]
    <3>1. Accounted(session[s], s, "none", NoId)
      OBVIOUS
    <3> QED
      BY <2>1, <3>1, RecordKept DEF Accounted, Operations
  <2>2. CASE session'[s] # session[s]
    <3>1. PICK h \in Handlers : Write(h) \/ WriteFails(h)
      BY <2>2 DEF Next, Request, Step, PostSession, PostClaim, PostResult, DeleteSession,
         PutSessionClaim, PutSessionResult, Receive, OpenSession, AddClaim, AddResult, InsertOne,
         RefuseItemID, Get, ReadFails, ReadToClose, ReadToAdd, CheckFails, AddClaimToSession,
         AddResultToSession, MakeLogEntry, Crash, vars, stores
    <3>2. /\ pc[h] = "write" /\ UNCHANGED <<op, sid, item>>
          /\ session' \in {session, [session EXCEPT ![sid[h]] = snap[h]]}
      BY <3>1 DEF Write, WriteFails
    <3>3. sid[h] = s /\ session'[s] = snap[h]
      BY <2>2, <3>2
    <3>4. Accounted(snap[h], s, op[h], item[h])
      BY <3>2, <3>3
    <3>5. op[h] = "CloseSession" => item[h] = NoId
      BY DEF Reporting
    <3>6. snap[h].closed # 0 => Recorded("CloseSession", s, NoId)'
      BY <3>1, <3>3, <3>4, <3>5, WriteRecorded, RecordKept DEF Accounted, Operations
    <3>7. ASSUME SessionUpdateLogging, NEW c, \E k \in DOMAIN snap[h].claims : snap[h].claims[k] = c
          PROVE  Recorded("AddClaimToSession", s, c)'
      BY <3>1, <3>3, <3>4, <3>7, WriteRecorded, RecordKept DEF Accounted, Operations
    <3>8. ASSUME SessionUpdateLogging, NEW r, \E k \in DOMAIN snap[h].results : snap[h].results[k] = r
          PROVE  Recorded("AddResultToSession", s, r)'
      BY <3>1, <3>3, <3>4, <3>8, WriteRecorded, RecordKept DEF Accounted, Operations
    <3> QED
      BY <3>3, <3>6, <3>7, <3>8 DEF Accounted
  <2> QED
    BY <2>1, <2>2
<1>3. ASSUME NEW g \in Handlers, UNCHANGED <<op[g], sid[g], item[g], snap[g]>>,
             pc[g] \in {"check", "write"}
      PROVE  Accounted(snap[g], sid[g], op[g], item[g])'
  <2>1. Accounted(snap[g], sid[g], op[g], item[g])
    BY <1>3
  <2> QED
    BY <1>3, <2>1, RecordKept DEF Accounted, Operations
<1>4. ASSUME NEW g \in Handlers, Step(g), pc'[g] \in {"check", "write"}
      PROVE  Accounted(snap[g], sid[g], op[g], item[g])'
  <2>1. /\ UNCHANGED <<op, sid, item>>
        /\ ReadToClose(g) \/ ReadToAdd(g) \/ AddClaimToSession(g) \/ AddResultToSession(g)
    BY <1>4 DEF Step, OpenSession, AddClaim, AddResult, InsertOne, RefuseItemID, Get, ReadFails,
       ReadToClose, ReadToAdd, CheckFails, AddClaimToSession, AddResultToSession, Write, WriteFails,
       MakeLogEntry, Go, Return, stores
  <2>2. CASE ReadToClose(g) \/ ReadToAdd(g)
    <3>1. sid[g] \in Sids /\ op[g] \in Operations
      BY <2>2 DEF ReadToClose, ReadToAdd, Found, Operations
    <3>2. /\ snap'[g].claims = session[sid[g]].claims /\ snap'[g].results = session[sid[g]].results
          /\ op[g] # "CloseSession" => snap'[g].closed = session[sid[g]].closed
      BY <1>4, <2>2, <3>1 DEF ReadToClose, ReadToAdd, ClosedAt, Go, Return
    <3>3. Accounted(session[sid[g]], sid[g], "none", NoId)
      BY <3>1
    <3> QED
      BY <2>1, <3>2, <3>3, RecordKept DEF Accounted, Operations
  <2>3. CASE AddClaimToSession(g)
    <3>1. /\ snap'[g].claims = Append(snap[g].claims, item[g]) /\ snap'[g].results = snap[g].results
          /\ snap'[g].closed = snap[g].closed /\ op[g] = "AddClaimToSession"
      BY <2>3 DEF AddClaimToSession, ClaimListed
    <3>2. Accounted(snap[g], sid[g], op[g], item[g])
      BY <2>3 DEF AddClaimToSession
    <3>3. snap[g].claims \in Seq(Cids) /\ item[g] \in Cids
      BY <3>1 DEF Document
    <3>4. \A k \in DOMAIN Append(snap[g].claims, item[g]) :
            \/ Append(snap[g].claims, item[g])[k] = item[g]
            \/ k \in DOMAIN snap[g].claims /\ Append(snap[g].claims, item[g])[k] = snap[g].claims[k]
      BY <3>3
    <3> QED
      BY <2>1, <3>1, <3>2, <3>4, RecordKept DEF Accounted, Operations
  <2>4. CASE AddResultToSession(g)
    <3>1. /\ snap'[g].results = Append(snap[g].results, item[g]) /\ snap'[g].claims = snap[g].claims
          /\ snap'[g].closed = snap[g].closed /\ op[g] = "AddResultToSession"
      BY <2>4 DEF AddResultToSession, ResultListed
    <3>2. Accounted(snap[g], sid[g], op[g], item[g])
      BY <2>4 DEF AddResultToSession
    <3>3. snap[g].results \in Seq(Rids) /\ item[g] \in Rids
      BY <3>1 DEF Document
    <3>4. \A k \in DOMAIN Append(snap[g].results, item[g]) :
            \/ Append(snap[g].results, item[g])[k] = item[g]
            \/ k \in DOMAIN snap[g].results /\ Append(snap[g].results, item[g])[k] = snap[g].results[k]
      BY <3>3
    <3> QED
      BY <2>1, <3>1, <3>2, <3>4, RecordKept DEF Accounted, Operations
  <2> QED
    BY <2>1, <2>2, <2>3, <2>4
<1>5. ASSUME NEW g \in Handlers, pc'[g] \in {"check", "write"}
      PROVE  Step(g) \/ (pc[g] \in {"check", "write"} /\ UNCHANGED <<op[g], sid[g], item[g], snap[g]>>)
  <2>1. ASSUME NEW h \in Handlers, h # g, Step(h)
        PROVE  UNCHANGED <<pc[g], op[g], sid[g], item[g], snap[g]>>
    BY <2>1 DEF Step, OpenSession, AddClaim, AddResult, InsertOne, RefuseItemID, Get, ReadFails,
       ReadToClose, ReadToAdd, CheckFails, AddClaimToSession, AddResultToSession, Write, WriteFails,
       MakeLogEntry, Go, Return, stores
  <2>2. ASSUME NEW h \in Handlers, Request(h)
        PROVE  pc'[g] \in {"get", "insert"} \/ UNCHANGED <<pc[g], op[g], sid[g], item[g], snap[g]>>
    BY <2>2 DEF Request, PostSession, PostClaim, PostResult, DeleteSession, PutSessionClaim,
       PutSessionResult, Receive, Go
  <2>3. ASSUME Crash \/ UNCHANGED vars
        PROVE  UNCHANGED <<op, sid, item, snap>> /\ (pc'[g] = pc[g] \/ pc'[g] = "dead")
    BY <2>3 DEF Crash, vars, locals
  <2> QED
    BY <1>5, <2>1, <2>2, <2>3 DEF Next
<1>6. ASSUME NEW g \in Handlers, pc'[g] \in {"check", "write"}
      PROVE  Accounted(snap[g], sid[g], op[g], item[g])'
  BY <1>3, <1>4, <1>5, <1>6
<1> QED
  BY <1>1, <1>2, <1>6

(* Closings and additions are in the log, about to be, or not confirmed.    *)
THEOREM AuditTrailHolds == ~LogLoss => (Spec => []AuditTrail)
<1> SUFFICES ASSUME ~LogLoss PROVE Spec => []AuditTrail
  OBVIOUS
<1>1. Init => TrailInv
  <2> SUFFICES ASSUME Init PROVE TrailInv
    OBVIOUS
  <2>1. \A h \in Handlers : Reporting(h)
    BY DEF Init, Reporting
  <2>2. ASSUME NEW s \in Sids PROVE Accounted(session[s], s, "none", NoId)
    BY DEF Init, NewSession, Accounted
  <2> QED
    BY <2>1, <2>2, InitInv DEF Init, TrailInv
<1>2. TrailInv => AuditTrail
  BY DEF TrailInv, Accounted, AuditTrail
<1> QED
  BY <1>1, <1>2, TrailStep, PTL DEF Spec
=============================================================================
