----------------------------- MODULE ItemsProofs -----------------------------
(***************************************************************************)
(* Theorems about Items, for any number of handlers and items.             *)
(***************************************************************************)
EXTENDS Items, TLAPS

Adding(h, i) == pc[h] = "change" /\ op[h] = "add" /\ target[h] = i

(* What a handler may hold at each step: nothing was deleted by a request   *)
(* that has not changed anything yet, and an item to be added is not looked *)
(* up.                                                                     *)
Stages ==
  \A h \in Handlers :
    /\ pc[h] \in {"get", "change", "element", "log"} =>
         op[h] \in Operations /\ target[h] \in Ids \cup Objects
    /\ pc[h] = "idle" => op[h] = "none" /\ target[h] = Absent
    /\ pc[h] = "get" => op[h] # "add"
    /\ pc[h] = "element" => op[h] = "delete"
    /\ \/ pc[h] \in {"idle", "get", "change", "element"}
       \/ pc[h] = "log" /\ op[h] = "deleteObject"
       => outcome[h] = "none"

(* Each id about to be added is one that no other handler adds, that is not *)
(* stored and that never was.                                              *)
AddsAreFresh ==
  \A h \in Handlers, i \in Ids : Adding(h, i) =>
    /\ i \in made /\ ~Stored(i)
    /\ \A g \in Handlers : Adding(g, i) => g = h
    /\ \A g \in Handlers : Succeeded(g, "delete") => target[g] # i

(* The inductive invariant: an insertion cannot undo a deletion because its *)
(* id is fresh, a replacement because it inserts nothing.                  *)
Inv ==
  /\ TypeOK /\ Stages /\ AddsAreFresh
  /\ DeleteIsFinal /\ DeletedOnce
  /\ \A h \in Handlers : Succeeded(h, "delete") => target[h] \in made

-----------------------------------------------------------------------------
(* The invariant holds initially.                                           *)
LEMMA InitInv == Init => Inv
<1> SUFFICES ASSUME Init PROVE Inv
  OBVIOUS
<1>1. TypeOK
  BY ItemsAssumption DEF Init, TypeOK, Stored, Steps, Operations, Entry, Ids
<1> QED
  BY <1>1 DEF Init, Inv, Stages, AddsAreFresh, Adding, DeleteIsFinal, DeletedOnce, Succeeded

(* A request that does not create an id keeps the invariant.                *)
LEMMA ReceiveInv ==
  ASSUME Inv, NEW h \in Handlers, NEW o \in Operations \ {"add"},
         NEW i \in Ids \cup Objects, NEW b \in AllDocuments \cup {Absent},
         NEW step \in {"get", "change"},
         i \in Ids /\ o = "update" => b \in Documents(i),
         Receive(h, o, i, b, step), UNCHANGED made
  PROVE  Inv'
<1> USE DEF Inv, Receive, Go, Operations
<1>1. TypeOK'
  BY DEF TypeOK, Steps, Stored
<1>2. Stages'
  BY DEF TypeOK, Stages
<1>3. \A g \in Handlers : Succeeded(g, "delete")' => Succeeded(g, "delete") /\ g # h
  BY DEF TypeOK, Stages, Succeeded
<1>4. \A g \in Handlers, j \in Ids : Adding(g, j)' => Adding(g, j)
  BY DEF TypeOK, Adding
<1>5. \A g \in Handlers : g # h => target'[g] = target[g]
  BY DEF TypeOK
<1>6. AddsAreFresh'
  BY <1>3, <1>4, <1>5 DEF AddsAreFresh, Stored
<1> QED
  BY <1>1, <1>2, <1>3, <1>5, <1>6 DEF DeleteIsFinal, DeletedOnce, Stored

(* A posted item gets an id that no other handler has.                      *)
LEMMA PostInv ==
  ASSUME Inv, NEW h \in Handlers, NEW ids \in SUBSET Ids, Post(h, ids)
  PROVE  Inv'
<1> USE DEF Inv
<1>1. PICK i \in ids \ made :
        made' = made \cup {i} /\ \E b \in Documents(i) : Receive(h, "add", i, b, "change")
  BY DEF Post
<1>0. PICK b \in Documents(i) : Receive(h, "add", i, b, "change")
  BY <1>1
<1>2. i \in Ids /\ ~Stored(i) /\ b \in AllDocuments
  BY <1>0, <1>1 DEF TypeOK, Stored, Documents, AllDocuments
<1> USE <1>0, <1>1, <1>2 DEF Receive, Go
<1>3. TypeOK'
  BY DEF TypeOK, Steps, Stored, Operations
<1>4. Stages'
  BY DEF TypeOK, Stages, Operations
<1>5. \A g \in Handlers : Succeeded(g, "delete")' => Succeeded(g, "delete") /\ g # h
  BY DEF TypeOK, Stages, Succeeded
<1>6. \A g \in Handlers : g # h => target'[g] = target[g]
  BY DEF TypeOK
<1>7. \A g \in Handlers, j \in Ids :
        Adding(g, j)' <=> (Adding(g, j) /\ g # h) \/ (g = h /\ j = i)
  BY DEF TypeOK, Adding
<1>8. AddsAreFresh'
  BY <1>5, <1>6, <1>7 DEF AddsAreFresh, Stored
<1> QED
  BY <1>3, <1>4, <1>5, <1>6, <1>8 DEF DeleteIsFinal, DeletedOnce, Stored

(* A refused item changes nothing but the handler that refuses it.          *)
LEMMA RefuseInv ==
  ASSUME Inv, NEW h \in Handlers, RefuseItemID(h)
  PROVE  Inv'
<1> USE DEF Inv, RefuseItemID, Return, Go, stores
<1>1. TypeOK'
  BY ItemsAssumption DEF TypeOK, Steps, Operations, Stored, Stages
<1>2. Stages'
  BY DEF TypeOK, Stages
<1>3. \A g \in Handlers : Succeeded(g, "delete")' => Succeeded(g, "delete")
  BY DEF TypeOK, Succeeded
<1>4. \A g \in Handlers, j \in Ids : Adding(g, j)' => Adding(g, j)
  BY DEF TypeOK, Adding
<1> QED
  BY <1>1, <1>2, <1>3, <1>4 DEF AddsAreFresh, DeleteIsFinal, DeletedOnce, Stored

(* Any request.                                                             *)
LEMMA RequestInv ==
  ASSUME Inv, NEW h \in Handlers, Request(h)
  PROVE  Inv'
<1>1. ASSUME NEW ids \in SUBSET Ids, Put(h, ids) PROVE Inv'
  <2>1. PICK i \in ids : \E c \in Documents(i) : Receive(h, "update", i, c, "get")
    BY <1>1 DEF Put
  <2>3. PICK b \in Documents(i) : Receive(h, "update", i, b, "get")
    BY <2>1
  <2>2. b \in AllDocuments
    BY DEF Documents, AllDocuments
  <2> QED
    BY <1>1, <2>3, <2>2, ReceiveInv DEF Put, Operations
<1>2. ASSUME NEW ids \in SUBSET Ids, Delete(h, ids) PROVE Inv'
  BY <1>2, ReceiveInv DEF Delete, Operations
<1>3. ASSUME PostOpaqueObject(h) \/ DeleteOpaqueObjectRequest(h) PROVE Inv'
  <2>1. PICK v \in Objects, o \in {"addObject", "deleteObject"} :
          Receive(h, o, v, Absent, "change") /\ UNCHANGED made
    BY <1>3 DEF PostOpaqueObject, DeleteOpaqueObjectRequest
  <2> QED
    BY <2>1, ReceiveInv DEF Operations
<1> QED
  BY <1>1, <1>2, <1>3, PostInv, RefuseInv
  DEF Request, Ids, PostElement, PutElement, DeleteElementRequest, PostPolicy, PutPolicy,
      DeletePolicyRequest, PostExpectedValue, PutExpectedValue, DeleteExpectedValueRequest

-----------------------------------------------------------------------------
(* A step that changes no id and no item, and reports no deletion.          *)
LEMMA OtherInv ==
  ASSUME Inv, NEW h \in Handlers, TypeOK',
         UNCHANGED <<made, store, op, target>>, pc[h] # "idle",
         NEW step \in {"change", "log", "done"}, Go(h, step),
         \A g \in Handlers : Succeeded(g, "delete")' => Succeeded(g, "delete"),
         step = "change" => pc[h] = "get" /\ UNCHANGED outcome,
         step = "log" => /\ pc[h] = "change"
                         /\ op[h] = "deleteObject" => UNCHANGED outcome,
         \A g \in Handlers : g # h => outcome'[g] = outcome[g]
  PROVE  Inv'
<1> USE DEF Inv, Go
<1>1. Stages'
  BY DEF TypeOK, Stages, Steps
<1>2. \A g \in Handlers, j \in Ids : Adding(g, j)' => Adding(g, j)
  BY DEF TypeOK, Adding, Stages
<1>3. AddsAreFresh'
  BY <1>2 DEF AddsAreFresh, Stored
<1> QED
  BY <1>1, <1>3 DEF DeleteIsFinal, DeletedOnce, Stored

(* The insertion of a new item.                                             *)
LEMMA InsertInv ==
  ASSUME Inv, NEW h \in Handlers, NEW ids \in SUBSET Ids,
         Change(h, "add", ids), InsertOne(h)
  PROVE  Inv'
<1> DEFINE i == target[h]
<1> USE DEF Inv, Change
<1>1. i \in Ids /\ Adding(h, i)
  BY DEF Adding
<1>2. /\ Go(h, "log")
      /\ Place(h) \/ UNCHANGED store
      /\ \E r \in {"ok", "error"} : outcome' = [outcome EXCEPT ![h] = r]
  BY DEF InsertOne, Succeed
<1>10. body[h] \in Documents(i) /\ body[h] \in AllDocuments
  BY <1>1 DEF TypeOK, Documents, AllDocuments
<1>3. TypeOK'
  BY <1>1, <1>2, <1>10 DEF TypeOK, Stored, Steps, Go, Place, AddsAreFresh
<1>4. Stages'
  BY <1>2 DEF TypeOK, Stages, Go
<1>5. \A g \in Handlers : Succeeded(g, "delete")' => Succeeded(g, "delete")
  BY <1>2 DEF TypeOK, Succeeded
<1>6. \A g \in Handlers, j \in Ids : Adding(g, j)' => Adding(g, j) /\ g # h
  BY <1>2 DEF TypeOK, Adding, Go
<1>7. \A j \in Ids : Stored(j)' => Stored(j) \/ j = i
  BY <1>2 DEF TypeOK, Stored, Place
<1>8. AddsAreFresh'
  BY <1>1, <1>5, <1>6, <1>7 DEF AddsAreFresh
<1>9. DeleteIsFinal'
  <2>1. \A g \in Handlers : Succeeded(g, "delete") => target[g] \in Ids /\ target[g] # i
    BY <1>1 DEF AddsAreFresh, TypeOK
  <2> QED
    BY <1>5, <1>7, <2>1 DEF DeleteIsFinal
<1> QED
  BY <1>3, <1>4, <1>5, <1>8, <1>9 DEF DeletedOnce

(* The replacement of an item, which stores no id that was not stored.      *)
LEMMA ReplaceInv ==
  ASSUME Inv, NEW h \in Handlers, NEW ids \in SUBSET Ids,
         Change(h, "update", ids), ReplaceOne(h)
  PROVE  Inv'
<1> USE DEF Inv, Change
<1>1. PICK step \in {"log", "done"}, r \in {"ok", "error"} :
        Go(h, step) /\ outcome' = [outcome EXCEPT ![h] = r]
  BY DEF ReplaceOne, Succeed, Fail, Return
<1>2. UNCHANGED store \/ (Stored(target[h]) /\ Place(h))
  BY DEF ReplaceOne, Stored
<1>10. body[h] \in Documents(target[h]) /\ body[h] \in AllDocuments
  BY DEF TypeOK, Documents, AllDocuments
<1>3. TypeOK'
  BY <1>1, <1>2, <1>10 DEF TypeOK, Stored, Steps, Go, Place
<1>4. Stages'
  BY <1>1 DEF TypeOK, Stages, Go
<1>5. \A g \in Handlers : Succeeded(g, "delete")' => Succeeded(g, "delete")
  BY <1>1 DEF TypeOK, Succeeded
<1>6. \A g \in Handlers, j \in Ids : Adding(g, j)' => Adding(g, j)
  BY <1>1 DEF TypeOK, Adding, Go
<1>7. \A j \in Ids : Stored(j)' => Stored(j)
  BY <1>2 DEF TypeOK, Stored, Place
<1>8. AddsAreFresh'
  BY <1>5, <1>6, <1>7 DEF AddsAreFresh
<1>9. DeleteIsFinal'
  <2>1. \A g \in Handlers : Succeeded(g, "delete") => target[g] \in Ids
    BY DEF TypeOK
  <2> QED
    BY <1>5, <1>7, <2>1 DEF DeleteIsFinal
<1> QED
  BY <1>3, <1>4, <1>5, <1>8, <1>9 DEF DeletedOnce

(* The deletion of an item: a reported one found it stored, so no other     *)
(* reported deletion was of the same item.                                 *)
LEMMA DeleteInv ==
  ASSUME Inv, NEW h \in Handlers, pc[h] \in {"change", "element"},
         op[h] = "delete", target[h] \in Ids, DeleteOne(h),
         UNCHANGED <<made, objects, log, op, target, body>>
  PROVE  Inv'
<1> USE DEF Inv
<1>1. PICK step \in {"log", "done"}, r \in {"ok", "error"} :
        /\ Go(h, step) /\ outcome' = [outcome EXCEPT ![h] = r]
        /\ r = "ok" => Stored(target[h]) /\ Remove(h)
  BY DEF DeleteOne, Succeed, Fail, Return
<1>2. UNCHANGED store \/ Remove(h)
  BY DEF DeleteOne
<1>3. TypeOK'
  BY <1>1, <1>2 DEF TypeOK, Stored, Steps, Go, Remove
<1>4. Stages'
  BY <1>1 DEF TypeOK, Stages, Go
<1>5. \A g \in Handlers : Succeeded(g, "delete")' => Succeeded(g, "delete") \/ (g = h /\ r = "ok")
  BY <1>1 DEF TypeOK, Succeeded
<1>6. \A g \in Handlers, j \in Ids : Adding(g, j)' => Adding(g, j)
  BY <1>1 DEF TypeOK, Adding, Go
<1>7. \A j \in Ids : Stored(j)' => Stored(j)
  BY <1>2 DEF TypeOK, Stored, Remove
<1>8. r = "ok" => target[h] \in made /\ Stored(target[h]) /\ ~Stored(target[h])'
  BY <1>1 DEF TypeOK, Stored, Remove
<1>9. AddsAreFresh'
  BY <1>5, <1>6, <1>7, <1>8 DEF AddsAreFresh
<1>10. DeleteIsFinal'
  <2>1. \A g \in Handlers : Succeeded(g, "delete") => target[g] \in Ids
    BY DEF TypeOK
  <2> QED
    BY <1>5, <1>7, <1>8, <2>1 DEF DeleteIsFinal
<1>11. DeletedOnce'
  BY <1>5, <1>8 DEF DeletedOnce, DeleteIsFinal
<1> QED
  BY <1>3, <1>4, <1>5, <1>8, <1>9, <1>10, <1>11

(* The entry about the deletion of an object, before that of an element.    *)
LEMMA ObjectLoggedInv ==
  ASSUME Inv, NEW h \in Handlers, MakeLogEntry(h), op[h] = "deleteObject"
  PROVE  Inv'
<1> USE DEF Inv, MakeLogEntry, Go
<1>1. outcome[h] = "none" /\ target[h] \in Ids \cup Objects
  BY DEF Stages
<1>2. TypeOK'
  BY <1>1 DEF TypeOK, Entry, Stored, Steps, Operations
<1>3. \A g \in Handlers : Succeeded(g, "delete")' => Succeeded(g, "delete")
  BY <1>1 DEF TypeOK, Succeeded
<1>4. Stages'
  BY <1>1 DEF TypeOK, Stages, Operations
<1>5. \A g \in Handlers, i \in Ids : Adding(g, i)' => Adding(g, i)
  BY DEF TypeOK, Adding
<1>6. AddsAreFresh'
  BY <1>3, <1>5 DEF AddsAreFresh, Stored
<1> QED
  BY <1>2, <1>3, <1>4, <1>6 DEF DeleteIsFinal, DeletedOnce, Stored

(* Any step of a request.                                                   *)
LEMMA StepInv ==
  ASSUME Inv, NEW h \in Handlers, Step(h)
  PROVE  Inv'
<1> USE DEF Inv
<1>1. CASE Get(h)
  <2>1. PICK step \in {"change", "done"} :
          /\ Go(h, step)
          /\ step = "change" => UNCHANGED outcome
          /\ step = "done" => outcome' = [outcome EXCEPT ![h] = "notFound"]
    BY <1>1 DEF Get, Return
  <2>2. TypeOK' /\ \A g \in Handlers : Succeeded(g, "delete")' => Succeeded(g, "delete")
    BY <1>1, <2>1 DEF Get, TypeOK, Stored, stores, Steps, Go, Succeeded
  <2> QED
    BY <1>1, <2>1, <2>2, OtherInv DEF Get, stores, Steps, TypeOK
<1>2. CASE AddOpaqueObject(h)
  <2>1. TypeOK' /\ \A g \in Handlers : Succeeded(g, "delete")' => Succeeded(g, "delete")
    BY <1>2 DEF AddOpaqueObject, Change, TypeOK, Stored, Steps, Go, Succeeded
  <2> QED
    BY <1>2, <2>1, OtherInv DEF AddOpaqueObject, Change, Steps, TypeOK
<1>3. CASE DeleteOpaqueObject(h)
  <2>1. PICK step \in {"log", "done"} :
          /\ Go(h, step)
          /\ UNCHANGED outcome \/ outcome' = [outcome EXCEPT ![h] = "error"]
          /\ step = "log" => UNCHANGED outcome
          /\ objects' \in {objects, objects \ {target[h]}}
    BY <1>3 DEF DeleteOpaqueObject, Return, Fail
  <2>2. TypeOK' /\ \A g \in Handlers : Succeeded(g, "delete")' => Succeeded(g, "delete")
    BY <1>3, <2>1 DEF DeleteOpaqueObject, TypeOK, Stored, Steps, Go, Succeeded
  <2> QED
    BY <1>3, <2>1, <2>2, OtherInv DEF DeleteOpaqueObject, Steps, TypeOK
<1>4. CASE DeleteElementOfObject(h)
  <2>1. CASE target[h] \in Eids /\ DeleteOne(h)
    BY <1>4, <2>1, DeleteInv DEF DeleteElementOfObject, Stages, Ids
  <2>2. CASE Return(h, "error") /\ UNCHANGED store
    <3>1. TypeOK' /\ \A g \in Handlers : Succeeded(g, "delete")' => Succeeded(g, "delete")
      BY <1>4, <2>2 DEF DeleteElementOfObject, Return, TypeOK, Stored, Steps, Go, Succeeded
    <3> QED
      BY <1>4, <2>2, <3>1, OtherInv DEF DeleteElementOfObject, Return, Steps, TypeOK
  <2> QED
    BY <1>4, <2>1, <2>2 DEF DeleteElementOfObject
<1>5. CASE MakeLogEntry(h) /\ op[h] # "deleteObject"
  <2>1. PICK step \in {"done"} : Go(h, step)
    BY <1>5 DEF MakeLogEntry
  <2>2. op[h] \in Operations /\ target[h] \in Ids \cup Objects
    BY <1>5 DEF MakeLogEntry, Stages
  <2>3. TypeOK' /\ \A g \in Handlers : Succeeded(g, "delete")' => Succeeded(g, "delete")
    BY <1>5, <2>1, <2>2 DEF MakeLogEntry, Entry, TypeOK, Stored, Steps, Go, Succeeded
  <2> QED
    BY <1>5, <2>1, <2>3, OtherInv DEF MakeLogEntry, Steps, TypeOK
<1>6. ASSUME NEW ids \in SUBSET Ids, Change(h, "delete", ids), DeleteOne(h) PROVE Inv'
  BY <1>6, DeleteInv DEF Change
<1> QED
  BY <1>1, <1>2, <1>3, <1>4, <1>5, <1>6, InsertInv, ReplaceInv, ObjectLoggedInv
  DEF Step, Ids, AddElement, AddPolicy, AddExpectedValue, UpdateElement, UpdatePolicy,
      UpdateExpectedValue, DeleteElement, DeletePolicy, DeleteExpectedValue

-----------------------------------------------------------------------------
(* The invariant holds in every state.                                      *)
THEOREM Invariance == Spec => []Inv
<1>1. Inv /\ [Next]_vars => Inv'
  <2> SUFFICES ASSUME Inv, [Next]_vars PROVE Inv'
    OBVIOUS
  <2>1. CASE Next
    BY <2>1, RequestInv, StepInv DEF Next
  <2>2. CASE UNCHANGED vars
    BY <2>2 DEF vars, stores, Inv, TypeOK, Stored, Stages, AddsAreFresh, Adding,
                Succeeded, DeleteIsFinal, DeletedOnce
  <2> QED
    BY <2>1, <2>2
<1> QED
  BY <1>1, InitInv, PTL DEF Spec

(* Every state is well typed (the structures and collections of             *)
(* ga10/operations).                                                       *)
THEOREM TypeCorrect == Spec => []TypeOK
  BY Invariance, PTL DEF Inv

(* An item that was reported deleted is never stored again, whatever        *)
(* requests raced with the deletion (elements.go:42 replaces only what is   *)
(* there).                                                                 *)
THEOREM DeletionsAreFinal == Spec => []DeleteIsFinal
  BY Invariance, PTL DEF Inv

(* No two requests are told that they deleted the same item                 *)
(* (elements.go:61).                                                       *)
THEOREM DeletionsAreUnique == Spec => []DeletedOnce
  BY Invariance, PTL DEF Inv
-----------------------------------------------------------------------------
(***************************************************************************)
(* The audit trail.                                                        *)
(***************************************************************************)
(* A deletion was reported by a request that has logged it or is about to.  *)
DeletionsLogged ==
  \A h \in Handlers : Succeeded(h, "delete") =>
    \/ pc[h] = "log"
    \/ Entry("delete", target[h]) \in log

AdditionsLogged == \A i \in Ids : Stored(i) => Recorded("add", i)

(* What a step of one handler leaves alone: the others, what the log has,   *)
(* and the handler's own entry unless it is written.                       *)
Alone(h) ==
  /\ log \subseteq log'
  /\ \A g \in Handlers \ {h} : /\ pc'[g] = pc[g] /\ op'[g] = op[g]
                              /\ target'[g] = target[g] /\ outcome'[g] = outcome[g]
  /\ pc[h] = "log" => Entry(op[h], target[h]) \in log'

(* Every request and every step leaves them alone.                          *)
LEMMA StepAlone ==
  ASSUME Inv, NEW h \in Handlers, Request(h) \/ Step(h)
  PROVE  Alone(h)
<1> USE DEF Inv, TypeOK, Go, Return
<1>1. ASSUME NEW o \in Operations, NEW i, NEW b, NEW step, Receive(h, o, i, b, step)
      PROVE  Alone(h)
  BY <1>1 DEF Receive, Alone
<1>2. CASE RefuseItemID(h)
  BY <1>2 DEF RefuseItemID, Alone, stores
<1>3. CASE Request(h)
  BY <1>1, <1>2, <1>3
  DEF Request, PostElement, PutElement, DeleteElementRequest, PostPolicy, PutPolicy,
      DeletePolicyRequest, PostExpectedValue, PutExpectedValue, DeleteExpectedValueRequest,
      Post, Put, Delete, PostOpaqueObject, DeleteOpaqueObjectRequest, Operations
<1>4. ASSUME NEW o, NEW ids, Change(h, o, ids), NEW step, NEW r, Go(h, step),
             outcome' = [outcome EXCEPT ![h] = r]
      PROVE  Alone(h)
  BY <1>4 DEF Change, Alone
<1>5. ASSUME NEW o, NEW ids, Change(h, o, ids), InsertOne(h) \/ ReplaceOne(h) \/ DeleteOne(h)
      PROVE  Alone(h)
  <2>1. \E step, r : Go(h, step) /\ outcome' = [outcome EXCEPT ![h] = r]
    BY <1>5 DEF InsertOne, ReplaceOne, DeleteOne, Succeed, Fail
  <2> QED
    BY <1>4, <1>5, <2>1
<1>6. CASE Get(h)
  BY <1>6 DEF Get, Alone, stores
<1>7. CASE AddOpaqueObject(h)
  BY <1>4, <1>7 DEF AddOpaqueObject
<1>8. CASE DeleteOpaqueObject(h)
  BY <1>8 DEF DeleteOpaqueObject, Fail, Alone
<1>9. CASE DeleteElementOfObject(h)
  BY <1>9 DEF DeleteElementOfObject, DeleteOne, Succeed, Fail, Alone
<1>10. CASE MakeLogEntry(h)
  BY <1>10 DEF MakeLogEntry, Alone
<1> QED
  BY <1>3, <1>5, <1>6, <1>7, <1>8, <1>9, <1>10
  DEF Step, AddElement, AddPolicy, AddExpectedValue, UpdateElement, UpdatePolicy,
      UpdateExpectedValue, DeleteElement, DeletePolicy, DeleteExpectedValue

(* What is on record stays on record.                                       *)
LEMMA RecordedStays ==
  ASSUME Inv, NEW h \in Handlers, Alone(h), NEW o, NEW i, Recorded(o, i)
  PROVE  Recorded(o, i)'
<1>1. CASE Entry(o, i) \in log
  BY <1>1 DEF Recorded, Alone, Entry
<1>2. ASSUME NEW g \in Handlers, pc[g] = "log", op[g] = o, target[g] = i
      PROVE  Recorded(o, i)'
  BY <1>2 DEF Recorded, Alone, Entry
<1> QED
  BY <1>1, <1>2 DEF Recorded

(* What is stored by a step was stored before, or is being added.           *)
LEMMA StoredByStep ==
  ASSUME Inv, NEW h \in Handlers, Request(h) \/ Step(h), NEW i \in Ids, Stored(i)'
  PROVE  Stored(i) \/ Recorded("add", i)'
<1> USE DEF Inv, TypeOK, Go, Return
<1>1. CASE UNCHANGED store
  BY <1>1 DEF Stored
<1>2. CASE Request(h)
  BY <1>1, <1>2
  DEF Request, PostElement, PutElement, DeleteElementRequest, PostPolicy, PutPolicy,
      DeletePolicyRequest, PostExpectedValue, PutExpectedValue, DeleteExpectedValueRequest,
      Post, Put, Delete, PostOpaqueObject, DeleteOpaqueObjectRequest, Receive, RefuseItemID, stores
<1>3. ASSUME NEW ids, Change(h, "add", ids), InsertOne(h)
      PROVE  Stored(i) \/ Recorded("add", i)'
  BY <1>3 DEF Change, InsertOne, Succeed, Place, Stored, Recorded
<1>4. ASSUME NEW ids, Change(h, "update", ids), ReplaceOne(h)
      PROVE  Stored(i)
  BY <1>4 DEF Change, ReplaceOne, Place, Stored
<1>5. ASSUME DeleteOne(h)
      PROVE  Stored(i)
  BY <1>5 DEF DeleteOne, Remove, Stored
<1>6. CASE Get(h) \/ AddOpaqueObject(h) \/ DeleteOpaqueObject(h) \/ MakeLogEntry(h)
  BY <1>1, <1>6 DEF Get, AddOpaqueObject, DeleteOpaqueObject, MakeLogEntry, stores
<1>7. CASE DeleteElementOfObject(h)
  BY <1>1, <1>5, <1>7 DEF DeleteElementOfObject
<1> QED
  BY <1>2, <1>3, <1>4, <1>5, <1>6, <1>7
  DEF Step, AddElement, AddPolicy, AddExpectedValue, UpdateElement, UpdatePolicy,
      UpdateExpectedValue, DeleteElement, DeletePolicy, DeleteExpectedValue

(* A deletion that a step reports is one that it goes on to log; the        *)
(* handler of one reported earlier does nothing but log it.                *)
LEMMA DeletionByStep ==
  ASSUME Inv, NEW h \in Handlers, Request(h) \/ Step(h), Succeeded(h, "delete")'
  PROVE  pc'[h] = "log" \/ MakeLogEntry(h)
<1> USE DEF Inv, TypeOK, Go, Return, Succeeded
<1>1. CASE Request(h)
  BY <1>1
  DEF Request, PostElement, PutElement, DeleteElementRequest, PostPolicy, PutPolicy,
      DeletePolicyRequest, PostExpectedValue, PutExpectedValue, DeleteExpectedValueRequest,
      Post, Put, Delete, PostOpaqueObject, DeleteOpaqueObjectRequest, Receive, RefuseItemID,
      stores, Stages
<1>2. ASSUME NEW o, NEW ids, Change(h, o, ids), InsertOne(h) \/ ReplaceOne(h) \/ DeleteOne(h)
      PROVE  pc'[h] = "log"
  BY <1>2 DEF Change, InsertOne, ReplaceOne, DeleteOne, Succeed, Fail
<1>3. CASE Get(h) \/ AddOpaqueObject(h)
  BY <1>3 DEF Get, AddOpaqueObject, Change, stores, Stages
<1>4. CASE DeleteOpaqueObject(h)
  BY <1>4 DEF DeleteOpaqueObject
<1>5. CASE DeleteElementOfObject(h)
  BY <1>5 DEF DeleteElementOfObject, DeleteOne, Succeed, Fail
<1> QED
  BY <1>1, <1>2, <1>3, <1>4, <1>5
  DEF Step, AddElement, AddPolicy, AddExpectedValue, UpdateElement, UpdatePolicy,
      UpdateExpectedValue, DeleteElement, DeletePolicy, DeleteExpectedValue

(* Every stored item is on record as added, even if its insertion reported  *)
(* an error, and so is every deletion that was reported (elements.go:33).   *)
THEOREM AuditTrailHolds == Spec => []AuditTrail
<1>1. Init => AdditionsLogged /\ DeletionsLogged
  BY DEF Init, AdditionsLogged, DeletionsLogged, Recorded, Succeeded
<1>2. Inv /\ AdditionsLogged /\ DeletionsLogged /\ [Next]_vars
        => (AdditionsLogged /\ DeletionsLogged)'
  <2> SUFFICES ASSUME Inv, AdditionsLogged, DeletionsLogged, [Next]_vars
               PROVE  (AdditionsLogged /\ DeletionsLogged)'
    OBVIOUS
  <2>1. ASSUME NEW h \in Handlers, Request(h) \/ Step(h)
        PROVE  (AdditionsLogged /\ DeletionsLogged)'
    <3>1. Alone(h)
      BY <2>1, StepAlone
    <3>2. AdditionsLogged'
      BY <2>1, <3>1, RecordedStays, StoredByStep DEF AdditionsLogged
    <3>3. ASSUME NEW g \in Handlers \ {h}, Succeeded(g, "delete")'
          PROVE  pc'[g] = "log" \/ Entry("delete", target'[g]) \in log'
      BY <3>1, <3>3 DEF DeletionsLogged, Succeeded, Alone
    <3>4. ASSUME Succeeded(h, "delete")'
          PROVE  pc'[h] = "log" \/ Entry("delete", target'[h]) \in log'
      <4>1. CASE MakeLogEntry(h)
        BY <3>4, <4>1 DEF MakeLogEntry, Succeeded, Inv, TypeOK, Stages, Go
      <4> QED
        BY <2>1, <3>4, <4>1, DeletionByStep
    <3> QED
      BY <3>2, <3>3, <3>4 DEF DeletionsLogged, Entry
  <2>2. CASE UNCHANGED vars
    BY <2>2 DEF vars, stores, AdditionsLogged, DeletionsLogged, Stored, Recorded, Succeeded, Entry
  <2> QED
    BY <2>1, <2>2 DEF Next
<1>3. Inv /\ AdditionsLogged /\ DeletionsLogged => AuditTrail
  BY DEF AuditTrail, AdditionsLogged, DeletionsLogged, Recorded, Succeeded
<1> QED
  BY <1>1, <1>2, <1>3, Invariance, PTL DEF Spec
=============================================================================
