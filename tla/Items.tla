-------------------------------- MODULE Items --------------------------------
(***************************************************************************)
(* The inventory: elements, policies, expected values and opaque objects,  *)
(* the operations of ga10/operations that change them, and the REST        *)
(* endpoints that call those.  As in module Sessions a handler is one      *)
(* goroutine serving one request, and a database round trip one action.    *)
(* A handler that dies is one that takes no further step.                  *)
(***************************************************************************)
EXTENDS Naturals, FiniteSets

CONSTANTS
  Handlers,
  Eids, Pids, Vids,  \* item ids of elements, policies and expected values
  Contents,          \* what an item says, its itemid and references aside
  Objects,           \* values that opaque objects describe, itemids perhaps among them
  Absent,            \* no item is stored under the id
  Faults             \* TRUE: database calls may fail

Ids == Eids \cup Pids \cup Vids

ASSUME ItemsAssumption ==
  /\ Absent \notin Contents \cup Ids \cup Objects /\ Faults \in BOOLEAN
  /\ Eids \cap Pids = {} /\ Eids \cap Vids = {} /\ Pids \cap Vids = {}

VARIABLES
  made,     \* ids that MakeID has returned
  store,    \* the items, in collections "elements", "policies", "expectedvalues"
  objects,  \* values in collection "opaqueobjects"
  log,      \* entries of collection "log"
  pc, op, target, body, outcome  \* per handler, as in module Sessions

stores == <<made, store, objects, log>>
vars == <<stores, pc, op, target, body, outcome>>

-----------------------------------------------------------------------------
Documents(i) ==
  IF i \in Vids THEN [element : Eids, policy : Pids, evs : Contents] ELSE Contents

AllDocuments == Contents \cup [element : Eids, policy : Pids, evs : Contents]

Stored(i) == store[i] # Absent

Entry(operation, i) == [op |-> operation, id |-> i]

(* A pair of element and policy has at most one expected value              *)
(* (docs/ignore/example_EPEV.md:105).                                      *)
ExpectedValueIsUnique ==
  \A i, j \in Vids :
    /\ Stored(i) /\ Stored(j)
    /\ store[i].element = store[j].element /\ store[i].policy = store[j].policy
    => i = j

(* The database holds what earlier runs left there, as the documentation    *)
(* wants it.                                                               *)
Init ==
  /\ made \in SUBSET Ids
  /\ store \in [Ids -> AllDocuments \cup {Absent}]
  /\ \A i \in Ids : store[i] \in Documents(i) \cup {Absent} /\ (Stored(i) => i \in made)
  /\ ExpectedValueIsUnique
  /\ objects \in SUBSET Objects
  /\ log = {Entry("add", i) : i \in made}
  /\ pc = [h \in Handlers |-> "idle"]
  /\ op = [h \in Handlers |-> "none"]
  /\ target = [h \in Handlers |-> Absent]
  /\ body = [h \in Handlers |-> Absent]
  /\ outcome = [h \in Handlers |-> "none"]

Go(h, step) == pc' = [pc EXCEPT ![h] = step]

Return(h, result) == Go(h, "done") /\ outcome' = [outcome EXCEPT ![h] = result]

Receive(h, operation, i, b, step) ==
  /\ pc[h] = "idle" /\ Go(h, step)
  /\ op' = [op EXCEPT ![h] = operation]
  /\ target' = [target EXCEPT ![h] = i]
  /\ body' = [body EXCEPT ![h] = b]
  /\ UNCHANGED <<store, objects, log, outcome>>

(* Mutant of Post: the id is not taken from the ones nobody had.            *)
PostAnyID(h, ids) ==
  \E i \in ids : \E b \in Documents(i) : Receive(h, "add", i, b, "change") /\ UNCHANGED made

(* A new item gets an id nobody had before.                                 *)
Post(h, ids) ==
  \E i \in ids \ made :
    /\ made' = made \cup {i}
    /\ \E b \in Documents(i) : Receive(h, "add", i, b, "change")

(* A posted item that carries an itemid is refused.                         *)
RefuseItemID(h) ==
  /\ pc[h] = "idle" /\ Return(h, "error")
  /\ op' = [op EXCEPT ![h] = "add"]
  /\ UNCHANGED <<stores, target, body>>

Put(h, ids) ==
  /\ \E i \in ids : \E b \in Documents(i) : Receive(h, "update", i, b, "get")
  /\ UNCHANGED made

Delete(h, ids) ==
  /\ \E i \in ids : Receive(h, "delete", i, Absent, "get")
  /\ UNCHANGED made

(* The web forms for a new element and a new policy add it the same way.    *)
PostElement(h) == Post(h, Eids)
PutElement(h) == Put(h, Eids)
DeleteElementRequest(h) == Delete(h, Eids)

PostPolicy(h) == Post(h, Pids)
PutPolicy(h) == Put(h, Pids)
DeletePolicyRequest(h) == Delete(h, Pids)

PostExpectedValue(h) == Post(h, Vids)
PutExpectedValue(h) == Put(h, Vids)
DeleteExpectedValueRequest(h) == Delete(h, Vids)

PostOpaqueObject(h) ==
  \E v \in Objects : Receive(h, "addObject", v, Absent, "change") /\ UNCHANGED made

DeleteOpaqueObjectRequest(h) ==
  \E v \in Objects : Receive(h, "deleteObject", v, Absent, "change") /\ UNCHANGED made

-----------------------------------------------------------------------------
(* The endpoints of PUT and DELETE look the item up first.                  *)
Get(h) ==
  /\ pc[h] = "get"
  /\ \/ Stored(target[h]) /\ Go(h, "change") /\ UNCHANGED outcome
     \/ (~Stored(target[h]) \/ Faults) /\ Return(h, "notFound")
  /\ UNCHANGED <<stores, op, target, body>>

Change(h, operation, ids) ==
  /\ pc[h] = "change" /\ op[h] = operation /\ target[h] \in ids
  /\ UNCHANGED <<made, objects, log, op, target, body>>

Place(h) == store' = [store EXCEPT ![target[h]] = body[h]]

Succeed(h) == Go(h, "log") /\ outcome' = [outcome EXCEPT ![h] = "ok"]

Fail(h) == Faults /\ Return(h, "error")

(* Mutant of InsertOne: a failed insert is not logged.                      *)
InsertOneQuietly(h) ==
  \/ Succeed(h) /\ Place(h)
  \/ Fail(h) /\ (Place(h) \/ UNCHANGED store)

(* It is logged whether or not it reports an error.                         *)
InsertOne(h) ==
  \/ Succeed(h) /\ Place(h)
  \/ /\ Faults /\ Go(h, "log") /\ outcome' = [outcome EXCEPT ![h] = "error"]
     /\ Place(h) \/ UNCHANGED store

AddElement(h) == Change(h, "add", Eids) /\ InsertOne(h)
AddPolicy(h) == Change(h, "add", Pids) /\ InsertOne(h)
AddExpectedValue(h) == Change(h, "add", Vids) /\ InsertOne(h)

(* Mutant of ReplaceOne: with the option upsert, an item gone is inserted.  *)
ReplaceOrInsert(h) ==
  \/ store[target[h]] = body[h] /\ Return(h, "error") /\ UNCHANGED store
  \/ store[target[h]] # body[h] /\ Place(h) /\ (Succeed(h) \/ Fail(h))
  \/ Fail(h) /\ UNCHANGED store

(* An item gone is not matched.  One that equals its replacement is not     *)
(* modified, and that is reported as an error too, unless a map in it is    *)
(* written in another order.                                               *)
ReplaceOne(h) ==
  \/ store[target[h]] \in {Absent, body[h]} /\ Return(h, "error") /\ UNCHANGED store
  \/ store[target[h]] = body[h] /\ target[h] \notin Eids /\ Succeed(h) /\ UNCHANGED store
  \/ store[target[h]] \notin {Absent, body[h]} /\ Place(h) /\ (Succeed(h) \/ Fail(h))
  \/ Fail(h) /\ UNCHANGED store

UpdateElement(h) == Change(h, "update", Eids) /\ ReplaceOne(h)
UpdatePolicy(h) == Change(h, "update", Pids) /\ ReplaceOne(h)
UpdateExpectedValue(h) == Change(h, "update", Vids) /\ ReplaceOne(h)

Remove(h) == store' = [store EXCEPT ![target[h]] = Absent]

(* Mutant of DeleteOne: it does not look how many items were deleted.       *)
DeleteOneOrNone(h) == Remove(h) /\ (Succeed(h) \/ Fail(h))

DeleteOne(h) ==
  \/ ~Stored(target[h]) /\ Return(h, "error") /\ UNCHANGED store
  \/ Stored(target[h]) /\ Remove(h) /\ (Succeed(h) \/ Fail(h))
  \/ Fail(h) /\ UNCHANGED store

DeleteElement(h) == Change(h, "delete", Eids) /\ DeleteOne(h)
DeletePolicy(h) == Change(h, "delete", Pids) /\ DeleteOne(h)
DeleteExpectedValue(h) == Change(h, "delete", Vids) /\ DeleteOne(h)

(* AddOpaqueObject passes the object where UpdateOne wants update operators;*)
(* the driver refuses it, and the addition is logged all the same.          *)
AddOpaqueObject(h) ==
  /\ Change(h, "addObject", Objects)
  /\ Go(h, "log") /\ outcome' = [outcome EXCEPT ![h] = "error"]
  /\ UNCHANGED store

DeleteOpaqueObject(h) ==
  /\ pc[h] = "change" /\ op[h] = "deleteObject"
  /\ \/ /\ target[h] \in objects /\ Go(h, "log")
        /\ objects' = objects \ {target[h]} /\ UNCHANGED outcome
     \/ target[h] \notin objects /\ Return(h, "error") /\ UNCHANGED objects
     \/ Fail(h) /\ objects' \in {objects, objects \ {target[h]}}
  /\ UNCHANGED <<made, store, log, op, target, body>>

(* The endpoint then deletes the element whose itemid is the object's value.*)
(* Values are hashes and the like, so as a rule there is none, and the      *)
(* request ends in an error.                                               *)
DeleteElementOfObject(h) ==
  /\ pc[h] = "element"
  /\ \/ target[h] \in Eids /\ DeleteOne(h)
     \/ target[h] \notin Eids /\ Return(h, "error") /\ UNCHANGED store
  /\ UNCHANGED <<made, objects, log, op, target, body>>

-----------------------------------------------------------------------------
(* An entry that the database refuses is lost silently, which module        *)
(* Sessions has (LogLoss); here the log is kept.                           *)
MakeLogEntry(h) ==
  /\ pc[h] = "log"
  /\ log' = log \cup {Entry(op[h], target[h])}
  /\ \/ op[h] # "deleteObject" /\ Go(h, "done") /\ UNCHANGED op
     \/ op[h] = "deleteObject" /\ Go(h, "element") /\ op' = [op EXCEPT ![h] = "delete"]
  /\ UNCHANGED <<made, store, objects, target, body, outcome>>

Request(h) ==
  \/ RefuseItemID(h)
  \/ PostElement(h)
  \/ PutElement(h)
  \/ DeleteElementRequest(h)
  \/ PostPolicy(h)
  \/ PutPolicy(h)
  \/ DeletePolicyRequest(h)
  \/ PostExpectedValue(h)
  \/ PutExpectedValue(h)
  \/ DeleteExpectedValueRequest(h)
  \/ PostOpaqueObject(h)
  \/ DeleteOpaqueObjectRequest(h)

Step(h) ==
  \/ Get(h)
  \/ AddElement(h)
  \/ AddPolicy(h)
  \/ AddExpectedValue(h)
  \/ UpdateElement(h)
  \/ UpdatePolicy(h)
  \/ UpdateExpectedValue(h)
  \/ DeleteElement(h)
  \/ DeletePolicy(h)
  \/ DeleteExpectedValue(h)
  \/ AddOpaqueObject(h)
  \/ DeleteOpaqueObject(h)
  \/ DeleteElementOfObject(h)
  \/ MakeLogEntry(h)

Next == \E h \in Handlers : Request(h) \/ Step(h)

Spec == Init /\ [][Next]_vars

-----------------------------------------------------------------------------
(***************************************************************************)
(* Properties.                                                             *)
(***************************************************************************)
Steps == {"idle", "get", "change", "element", "log", "done"}

Operations == {"add", "update", "delete", "addObject", "deleteObject"}

(* Every variable keeps its type; what is stored or written under an id     *)
(* has the shape of its collection, and the id was made by MakeID.          *)
TypeOK ==
  /\ made \subseteq Ids /\ objects \subseteq Objects
  /\ store \in [Ids -> AllDocuments \cup {Absent}]
  /\ \A i \in Ids : Stored(i) => i \in made /\ store[i] \in Documents(i)
  /\ log \subseteq [op : Operations, id : Ids \cup Objects]
  /\ pc \in [Handlers -> Steps]
  /\ op \in [Handlers -> Operations \cup {"none"}]
  /\ target \in [Handlers -> Ids \cup Objects \cup {Absent}]
  /\ body \in [Handlers -> AllDocuments \cup {Absent}]
  /\ outcome \in [Handlers -> {"none", "ok", "error", "notFound"}]
  /\ \A h \in Handlers : op[h] \in {"add", "update"} /\ target[h] \in Ids => body[h] \in Documents(target[h])

Succeeded(h, operation) == op[h] = operation /\ outcome[h] = "ok"

(* An item whose deletion was reported, also that of an element in the      *)
(* course of deleting an opaque object, stays deleted, though PUT requests  *)
(* that found it before may still write it (elements.go:42 ReplaceOne).     *)
DeleteIsFinal ==
  \A h \in Handlers : Succeeded(h, "delete") => ~Stored(target[h])

(* Of several concurrent requests to delete an item, one is told that it    *)
(* did (elements.go:61).                                                   *)
DeletedOnce ==
  \A g, h \in Handlers :
    Succeeded(g, "delete") /\ Succeeded(h, "delete") /\ target[g] = target[h] => g = h

Recorded(operation, i) ==
  \/ Entry(operation, i) \in log
  \/ \E h \in Handlers : pc[h] = "log" /\ op[h] = operation /\ target[h] = i

(* Every stored item is on record as added, even if the database reported   *)
(* an error after it inserted it; so is every deletion that was reported    *)
(* (elements.go:33 logs before it looks at the error), if no log entry is   *)
(* lost.                                                                   *)
AuditTrail ==
  /\ \A i \in Ids : Stored(i) => Recorded("add", i)
  /\ \A h \in Handlers : Succeeded(h, "delete") => Recorded("delete", target[h])
=============================================================================
