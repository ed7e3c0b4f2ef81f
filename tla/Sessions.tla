------------------------------ MODULE Sessions ------------------------------
(***************************************************************************)
(* The session operations of ga10/operations (sessions.go, and AddClaim    *)
(* and AddResult of claims.go and results.go) as the REST endpoints of     *)
(* ga10/services/restapi call them.                                        *)
(*                                                                         *)
(* Echo runs every request in a goroutine of its own, and nothing locks a  *)
(* session: an operation is a read of the MongoDB document, a check, some  *)
(* computation on the copy, and a ReplaceOne of the whole document by its  *)
(* itemid.  A handler below is one such goroutine.  Each of its database   *)
(* round trips is one action, because MongoDB makes one document operation *)
(* atomic and nothing more.                                                *)
(*                                                                         *)
(* Opened timestamps and messages are left out: every write carries them   *)
(* over unchanged from the copy it read.                                   *)
(***************************************************************************)
EXTENDS SessionDocs, FiniteSets

CONSTANTS
  Handlers,              \* goroutines; each serves one request
  Sids, Cids, Rids,      \* item ids MakeID can return: sessions, claims, results
  NoId,                  \* the empty string, an id that no item has
  SessionUpdateLogging,  \* the configuration's logging.sessionupdatelogging
  SingleClient,          \* TRUE: a session has at most one request in flight
  Faults,                \* TRUE: database calls may fail, the process may die
  LogLoss                \* TRUE: so may the insertion of a log entry

ASSUME IdsAssumption == NoId \notin Sids \cup Cids \cup Rids
ASSUME ConfigAssumption ==
  {SessionUpdateLogging, SingleClient, Faults, LogLoss} \subseteq BOOLEAN

VARIABLES
  opened,    \* ids of the documents in collection "sessions"
  session,   \* their contents
  claims,    \* ids of the documents in collection "claims"
  results,   \* ids of the documents in collection "results"
  log,       \* entries added to collection "log" since the initial state
  clock,     \* closing timestamps handed out (MakeTimestamp)
  pc,        \* what a handler does next
  op,        \* the operation it calls
  sid, item, \* the arguments of the operation
  snap,      \* its local copy of the session document
  outcome    \* what the operation reports: "ok" or an error

stores == <<opened, session, claims, results, log, clock>>
locals == <<pc, op, sid, item, snap, outcome>>
vars == <<stores, locals>>

-----------------------------------------------------------------------------
(***************************************************************************)
(* Handlers.  "get" is the endpoint's own look-up, "read" that of the      *)
(* operation it calls.                                                     *)
(***************************************************************************)
Steps == {"idle", "get", "read", "check", "insert", "write", "log", "done", "dead"}

Operations == {"OpenSession", "CloseSession", "AddClaimToSession",
               "AddResultToSession", "AddClaim", "AddResult"}

Outcomes == {"none", "ok", "notFound", "error"}

InFlight == {h \in Handlers : pc[h] \notin {"idle", "done", "dead"}}

Init ==
  /\ opened \in SUBSET Sids     \* documents of earlier runs of the process
  /\ claims \in SUBSET Cids
  /\ results \in SUBSET Rids
  /\ session = [s \in Sids |-> NewSession]
  /\ log = {}
  /\ clock = 0
  /\ pc = [h \in Handlers |-> "idle"]
  /\ op = [h \in Handlers |-> "none"]
  /\ sid = [h \in Handlers |-> NoId]
  /\ item = [h \in Handlers |-> NoId]
  /\ snap = [h \in Handlers |-> NewSession]
  /\ outcome = [h \in Handlers |-> "none"]

Go(h, step) == pc' = [pc EXCEPT ![h] = step]

Return(h, result) == Go(h, "done") /\ outcome' = [outcome EXCEPT ![h] = result]

Inserts == {"OpenSession", "AddClaim", "AddResult"}

(* MakeID never returns the same id twice.                                  *)
Fresh(ids) ==
  {i \in ids \ (opened \cup claims \cup results) :
     \A h \in Handlers : op[h] \in Inserts => i \notin {sid[h], item[h]}}

(* A request arrives and its handler starts with the given step.            *)
Receive(h, operation, s, i, step) ==
  /\ pc[h] = "idle"
  /\ SingleClient /\ s # NoId => \A g \in InFlight : sid[g] # s
  /\ op' = [op EXCEPT ![h] = operation]
  /\ sid' = [sid EXCEPT ![h] = s]
  /\ item' = [item EXCEPT ![h] = i]
  /\ Go(h, step)
  /\ UNCHANGED <<stores, snap, outcome>>

PostSession(h) ==
  \E s \in Fresh(Sids) : Receive(h, "OpenSession", s, NoId, "insert")

(* Mutant of PostClaim: the claim is stored under no id.                    *)
PostClaimNoID(h) == Receive(h, "AddClaim", NoId, NoId, "insert")

PostClaim(h) ==
  \E c \in Fresh(Cids) : Receive(h, "AddClaim", NoId, c, "insert")

PostResult(h) ==
  \E r \in Fresh(Rids) : Receive(h, "AddResult", NoId, r, "insert")

DeleteSession(h) ==
  \E s \in Sids : Receive(h, "CloseSession", s, NoId, "get")

PutSessionClaim(h) ==
  \E s \in Sids, c \in Cids : Receive(h, "AddClaimToSession", s, c, "get")

PutSessionResult(h) ==
  \E s \in Sids, r \in Rids : Receive(h, "AddResultToSession", s, r, "get")

-----------------------------------------------------------------------------
(***************************************************************************)
(* Inserting a new document under a fresh id.  AddClaim and AddResult      *)
(* refuse a body that already carries an itemid.  The log entry is made    *)
(* whether or not InsertOne failed; a failed insert may have been applied. *)
(***************************************************************************)
InsertOne(h, operation, applied) ==
  /\ pc[h] = "insert" /\ op[h] = operation
  /\ \E result \in {"ok", "error"} :
       /\ result = "error" => Faults
       /\ result = "ok" => applied
       /\ outcome' = [outcome EXCEPT ![h] = result]
  /\ Go(h, "log")
  /\ UNCHANGED <<session, log, clock, op, sid, item, snap>>

OpenSession(h) ==
  /\ opened' \in {opened, opened \cup {sid[h]}}
  /\ InsertOne(h, "OpenSession", sid[h] \in opened')
  /\ UNCHANGED <<claims, results>>

AddClaim(h) ==
  /\ claims' \in {claims, claims \cup {item[h]}}
  /\ InsertOne(h, "AddClaim", item[h] \in claims')
  /\ UNCHANGED <<opened, results>>

AddResult(h) ==
  /\ results' \in {results, results \cup {item[h]}}
  /\ InsertOne(h, "AddResult", item[h] \in results')
  /\ UNCHANGED <<opened, claims>>

RefuseItemID(h) ==
  /\ pc[h] = "insert" /\ op[h] \in {"AddClaim", "AddResult"}
  /\ Return(h, "error")
  /\ UNCHANGED <<stores, op, sid, item, snap>>

-----------------------------------------------------------------------------
(***************************************************************************)
(* Changing a session document.  GetSessionByItemID reports a failed query *)
(* as ErrorItemNotFound, like a session that does not exist.               *)
(***************************************************************************)
Found(h) == sid[h] \in opened

(* The endpoint looks the session up and drops what it read.                *)
Get(h) ==
  /\ pc[h] = "get"
  /\ \/ Found(h) /\ Go(h, "read") /\ UNCHANGED outcome
     \/ /\ ~Found(h) \/ Faults
        /\ Return(h, "notFound")
  /\ UNCHANGED <<stores, op, sid, item, snap>>

ReadFails(h) ==
  /\ pc[h] = "read"
  /\ ~Found(h) \/ Faults
  /\ Return(h, "error")
  /\ UNCHANGED <<stores, op, sid, item, snap>>

(* Mutants of ReadToClose: it signs before it stamps, or closes again.      *)
ReadToCloseUnstamped(h) ==
  /\ pc[h] = "read" /\ op[h] = "CloseSession" /\ Found(h)
  /\ IF session[sid[h]].closed # 0
     THEN Return(h, "error") /\ UNCHANGED <<snap, clock>>
     ELSE /\ clock' = clock + 1
          /\ snap' = [snap EXCEPT ![h] =
               [ClosedAt(session[sid[h]], 0) EXCEPT !.closed = clock + 1]]
          /\ Go(h, "write")
          /\ UNCHANGED outcome
  /\ UNCHANGED <<opened, session, claims, results, log, op, sid, item>>

ReadToCloseAgain(h) ==
  /\ pc[h] = "read" /\ op[h] = "CloseSession" /\ Found(h)
  /\ clock' = clock + 1
  /\ snap' = [snap EXCEPT ![h] = ClosedAt(session[sid[h]], clock + 1)]
  /\ Go(h, "write")
  /\ UNCHANGED <<opened, session, claims, results, log, op, sid, item, outcome>>

(* CloseSession reads the document and, unless it is closed, stamps and     *)
(* signs its copy.                                                         *)
ReadToClose(h) ==
  /\ pc[h] = "read" /\ op[h] = "CloseSession" /\ Found(h)
  /\ IF session[sid[h]].closed # 0
     THEN Return(h, "error") /\ UNCHANGED <<snap, clock>>
     ELSE /\ clock' = clock + 1
          /\ snap' = [snap EXCEPT ![h] = ClosedAt(session[sid[h]], clock + 1)]
          /\ Go(h, "write")
          /\ UNCHANGED outcome
  /\ UNCHANGED <<opened, session, claims, results, log, op, sid, item>>

(* AddClaimToSession and AddResultToSession read the document; they do not  *)
(* look whether it is closed.                                              *)
ReadToAdd(h) ==
  /\ pc[h] = "read" /\ op[h] \in {"AddClaimToSession", "AddResultToSession"} /\ Found(h)
  /\ snap' = [snap EXCEPT ![h] = session[sid[h]]]
  /\ Go(h, "check")
  /\ UNCHANGED <<stores, op, sid, item, outcome>>

Exists(h) ==
  item[h] \in (IF op[h] = "AddClaimToSession" THEN claims ELSE results)

CheckFails(h) ==
  /\ pc[h] = "check"
  /\ ~Exists(h) \/ Faults
  /\ Return(h, "error")
  /\ UNCHANGED <<stores, op, sid, item, snap>>

(* Mutant of AddClaimToSession: the claim need not exist.                   *)
AddClaimToSessionUnchecked(h) ==
  /\ pc[h] = "check" /\ op[h] = "AddClaimToSession"
  /\ snap' = [snap EXCEPT ![h] = ClaimListed(@, item[h])]
  /\ Go(h, "write")
  /\ UNCHANGED <<stores, op, sid, item, outcome>>

(* The claim exists: it is appended to the copy's ClaimList.                *)
AddClaimToSession(h) ==
  /\ pc[h] = "check" /\ op[h] = "AddClaimToSession" /\ Exists(h)
  /\ snap' = [snap EXCEPT ![h] = ClaimListed(@, item[h])]
  /\ Go(h, "write")
  /\ UNCHANGED <<stores, op, sid, item, outcome>>

AddResultToSession(h) ==
  /\ pc[h] = "check" /\ op[h] = "AddResultToSession" /\ Exists(h)
  /\ snap' = [snap EXCEPT ![h] = ResultListed(@, item[h])]
  /\ Go(h, "write")
  /\ UNCHANGED <<stores, op, sid, item, outcome>>

(* Mutant of LogsUpdate: closing a session is an update like any other.     *)
LogsUpdateOnly(h) == op[h] # "CloseSession" /\ SessionUpdateLogging

LogsUpdate(h) == op[h] = "CloseSession" \/ SessionUpdateLogging

(* Mutant of Write: with an empty filter, ReplaceOne takes any document.    *)
WriteAnywhere(h) ==
  /\ pc[h] = "write"
  /\ \E s \in opened :
       /\ session' = [session EXCEPT ![s] = snap[h]]
       /\ IF session[s] = snap[h]
          THEN Return(h, "error")
          ELSE /\ outcome' = [outcome EXCEPT ![h] = "ok"]
               /\ Go(h, IF LogsUpdate(h) THEN "log" ELSE "done")
  /\ UNCHANGED <<opened, claims, results, log, clock, op, sid, item, snap>>

(* ReplaceOne by itemid, whatever the document has become since the read.   *)
(* A ModifiedCount of 0, the copy equal to the document, is an error.       *)
Write(h) ==
  /\ pc[h] = "write"
  /\ session' = [session EXCEPT ![sid[h]] = snap[h]]
  /\ IF session[sid[h]] = snap[h]
     THEN Return(h, "error")
     ELSE /\ outcome' = [outcome EXCEPT ![h] = "ok"]
          /\ Go(h, IF LogsUpdate(h) THEN "log" ELSE "done")
  /\ UNCHANGED <<opened, claims, results, log, clock, op, sid, item, snap>>

(* Mutant of WriteFails: the error of ReplaceOne is ignored.                *)
WriteFailsUnnoticed(h) ==
  /\ pc[h] = "write" /\ Faults
  /\ session' \in {session, [session EXCEPT ![sid[h]] = snap[h]]}
  /\ Return(h, "ok")
  /\ UNCHANGED <<opened, claims, results, log, clock, op, sid, item, snap>>

(* ReplaceOne returns an error, before or after the server applied it.      *)
WriteFails(h) ==
  /\ pc[h] = "write" /\ Faults
  /\ session' \in {session, [session EXCEPT ![sid[h]] = snap[h]]}
  /\ Return(h, "error")
  /\ UNCHANGED <<opened, claims, results, log, clock, op, sid, item, snap>>

-----------------------------------------------------------------------------
Entry(h) == [op |-> op[h], sid |-> sid[h], item |-> item[h]]

(* MakeLogEntry; what the three sinks return is ignored.                    *)
MakeLogEntry(h) ==
  /\ pc[h] = "log"
  /\ \/ log' = log \cup {Entry(h)}
     \/ LogLoss /\ log' = log
  /\ Go(h, "done")
  /\ UNCHANGED <<opened, session, claims, results, clock, op, sid, item, snap, outcome>>

(* The process dies (a panic outside a request, a kill) and is restarted:   *)
(* the requests in flight are lost, the database is kept.                  *)
Crash ==
  /\ Faults /\ InFlight # {}
  /\ pc' = [h \in Handlers |-> IF h \in InFlight THEN "dead" ELSE pc[h]]
  /\ UNCHANGED <<stores, op, sid, item, snap, outcome>>

Request(h) ==
  \/ PostSession(h)
  \/ PostClaim(h)
  \/ PostResult(h)
  \/ DeleteSession(h)
  \/ PutSessionClaim(h)
  \/ PutSessionResult(h)

Step(h) ==
  \/ OpenSession(h)
  \/ AddClaim(h)
  \/ AddResult(h)
  \/ RefuseItemID(h)
  \/ Get(h)
  \/ ReadFails(h)
  \/ ReadToClose(h)
  \/ ReadToAdd(h)
  \/ CheckFails(h)
  \/ AddClaimToSession(h)
  \/ AddResultToSession(h)
  \/ Write(h)
  \/ WriteFails(h)
  \/ MakeLogEntry(h)

Next == Crash \/ \E h \in Handlers : Request(h) \/ Step(h)

Spec == Init /\ [][Next]_vars

-----------------------------------------------------------------------------
(***************************************************************************)
(* Properties.                                                             *)
(***************************************************************************)
Footer == [claims : Seq(Cids), results : Seq(Rids), closed : Nat]

Document == [claims : Seq(Cids), results : Seq(Rids), closed : Nat, footer : Footer]

Typed ==
  /\ opened \subseteq Sids /\ claims \subseteq Cids /\ results \subseteq Rids
  /\ session \in [Sids -> Document]
  /\ log \subseteq [op : Operations, sid : Sids \cup {NoId},
                    item : Cids \cup Rids \cup {NoId}]
  /\ clock \in Nat
  /\ pc \in [Handlers -> Steps]
  /\ op \in [Handlers -> Operations \cup {"none"}]
  /\ sid \in [Handlers -> Sids \cup {NoId}]
  /\ item \in [Handlers -> Cids \cup Rids \cup {NoId}]
  /\ snap \in [Handlers -> Document]
  /\ outcome \in [Handlers -> Outcomes]

(* Every variable keeps its type, and an operation has the ids it works on. *)
TypeOK ==
  /\ Typed
  /\ \A h \in Handlers :
       /\ op[h] = "none" => pc[h] = "idle"
       /\ op[h] \notin {"AddClaim", "AddResult", "none"} => sid[h] \in Sids
       /\ op[h] \in {"AddClaim", "AddClaimToSession"} => item[h] \in Cids
       /\ op[h] \in {"AddResult", "AddResultToSession"} => item[h] \in Rids

Refers(d) == d.claims \in Seq(claims) /\ d.results \in Seq(results)

(* Whatever handlers interleave and whichever of them die, a session lists  *)
(* only claims and results that are in their collections                    *)
(* (sessions.go: the existence checks before the two appends).              *)
ListsRefer == \A s \in Sids : Refers(session[s])

SignedAsClosed(d) ==
  /\ d.footer.closed = d.closed
  /\ IsPrefixOf(d.footer.claims, d.claims)
  /\ IsPrefixOf(d.footer.results, d.results)

(* A session document has a footer exactly when it is closed, the footer    *)
(* signs that closing time, and what was signed is a prefix of the lists:   *)
(* concurrent writers may lose a whole closing, never tear a document       *)
(* (sessions.go: CloseSession signs the copy it then writes).               *)
SignatureMatches == \A s \in Sids : SignedAsClosed(session[s])

Occurrences(seq, i) == Cardinality({k \in DOMAIN seq : seq[k] = i})

Appenders(s, i) ==
  {h \in Handlers : /\ op[h] \in {"AddClaimToSession", "AddResultToSession"}
                    /\ sid[h] = s /\ item[h] = i
                    /\ pc[h] \in {"log", "done", "dead"}}

(* No write invents an entry: an id is in the lists of a session at most as *)
(* often as requests have asked to add it to that very session, although    *)
(* every write stores a list copied from an older document.                 *)
EntriesComeFromRequests ==
  \A s \in Sids :
    /\ \A c \in Cids :
         Occurrences(session[s].claims, c) <= Cardinality(Appenders(s, c))
    /\ \A r \in Rids :
         Occurrences(session[s].results, r) <= Cardinality(Appenders(s, r))

Listed(s, i) ==
  Occurrences(session[s].claims, i) + Occurrences(session[s].results, i) > 0

Succeeded(h, operation) == op[h] = operation /\ outcome[h] = "ok"

(* An append that was reported as done stays in the session.                *)
AcknowledgedAppendsKept ==
  \A h \in Handlers :
    Succeeded(h, "AddClaimToSession") \/ Succeeded(h, "AddResultToSession")
      => Listed(sid[h], item[h])

(* A session whose closing was reported as done stays closed and signed     *)
(* (sessions.go:52 "We close the session and sign it").                     *)
CloseIsFinal ==
  \A h \in Handlers :
    Succeeded(h, "CloseSession") => session[sid[h]].closed # 0

(* A session is closed at most once (sessions.go:61 "Check if the session   *)
(* isn't already closed").                                                  *)
ClosedOnce ==
  \A g, h \in Handlers :
    /\ Succeeded(g, "CloseSession") /\ Succeeded(h, "CloseSession")
    /\ sid[g] = sid[h]
    => g = h

Recorded(operation, s, i) ==
  \/ [op |-> operation, sid |-> s, item |-> i] \in log
  \/ \E h \in Handlers : /\ op[h] = operation /\ sid[h] = s /\ item[h] = i
                         /\ pc[h] \in {"log", "dead"} \/ outcome[h] \notin {"none", "ok"}

(* Who closed a session and who added to it is on record, or about to be    *)
(* (logging follows the write), unless the process died in between or the   *)
(* client was told that the request failed.                                 *)
AuditTrail ==
  \A s \in Sids :
    /\ session[s].closed # 0 => Recorded("CloseSession", s, NoId)
    /\ SessionUpdateLogging =>
         /\ \A k \in DOMAIN session[s].claims :
              Recorded("AddClaimToSession", s, session[s].claims[k])
         /\ \A k \in DOMAIN session[s].results :
              Recorded("AddResultToSession", s, session[s].results[k])

(* A request to close an existing session has closed it at some moment,     *)
(* even if another handler's stale write opens it again afterwards.         *)
CloseTakesEffect ==
  \A h \in Handlers, s \in Sids :
    (pc[h] = "get" /\ op[h] = "CloseSession" /\ sid[h] = s /\ s \in opened)
      ~> (session[s].closed # 0)

(* With one client per session, the handlers' reads and writes, however     *)
(* they interleave, fail or are cut short, implement the atomic operations  *)
(* of SessionContract on the documents that exist.                          *)
Contract ==
  INSTANCE SessionContract WITH sessions <- [s \in opened |-> session[s]],
                                claims <- claims, results <- results

ImplementsContract == Contract!Spec
=============================================================================
