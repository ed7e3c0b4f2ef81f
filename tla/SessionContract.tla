-------------------------- MODULE SessionContract ---------------------------
(***************************************************************************)
(* What the session operations promise a client that has a session for     *)
(* itself: every operation happens at once or not at all, appends extend   *)
(* the document as it is, and an open session is closed and signed once.   *)
(* Appending to a closed session is allowed, as in the code.               *)
(***************************************************************************)
EXTENDS SessionDocs

CONSTANTS Sids, Cids, Rids

VARIABLES
  sessions,         \* the documents of the sessions that exist, by their ids
  claims, results   \* ids of the stored claims and results

stored == <<sessions, claims, results>>

Init ==
  /\ \E ids \in SUBSET Sids : sessions = [s \in ids |-> NewSession]
  /\ claims \in SUBSET Cids /\ results \in SUBSET Rids

Open(s) ==
  /\ s \notin DOMAIN sessions
  /\ sessions' = [t \in DOMAIN sessions \cup {s} |->
                   IF t = s THEN NewSession ELSE sessions[t]]
  /\ UNCHANGED <<claims, results>>

StoreClaim(c) ==
  /\ c \notin claims /\ claims' = claims \cup {c}
  /\ UNCHANGED <<sessions, results>>

StoreResult(r) ==
  /\ r \notin results /\ results' = results \cup {r}
  /\ UNCHANGED <<sessions, claims>>

AppendClaim(s, c) ==
  /\ s \in DOMAIN sessions /\ c \in claims
  /\ sessions' = [sessions EXCEPT ![s] = ClaimListed(@, c)]
  /\ UNCHANGED <<claims, results>>

AppendResult(s, r) ==
  /\ s \in DOMAIN sessions /\ r \in results
  /\ sessions' = [sessions EXCEPT ![s] = ResultListed(@, r)]
  /\ UNCHANGED <<claims, results>>

Close(s) ==
  /\ s \in DOMAIN sessions /\ sessions[s].closed = 0
  /\ sessions'[s].closed # 0
  /\ sessions' = [sessions EXCEPT ![s] = ClosedAt(@, sessions'[s].closed)]
  /\ UNCHANGED <<claims, results>>

Next ==
  \/ \E s \in Sids : Open(s) \/ Close(s)
  \/ \E c \in Cids : StoreClaim(c)
  \/ \E r \in Rids : StoreResult(r)
  \/ \E s \in Sids, c \in Cids : AppendClaim(s, c)
  \/ \E s \in Sids, r \in Rids : AppendResult(s, r)

Spec == Init /\ [][Next]_stored
=============================================================================
