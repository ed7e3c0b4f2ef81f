---------------------------- MODULE SessionDocs -----------------------------
(***************************************************************************)
(* The session document of ga10/structures/sessions.go and the changes     *)
(* ga10/operations/sessions.go makes to a copy of it in memory.            *)
(***************************************************************************)
EXTENDS Naturals, Sequences

(* The footer is the signed part of a document: Unsigned, the zero value of *)
(* SessionFooter, until it is signed.                                       *)
Unsigned == [claims |-> <<>>, results |-> <<>>, closed |-> 0]

NewSession == [claims |-> <<>>, results |-> <<>>, closed |-> 0, footer |-> Unsigned]

(* hashablePartSession: what hashAndSignSession covers.                     *)
HashablePart(d, t) == [claims |-> d.claims, results |-> d.results, closed |-> t]

(* Mutant of ClosedAt: the copy is signed, its Timing.Closed forgotten.     *)
SignedOnly(d, t) ==
  [claims |-> d.claims, results |-> d.results, closed |-> d.closed,
   footer |-> HashablePart(d, t)]

(* Timing.Closed is stamped first, so that the signature covers it.         *)
ClosedAt(d, t) ==
  [claims |-> d.claims, results |-> d.results, closed |-> t,
   footer |-> HashablePart(d, t)]

(* Mutant of ClaimListed: a new document takes over the lists only.         *)
ClaimListedAnew(d, c) ==
  [claims |-> Append(d.claims, c), results |-> d.results, closed |-> 0,
   footer |-> Unsigned]

ClaimListed(d, c) ==
  [claims |-> Append(d.claims, c), results |-> d.results, closed |-> d.closed,
   footer |-> d.footer]

ResultListed(d, r) ==
  [claims |-> d.claims, results |-> Append(d.results, r), closed |-> d.closed,
   footer |-> d.footer]

IsPrefixOf(s, t) ==
  Len(s) <= Len(t) /\ \A i \in 1..Len(s) : s[i] = t[i]
=============================================================================
