------------------------------ MODULE MCMarbleRun ------------------------------
(* Model-checking instance of MarbleRun: an expected deployment, the same    *)
(* with another manifest, and one with an old TCB; besides them a marble of  *)
(* the first, and a stranger with a CA of its own.                          *)
EXTENDS MarbleRun, TLC

Symmetry == Permutations(Calls)

Report(root, version, signer, tcb) ==
  [SecurityVersion |-> version, ProductID |-> 3, UniqueID |-> "u1", SignerID |-> signer,
   TCBStatus |-> tcb, Data |-> root]

Expected ==
  [Infrastructures |-> [azure |-> "infra1"],
   Packages |-> [frontend |-> [SignerID |-> "s2", ProductID |-> 5, SecurityVersion |-> 1, Debug |-> FALSE],
                 backend  |-> [UniqueID |-> "u2", ProductID |-> 6, SecurityVersion |-> 0, Debug |-> FALSE]],
   Marbles |-> [web |-> "frontend", db |-> "backend"]]

(* A debug build, an infrastructure without a UEID, and a marble the less.  *)
Changed ==
  [Infrastructures |-> [azure |-> Unparsable],
   Packages |-> [frontend |-> [SignerID |-> "s2", ProductID |-> 5, SecurityVersion |-> 1, Debug |-> TRUE],
                 backend  |-> [UniqueID |-> Unparsable]],
   Marbles |-> [web |-> "frontend"]]

Root(key) == [key |-> key, issuer |-> key, ca |-> TRUE]
Inter(key, issuer) == [key |-> key, issuer |-> issuer, ca |-> TRUE]
Leaf(key, issuer) == [key |-> key, issuer |-> issuer, ca |-> FALSE]

Coordinator(root, inter, version, tcb, manifest) ==
  [root |-> Root(root), inter |-> Inter(inter, root),
   chain |-> <<Leaf("tls", inter), Inter(inter, root)>>,
   report |-> Report(Root(root), version, "s1", tcb), manifest |-> manifest]

MCCoordinators ==
  {Coordinator("r1", "i1", 2, "UpToDate", Expected),
   Coordinator("r1", "i2", 2, "UpToDate", Changed),
   Coordinator("r2", "i3", 2, "OutOfDate", Expected)}

MCOthers == {[chain |-> <<Leaf("marble", "i1"), Inter("i1", "r1")>>],
             [chain |-> <<Leaf("stranger", "ca")>>]}

(* The coordinators' lists, and such as the coordinator rule takes or does  *)
(* not: only a root, a root that did not issue what stands before it, one   *)
(* that stands in the wrong place, and a block that is no certificate.      *)
MCLists ==
  {<<d.inter, d.root>> : d \in MCCoordinators} \cup
  {<<Root("r1")>>, <<Root("ca"), Root("r1")>>, <<Inter("i1", "r1"), Root("ca"), Root("r1")>>,
   <<Root("r1"), Root("ca")>>, <<Unparsable, Root("r1")>>}

MCCoordinatorEVS ==
  [coordinator |-> [SecurityVersion |-> 2, ProductID |-> 3, SignerID |-> "s1"]]

MCManifestEVS ==
  [Infrastructures |-> [azure |-> "infra1"],
   Packages |-> [frontend |-> [SignerID |-> "s2", SecurityVersion |-> 1],
                 backend  |-> [UniqueID |-> "u2"], worker |-> [Debug |-> TRUE]],
   Marbles |-> [web |-> "frontend", db |-> "backend"]]

(* A request is signed and fresh or not, with a certificate of anybody's.    *)
MCInstances ==
  LET Request(cert, nonce) ==
        [Nonce |-> nonce, Certificate |-> cert, CommonName |-> "uuid", complete |-> TRUE]
      Instance(cert, nonce, key) ==
        [Name |-> "uuid", ExpectedNonce |-> "n1", data |-> Request(cert, nonce),
         signature |-> [of |-> Request(cert, nonce), key |-> key]]
  IN  {Instance(Leaf("k", issuer), "n1", "k") : issuer \in {"i1", "i2", "i3", "ca"}} \cup
      {Instance(Leaf("k", "i1"), "n2", "k"), Instance(Leaf("k", "i1"), "n1", "other")}

MCCertificates ==
  UNION {ToSet(p.chain) : p \in Peers} \cup UNION {ToSet(l) \ {Unparsable} : l \in Lists}
    \cup {i.data.Certificate : i \in Instances}

=============================================================================
