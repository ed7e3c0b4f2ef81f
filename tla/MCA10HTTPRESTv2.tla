-------------------------- MODULE MCA10HTTPRESTv2 --------------------------
(* Model-checking instances of A10HTTPRESTv2.                               *)
EXTENDS A10HTTPRESTv2

CONSTANTS c1, c2, c3, m1, m2

Symmetry == Permutations(Calls)

MCScheme ==
  "key" :> [alg |-> "RSASSA", hash |-> "sha256"] @@ "otherkey" :> [alg |-> "ECDSA", hash |-> "sha384"]

-----------------------------------------------------------------------------
(* Two calls, for PCRs or quotes.                                            *)
MCFirst == [safe |-> TRUE, firmware |-> "fw1", eventlog |-> <<>>]

MCStarts == {MCFirst, [safe |-> FALSE, firmware |-> "fw2", eventlog |-> <<>>]}

(* A policy as documented, one that names a PCR badly, one that fixes the   *)
(* nonce, and one of a bank that the TPM does not have.                    *)
MCPolicies ==
  [c \in Calls |->
     {[intent |-> i, parameters |-> <<>>] : i \in {"tpm2/pcrs", "txt/log", "sys/info"}} \cup
     {[intent |-> "tpm2/quote", parameters |-> [pcrSelection |-> <<0, 1>>, bank |-> "sha256"]],
      [intent |-> "tpm2/quote", parameters |-> [pcrSelection |-> <<1, Unparsable>>, bank |-> "sha1"]],
      [intent |-> "tpm2/quote", parameters |-> [pcrSelection |-> <<1>>, bank |-> "sha512"]],
      [intent |-> "tpm2/quote", parameters |->
         [pcrSelection |-> <<1>>, bank |-> "sha256"] @@
         "tpm2/nonce" :> [type |-> "string", bytes |-> "fixed"]]}]

MCAdditional == [c \in Calls |-> {<<>>, "tpm2/akhandle" :> "otherkey" @@ [pcrSelection |-> <<1>>]}]

(* A structure that is no quote, a quote of nothing, and PCRs as they are   *)
(* after the start, but divided or ordered otherwise, or one not readable.  *)
ForeignQuote(selections) ==
  [type |-> "quote", selection |-> selections, key |-> "foreign", sigAlg |-> "RSASSA"]

MCForeign ==
  LET zero == Chain("sha256", <<"fw1">>)
      one == Chain("sha256", <<>>)
      Pcrs256(p) == [sha256 |-> 0 :> p[1] @@ 1 :> p[2]]
      bodies == {[quote |-> [type |-> "certify"]], [quote |-> ForeignQuote(<<{}>>)], Null} \cup
                {Pcrs256(p) : p \in {<<zero \o one, <<>>>>, <<one, zero>>, <<zero, Unparsable>>}}
  IN  [c \in Calls |-> {[kind |-> "ok", body |-> b] : b \in bodies} \cup
                        {[kind |-> "error", body |-> b] : b \in {Null, Pcrs256(<<one, zero>>)}}]

(* What makes a call panic.                                                 *)
NilForeign ==
  [c \in Calls |-> {[kind |-> "ok", body |-> [quote |-> q]] : q \in {Unparsable, ForeignQuote(<<>>)}}
                    \cup {[kind |-> k, body |-> Null] : k \in {"ok", "error"}}]

MCExtensions == {0, 1} \X {m1}

(* Every list without duplicates and every value of it; and a list with a   *)
(* duplicate, which is as long as that of the selection of the value.      *)
MCExpectedValues ==
  {[pcrselection |-> l[1], firmwareVersion |-> f,
    attestedValue |-> Hex(Digest("sha256", [i \in Pcrs |-> Chain(b, IF i = 0 THEN <<f>> \o v[0] ELSE v[i])], l[2]))] :
     l \in {<<x, x>> : x \in {<<0>>, <<1>>, <<0, 1>>}} \cup {<<<<0, 0>>, <<0, 1>>>>}, b \in Banks, f \in Firmware,
     v \in {w \in [0..1 -> {<<>>, <<m1>>, <<m1, m1>>}] : Len(w[0]) + Len(w[1]) <= MaxEvents}}

-----------------------------------------------------------------------------
(* A quote, the PCRs and a log; in unsafe mode a policy may name another    *)
(* file.                                                                    *)
LogPolicies ==
  c1 :> {[intent |-> "tpm2/quote", parameters |-> [pcrSelection |-> <<0, 4, 10>>, bank |-> "sha256"]]} @@
  c2 :> {[intent |-> "tpm2/pcrs", parameters |-> <<>>]} @@
  c3 :> {[intent |-> "uefi/eventlog", parameters |-> <<>>], [intent |-> "ima/asciilog", parameters |-> <<>>],
         [intent |-> "ima/asciilog", parameters |-> "ima/ASCIIlog" :> "other"]}

GoodLog == <<<<0, m1>>, <<4, m1>>>>
BadLog == <<<<0, m1>>, <<4, m2>>>>

LogFirst == [safe |-> TRUE, firmware |-> "fw1", eventlog |-> BadLog]

LogStarts == {LogFirst, [LogFirst EXCEPT !.eventlog = GoodLog]}

LogAdditional == [c \in Calls |-> {<<>>}]

LogFiles == {<<m1>>}

(* PCRs and a log that look well, whatever the platform has.                *)
LogForeign ==
  c1 :> {} @@
  c2 :> {[kind |-> "ok", body |->
            [sha256 |-> 0 :> Chain("sha256", <<"fw1", m1>>) @@ 4 :> Chain("sha256", <<m1>>)
                        @@ 10 :> Chain("sha256", <<m1>>)]]} @@
  c3 :> {[kind |-> "ok", body |-> [eventlog |-> GoodLog]]}

LogRefStates == {{GoodLog}}
LogRuntimePolicies == {{m1}, {m1, m2}}
=============================================================================
