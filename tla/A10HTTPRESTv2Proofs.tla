------------------------- MODULE A10HTTPRESTv2Proofs -------------------------
(***************************************************************************)
(* Theorems about A10HTTPRESTv2, for any number of calls, any TPM and any  *)
(* foreign service that CallAssumption and TPMAssumption allow.            *)
(***************************************************************************)
EXTENDS A10HTTPRESTv2, TPM2RulesProofs

(* A call's answer is made by the platform as it is, so the platform's      *)
(* state is always one of those the call recorded; a claim carries the     *)
(* parameters of its call and the element's key.                           *)
Stages ==
  \A c \in Calls :
    /\ Under(c) => tpm \in held[c]
    /\ pc[c] = "reading" => intent[c] = "tpm2/pcrs"
    /\ Claimed(c) => /\ claim[c].cps = cps[c] /\ claim[c].ak.name = Key
                     /\ "body" \in DOMAIN claim[c]

(* A nonce of type Binary is the call's own, and nothing else is a call's.  *)
OwnNonce(c, parameters) ==
  "tpm2/nonce" \in DOMAIN parameters =>
    /\ parameters["tpm2/nonce"].type = "Binary" => parameters["tpm2/nonce"].bytes = c
    /\ parameters["tpm2/nonce"].bytes \in Calls => parameters["tpm2/nonce"].bytes = c

Nonces == \A c \in Calls : pc[c] # "idle" => OwnNonce(c, cps[c])

(* A quote over selection S says what the TPM was in state s.               *)
Says(q, S, s, b) ==
  /\ q.selection = <<S>> /\ (b \in Banks \/ S = {})
  /\ q.digest = Digest(Scheme[q.key].hash, Bank(s, b), Ascending(S))
  /\ q.safe = s.safe /\ q.firmware = s.firmware

(* If the quote has the nonce of a call, the TPM made it during that call,  *)
(* of the bank that the call asked for.                                    *)
Made(q) ==
  LET n == q.extraData
  IN  n \in Calls =>
        Claimed(n) /\ \E S \in SUBSET Pcrs, s \in held[n] : Says(q, S, s, cps[n]["bank"])

(* A body of a claim: it may be foreign, but then it has no quote signed    *)
(* with the element's key.                                                 *)
BodyOK(b) ==
  /\ "asciilog" \in DOMAIN b => b.asciilog \in Logs
  /\ HasQuote([body |-> b]) =>
       /\ b.quote.selection \in Seq(SUBSET Pcrs)
       /\ b.quote.key = Key => Made(b.quote)

Bodies == \A c \in Calls : Claimed(c) => BodyOK(claim[c].body)

(* The variables whose values have no simple type are functions all the same.*)
Functions ==
  /\ intent = [c \in Calls |-> intent[c]]
  /\ cps = [c \in Calls |-> cps[c]]
  /\ claim = [c \in Calls |-> claim[c]]
  /\ got = [c \in Calls |-> got[c]]

Inv == TypeOK /\ Functions /\ Stages /\ Nonces /\ Bodies

-----------------------------------------------------------------------------
(***************************************************************************)
(* Types.                                                                  *)
(***************************************************************************)
LEMMA PcrsFinite ==
  /\ Pcrs \subseteq Nat
  /\ \A S \in SUBSET Pcrs : S \in SUBSET Nat /\ IsFiniteSet(S)
<1>1. \A n \in Nat : IsFiniteSet(0..n)
  BY FS_Interval
<1>2. Pcrs \subseteq 0..23
  BY TPMAssumption
<1>3. IsFiniteSet(Pcrs)
  <2>1. IsFiniteSet(0..23)
    BY <1>1
  <2> QED
    BY <1>2, <2>1, FS_Subset
<1>4. ASSUME NEW S \in SUBSET Pcrs PROVE IsFiniteSet(S)
  BY <1>3, FS_Subset
<1> QED
  BY <1>2, <1>4

(* What a log has for a PCR is a list of measurements, and no list of any   *)
(* if it has no line of that PCR.                                          *)
LEMMA MeasuredType ==
  ASSUME NEW log \in Seq(Pcrs \X Measurements), NEW i
  PROVE  /\ MeasuredInto(i, log) \in Seq(Measurements)
         /\ (\A e \in ToSet(log) : e[1] # i) => Len(MeasuredInto(i, log)) = 0
<1> DEFINE K == {k \in DOMAIN log : log[k][1] = i}
           n == Cardinality(K)
           l == Ascending(K)
<1>1. K \in SUBSET Nat /\ IsFiniteSet(K)
  <2>1. IsFiniteSet(1..Len(log)) /\ K \subseteq 1..Len(log)
    <3>1. \A m \in Nat : IsFiniteSet(1..m)
      BY FS_Interval
    <3> QED
      BY <3>1
  <2> QED
    BY <2>1, FS_Subset
<1>2. n \in Nat /\ l \in [1..n -> K]
  <2> HIDE DEF K
  <2> QED
    BY <1>1, AscendingLists
<1>3. MeasuredInto(i, log) = [k \in 1..n |-> log[l[k]][2]]
  BY <1>2 DEF MeasuredInto
<1>4. \A k \in 1..n : l[k] \in DOMAIN log
  BY <1>2
<1>5. \A k \in DOMAIN log : log[k][2] \in Measurements
  BY DEF ToSet
<1>6. MeasuredInto(i, log) \in Seq(Measurements)
  <2> HIDE DEF n, l
  <2> QED
    BY <1>2, <1>3, <1>4, <1>5
<1>7. ASSUME \A e \in ToSet(log) : e[1] # i PROVE Len(MeasuredInto(i, log)) = 0
  <2>1. K = {}
    BY <1>7 DEF ToSet
  <2>2. n = 0
    BY <2>1, FS_EmptySet
  <2> QED
    BY <1>3, <2>2
<1> QED
  BY <1>6, <1>7

LEMMA StartedType ==
  ASSUME NEW start \in Starts, NEW n \in Nat
  PROVE  Started(start, n) \in States
<1>1. start.safe \in BOOLEAN /\ start.eventlog \in Seq(Pcrs \X Measurements)
  BY TPMAssumption
<1>2. start.firmware \in Firmware /\ start.eventlog \in EventLogs
  BY DEF Firmware, EventLogs
<1> DEFINE first(i) == IF i = 0 THEN <<start.firmware>> ELSE <<>>
<1>3. ASSUME NEW i \in Pcrs
      PROVE  first(i) \o MeasuredInto(i, start.eventlog) \in Seq(Measurements \cup Firmware)
  <2>1. first(i) \in Seq(Measurements \cup Firmware)
    BY <1>2
  <2>2. MeasuredInto(i, start.eventlog) \in Seq(Measurements \cup Firmware)
    BY <1>1, MeasuredType
  <2> HIDE DEF first
  <2> QED
    BY <2>1, <2>2
<1> DEFINE pcrs == [i \in Pcrs |-> first(i) \o MeasuredInto(i, start.eventlog)]
<1>4. pcrs \in [Pcrs -> Seq(Measurements \cup Firmware)]
  <2> HIDE DEF first
  <2> QED
    BY <1>3
<1>5. <<>> \in Seq(Measurements)
  OBVIOUS
<1>6. Started(start, n) = [pcrs |-> pcrs, safe |-> start.safe, firmware |-> start.firmware,
                           eventlog |-> start.eventlog, ima |-> <<>>, resets |-> n]
  BY DEF Started
<1> HIDE DEF pcrs
<1> QED
  BY <1>1, <1>2, <1>4, <1>5, <1>6 DEF States

(* Whatever is extended or listed, the platform's state keeps its type.     *)
LEMMA ExtendedType ==
  ASSUME NEW s \in States, NEW i \in Pcrs, NEW m \in Measurements
  PROVE  /\ [s EXCEPT !.pcrs[i] = Append(@, m)] \in States
         /\ [s EXCEPT !.ima = Append(@, m)] \in States
<1>1. Append(s.pcrs[i], m) \in Seq(Measurements \cup Firmware)
  BY DEF States
<1>2. Append(s.ima, m) \in Seq(Measurements)
  BY DEF States
<1>3. [s EXCEPT !.pcrs[i] = Append(@, m)] \in States
  BY <1>1 DEF States
<1>4. [s EXCEPT !.ima = Append(@, m)] \in States
  BY <1>2 DEF States
<1> QED
  BY <1>3, <1>4

-----------------------------------------------------------------------------
(***************************************************************************)
(* The inductive invariant.                                                *)
(***************************************************************************)
LEMMA InitInv == Init => Inv
<1> SUFFICES ASSUME Init PROVE Inv
  OBVIOUS
<1>1. tpm \in States
  BY StartedType, TPMAssumption DEF Init
<1>2. TypeOK
  BY <1>1, CallAssumption DEF Init, TypeOK, Claimed
<1> QED
  BY <1>2 DEF Init, Inv, Functions, Stages, Nonces, Bodies, Under, Claimed

(* Nothing changes about a call that has made its claim.                    *)
Fixed(n) ==
  /\ pc'[n] = pc[n] /\ intent'[n] = intent[n] /\ cps'[n] = cps[n]
  /\ claim'[n] = claim[n] /\ held'[n] = held[n]

(* What is true of the bodies of claims stays true.                         *)
LEMMA MadeStays ==
  ASSUME \A n \in Calls : Claimed(n) => Fixed(n), NEW q, Made(q)
  PROVE  Made(q)'
BY DEF Made, Says, Fixed, Claimed

LEMMA BodyStays ==
  ASSUME \A n \in Calls : Claimed(n) => Fixed(n), NEW b, BodyOK(b)
  PROVE  BodyOK(b)'
<1>1. Made(b.quote) => Made(b.quote)'
  BY MadeStays
<1> QED
  BY <1>1 DEF BodyOK

LEMMA BodyOfClaim ==
  ASSUME NEW n \in Calls, NEW b, BodyOK(b)', claim'[n].body = b
  PROVE  BodyOK(claim[n].body)'
BY DEF BodyOK, HasQuote, Decodes, IsQuote, Made, Says, Claimed

LEMMA BodiesStay ==
  ASSUME Bodies, \A n \in Calls : Claimed(n) => Fixed(n),
         \A n \in Calls : Claimed(n)' <=> Claimed(n)
  PROVE  Bodies'
<1>1. ASSUME NEW n \in Calls, Claimed(n)' PROVE BodyOK(claim[n].body)'
  <2>1. PICK b : b = claim[n].body
    OBVIOUS
  <2>2. claim'[n].body = b /\ BodyOK(b)
    BY <1>1, <2>1 DEF Fixed, Bodies
  <2>3. BodyOK(b)'
    BY <2>2, BodyStays
  <2> QED
    BY <2>2, <2>3, BodyOfClaim
<1> QED
  BY <1>1 DEF Bodies

(* The nonce of a call's parameters is its own or nobody's.                 *)
LEMMA ParametersNonce ==
  ASSUME NEW c \in Calls, NEW p \in Policies[c], NEW a \in Additional[c]
  PROVE  OwnNonce(c, CallParameters(c, p.intent, p.parameters, a))
<1> DEFINE first == InitialParameters(c, p.intent)
           m == CallParameters(c, p.intent, p.parameters, a)
           k == "tpm2/nonce"
<1>1. ASSUME NEW x \in {p.parameters, a}, k \in DOMAIN x
      PROVE  x[k].type # "Binary" /\ x[k].bytes \notin Calls
  BY <1>1, CallAssumption
<1>2. ASSUME k \in DOMAIN first
      PROVE  first[k] = [type |-> "Binary", bytes |-> c]
  BY <1>2, Zenon DEF InitialParameters
<1>3. ASSUME k \in DOMAIN m
      PROVE  \/ k \in DOMAIN a /\ m[k] = a[k]
             \/ k \in DOMAIN p.parameters /\ m[k] = p.parameters[k]
             \/ k \in DOMAIN first /\ m[k] = first[k]
  <2> HIDE DEF first, k
  <2> QED
    BY <1>3 DEF CallParameters, mergeMaps, first
<1> HIDE DEF first, m, k
<1>4. k \in DOMAIN m =>
        /\ m[k].type = "Binary" => m[k].bytes = c
        /\ m[k].bytes \in Calls => m[k].bytes = c
  BY <1>1, <1>2, <1>3
<1> QED
  BY <1>4 DEF OwnNonce, m, k

LEMMA RequestInv ==
  ASSUME Inv, NEW c \in Calls, Request(c)
  PROVE  Inv'
<1> USE DEF Inv
<1>1. PICK p \in Policies[c], a \in Additional[c] :
        Send(c, p.intent, CallParameters(c, p.intent, p.parameters, a))
  BY DEF Request
<1>2. OwnNonce(c, CallParameters(c, p.intent, p.parameters, a))
  BY ParametersNonce
<1> DEFINE m == CallParameters(c, p.intent, p.parameters, a)
<1> HIDE DEF m
<1>3. /\ pc[c] = "idle" /\ pc' = [pc EXCEPT ![c] = "sent"]
      /\ intent' = [intent EXCEPT ![c] = p.intent]
      /\ cps' = [cps EXCEPT ![c] = m]
      /\ held' = [held EXCEPT ![c] = {tpm}]
      /\ UNCHANGED <<tpm, events, claim, got>>
  BY <1>1 DEF Send, m
<1>10. /\ pc' \in [Calls -> {"idle", "sent", "reading", "done", "panic"}]
       /\ pc'[c] = "sent" /\ intent'[c] = p.intent /\ cps'[c] = m /\ held'[c] = {tpm}
       /\ \A n \in Calls \ {c} : pc'[n] = pc[n] /\ Fixed(n)
  BY <1>3 DEF TypeOK, Functions, Fixed
<1>4. \A n \in Calls : Claimed(n) => n # c /\ Fixed(n)
  BY <1>3, <1>10 DEF Claimed
<1>5. TypeOK'
  <2>1. p.intent # None
    BY CallAssumption
  <2> QED
    BY <1>3, <1>10, <2>1 DEF TypeOK, Claimed, Fixed
<1>9. Functions'
  BY <1>3 DEF Functions
<1>6. Stages'
  BY <1>3, <1>10 DEF Stages, Under, Claimed, Fixed
<1>7. Nonces'
  BY <1>2, <1>3, <1>10 DEF Nonces, m, Fixed
<1>8. Bodies'
  BY <1>3, <1>4, <1>10, BodyStays DEF Bodies, Claimed
<1> QED
  BY <1>5, <1>6, <1>7, <1>8, <1>9

(* A quote that is made now, for call c if for any.                         *)
MadeNow(c, q) ==
  q.extraData \in Calls =>
    q.extraData = c /\ \E S \in SUBSET Pcrs : Says(q, S, tpm, cps[c]["bank"])

(* What may arrive as an answer in call c.  Only a usable one has a quote   *)
(* that was just made.                                                     *)
AnswerOK(c, a) ==
  /\ "asciilog" \in DOMAIN a.body => a.body.asciilog \in Logs
  /\ HasQuote([body |-> a.body]) =>
       /\ a.body.quote.selection \in Seq(SUBSET Pcrs)
       /\ a.body.quote.key = Key =>
            Made(a.body.quote) \/ (Usable(c, a) /\ MadeNow(c, a.body.quote))

(* To add the error to a body leaves its quote and its log alone.           *)
LEMMA ErrorAdded ==
  ASSUME NEW b, NEW new, new = mergeMaps(b, [error |-> None])
  PROVE  /\ "asciilog" \in DOMAIN new => "asciilog" \in DOMAIN b /\ new.asciilog = b.asciilog
         /\ HasQuote([body |-> new]) => HasQuote([body |-> b]) /\ new.quote = b.quote
<1>1. \A k \in {"asciilog", "quote"} :
        k \in DOMAIN new => k \in DOMAIN b /\ new[k] = b[k]
  BY DEF mergeMaps
<1> QED
  BY <1>1 DEF HasQuote, Decodes

LEMMA CallInv ==
  ASSUME Inv, NEW c \in Calls, Under(c), NEW a, AnswerOK(c, a), Call(c, a)
  PROVE  Inv'
<1> USE DEF Inv
<1> DEFINE new == claim'[c]
<1>1. /\ pc[c] \in {"sent", "reading"} /\ pc[c] # "idle" /\ intent[c] # None
      /\ tpm \in held[c] /\ ~Claimed(c)
  BY DEF Under, Stages, TypeOK, Claimed
<1>2. /\ pc' \in [Calls -> {"idle", "sent", "reading", "done", "panic"}]
      /\ held' \in [Calls -> SUBSET States]
      /\ UNCHANGED <<tpm, events, intent, cps>>
      /\ pc'[c] \in {"done", "panic"}
      /\ \A n \in Calls \ {c} : pc'[n] = pc[n] /\ Fixed(n)
  BY DEF Call, TypeOK, Functions, Fixed
<1>3. /\ pc'[c] = "panic" => claim'[c] = claim[c]
      /\ pc'[c] = "done" =>
           /\ ~Panics(c, a) /\ new = Claim(c, a)
           /\ Usable(c, a) => held'[c] = held[c]
  BY DEF Call, TypeOK, Functions
<1>4. \A n \in Calls : Claimed(n) => n # c /\ Fixed(n)
  BY <1>1, <1>2
<1>5. Functions'
  BY DEF Call, Functions
<1>6. Stages'
  BY <1>2, <1>3 DEF Stages, Under, Claimed, Fixed, Claim
<1>7. Nonces'
  BY <1>1, <1>2 DEF Nonces, Fixed, OwnNonce
<1> DEFINE OK(r) == r.bodytype = "tpm2/quote" =>
                      HasQuote(r) /\ r.body.quote.selection \in Seq(SUBSET Pcrs) \ {<<>>}
<1>8. ASSUME Claimed(c)'
      PROVE  new.bodytype \in {"*ERROR", intent'[c]} /\ OK(new) /\ BodyOK(claim[c].body)'
  <2>1. pc'[c] = "done" /\ ~Panics(c, a) /\ new = Claim(c, a)
    BY <1>3, <1>8 DEF Claimed
  <2>2. CASE Usable(c, a)
    <3>1. new.bodytype = intent[c] /\ new.body = a.body /\ a.kind = "ok"
      BY <2>1, <2>2 DEF Claim, Usable
    <3>2. ASSUME intent[c] = "tpm2/quote"
          PROVE  HasQuote(new) /\ new.body.quote.selection \in Seq(SUBSET Pcrs) \ {<<>>}
      <4> DEFINE b == a.body
      <4>1. "quote" \in DOMAIN b /\ IsQuote(b.quote) /\ ~Undecodable(b)
        BY <2>1, <2>2, <3>1, <3>2 DEF Usable, Panics
      <4>2. b.quote # Unparsable /\ b.quote.selection # <<>>
        BY <4>1 DEF Undecodable
      <4>3. HasQuote([body |-> b]) /\ HasQuote(new)
        BY <3>1, <4>1, <4>2 DEF HasQuote, Decodes
      <4>4. b.quote.selection \in Seq(SUBSET Pcrs)
        BY <3>1, <4>3, Zenon DEF AnswerOK
      <4> HIDE DEF new
      <4> QED
        BY <3>1, <4>2, <4>3, <4>4
    <3>3. ASSUME Made(a.body.quote) \/ MadeNow(c, a.body.quote) PROVE Made(a.body.quote)'
      <4>1. CASE Made(a.body.quote)
        BY <1>4, <4>1, MadeStays
      <4>2. CASE MadeNow(c, a.body.quote)
        BY <1>1, <1>2, <1>3, <1>8, <2>1, <2>2, <4>2 DEF MadeNow, Made, Says
      <4> QED
        BY <3>3, <4>1, <4>2
    <3>4. BodyOK(a.body)'
      BY <3>1, <3>3 DEF AnswerOK, BodyOK
    <3>5. OK(new)
      BY <3>1, <3>2
    <3>6. BodyOK(claim[c].body)'
      BY <3>1, <3>4, BodyOfClaim
    <3> QED
      BY <1>2, <3>1, <3>5, <3>6
  <2>3. CASE ~Usable(c, a)
    <3> DEFINE b == mergeMaps(a.body, [error |-> None])
    <3>1. new.bodytype = "*ERROR" /\ new.body = b
      BY <2>1, <2>3 DEF Claim
    <3>2. BodyOK(b)'
      <4> HIDE DEF b
      <4>1. /\ "asciilog" \in DOMAIN b => "asciilog" \in DOMAIN a.body /\ b.asciilog = a.body.asciilog
            /\ HasQuote([body |-> b]) => HasQuote([body |-> a.body]) /\ b.quote = a.body.quote
        BY ErrorAdded DEF b
      <4>2. Made(a.body.quote) => Made(a.body.quote)'
        BY <1>4, MadeStays
      <4>3. Made(b.quote)' = Made(a.body.quote)' \/ ~HasQuote([body |-> b])
        BY <4>1 DEF Made
      <4> QED
        BY <2>3, <4>1, <4>2, <4>3 DEF AnswerOK, BodyOK
    <3>3. BodyOK(claim[c].body)'
      <4> HIDE DEF b
      <4> QED
        BY <3>1, <3>2, BodyOfClaim
    <3> QED
      BY <3>1, <3>3
  <2> QED
    BY <2>2, <2>3
<1>9. TypeOK'
  <2>1. \A n \in Calls : intent'[n] \in {p.intent : p \in Policies[n]} \cup {None}
    BY <1>2 DEF TypeOK
  <2>2. \A n \in Calls :
          /\ pc'[n] = "idle" <=> intent'[n] = None
          /\ claim'[n] # None => Claimed(n)'
    BY <1>1, <1>2, <1>3 DEF TypeOK, Claimed, Fixed
  <2>3. \A n \in Calls : Claimed(n)' =>
          claim'[n].bodytype \in {"*ERROR", intent'[n]} /\ OK(claim'[n])
    BY <1>2, <1>8 DEF TypeOK, Claimed, Fixed
  <2> QED
    BY <1>2, <2>1, <2>2, <2>3 DEF TypeOK, HasQuote, Decodes, IsQuote
<1>10. Bodies'
  <2>1. ASSUME NEW n \in Calls, Claimed(n)' PROVE BodyOK(claim[n].body)'
    <3>1. CASE n = c
      BY <1>8, <2>1, <3>1
    <3>2. CASE n # c
      <4>1. PICK b : b = claim[n].body
        OBVIOUS
      <4>2. claim'[n].body = b /\ BodyOK(b)
        BY <1>2, <2>1, <3>2, <4>1 DEF Claimed, Fixed, Bodies
      <4>3. BodyOK(b)'
        BY <1>4, <4>2, BodyStays
      <4> QED
        BY <4>2, <4>3, BodyOfClaim
    <3> QED
      BY <3>1, <3>2
  <2> QED
    BY <2>1 DEF Bodies
<1> QED
  BY <1>5, <1>6, <1>7, <1>9, <1>10
(* The trust agent and its TPM answer what may arrive.                      *)
LEMMA QuoteOK ==
  ASSUME Inv, NEW c \in Calls, Under(c)
  PROVE  AnswerOK(c, Quote(tpm, cps[c]))
<1> DEFINE m == cps[c]
           selection == Indexes(m["pcrSelection"])
           chosen == IF m["bank"] \in Banks THEN selection ELSE {}
           q == TPMQuote(tpm, m["tpm2/akhandle"], m["tpm2/nonce"].bytes, m["bank"], selection)
<1>1. CASE Quote(tpm, m) \in {Answer("closed"), Answer("error")}
  BY <1>1 DEF AnswerOK, Answer, HasQuote, Decodes
<1>2. CASE Quote(tpm, m) \notin {Answer("closed"), Answer("error")}
  <2>1. /\ {"pcrSelection", "bank", "tpm2/nonce"} \subseteq DOMAIN m
        /\ selection \subseteq Pcrs
        /\ Quote(tpm, m) = [kind |-> "ok", body |-> [quote |-> q]]
    BY <1>2 DEF Quote
  <2>2. OwnNonce(c, m)
    BY DEF Inv, Nonces, Under
  <2>3. /\ q.extraData = m["tpm2/nonce"].bytes /\ q.selection = <<chosen>> /\ q.type = "quote"
        /\ Says(q, chosen, tpm, m["bank"])
    BY DEF TPMQuote, Says
  <2>4. chosen \in SUBSET Pcrs
    BY <2>1
  <2>5. MadeNow(c, q)
    <3> HIDE DEF selection, chosen, q, m
    <3>1. q.extraData \in Calls => q.extraData = c
      BY <2>1, <2>2, <2>3 DEF OwnNonce
    <3> QED
      BY <2>3, <2>4, <3>1 DEF MadeNow, m
  <2> DEFINE a == [kind |-> "ok", body |-> [quote |-> q]]
  <2>6. a.kind = "ok" /\ "asciilog" \notin DOMAIN a.body /\ "quote" \in DOMAIN a.body
        /\ a.body.quote = q
    OBVIOUS
  <2>7. q.selection \in Seq(SUBSET Pcrs)
    <3> HIDE DEF chosen, q
    <3> QED
      BY <2>3, <2>4
  <2> HIDE DEF q, selection, chosen, m, a
  <2>8. Usable(c, a)
    BY <2>3, <2>6 DEF Usable, IsQuote
  <2>9. AnswerOK(c, a)
    BY <2>5, <2>6, <2>7, <2>8 DEF AnswerOK
  <2> QED
    BY <2>1, <2>9 DEF a, m
<1> QED
  BY <1>1, <1>2

LEMMA LogAnswersOK ==
  ASSUME Inv, NEW c \in Calls, NEW a \in LogAnswers(tpm, intent[c], cps[c])
  PROVE  AnswerOK(c, a)
<1>1. tpm.ima \in Logs
  BY DEF Inv, TypeOK, States, Logs
<1>2. \A location : ReadFile(location, tpm.ima) \subseteq Logs
  BY <1>1, TPMAssumption DEF ReadFile
<1>3. \/ a = Answer("error")
      \/ \E f : a = [kind |-> "ok", body |-> [eventlog |-> f]]
      \/ \E f \in Logs : a = [kind |-> "ok", body |-> [asciilog |-> f]]
      \/ a = [kind |-> "ok", body |-> [unsafe |-> UnsafeMode]]
  BY <1>2 DEF LogAnswers, Eventlog, ASCIILog, Sysinfo
<1>4. "quote" \notin DOMAIN a.body
  BY <1>3 DEF Answer
<1> QED
  BY <1>3, <1>4 DEF AnswerOK, Answer, HasQuote, Decodes

LEMMA TAQuoteInv == ASSUME Inv, NEW c \in Calls, TAQuote(c) PROVE Inv'
<1>1. Under(c)
  BY DEF TAQuote, Under
<1>2. AnswerOK(c, Quote(tpm, cps[c])) /\ AnswerOK(c, Answer("error"))
  BY <1>1, QuoteOK DEF AnswerOK, Answer, HasQuote, Decodes
<1> QED
  BY <1>1, <1>2, CallInv DEF TAQuote

LEMMA TAOpenTPMInv == ASSUME Inv, NEW c \in Calls, TAOpenTPM(c) PROVE Inv'
<1>1. CASE Call(c, Answer("error"))
  <2>1. Under(c) /\ AnswerOK(c, Answer("error"))
    BY DEF TAOpenTPM, Under, AnswerOK, Answer, HasQuote, Decodes
  <2> QED
    BY <1>1, <2>1, CallInv
<1>2. CASE /\ pc' = [pc EXCEPT ![c] = "reading"]
           /\ UNCHANGED <<tpm, events, intent, cps, claim, got, held>>
  <2> USE DEF Inv
  <2>1. /\ pc' \in [Calls -> {"idle", "sent", "reading", "done", "panic"}]
        /\ pc[c] = "sent" /\ intent[c] = "tpm2/pcrs" /\ pc'[c] = "reading"
        /\ \A n \in Calls \ {c} : pc'[n] = pc[n]
    BY <1>2 DEF TAOpenTPM, TypeOK
  <2>2. \A n \in Calls : Claimed(n) => Fixed(n)
    BY <1>2, <2>1 DEF Claimed, Fixed
  <2>3. \A n \in Calls : Claimed(n)' <=> Claimed(n)
    BY <2>1 DEF Claimed
  <2>4. TypeOK'
    BY <1>2, <2>1, <2>3 DEF TypeOK
  <2>5. Functions' /\ Stages' /\ Nonces'
    BY <1>2, <2>1, <2>3 DEF Functions, Stages, Nonces, Under, OwnNonce
  <2>6. Bodies'
    BY <1>2, <2>2, <2>3, BodiesStay
  <2> QED
    BY <2>4, <2>5, <2>6
<1> QED
  BY <1>1, <1>2 DEF TAOpenTPM

LEMMA TAReadPCRInv == ASSUME Inv, NEW c \in Calls, TAReadPCR(c) PROVE Inv'
<1> USE DEF Inv
<1>1. /\ UNCHANGED <<tpm, events, pc, intent, cps, claim, held>>
      /\ \E x : got' = [got EXCEPT ![c] = x]
  BY DEF TAReadPCR
<1>2. TypeOK' /\ Functions' /\ Stages' /\ Nonces'
  BY <1>1 DEF TypeOK, Functions, Stages, Nonces, Under, OwnNonce, Claimed
<1>3. Bodies'
  BY <1>1, BodiesStay DEF Fixed, Claimed
<1> QED
  BY <1>2, <1>3

LEMMA TAPCRsInv == ASSUME Inv, NEW c \in Calls, TAPCRs(c) PROVE Inv'
<1>1. PICK x : Call(c, [kind |-> "ok", body |-> [sha256 |-> x]])
  BY DEF TAPCRs
<1>2. Under(c)
  BY DEF TAPCRs, Under
<1>3. AnswerOK(c, [kind |-> "ok", body |-> [sha256 |-> x]])
  BY DEF AnswerOK, HasQuote, Decodes
<1> QED
  BY <1>1, <1>2, <1>3, CallInv

LEMMA TALogInv == ASSUME Inv, NEW c \in Calls, TALog(c) PROVE Inv'
<1>1. PICK a \in LogAnswers(tpm, intent[c], cps[c]) : Call(c, a)
  BY DEF TALog
<1>2. Under(c)
  BY DEF TALog, Under
<1> QED
  BY <1>1, <1>2, LogAnswersOK, CallInv

LEMMA OtherAnswerInv == ASSUME Inv, NEW c \in Calls, OtherAnswer(c) PROVE Inv'
<1>1. Under(c)
  BY DEF OtherAnswer, Under
<1>2. CASE Call(c, Answer("closed"))
  <2>1. AnswerOK(c, Answer("closed"))
    BY DEF AnswerOK, Answer, HasQuote, Decodes
  <2> QED
    BY <1>1, <1>2, <2>1, CallInv
<1>3. ASSUME NEW a \in Foreign[c], Call(c, a) PROVE Inv'
  <2>1. AnswerOK(c, a)
    <3> DEFINE b == a.body
    <3>1. /\ "asciilog" \in DOMAIN b => b.asciilog \in Logs
          /\ "quote" \in DOMAIN b =>
               b.quote = Unparsable \/ ~IsQuote(b.quote)
                 \/ (b.quote.key # Key /\ b.quote.selection \in Seq(SUBSET Pcrs))
      BY CallAssumption
    <3> QED
      BY <3>1 DEF AnswerOK, HasQuote, Decodes
  <2> QED
    BY <1>1, <1>3, <2>1, CallInv
<1>4. ASSUME NEW d \in Calls, Claimed(d), HasQuote(claim[d]),
             Call(c, [kind |-> "ok", body |-> [quote |-> claim[d].body.quote]])
      PROVE  Inv'
  <2> DEFINE a == [kind |-> "ok", body |-> [quote |-> claim[d].body.quote]]
  <2>1. BodyOK(claim[d].body)
    BY <1>4 DEF Inv, Bodies
  <2>2. HasQuote([body |-> claim[d].body])
    BY <1>4 DEF HasQuote, Decodes
  <2>3. AnswerOK(c, a)
    BY <2>1, <2>2 DEF AnswerOK, BodyOK
  <2> QED
    BY <1>1, <1>4, <2>3, CallInv
<1> QED
  BY <1>2, <1>3, <1>4 DEF OtherAnswer
(* The platform goes on, or restarts.                                       *)
LEMMA RunningInv ==
  ASSUME Inv, NEW new \in States, events' \in 0..MaxEvents, Running(new)
  PROVE  Inv'
<1> USE DEF Inv
<1>1. /\ tpm' = new /\ UNCHANGED <<pc, intent, cps, claim, got>>
      /\ held' \in [Calls -> SUBSET States]
      /\ \A n \in Calls : held'[n] = IF Under(n) THEN held[n] \cup {new} ELSE held[n]
  BY DEF Running, TypeOK
<1>2. \A n \in Calls :
        /\ Claimed(n) => Fixed(n)
        /\ Claimed(n)' <=> Claimed(n)
        /\ Under(n)' <=> Under(n)
  BY <1>1 DEF Claimed, Under, Fixed
<1>3. TypeOK' /\ Functions'
  BY <1>1, <1>2 DEF TypeOK, Functions
<1>4. Stages' /\ Nonces'
  BY <1>1, <1>2 DEF Stages, Nonces, OwnNonce
<1>5. Bodies'
  BY <1>2, BodiesStay
<1> QED
  BY <1>3, <1>4, <1>5

LEMMA RestartInv == ASSUME Inv, Restart PROVE Inv'
<1> USE DEF Inv
<1>1. /\ pc' = [n \in Calls |-> IF Under(n) THEN "done" ELSE pc[n]]
      /\ claim' = [n \in Calls |-> IF Under(n) THEN Claim(n, Answer("closed")) ELSE claim[n]]
      /\ got' = [n \in Calls |-> IF Under(n) THEN <<>> ELSE got[n]]
      /\ held' = [n \in Calls |-> IF Under(n) THEN {} ELSE held[n]]
      /\ events' \in 0..MaxEvents /\ UNCHANGED <<intent, cps>>
  BY CallAssumption DEF Restart, TypeOK
<1>2. tpm' \in States
  <2>1. tpm.resets + 1 \in Nat
    BY DEF TypeOK, States
  <2>2. PICK start \in Starts : tpm' = Started(start, tpm.resets + 1)
    BY DEF Restart
  <2> QED
    BY <2>1, <2>2, StartedType
<1> DEFINE no == mergeMaps(<<>>, [error |-> None])
<1>3. \A n \in Calls : Under(n) =>
        /\ ~Claimed(n) /\ claim'[n].bodytype = "*ERROR" /\ claim'[n].body = no
        /\ claim'[n].cps = cps[n] /\ claim'[n].ak.name = Key
        /\ "body" \in DOMAIN claim'[n]
  BY <1>1 DEF Claim, Usable, Answer, Under, Claimed
<1>4. \A n \in Calls :
        /\ ~Under(n)'
        /\ Claimed(n)' <=> Claimed(n) \/ Under(n)
        /\ pc'[n] = "idle" <=> pc[n] = "idle"
        /\ ~Under(n) => Fixed(n)
  BY <1>1 DEF Claimed, Under, Fixed
<1>5. TypeOK'
  <2>1. pc' \in [Calls -> {"idle", "sent", "reading", "done", "panic"}]
    BY <1>1 DEF TypeOK
  <2>2. held' \in [Calls -> SUBSET States]
    BY <1>1 DEF TypeOK
  <2>3. ASSUME NEW n \in Calls
        PROVE  /\ intent'[n] \in {p.intent : p \in Policies[n]} \cup {None}
               /\ pc'[n] = "idle" <=> intent'[n] = None
               /\ claim'[n] # None => Claimed(n)'
    BY <1>1, <1>4 DEF TypeOK, Fixed
  <2>4. ASSUME NEW n \in Calls, Claimed(n)'
        PROVE  /\ claim'[n].bodytype \in {"*ERROR", intent'[n]}
               /\ claim'[n].bodytype = "tpm2/quote" =>
                    /\ HasQuote(claim'[n])
                    /\ claim'[n].body.quote.selection \in Seq(SUBSET Pcrs) \ {<<>>}
    BY <1>1, <1>3, <1>4, <2>4 DEF TypeOK, Fixed
  <2> QED
    BY <1>1, <1>2, <2>1, <2>2, <2>3, <2>4 DEF TypeOK, HasQuote, Decodes, IsQuote
<1>6. Functions'
  BY <1>1 DEF Functions
<1>7. Stages' /\ Nonces'
  BY <1>1, <1>3, <1>4 DEF Stages, Nonces, OwnNonce, Fixed, Claimed
<1>8. Bodies'
  <2>1. ASSUME NEW n \in Calls, Claimed(n)' PROVE BodyOK(claim[n].body)'
    <3>1. PICK b : b = claim'[n].body
      OBVIOUS
    <3>2. CASE Under(n)
      <4>1. b = no
        BY <1>3, <3>1, <3>2
      <4>2. BodyOK(no)'
        BY DEF BodyOK, HasQuote, Decodes, mergeMaps
      <4> HIDE DEF no
      <4> QED
        BY <3>1, <4>1, <4>2, BodyOfClaim
    <3>3. CASE ~Under(n)
      <4>1. BodyOK(b)
        BY <1>4, <2>1, <3>1, <3>3 DEF Fixed, Bodies
      <4>2. BodyOK(b)'
        BY <1>3, <1>4, <4>1, BodyStays
      <4> QED
        BY <3>1, <4>2, BodyOfClaim
    <3> QED
      BY <3>2, <3>3
  <2> QED
    BY <2>1 DEF Bodies
<1> QED
  BY <1>5, <1>6, <1>7, <1>8

LEMMA PlatformInv ==
  ASSUME Inv, Extend \/ IMAList \/ IMAExtend
  PROVE  Inv'
<1> USE DEF Inv
<1>1. tpm \in States /\ events \in 0..MaxEvents /\ MaxEvents \in Nat
  BY CallAssumption DEF TypeOK
<1>2. CASE Extend
  <2>1. PICK e \in Extensions : Running([tpm EXCEPT !.pcrs[e[1]] = Append(@, e[2])])
    BY <1>2 DEF Extend
  <2>2. e[1] \in Pcrs /\ e[2] \in Measurements
    BY CallAssumption
  <2>3. events' \in 0..MaxEvents
    BY <1>1, <1>2 DEF Extend
  <2> QED
    BY <1>1, <2>1, <2>2, <2>3, ExtendedType, RunningInv
<1>3. CASE IMAList
  <2>1. PICK m \in Measurements : Running([tpm EXCEPT !.ima = Append(@, m)])
    BY <1>3 DEF IMAList
  <2>2. events' \in 0..MaxEvents
    BY <1>1, <1>3 DEF IMAList
  <2> QED
    BY <1>1, <1>3, <2>1, <2>2, ExtendedType, RunningInv DEF IMAList
<1>4. CASE IMAExtend
  <2> DEFINE m == tpm.ima[Len(tpm.pcrs[10]) + 1]
  <2>1. Running([tpm EXCEPT !.pcrs[10] = Append(@, m)]) /\ 10 \in Pcrs
    BY <1>4 DEF IMAExtend
  <2>2. m \in Measurements
    BY <1>1, <1>4 DEF IMAExtend, States
  <2>3. events' \in 0..MaxEvents
    BY <1>1, <1>4 DEF IMAExtend
  <2> HIDE DEF m
  <2> QED
    BY <1>1, <2>1, <2>2, <2>3, ExtendedType, RunningInv
<1> QED
  BY <1>2, <1>3, <1>4

(* The types, what a claim and a stored nonce can be, and which quotes can  *)
(* be about the nonce of a call, hold whatever the calls and the platform   *)
(* do.                                                                     *)
THEOREM Invariance == Spec => []Inv
<1>1. Init => Inv
  BY InitInv
<1>2. Inv /\ [Next]_vars => Inv'
  <2> SUFFICES ASSUME Inv, [Next]_vars PROVE Inv'
    OBVIOUS
  <2>1. CASE UNCHANGED vars
    <3> USE DEF Inv
    <3>1. TypeOK' /\ Functions' /\ Stages' /\ Nonces'
      BY <2>1 DEF vars, TypeOK, Functions, Stages, Nonces, Under, OwnNonce, Claimed
    <3>2. Bodies'
      BY <2>1, BodiesStay DEF vars, Fixed, Claimed
    <3> QED
      BY <3>1, <3>2
  <2>2. ASSUME NEW c \in Calls,
               \/ Request(c) \/ TAQuote(c) \/ TAOpenTPM(c) \/ TAReadPCR(c) \/ TAPCRs(c)
               \/ TALog(c) \/ OtherAnswer(c)
        PROVE  Inv'
    BY <2>2, RequestInv, TAQuoteInv, TAOpenTPMInv, TAReadPCRInv, TAPCRsInv, TALogInv,
       OtherAnswerInv
  <2>3. CASE Extend \/ IMAList \/ IMAExtend
    BY <2>3, PlatformInv
  <2>4. CASE Restart
    BY <2>4, RestartInv
  <2> QED
    BY <2>1, <2>2, <2>3, <2>4 DEF Next
<1> QED
  BY <1>1, <1>2, PTL DEF Spec

(* Every variable keeps its type.                                           *)
THEOREM TypeCorrect == Spec => []TypeOK
BY Invariance, PTL DEF Inv

-----------------------------------------------------------------------------
(***************************************************************************)
(* What the rules say of quotes.                                           *)
(***************************************************************************)
(* A quote that the rules on signature and nonce accept says what the TPM  *)
(* was at a moment of the very call that claims it.                        *)
LEMMA GenuineMade ==
  ASSUME Inv, NEW c \in Calls, Genuine(c)
  PROVE  /\ HasQuote(claim[c]) /\ claim[c].body.quote.key = Key
         /\ \E S \in SUBSET Pcrs, s \in held[c] :
              /\ Says(claim[c].body.quote, S, s, cps[c]["bank"])
              /\ S \in SUBSET Nat /\ IsFiniteSet(S) /\ Selected(c) = S
<1> DEFINE b == claim[c].body
           q == b.quote
<1>1. Claimed(c) /\ HasQuote(claim[c]) /\ HasQuote([body |-> b])
  BY DEF Genuine, Quoted, Inv, TypeOK, HasQuote, Decodes
<1>2. BodyOK(b) /\ OwnNonce(c, cps[c]) /\ claim[c].cps = cps[c] /\ claim[c].ak.name = Key
  BY <1>1 DEF Inv, Bodies, Nonces, Stages, Claimed
<1>3. q.key = Key
  BY <1>1, <1>2 DEF Genuine, ValidSignature, VerifySignature, ParseTPMKey
<1>4. q.extraData = c
  BY <1>1, <1>2 DEF Genuine, ValidNonce, OwnNonce
<1>5. Made(q)
  BY <1>1, <1>2, <1>3 DEF BodyOK
<1>6. PICK S \in SUBSET Pcrs, s \in held[c] : Says(q, S, s, cps[c]["bank"])
  BY <1>4, <1>5 DEF Made
<1>7. S \in SUBSET Nat /\ IsFiniteSet(S)
  BY PcrsFinite
<1>8. Selected(c) = S
  BY <1>6 DEF Selected, Says, ToSet
<1> QED
  BY <1>1, <1>3, <1>6, <1>7, <1>8

(* A digest over no PCRs is the same of every bank.                         *)
LEMMA DigestOfNothing ==
  ASSUME NEW h, NEW v, NEW w
  PROVE  Digest(h, v, Ascending({})) = Digest(h, w, Ascending({}))
<1>1. IsFiniteSet({}) /\ {} \in SUBSET Nat /\ \A i \in {} : Single(v, i) /\ Single(w, i)
  BY FS_EmptySet
<1> QED
  BY <1>1, DigestIsOfSelection

(* A quote that all rules accept says that the TPM was at a moment of the   *)
(* call as the expected values want it.                                    *)
THEOREM AttestationIsSoundHolds == Spec => []AttestationIsSound
<1>1. Inv => AttestationIsSound
  <2> SUFFICES ASSUME Inv, NEW c \in Calls, Genuine(c), IsSafe(claim[c]) = "Success",
                      NEW evs \in ExpectedValues,
                      checkPCRSelection(claim[c], evs) = "Success",
                      AttestedPCRDigest(claim[c], evs) = "Success",
                      FirmwareRule(claim[c], evs) = "Success"
               PROVE  \E s \in held[c], b \in Banks, selection \in SUBSET Pcrs :
                        /\ s.safe /\ s.firmware = evs.firmwareVersion
                        /\ ToSet(evs.pcrselection) \subseteq selection
                        /\ Cardinality(selection) = Len(evs.pcrselection)
                        /\ evs.attestedValue =
                             Hex(Digest(Scheme[Key].hash, Bank(s, b), Ascending(selection)))
    BY DEF AttestationIsSound
  <2> DEFINE q == claim[c].body.quote
             b == cps[c]["bank"]
             h == Scheme[Key].hash
  <2>1. HasQuote(claim[c]) /\ q.key = Key
    BY GenuineMade
  <2>2. PICK S \in SUBSET Pcrs, s \in held[c] :
          Says(q, S, s, b) /\ S \in SUBSET Nat /\ IsFiniteSet(S)
    BY GenuineMade
  <2>3. ToSet(evs.pcrselection) \subseteq S /\ Len(evs.pcrselection) = Cardinality(S)
    <3>1. q.selection = <<S>>
      BY <2>2 DEF Says
    <3> QED
      BY <2>2, <3>1, SelectionChecked
  <2>4. q.safe /\ evs.firmwareVersion = q.firmware /\ evs.attestedValue = Hex(q.digest)
    BY <2>1 DEF IsSafe, FirmwareRule, AttestedPCRDigest
  <2>5. s.safe /\ s.firmware = q.firmware /\ q.digest = Digest(h, Bank(s, b), Ascending(S))
    BY <2>1, <2>2, <2>4 DEF Says
  <2>6. PICK x \in Banks : q.digest = Digest(h, Bank(s, x), Ascending(S))
    <3>1. CASE b \in Banks
      BY <2>5, <3>1
    <3>2. CASE b \notin Banks
      <4>1. S = {} /\ "sha256" \in Banks
        BY <2>2, <3>2, TPMAssumption DEF Says
      <4>2. q.digest = Digest(h, Bank(s, "sha256"), Ascending(S))
        <5> HIDE DEF q, b, h
        <5> QED
          BY <2>5, <4>1, DigestOfNothing
      <4> QED
        BY <4>1, <4>2
    <3> QED
      BY <3>1, <3>2
  <2> HIDE DEF q, b
  <2> QED
    BY <2>3, <2>4, <2>5, <2>6
<1> QED
  BY <1>1, Invariance, PTL

(* A value of the TPM is one digest.                                        *)
LEMMA BankIsSingle ==
  ASSUME NEW s, NEW b, NEW i \in Pcrs
  PROVE  Single(Bank(s, b), i)
BY DEF Single, Bank, Chain

(* The PCRs of a claim that a genuine quote vouches for were in the TPM's   *)
(* bank all at once.                                                       *)
LEMMA VouchedPCRs ==
  ASSUME Inv, NEW c \in Calls, NEW d \in Calls, Vouched(c, d)
  PROVE  /\ Selected(c) \in SUBSET Pcrs
         /\ \E s \in held[c] : \A i \in Selected(c) :
              claim[d].body.sha256[i] = Bank(s, cps[c]["bank"])[i]
<1> DEFINE q == claim[c].body.quote
           b == cps[c]["bank"]
           pcrs == claim[d].body.sha256
<1>1. Genuine(c) /\ SameDigest(pcrs, q)
  <2>1. checkQuoteDigest256(claim[c], claim[d]) = "Success" /\ Genuine(c)
    BY DEF Vouched
  <2> QED
    BY <2>1, Zenon DEF checkQuoteDigest256
<1>2. PICK S \in SUBSET Pcrs, s \in held[c] :
        Says(q, S, s, b) /\ S \in SUBSET Nat /\ IsFiniteSet(S) /\ Selected(c) = S
  BY <1>1, GenuineMade
<1> DEFINE v == Bank(s, b)
           g == Scheme[q.key].hash
<1>3. Digest("sha256", pcrs, Ascending(S)) = Digest(g, v, Ascending(S))
  <2>1. q.selection = <<S>> /\ q.digest = Digest(g, v, Ascending(S))
    BY <1>2 DEF Says
  <2> HIDE DEF q, pcrs, v, g
  <2> QED
    BY <1>1, <1>2, <2>1, SingleSelection DEF SameDigest
<1>4. \A i \in S : Single(pcrs, i) /\ Single(v, i)
  <2>1. \A i \in S : IsDigest(pcrs[i])
    BY <1>2 DEF Vouched
  <2>2. \A i \in S : Single(pcrs, i)
    BY <2>1 DEF IsDigest, Single
  <2> QED
    BY <2>2, BankIsSingle
<1> HIDE DEF q, pcrs, v, g
<1>5. \A i \in S : pcrs[i] = v[i]
  <2>1. S \in SUBSET Nat /\ IsFiniteSet(S)
    BY <1>2
  <2>2. Digest("sha256", pcrs, Ascending(S)) = Digest(g, v, Ascending(S)) <=>
          "sha256" = g /\ \A i \in S : pcrs[i] = v[i]
    BY <2>1, <1>4, DigestIsOfSelection
  <2> QED
    BY <2>2, <1>3
<1> QED
  BY <1>2, <1>5 DEF pcrs, v

(* What rule quoteDigest256 accepts were the PCRs of one moment.            *)
THEOREM PCRsClaimMatchesQuoteHolds == Spec => []PCRsClaimMatchesQuote
<1>1. Inv => PCRsClaimMatchesQuote
  BY VouchedPCRs DEF PCRsClaimMatchesQuote
<1> QED
  BY <1>1, Invariance, PTL

-----------------------------------------------------------------------------
(***************************************************************************)
(* What the Keylime rules say of logs.                                     *)
(***************************************************************************)
(* A PCR that such a claim has with bank sha256 was the TPM's.              *)
LEMMA VouchedChain ==
  ASSUME NEW s, NEW b, NEW i \in Pcrs, NEW x, Bank(s, b)[i] = Chain("sha256", x)
  PROVE  s.pcrs[i] = x /\ Read(s, i) = Chain("sha256", x)
BY DEF Bank, Read, Chain

(* A list that keylime_ima accepts, with PCRs that are vouched for, proves  *)
(* that nothing else is in PCR 10 than the policy allows.                  *)
THEOREM IMAIsSoundHolds == Spec => []IMAIsSound
<1>1. Inv => IMAIsSound
  <2> SUFFICES ASSUME Inv, NEW q \in Calls, Quoted(q), NEW d \in Calls, Vouched(q, d),
                      NEW c \in Calls, Claimed(c), NEW policy \in RuntimePolicies,
                      10 \in Selected(q),
                      ValidateIMA(claim[c], [runtime_policy |-> policy], RuleParameters(d),
                                  claim[d], TRUE) = "Success"
               PROVE  \E s \in held[q] : ToSet(s.pcrs[10]) \subseteq policy
    BY DEF IMAIsSound
  <2> DEFINE list == claim[c].body.asciilog
  <2>1. /\ "asciilog" \in DOMAIN claim[c].body /\ list # Unparsable
        /\ Explains(list, "sha256", claim[d].body.sha256[10]) /\ ToSet(list) \subseteq policy
    BY DEF ValidateIMA, Prepared, IMAResponse, RuleParameters
  <2>2. list \in Seq(Measurements \cup (Pcrs \X Measurements))
    BY <2>1 DEF Inv, Bodies, BodyOK, Logs
  <2>3. PICK s \in held[q] : claim[d].body.sha256[10] = Bank(s, cps[q]["bank"])[10]
    BY VouchedPCRs
  <2>4. PICK k \in 0..Len(list) : claim[d].body.sha256[10] = Chain("sha256", SubSeq(list, 1, k))
    BY <2>1 DEF Explains
  <2>5. 10 \in Pcrs
    BY VouchedPCRs
  <2>6. s.pcrs[10] = SubSeq(list, 1, k)
    <3>1. Bank(s, cps[q]["bank"])[10] = Chain("sha256", SubSeq(list, 1, k))
      BY <2>3, <2>4, Zenon
    <3> DEFINE i == 10
               x == SubSeq(list, 1, k)
    <3>2. i \in Pcrs /\ Bank(s, cps[q]["bank"])[i] = Chain("sha256", x)
      BY <2>5, <3>1
    <3> HIDE DEF i, x
    <3>3. s.pcrs[i] = x
      BY <3>2, VouchedChain
    <3> QED
      BY <3>3 DEF i, x
  <2>7. ToSet(SubSeq(list, 1, k)) \subseteq ToSet(list)
    BY <2>2 DEF ToSet
  <2> QED
    BY <2>1, <2>6, <2>7
<1> QED
  BY <1>1, Invariance, PTL

(* An event log that keylime_mb accepts, with PCRs that are vouched for, is *)
(* of the reference state and says what was in the TPM.                    *)
THEOREM MeasuredBootIsSoundHolds == Spec => []MeasuredBootIsSound
<1>1. Inv => MeasuredBootIsSound
  <2> SUFFICES ASSUME Inv, NEW q \in Calls, Quoted(q), NEW d \in Calls, Vouched(q, d),
                      NEW c \in Calls, Claimed(c), NEW refstate \in RefStates,
                      ValidateMB(claim[c], [mb_refstate |-> refstate], RuleParameters(d),
                                 claim[d], TRUE) = "Success"
               PROVE  \E s \in held[q], log \in refstate :
                        \A i \in Selected(q) \ {0} :
                          i \in DOMAIN Replay("sha256", log) =>
                            Read(s, i) = Replay("sha256", log)[i]
    BY DEF MeasuredBootIsSound
  <2> DEFINE log == claim[c].body.eventlog
             pcrs == claim[d].body.sha256
             S == Selected(q)
  <2>1. log \in refstate /\ SamePCRs(MBResponse(log, "sha256", refstate).hashes, pcrs)
    BY DEF ValidateMB, Prepared, MBResponse, RuleParameters
  <2>2. MBResponse(log, "sha256", refstate).hashes = Replay("sha256", log)
    BY <2>1, RefStatesAssumption DEF MBResponse
  <2>3. PICK s \in held[q] : \A i \in S : pcrs[i] = Bank(s, cps[q]["bank"])[i]
    BY VouchedPCRs
  <2>4. ASSUME NEW i \in S \ {0}, i \in DOMAIN Replay("sha256", log)
        PROVE  Read(s, i) = Replay("sha256", log)[i]
    <3>1. pcrs[i] = Replay("sha256", log)[i]
      BY <2>1, <2>2, <2>4 DEF SamePCRs
    <3>2. Replay("sha256", log)[i] = Chain("sha256", MeasuredInto(i, log))
      BY <2>4 DEF Replay
    <3>3. i \in Pcrs
      BY VouchedPCRs
    <3> QED
      BY <2>3, <3>1, <3>2, <3>3, VouchedChain
  <2> QED
    BY <2>1, <2>4
<1> QED
  BY <1>1, Invariance, PTL

-----------------------------------------------------------------------------
(***************************************************************************)
(* PCRs that the trust agent reads one by one.                             *)
(***************************************************************************)
Values == {Chain("sha256", x) : x \in Seq(Measurements \cup Firmware)}

(* What has been read of the PCRs was read in states the TPM had meanwhile, *)
(* and so is what a claim has of them, if the trust agent answered.        *)
Reads(c) ==
  /\ pc[c] # "reading" => got[c] = <<>>
  /\ got[c] \in Seq(Pcrs \X (Values \cup {None}))
  /\ \A k \in DOMAIN got[c] :
       got[c][k][2] # None => \E s \in held[c] : got[c][k][2] = Read(s, got[c][k][1])

ReadsClaimed(c) ==
  /\ PCRsClaimed(c) /\ claim[c].bodytype = "tpm2/pcrs"
  /\ \A e \in Calls : claim[c].body \notin {a.body : a \in Foreign[e]}
  =>
    \A i \in DOMAIN claim[c].body.sha256 :
      \E s \in held[c] : claim[c].body.sha256[i] = Read(s, i)

ReadInv == \A c \in Calls : Reads(c) /\ ReadsClaimed(c)

(* Nothing happens in a call, but that the platform may go on.              *)
Idles(n) ==
  /\ pc'[n] = pc[n] /\ intent'[n] = intent[n] /\ claim'[n] = claim[n] /\ got'[n] = got[n]
  /\ held[n] \subseteq held'[n]

LEMMA ReadStays ==
  ASSUME NEW n \in Calls, Reads(n), ReadsClaimed(n), Idles(n)
  PROVE  Reads(n)' /\ ReadsClaimed(n)'
<1>1. Reads(n)'
  BY DEF Reads, Idles
<1>2. ReadsClaimed(n)'
  BY DEF ReadsClaimed, Idles, PCRsClaimed, Claimed
<1> QED
  BY <1>1, <1>2

LEMMA CallRead ==
  ASSUME Inv, ReadInv, NEW c \in Calls, Under(c), NEW a, Call(c, a),
         /\ intent[c] = "tpm2/pcrs" /\ a.kind = "ok" /\ "sha256" \in DOMAIN a.body
         /\ \A e \in Calls : a.body \notin {x.body : x \in Foreign[e]}
         => \A i \in DOMAIN a.body.sha256 :
              \E s \in held[c] : a.body.sha256[i] = Read(s, i)
  PROVE  ReadInv'
<1> USE DEF Inv
<1>1. /\ pc'[c] \in {"done", "panic"}
      /\ pc'[c] = "done" =>
           /\ claim'[c] = Claim(c, a)
           /\ Usable(c, a) => held'[c] = held[c]
      /\ intent' = intent /\ got'[c] = <<>>
      /\ \A n \in Calls \ {c} : Idles(n)
  BY DEF Call, TypeOK, Functions, Idles
<1>2. Reads(c)'
  BY <1>1 DEF Reads
<1>3. ReadsClaimed(c)'
  <2> SUFFICES ASSUME PCRsClaimed(c)', claim'[c].bodytype = "tpm2/pcrs",
                      \A e \in Calls : claim'[c].body \notin {x.body : x \in Foreign[e]},
                      NEW i \in DOMAIN claim'[c].body.sha256
               PROVE  \E s \in held'[c] : claim'[c].body.sha256[i] = Read(s, i)
    BY DEF ReadsClaimed
  <2>1. pc'[c] = "done" /\ claim'[c] = Claim(c, a) /\ intent[c] = "tpm2/pcrs"
        /\ "sha256" \in DOMAIN claim'[c].body
    BY <1>1 DEF PCRsClaimed, Claimed
  <2>2. Usable(c, a)
    <3>1. ~Usable(c, a) => claim'[c].bodytype = "*ERROR"
      BY <2>1 DEF Claim
    <3> QED
      BY <3>1
  <2>3. claim'[c].body = a.body /\ a.kind = "ok" /\ held'[c] = held[c]
    BY <1>1, <2>1, <2>2 DEF Claim, Usable
  <2> QED
    BY <2>1, <2>3
<1>4. \A n \in Calls \ {c} : Reads(n)' /\ ReadsClaimed(n)'
  BY <1>1, ReadStays DEF ReadInv
<1> QED
  BY <1>2, <1>3, <1>4 DEF ReadInv

LEMMA TAReadPCRRead == ASSUME Inv, ReadInv, NEW c \in Calls, TAReadPCR(c) PROVE ReadInv'
<1> USE DEF Inv
<1> DEFINE i == Ascending(Pcrs)[Len(got[c]) + 1]
<1>1. PICK v \in {Read(tpm, i), None} : got' = [got EXCEPT ![c] = Append(@, <<i, v>>)]
  BY DEF TAReadPCR
<1>2. /\ pc[c] = "reading" /\ Len(got[c]) < Cardinality(Pcrs) /\ tpm \in held[c]
      /\ UNCHANGED <<tpm, events, pc, intent, cps, claim, held>>
      /\ got[c] \in Seq(Pcrs \X (Values \cup {None}))
  BY DEF TAReadPCR, Stages, Under, ReadInv, Reads
<1>3. i \in Pcrs
  <2>1. Pcrs \in SUBSET Nat /\ IsFiniteSet(Pcrs)
    BY PcrsFinite
  <2>2. Cardinality(Pcrs) \in Nat /\ Ascending(Pcrs) \in [1..Cardinality(Pcrs) -> Pcrs]
    BY <2>1, AscendingLists
  <2> QED
    BY <1>2, <2>2
<1>4. Read(tpm, i) \in Values
  BY <1>3 DEF Read, Bank, Values, TypeOK, States
<1>5. got'[c] = Append(got[c], <<i, v>>) /\ \A n \in Calls \ {c} : Idles(n)
  BY <1>1, <1>2 DEF Functions, Idles
<1>6. Reads(c)'
  <2> HIDE DEF i
  <2>1. got'[c] \in Seq(Pcrs \X (Values \cup {None}))
    BY <1>1, <1>2, <1>3, <1>4, <1>5
  <2>2. ASSUME NEW k \in DOMAIN got'[c], got'[c][k][2] # None
        PROVE  \E s \in held'[c] : got'[c][k][2] = Read(s, got'[c][k][1])
    <3>1. CASE k \in DOMAIN got[c]
      BY <1>2, <1>5, <2>2, <3>1 DEF ReadInv, Reads
    <3>2. CASE k \notin DOMAIN got[c]
      <4>1. got'[c][k] = <<i, v>>
        BY <1>2, <1>5, <3>2
      <4> QED
        BY <1>1, <1>2, <2>2, <4>1
    <3> QED
      BY <3>1, <3>2
  <2> QED
    BY <1>2, <2>1, <2>2 DEF Reads
<1>7. ReadsClaimed(c)'
  BY <1>2 DEF ReadsClaimed, PCRsClaimed, Claimed
<1>8. \A n \in Calls \ {c} : Reads(n)' /\ ReadsClaimed(n)'
  BY <1>5, ReadStays DEF ReadInv
<1> QED
  BY <1>6, <1>7, <1>8 DEF ReadInv

LEMMA TAPCRsRead == ASSUME Inv, ReadInv, NEW c \in Calls, TAPCRs(c) PROVE ReadInv'
<1> DEFINE bank == {r \in ToSet(got[c]) : r[2] # None}
           pcrs == [i \in {r[1] : r \in bank} |-> (CHOOSE r \in bank : r[1] = i)[2]]
<1>1. pc[c] = "reading" /\ Call(c, [kind |-> "ok", body |-> [sha256 |-> pcrs]])
  BY DEF TAPCRs
<1>2. ASSUME NEW i \in DOMAIN pcrs PROVE \E s \in held[c] : pcrs[i] = Read(s, i)
  <2>1. PICK r \in bank : r[1] = i /\ pcrs[i] = r[2]
    OBVIOUS
  <2>2. PICK k \in DOMAIN got[c] : r = got[c][k]
    BY DEF ToSet
  <2> QED
    BY <1>1, <2>1, <2>2 DEF ReadInv, Reads
<1> HIDE DEF pcrs
<1> QED
  BY <1>1, <1>2, CallRead DEF Under

LEMMA OtherAnswerRead ==
  ASSUME Inv, ReadInv, NEW c \in Calls, OtherAnswer(c)
  PROVE  ReadInv'
<1>1. Under(c)
  BY DEF OtherAnswer, Under
<1>2. CASE Call(c, Answer("closed"))
  <2>1. Answer("closed").kind # "ok"
    BY DEF Answer
  <2> QED
    BY <1>1, <1>2, <2>1, CallRead
<1>3. ASSUME NEW a \in Foreign[c], Call(c, a) PROVE ReadInv'
  BY <1>1, <1>3, CallRead
<1>4. ASSUME NEW d \in Calls, Call(c, [kind |-> "ok", body |-> [quote |-> claim[d].body.quote]])
      PROVE  ReadInv'
  <2> DEFINE a == [kind |-> "ok", body |-> [quote |-> claim[d].body.quote]]
  <2>1. "sha256" \notin DOMAIN a.body
    OBVIOUS
  <2> HIDE DEF a
  <2> QED
    BY <1>1, <1>4, <2>1, CallRead DEF a
<1> QED
  BY <1>2, <1>3, <1>4 DEF OtherAnswer

(* What the trust agent has read so far for a claim of PCRs was in the      *)
(* registers at moments of that call (ta10/tpm2/endpointstpm2.go:84).       *)
THEOREM ReadInvariance == Spec => []ReadInv
<1>1. Init => ReadInv
  BY DEF Init, ReadInv, Reads, ReadsClaimed, PCRsClaimed, Claimed
<1>2. Inv /\ ReadInv /\ [Next]_vars => ReadInv'
  <2> SUFFICES ASSUME Inv, ReadInv, [Next]_vars PROVE ReadInv'
    OBVIOUS
  <2> USE DEF Inv
  <2>1. ASSUME \A n \in Calls : Idles(n) PROVE ReadInv'
    BY <2>1, ReadStays DEF ReadInv
  <2>2. CASE UNCHANGED vars
    BY <2>1, <2>2 DEF vars, Idles
  <2>3. ASSUME NEW c \in Calls, Request(c) PROVE ReadInv'
    <3>1. /\ pc[c] = "idle" /\ pc'[c] = "sent" /\ got'[c] = got[c]
          /\ \A n \in Calls \ {c} : Idles(n)
      BY <2>3 DEF Request, Send, TypeOK, Functions, Idles
    <3>2. Reads(c)' /\ ReadsClaimed(c)'
      BY <3>1 DEF ReadInv, Reads, ReadsClaimed, PCRsClaimed, Claimed
    <3> QED
      BY <3>1, <3>2, ReadStays DEF ReadInv
  <2>4. ASSUME NEW c \in Calls, TAQuote(c) PROVE ReadInv'
    <3>1. PICK a : Call(c, a)
      BY <2>4 DEF TAQuote
    <3>2. Under(c) /\ intent[c] # "tpm2/pcrs"
      BY <2>4 DEF TAQuote, Under
    <3> QED
      BY <3>1, <3>2, CallRead
  <2>5. ASSUME NEW c \in Calls, TAOpenTPM(c) PROVE ReadInv'
    <3>1. pc[c] = "sent" /\ Under(c) /\ Answer("error").kind # "ok"
      BY <2>5 DEF TAOpenTPM, Under, Answer
    <3>2. CASE Call(c, Answer("error"))
      BY <3>1, <3>2, CallRead
    <3>3. CASE /\ pc' = [pc EXCEPT ![c] = "reading"]
               /\ UNCHANGED <<tpm, events, intent, cps, claim, got, held>>
      <4>1. pc'[c] = "reading" /\ \A n \in Calls \ {c} : Idles(n)
        BY <3>3 DEF TypeOK, Idles
      <4>2. got'[c] = <<>>
        BY <3>1, <3>3 DEF ReadInv, Reads
      <4>3. Reads(c)' /\ ReadsClaimed(c)'
        BY <4>1, <4>2 DEF Reads, ReadsClaimed, PCRsClaimed, Claimed
      <4> QED
        BY <4>1, <4>3, ReadStays DEF ReadInv
    <3> QED
      BY <2>5, <3>2, <3>3 DEF TAOpenTPM
  <2>6. ASSUME NEW c \in Calls, TALog(c) PROVE ReadInv'
    <3>1. PICK a : Call(c, a)
      BY <2>6 DEF TALog
    <3>2. Under(c) /\ intent[c] # "tpm2/pcrs"
      BY <2>6 DEF TALog, Under
    <3> QED
      BY <3>1, <3>2, CallRead
  <2>7. CASE Extend \/ IMAList \/ IMAExtend
    <3>1. PICK new : Running(new)
      BY <2>7 DEF Extend, IMAList, IMAExtend
    <3> QED
      BY <2>1, <3>1 DEF Running, Idles
  <2>8. CASE Restart
    <3>1. ASSUME NEW n \in Calls PROVE Reads(n)' /\ ReadsClaimed(n)'
      <4>1. CASE Under(n)
        <5>1. pc'[n] = "done" /\ got'[n] = <<>> /\ claim'[n].bodytype = "*ERROR"
          BY <2>8, <4>1 DEF Restart, Claim, Usable, Answer
        <5> QED
          BY <5>1 DEF Reads, ReadsClaimed, PCRsClaimed
      <4>2. CASE ~Under(n)
        <5>1. Idles(n)
          BY <2>8, <4>2 DEF Restart, Idles
        <5> QED
          BY <5>1, ReadStays DEF ReadInv
      <4> QED
        BY <4>1, <4>2
    <3> QED
      BY <3>1 DEF ReadInv
  <2> QED
    BY <2>2, <2>3, <2>4, <2>5, <2>6, <2>7, <2>8, TAReadPCRRead, TAPCRsRead, OtherAnswerRead
       DEF Next
<1> QED
  BY <1>1, <1>2, Invariance, PTL DEF Spec

(* PCRs that were all read, while the TPM was in the state that a genuine   *)
(* quote is of, agree with it.                                             *)
THEOREM NoFalseAlarmHolds == Spec => []NoFalseAlarm
<1>1. Inv /\ ReadInv => NoFalseAlarm
  <2> SUFFICES ASSUME Inv, ReadInv, NEW c \in Calls, NEW d \in Calls,
                      Genuine(c), cps[c]["bank"] = "sha256", Scheme[Key].hash = "sha256",
                      PCRsClaimed(d), claim[d].bodytype = "tpm2/pcrs",
                      DOMAIN claim[d].body.sha256 = Pcrs,
                      \A e \in Calls : claim[d].body \notin {a.body : a \in Foreign[e]},
                      NEW s \in held[c], held[c] = {s}, held[d] = {s}
               PROVE  checkQuoteDigest256(claim[c], claim[d]) = "Success"
    BY DEF NoFalseAlarm
  <2> DEFINE q == claim[c].body.quote
             pcrs == claim[d].body.sha256
             v == Bank(s, "sha256")
  <2>1. PICK S \in SUBSET Pcrs :
          Says(q, S, s, "sha256") /\ S \in SUBSET Nat /\ IsFiniteSet(S)
    BY GenuineMade
  <2>2. \A i \in S : i \in Pcrs /\ pcrs[i] = v[i]
    BY <2>1 DEF ReadInv, ReadsClaimed, Read
  <2>3. Digest("sha256", pcrs, Ascending(S)) = Digest("sha256", v, Ascending(S))
    <3>1. \A i \in S : Single(v, i) /\ Single(pcrs, i)
      BY <2>2, BankIsSingle DEF Single
    <3> HIDE DEF pcrs, v
    <3> QED
      BY <2>1, <2>2, <3>1, DigestIsOfSelection
  <2>5. HasQuote(claim[c]) /\ q.key = Key
    BY GenuineMade
  <2>6. q.digest = Digest("sha256", v, Ascending(S)) /\ TPMSPCRSelectionToList(q.selection) = Ascending(S)
    <3>1. q.selection = <<S>> /\ q.digest = Digest("sha256", v, Ascending(S))
      BY <2>1, <2>5 DEF Says
    <3> QED
      BY <2>1, <3>1, SingleSelection
  <2>7. \A k \in DOMAIN Ascending(S) :
          Ascending(S)[k] \in DOMAIN pcrs /\ pcrs[Ascending(S)[k]] # Unparsable
    <3>1. \A k \in DOMAIN Ascending(S) : Ascending(S)[k] \in S
      BY <2>1, AscendingLists
    <3>2. \A i \in S : v[i] = Chain("sha256", s.pcrs[i])
      BY DEF Bank
    <3>3. \A i \in Pcrs : Chain("sha256", s.pcrs[i]) # Unparsable
      <4>1. s \in States
        BY DEF Inv, TypeOK
      <4>2. \A i \in Pcrs : s.pcrs[i] \in Seq(Measurements \cup Firmware)
        BY <4>1 DEF States
      <4>3. \A i \in Pcrs :
              Chain("sha256", s.pcrs[i]) \in Seq(Banks \X Seq(Measurements \cup Firmware))
        BY <4>2, TPMAssumption DEF Chain
      <4> QED
        BY <4>3, TPMAssumption
    <3> HIDE DEF v, pcrs
    <3> QED
      BY <2>2, <3>1, <3>2, <3>3 DEF pcrs
  <2>4. claim[d] # NotFound /\ "sha256" \in DOMAIN claim[d].body
    <3>1. "body" \in DOMAIN claim[d] /\ "body" \notin DOMAIN NotFound
      BY DEF Inv, Stages, PCRsClaimed, NotFound
    <3> QED
      BY <3>1 DEF PCRsClaimed
  <2>8. SameDigest(pcrs, q)
    BY <2>3, <2>6 DEF SameDigest
  <2> HIDE DEF v
  <2> QED
    BY <2>4, <2>5, <2>6, <2>7, <2>8 DEF checkQuoteDigest256
<1> QED
  BY <1>1, Invariance, ReadInvariance, PTL

-----------------------------------------------------------------------------
(***************************************************************************)
(* The list of IMA and PCR 10.                                             *)
(***************************************************************************)
Prefix(x, y) == Len(x) <= Len(y) /\ \A k \in 1..Len(x) : x[k] = y[k]

(* PCR 10 may be some way behind the list.                                  *)
Behind(s) == Prefix(s.pcrs[10], s.ima)

(* The states that calls recorded, and the present one.                     *)
Recorded == {tpm} \cup UNION {held[c] : c \in Calls}

(* While only IMA extends PCR 10, the lists of one boot continue each other. *)
History ==
  PCR10IsOfIMA =>
    /\ \A s \in Recorded :
         /\ Behind(s)
         /\ s.resets <= tpm.resets
         /\ s.resets = tpm.resets => Prefix(s.ima, tpm.ima)
    /\ \A s, t \in Recorded :
         s.resets = t.resets /\ Len(s.ima) <= Len(t.ima) => Prefix(s.ima, t.ima)

LEMMA PrefixFacts ==
  ASSUME NEW S, NEW x \in Seq(S), NEW y \in Seq(S)
  PROVE  /\ Prefix(x, x)
         /\ \A z \in Seq(S) : Prefix(x, y) /\ Prefix(y, z) => Prefix(x, z)
         /\ Prefix(x, y) /\ Len(y) <= Len(x) => Prefix(y, x)
         /\ \A e \in S : Prefix(x, Append(x, e))
         /\ Prefix(x, y) => x = SubSeq(y, 1, Len(x)) /\ Len(x) \in 0..Len(y)
BY DEF Prefix

(* A new state follows those that are recorded.                             *)
LEMMA HistoryGrows ==
  ASSUME Inv, History, PCR10IsOfIMA, NEW new \in States, tpm' = new,
         Recorded' \subseteq Recorded \cup {new}, Behind(new),
         \A s \in Recorded :
           s.resets <= new.resets /\ (s.resets = new.resets => Prefix(s.ima, new.ima))
  PROVE  History'
<1>1. \A s \in Recorded : s \in States
  BY DEF Inv, TypeOK, Recorded
<1>2. Prefix(new.ima, new.ima)
  BY PrefixFacts DEF States
<1>3. ASSUME NEW t \in Recorded, t.resets = new.resets, Len(new.ima) <= Len(t.ima)
      PROVE  Prefix(new.ima, t.ima)
  <2>1. t.ima \in Seq(Measurements) /\ new.ima \in Seq(Measurements) /\ Prefix(t.ima, new.ima)
    BY <1>1, <1>3 DEF States
  <2> QED
    BY <1>3, <2>1, PrefixFacts
<1>4. \A s \in Recorded' : /\ Behind(s)
                           /\ s.resets <= new.resets
                           /\ s.resets = new.resets => Prefix(s.ima, new.ima)
  <2>1. new.resets <= new.resets
    BY DEF States
  <2> QED
    BY <1>2, <2>1 DEF History
<1>5. ASSUME NEW s \in Recorded', NEW t \in Recorded', s.resets = t.resets, Len(s.ima) <= Len(t.ima)
      PROVE  Prefix(s.ima, t.ima)
  <2>1. CASE s \in Recorded /\ t \in Recorded
    BY <1>5, <2>1 DEF History
  <2>2. CASE t = new
    BY <1>4, <1>5, <2>2
  <2>3. CASE s = new /\ t \in Recorded
    BY <1>3, <1>5, <2>3
  <2> QED
    BY <2>1, <2>2, <2>3
<1> QED
  BY <1>4, <1>5 DEF History, Behind, Prefix, PCR10IsOfIMA

(* Nothing happens to the platform.                                         *)
LEMMA HistoryStays ==
  ASSUME Inv, History, PCR10IsOfIMA, tpm' = tpm, Recorded' \subseteq Recorded
  PROVE  History'
<1>1. tpm \in States /\ tpm \in Recorded
  BY DEF Inv, TypeOK, Recorded
<1> QED
  BY <1>1, HistoryGrows DEF History

LEMMA HistoryRuns ==
  ASSUME Inv, History, PCR10IsOfIMA, Extend \/ IMAList \/ IMAExtend
  PROVE  History'
<1>1. /\ tpm \in States /\ tpm \in Recorded /\ Behind(tpm)
      /\ \A s \in Recorded :
           /\ s \in States
           /\ s.resets <= tpm.resets
           /\ s.resets = tpm.resets => Prefix(s.ima, tpm.ima)
  BY DEF Inv, TypeOK, Recorded, History
<1>2. 10 \in Pcrs /\ tpm.ima \in Seq(Measurements)
      /\ tpm.pcrs[10] \in Seq(Measurements \cup Firmware)
  BY <1>1 DEF PCR10IsOfIMA, States
<1>3. ASSUME NEW new, Running(new) PROVE tpm' = new /\ Recorded' \subseteq Recorded \cup {new}
  BY <1>3 DEF Running, Recorded
<1>4. CASE Extend
  <2>1. PICK e \in Extensions : Running([tpm EXCEPT !.pcrs[e[1]] = Append(@, e[2])])
    BY <1>4 DEF Extend
  <2> DEFINE new == [tpm EXCEPT !.pcrs[e[1]] = Append(@, e[2])]
  <2>2. e[1] \in Pcrs /\ e[1] # 10 /\ e[2] \in Measurements
    BY CallAssumption DEF PCR10IsOfIMA
  <2>3. new \in States
    BY <1>1, <2>2, ExtendedType
  <2>4. new.ima = tpm.ima /\ new.resets = tpm.resets /\ new.pcrs[10] = tpm.pcrs[10]
    BY <1>1, <2>2 DEF States
  <2>5. Running(new)
    BY <2>1
  <2> HIDE DEF new
  <2>6. Behind(new)
    BY <1>1, <2>4 DEF Behind
  <2> QED
    BY <1>1, <1>3, <2>3, <2>4, <2>5, <2>6, HistoryGrows
<1>5. CASE IMAList
  <2>1. PICK m \in Measurements : Running([tpm EXCEPT !.ima = Append(@, m)])
    BY <1>5 DEF IMAList
  <2> DEFINE new == [tpm EXCEPT !.ima = Append(@, m)]
  <2>2. new \in States
    BY <1>1, <1>2, ExtendedType
  <2>3. new.ima = Append(tpm.ima, m) /\ new.resets = tpm.resets /\ new.pcrs[10] = tpm.pcrs[10]
    BY <1>1 DEF States
  <2>4. Prefix(tpm.ima, new.ima) /\ new.ima \in Seq(Measurements)
    BY <1>2, <2>3, PrefixFacts
  <2>5. Behind(new)
    <3> DEFINE S == Measurements \cup Firmware
    <3>1. tpm.pcrs[10] \in Seq(S) /\ tpm.ima \in Seq(S) /\ new.ima \in Seq(S)
      BY <1>2, <2>4
    <3> HIDE DEF S, new
    <3> QED
      BY <1>1, <2>3, <2>4, <3>1, PrefixFacts DEF Behind
  <2>6. ASSUME NEW s \in Recorded, s.resets = new.resets PROVE Prefix(s.ima, new.ima)
    <3>1. s.ima \in Seq(Measurements) /\ Prefix(s.ima, tpm.ima)
      BY <1>1, <2>3, <2>6 DEF States
    <3> HIDE DEF new
    <3> QED
      BY <1>2, <2>4, <3>1, PrefixFacts
  <2>7. \A s \in Recorded : s.resets <= new.resets
    BY <1>1, <2>3
  <2> HIDE DEF new
  <2> QED
    BY <1>3, <2>1, <2>2, <2>5, <2>6, <2>7, HistoryGrows DEF new
<1>6. CASE IMAExtend
  <2> DEFINE m == tpm.ima[Len(tpm.pcrs[10]) + 1]
             new == [tpm EXCEPT !.pcrs[10] = Append(@, m)]
  <2>1. Running(new) /\ Len(tpm.pcrs[10]) < Len(tpm.ima)
    BY <1>6 DEF IMAExtend
  <2>2. m \in Measurements
    BY <1>2, <2>1
  <2>3. new \in States
    <3> HIDE DEF m
    <3> QED
      BY <1>1, <1>2, <2>2, ExtendedType
  <2>4. new.ima = tpm.ima /\ new.resets = tpm.resets
        /\ new.pcrs[10] = Append(tpm.pcrs[10], m)
    BY <1>1, <1>2 DEF States
  <2>5. Behind(new)
    <3> HIDE DEF new
    <3> QED
      BY <1>1, <1>2, <2>1, <2>4 DEF Behind, Prefix
  <2> HIDE DEF new
  <2> QED
    BY <1>1, <1>3, <2>1, <2>3, <2>4, <2>5, HistoryGrows
<1> QED
  BY <1>4, <1>5, <1>6

LEMMA HistoryRestarts ==
  ASSUME Inv, History, PCR10IsOfIMA, Restart
  PROVE  History'
<1>1. PICK start \in Starts : tpm' = Started(start, tpm.resets + 1)
  BY DEF Restart
<1> DEFINE new == Started(start, tpm.resets + 1)
<1>2. tpm.resets \in Nat /\ \A s \in Recorded : s \in States /\ s.resets <= tpm.resets
  BY DEF Inv, TypeOK, States, Recorded, History
<1>3. new \in States
  BY <1>2, StartedType
<1>4. new.ima = <<>> /\ new.resets = tpm.resets + 1
      /\ new.pcrs[10] = <<>> \o MeasuredInto(10, start.eventlog)
  BY DEF Started, PCR10IsOfIMA
<1>5. Len(MeasuredInto(10, start.eventlog)) = 0
      /\ MeasuredInto(10, start.eventlog) \in Seq(Measurements)
  BY MeasuredType, TPMAssumption DEF PCR10IsOfIMA
<1> HIDE DEF new
<1>6. Behind(new)
  BY <1>4, <1>5 DEF Behind, Prefix
<1>7. \A s \in Recorded : s.resets <= new.resets /\ s.resets # new.resets
  BY <1>2, <1>4 DEF States
<1>8. Recorded' \subseteq Recorded \cup {new}
  BY <1>1 DEF Restart, Recorded, new
<1> QED
  BY <1>1, <1>3, <1>6, <1>7, <1>8, HistoryGrows DEF new

(* States of one boot are ordered by what IMA measured, and PCR 10 holds    *)
(* just that, if nobody else extends it.                                   *)
THEOREM HistoryHolds == Spec => []History
<1>1. Init => History
  <2> SUFFICES ASSUME Init, PCR10IsOfIMA PROVE History
    BY DEF History
  <2>1. tpm = Started(FirstStart, 0) /\ Recorded = {tpm}
    BY DEF Init, Recorded
  <2>2. tpm.ima = <<>> /\ tpm.resets = 0
        /\ tpm.pcrs[10] = <<>> \o MeasuredInto(10, FirstStart.eventlog)
    BY <2>1 DEF Started, PCR10IsOfIMA
  <2>3. Len(MeasuredInto(10, FirstStart.eventlog)) = 0
        /\ MeasuredInto(10, FirstStart.eventlog) \in Seq(Measurements)
    BY MeasuredType, TPMAssumption DEF PCR10IsOfIMA
  <2> QED
    BY <2>1, <2>2, <2>3 DEF History, Behind, Prefix
<1>2. Inv /\ History /\ [Next]_vars => History'
  <2> SUFFICES ASSUME Inv, History, [Next]_vars, PCR10IsOfIMA PROVE History'
    BY DEF History, PCR10IsOfIMA
  <2>1. CASE UNCHANGED vars
    BY <2>1, HistoryStays DEF vars, Recorded
  <2>2. ASSUME NEW c \in Calls,
               \/ Request(c) \/ TAQuote(c) \/ TAOpenTPM(c) \/ TAReadPCR(c) \/ TAPCRs(c)
               \/ TALog(c) \/ OtherAnswer(c)
        PROVE  History'
    <3>1. /\ tpm' = tpm
          /\ \/ held' = held
             \/ held' = [held EXCEPT ![c] = {tpm}]
             \/ held' = [held EXCEPT ![c] = {}]
             \/ held' = [held EXCEPT ![c] = @]
      BY <2>2, Zenon
         DEF Request, Send, TAQuote, TAOpenTPM, TAReadPCR, TAPCRs, TALog, OtherAnswer, Call
    <3>2. Recorded' \subseteq Recorded
      BY <3>1 DEF Recorded, Inv, TypeOK
    <3> QED
      BY <3>1, <3>2, HistoryStays
  <2> QED
    BY <2>1, <2>2, HistoryRuns, HistoryRestarts DEF Next
<1> QED
  BY <1>1, <1>2, Invariance, PTL DEF Spec

(* What IMA measured explains PCR 10 as it was read before.                 *)
THEOREM IMANoFalseAlarmHolds == Spec => []IMANoFalseAlarm
<1>1. Inv /\ History => IMANoFalseAlarm
  <2> SUFFICES ASSUME Inv, History, PCR10IsOfIMA,
                      NEW c \in Calls, Claimed(c), NEW d \in Calls, PCRsClaimed(d),
                      "asciilog" \in DOMAIN claim[c].body,
                      NEW t \in held[c], claim[c].body.asciilog = t.ima,
                      10 \in DOMAIN claim[d].body.sha256,
                      NEW s \in held[d], claim[d].body.sha256[10] = Read(s, 10),
                      s.resets = t.resets, Len(s.ima) <= Len(t.ima),
                      NEW policy \in RuntimePolicies, ToSet(t.ima) \subseteq policy
               PROVE  ValidateIMA(claim[c], [runtime_policy |-> policy], RuleParameters(d),
                                  claim[d], TRUE) = "Success"
    BY DEF IMANoFalseAlarm
  <2> DEFINE S == Measurements \cup Firmware
             x == s.pcrs[10]
  <2>1. /\ t.ima \in Seq(Measurements) /\ s.ima \in Seq(S) /\ t.ima \in Seq(S) /\ x \in Seq(S)
        /\ 10 \in Pcrs
    BY DEF Inv, TypeOK, States, PCR10IsOfIMA
  <2>2. Prefix(x, s.ima) /\ Prefix(s.ima, t.ima)
    <3>1. s \in Recorded /\ t \in Recorded
      BY DEF Recorded
    <3> QED
      BY <3>1 DEF History, Behind
  <2>3. x = SubSeq(t.ima, 1, Len(x)) /\ Len(x) \in 0..Len(t.ima)
    <3> HIDE DEF S, x
    <3> QED
      BY <2>1, <2>2, PrefixFacts
  <2>4. Read(s, 10) = Chain("sha256", SubSeq(t.ima, 1, Len(x)))
    <3>1. Read(s, 10) = Chain("sha256", x)
      BY <2>1 DEF Read, Bank
    <3> QED
      BY <2>3, <3>1
  <2>5. Explains(t.ima, "sha256", claim[d].body.sha256[10])
    BY <2>3, <2>4 DEF Explains
  <2>6. claim[d] # NotFound /\ "sha256" \in DOMAIN claim[d].body
    <3>1. "body" \in DOMAIN claim[d] /\ "body" \notin DOMAIN NotFound
      BY DEF Inv, Stages, PCRsClaimed, NotFound
    <3> QED
      BY <3>1 DEF PCRsClaimed
  <2>7. t.ima # Unparsable
    BY <2>1, TPMAssumption
  <2> QED
    BY <2>5, <2>6, <2>7 DEF ValidateIMA, Prepared, IMAResponse, RuleParameters
<1> QED
  BY <1>1, Invariance, HistoryHolds, PTL
=============================================================================
