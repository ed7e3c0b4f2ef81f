---------------------------- MODULE EngineProofs ----------------------------
(***************************************************************************)
(* Theorems about Engine, for any lists of protocols and rules, any        *)
(* command line, any number of connections and file descriptors, any size  *)
(* of the broker's client's queue and any choice of the writes that fail.  *)
(***************************************************************************)
EXTENDS Engine, TLAPS

N == Len(Registrations)

OfMain(n) == [by |-> "main", n |-> n]

AllTried(e) == \A k \in Sinks : e \in Tried(k)

(* Where main is tells how far registration and its entries are.            *)
MainInv ==
  /\ pc["main"] \in {"configure", "database", "messaging", "init"} =>
       entry["main"] = 0 /\ registered = 0
  /\ pc["main"] = "register" => entry["main"] = registered + 1
  /\ pc["main"] \in Services \cup {"wait", "return"} => registered = N
  /\ pc["main"] \in Services \cup {"wait"} => entry["main"] = Startup
  /\ pc["main"] = "return" => entry["main"] = Shutdown /\ flags = {}
  /\ pc["main"] \in MainSteps

(* wg.Wait returns only if no service was started.                          *)
WaitInv ==
  /\ pc["main"] = "rest" /\ wg = 0 => "x3270" \notin flags
  /\ pc["main"] = "web" /\ wg = 0 => flags \subseteq {"web"}
  /\ pc["main"] = "wait" /\ wg = 0 => flags = {}

(* Where main may be when a service has been started.                       *)
After == [x3270 |-> {"rest", "web", "wait", "return"},
          rest |-> {"web", "wait", "return"},
          web |-> {"wait", "return"}]

(* A service was started after start-up was logged, and where it is tells   *)
(* which entry it made last.                                                *)
ServiceInv ==
  \A s \in Services :
    /\ pc[s] \in {"off", "listen", "start", "serve", "failed"}
    /\ pc[s] \in {"off", "listen"} => entry[s] = 0
    /\ pc[s] \in {"start", "serve"} => entry[s] = Started
    /\ pc[s] = "failed" => s = "x3270" /\ entry[s] \in {StartFailed, AcceptFailed}
    /\ pc[s] = "start" => s # "x3270"
    /\ pc[s] # "off" =>
         /\ s \in flags /\ pc["main"] \in After[s]
         /\ \A n \in 1..Startup : AllTried(OfMain(n))

(* An entry that may be in a sink: its goroutine has made it.               *)
Made(e) ==
  IF e.by = "main" THEN e.n <= entry["main"]
  ELSE e.n = entry[e.by] \/ (entry[e.by] = AcceptFailed /\ e.n = Started)

(* The broker's client sends in the order of the program.                   *)
OutboxInv ==
  /\ \A i, j \in DOMAIN outbox : i < j => ~Precedes(outbox[j], outbox[i])
  /\ \A f \in log["messaging"] : \A i \in DOMAIN outbox : ~Precedes(outbox[i], f)

(* Every entry but a goroutine's last is done with, and its last one is in  *)
(* exactly the sinks it is no longer being written to.                      *)
LogInv ==
  /\ \A k \in Sinks : \A e \in Tried(k) : Made(e)
  /\ \A n \in 1..Shutdown : n < entry["main"] => AllTried(OfMain(n))
  /\ \A s \in Services :
       entry[s] = AcceptFailed => AllTried([by |-> s, n |-> Started])
  /\ \A t \in Threads : entry[t] # 0 =>
       Last(t) \in Entries /\ \A k \in Sinks \ writing[t] : Last(t) \in Tried(k)
  /\ \A t \in Threads : \A k \in writing[t] : Last(t) \notin Tried(k)
  /\ \A t \in Threads : entry[t] = 0 => writing[t] = {}
  /\ OutboxInv

(* Requests come in when registration is over.                              *)
ConnInv == \A c \in Conns : conn[c] # "none" => registered = N /\ conn[c] # "unknown"

Inv ==
  /\ TypeOK /\ MainInv /\ WaitInv /\ ServiceInv /\ LogInv /\ ConnInv
  /\ PanicOnRecord

-----------------------------------------------------------------------------
(* The registration lists have a length.                                    *)
LEMMA Lengths == N \in Nat /\ Len(Protocols) \in Nat
<1>1. Registrations \in Seq(STRING)
  BY RegistrationAssumption DEF Registrations
<1> QED
  BY <1>1, RegistrationAssumption DEF N

(* The invariant holds initially.                                           *)
LEMMA InitInv == Init => Inv
<1> SUFFICES ASSUME Init PROVE Inv
  OBVIOUS
<1> USE Lengths DEF Init
<1>1. TypeOK
  BY CommandLinesAssumption DEF TypeOK, Threads, Services, MainSteps, N
<1>2. MainInv /\ WaitInv /\ ServiceInv /\ ConnInv /\ PanicOnRecord
  BY DEF MainInv, WaitInv, ServiceInv, ConnInv, PanicOnRecord, Threads, Services, MainSteps
<1>3. LogInv
  BY DEF LogInv, OutboxInv, Tried, Published, Threads, Services, AcceptFailed
<1> QED
  BY <1>1, <1>2, <1>3 DEF Inv

(* The end of the process.                                                  *)
LEMMA EndInv ==
  ASSUME Inv, exit = "no", NEW how \in {"clean", "panic", "fatal"}, End(how),
         how = "panic" /\ pc["x3270"] = "failed" => writing["x3270"] = {}
  PROVE  Inv'
<1> USE DEF End, logs
<1>1. TypeOK'
  BY DEF Inv, TypeOK
<1>2. MainInv' /\ WaitInv' /\ ConnInv'
  BY DEF Inv, MainInv, WaitInv, ConnInv
<1>3. ServiceInv' /\ LogInv'
  BY DEF Inv, ServiceInv, LogInv, OutboxInv, AllTried, Tried, Published, Made, Last
<1>4. PanicOnRecord'
  <2>1. CASE exit' = "panic" /\ pc'["x3270"] = "failed"
    <3>1. /\ writing["x3270"] = {} /\ "x3270" \in Services /\ "x3270" \in Threads
          /\ entry["x3270"] \in {StartFailed, AcceptFailed} /\ entry["x3270"] # 0
      BY <2>1 DEF Inv, ServiceInv, Services, Threads, StartFailed, AcceptFailed
    <3>2. \A k \in Sinks : Last("x3270") \in Tried(k)
      BY <3>1 DEF Inv, LogInv
    <3>3. \A k \in Sinks : Tried(k)' = Tried(k)
      BY DEF Tried, Published
    <3> QED
      BY <3>1, <3>2, <3>3 DEF PanicOnRecord, Last
  <2> QED
    BY <2>1 DEF PanicOnRecord
<1> QED
  BY <1>1, <1>2, <1>3, <1>4 DEF Inv

-----------------------------------------------------------------------------
(* An entry in a sink comes after all that precede it.                      *)
LEMMA InOrder ==
  ASSUME Inv, NEW k \in Sinks, NEW f \in Tried(k), NEW e \in Entries, Precedes(e, f)
  PROVE  AllTried(e)
<1>1. Made(f) /\ f \in Entries
  <2>1. Published \subseteq Entries
    BY DEF Published, Inv, TypeOK
  <2> QED
    BY <2>1 DEF Inv, LogInv, TypeOK, Tried
<1>2. CASE e.by = "main" /\ f.by = "main" /\ e.n < f.n
  <2>1. e = OfMain(e.n) /\ e.n \in 1..Shutdown /\ f.n \in Nat /\ f.n <= entry["main"]
    BY <1>1, <1>2, Lengths DEF Entries, OfMain, Services, Made, Shutdown, N
  <2>2. e.n < entry["main"]
    BY <1>2, <2>1, Lengths DEF Inv, TypeOK, Threads, Shutdown, N
  <2> QED
    BY <2>1, <2>2 DEF Inv, LogInv
<1>3. CASE e.by = "main" /\ f.by \in Services /\ e.n <= Startup
  <2>1. e = OfMain(e.n) /\ e.n \in 1..Startup
    BY <1>3, Lengths DEF Entries, OfMain, Services, Shutdown, Startup, N
  <2>2. entry[f.by] # 0
    BY <1>1, <1>3, Lengths DEF Made, Services, Entries, Started, StartFailed, AcceptFailed
  <2>3. pc[f.by] # "off"
    BY <1>3, <2>2 DEF Inv, ServiceInv
  <2> QED
    BY <1>3, <2>1, <2>3 DEF Inv, ServiceInv
<1>4. CASE e.by = f.by /\ e.n = Started /\ f.n = AcceptFailed /\ e.by # "main"
  <2>1. e = [by |-> e.by, n |-> Started] /\ e.by \in Services
    BY <1>4 DEF Entries
  <2>2. entry[e.by] = AcceptFailed
    BY <1>1, <1>4, <2>1 DEF Made, Services, Started, AcceptFailed
  <2> QED
    BY <2>1, <2>2 DEF Inv, LogInv
<1>5. CASE e.by = "main" /\ f.by = "main"
  BY <1>2, <1>5 DEF Precedes, Services, Started, AcceptFailed
<1> QED
  BY <1>2, <1>3, <1>4, <1>5 DEF Precedes

(* What the broker's client has yet to send, when it takes one more and     *)
(* when it sends one.                                                       *)
LEMMA PublishedAppend ==
  ASSUME NEW q \in Seq(Entries), NEW e \in Entries, outbox = q, outbox' = Append(q, e)
  PROVE  Published' = Published \cup {e} /\ outbox' \in Seq(Entries)
  BY DEF Published

LEMMA PublishedTail ==
  ASSUME outbox \in Seq(Entries), outbox # <<>>, outbox' = Tail(outbox)
  PROVE  /\ Published = Published' \cup {Head(outbox)} /\ outbox' \in Seq(Entries)
         /\ Head(outbox) = outbox[1] /\ Head(outbox) \in Entries /\ 1 \in DOMAIN outbox
         /\ \A i \in DOMAIN outbox' : i + 1 \in DOMAIN outbox /\ outbox'[i] = outbox[i + 1]
<1>1. /\ Len(outbox) \in Nat \ {0} /\ Len(outbox') = Len(outbox) - 1
      /\ DOMAIN outbox = 1..Len(outbox) /\ DOMAIN outbox' = 1..Len(outbox')
      /\ \A i \in 1..Len(outbox') : outbox'[i] = outbox[i + 1]
      /\ outbox' \in Seq(Entries) /\ Head(outbox) = outbox[1]
  OBVIOUS
<1>2. \A i \in 1..Len(outbox) : i = 1 \/ (i - 1 \in 1..Len(outbox') /\ outbox[i] = outbox'[i - 1])
  BY <1>1
<1>3. \A i \in 1..Len(outbox') : i + 1 \in 1..Len(outbox)
  BY <1>1
<1>4. Published = {outbox[i] : i \in 1..Len(outbox)}
  BY <1>1 DEF Published
<1>5. Published' = {outbox'[i] : i \in 1..Len(outbox')}
  BY <1>1 DEF Published
<1>6. Published \subseteq Published' \cup {Head(outbox)}
  <2>1. ASSUME NEW i \in 1..Len(outbox) PROVE outbox[i] \in Published' \cup {Head(outbox)}
    BY <1>1, <1>2, <1>5
  <2> QED
    BY <1>4, <2>1
<1>7. Published' \cup {Head(outbox)} \subseteq Published
  BY <1>1, <1>3, <1>4, <1>5
<1> QED
  BY <1>1, <1>3, <1>6, <1>7

(* Nothing is tried in another sink, and no entry is made.                   *)
LEMMA SameLogInv ==
  ASSUME Inv, UNCHANGED <<entry, writing>>, OutboxInv',
         \A k \in Sinks : Tried(k)' = Tried(k)
  PROVE  LogInv'
<1>1. /\ \A e : (AllTried(e)' <=> AllTried(e)) /\ (Made(e)' <=> Made(e))
      /\ \A t : Last(t)' = Last(t)
      /\ writing \in [Threads -> SUBSET Sinks]
  BY DEF AllTried, Made, Last, Inv, TypeOK
<1>2. \A t \in Threads : \A k \in writing'[t] : Last(t)' \notin Tried(k)'
  BY <1>1 DEF Inv, LogInv
<1>3. \A t \in Threads : entry'[t] # 0 =>
        Last(t)' \in Entries /\ \A k \in Sinks \ writing'[t] : Last(t)' \in Tried(k)'
  BY <1>1 DEF Inv, LogInv
<1>4. \A k \in Sinks : \A e \in Tried(k)' : Made(e)'
  BY <1>1 DEF Inv, LogInv
<1>5. /\ \A n \in 1..Shutdown : n < entry'["main"] => AllTried(OfMain(n))'
      /\ \A s \in Services : entry'[s] = AcceptFailed => AllTried([by |-> s, n |-> Started])'
      /\ \A t \in Threads : entry'[t] = 0 => writing'[t] = {}
  BY <1>1 DEF Inv, LogInv
<1> QED
  BY <1>2, <1>3, <1>4, <1>5 DEF LogInv

(* A step that ends nothing and moves no goroutine keeps the record.        *)
LEMMA SamePanic ==
  ASSUME PanicOnRecord, UNCHANGED <<exit, log, lost, outbox>>,
         pc'["x3270"] = "failed" => pc["x3270"] = "failed"
  PROVE  PanicOnRecord'
<1>1. \A k : Tried(k)' = Tried(k)
  BY DEF Tried, Published
<1> QED
  BY <1>1 DEF PanicOnRecord

(* A goroutine calls Done after its entry reached its sink or was lost.     *)
LEMMA DoneInv ==
  ASSUME Inv, NEW t \in Threads, NEW k \in Sinks, Done(t, k),
         \A j \in Sinks : Tried(j)' = IF j = k THEN Tried(j) \cup {Last(t)} ELSE Tried(j),
         TypeOK', OutboxInv'
  PROVE  Inv'
<1>1. /\ UNCHANGED <<flags, pc, exit, registered, wg, entry, conn>> /\ exit = "no"
      /\ k \in writing[t] /\ writing' = [writing EXCEPT ![t] = @ \ {k}]
  BY DEF Done
<1>2. Made(Last(t))
  BY <1>1 DEF Made, Last, Inv, TypeOK
<1>3. \A e : AllTried(e) => AllTried(e)'
  BY DEF AllTried
<1>4. MainInv' /\ WaitInv' /\ ConnInv' /\ PanicOnRecord'
  BY <1>1 DEF Inv, MainInv, WaitInv, ConnInv, PanicOnRecord
<1>5. ServiceInv'
  BY <1>1, <1>3 DEF Inv, ServiceInv
<1>6. LogInv'
  <2>1. \A e : Made(e)' <=> Made(e)
    BY <1>1 DEF Made
  <2>2. \A j \in Sinks : \A e \in Tried(j)' : Made(e)'
    BY <1>2, <2>1 DEF Inv, LogInv
  <2>3. \A u : Last(u)' = Last(u)
    BY <1>1 DEF Last
  <2>4. ASSUME NEW u \in Threads, entry[u] # 0, NEW j \in Sinks \ writing'[u]
        PROVE  Last(u)' \in Tried(j)'
    <3>1. CASE j \notin writing[u]
      BY <2>3, <2>4, <3>1 DEF Inv, LogInv
    <3>2. CASE j \in writing[u]
      BY <1>1, <2>3, <2>4, <3>2 DEF Inv, TypeOK
    <3> QED
      BY <3>1, <3>2
  <2>5. ASSUME NEW u \in Threads, NEW j \in writing'[u] PROVE Last(u)' \notin Tried(j)'
    <3>1. j \in Sinks /\ j \in writing[u] /\ (u = t => j # k)
      BY <1>1, <2>5 DEF Inv, TypeOK
    <3>2. u # t => Last(u) # Last(t)
      BY DEF Last
    <3> QED
      BY <2>3, <3>1, <3>2 DEF Inv, LogInv
  <2>6. \A u \in Threads : entry'[u] = 0 => writing'[u] = {}
    BY <1>1 DEF Inv, LogInv, TypeOK
  <2> QED
    BY <1>1, <1>3, <2>2, <2>3, <2>4, <2>5, <2>6 DEF Inv, LogInv
<1> QED
  BY <1>4, <1>5, <1>6 DEF Inv

(* Nothing but the open log files changes.                                  *)
LEMMA OpenedInv ==
  ASSUME Inv, UNCHANGED <<flags, pc, exit, registered, wg, entry, writing, outbox, log, lost, conn>>,
         opened' \subseteq Entries
  PROVE  Inv'
<1>1. TypeOK'
  BY DEF Inv, TypeOK
<1>2. MainInv' /\ WaitInv' /\ ConnInv' /\ PanicOnRecord'
  BY DEF Inv, MainInv, WaitInv, ConnInv, PanicOnRecord, Tried, Published
<1>3. ServiceInv' /\ LogInv'
  BY DEF Inv, ServiceInv, LogInv, OutboxInv, AllTried, Tried, Published, Made, Last
<1> QED
  BY <1>1, <1>2, <1>3 DEF Inv

(* The database and the log file.                                           *)
LEMMA WrittenInv ==
  ASSUME Inv, NEW t \in Threads, NEW k \in {"db", "logfile"}, Done(t, k),
         Written(k, Last(t)) \/ Lose(k, Last(t)), UNCHANGED <<opened, outbox>>
  PROVE  Inv'
<1>1. /\ k \in Sinks /\ "messaging" \in Sinks /\ k # "messaging" /\ Last(t) \in Entries
      /\ log \in [Sinks -> SUBSET Entries] /\ lost \in [Sinks -> SUBSET Entries]
  BY DEF Done, Sinks, Inv, LogInv, TypeOK
<1>2. \/ log' = [log EXCEPT ![k] = @ \cup {Last(t)}] /\ UNCHANGED lost
      \/ lost' = [lost EXCEPT ![k] = @ \cup {Last(t)}] /\ UNCHANGED log
  BY DEF Written, Lose
<1>3. \A j \in Sinks : Tried(j)' = IF j = k THEN Tried(j) \cup {Last(t)} ELSE Tried(j)
  BY <1>1, <1>2 DEF Tried, Published
<1>4. log' \in [Sinks -> SUBSET Entries] /\ lost' \in [Sinks -> SUBSET Entries]
  BY <1>1, <1>2
<1>5. TypeOK'
  BY <1>4 DEF Done, Inv, TypeOK
<1>6. OutboxInv'
  BY <1>1, <1>2 DEF Inv, LogInv, OutboxInv
<1> QED
  BY <1>1, <1>3, <1>5, <1>6, DoneInv

(* The broker's client takes an entry, or it is lost.                       *)
LEMMA MessagingInv ==
  ASSUME Inv, NEW t \in Threads, WriteToMessaging(t)
  PROVE  Inv'
<1>1. /\ "messaging" \in Sinks /\ "messaging" \in writing[t] /\ Last(t) \in Entries
      /\ Last(t) \notin Tried("messaging") /\ Done(t, "messaging") /\ UNCHANGED opened
      /\ log \in [Sinks -> SUBSET Entries] /\ lost \in [Sinks -> SUBSET Entries]
      /\ outbox \in Seq(Entries) /\ writing' \in [Threads -> SUBSET Sinks]
  BY DEF WriteToMessaging, Done, Sinks, Inv, LogInv, TypeOK
<1>2. CASE outbox' = Append(outbox, Last(t)) /\ UNCHANGED <<log, lost>>
  <2>1. Published' = Published \cup {Last(t)} /\ outbox' \in Seq(Entries)
    BY <1>1, <1>2, PublishedAppend
  <2>2. \A j \in Sinks :
          Tried(j)' = IF j = "messaging" THEN Tried(j) \cup {Last(t)} ELSE Tried(j)
    BY <1>2, <2>1 DEF Tried
  <2>3. TypeOK'
    BY <1>1, <1>2, <2>1 DEF Done, Inv, TypeOK
  <2>4. \A f \in Tried("messaging") : ~Precedes(Last(t), f)
    BY <1>1, InOrder DEF AllTried
  <2>5. OutboxInv'
    <3>1. /\ \A i \in DOMAIN outbox : outbox[i] \in Tried("messaging")
          /\ log["messaging"] \subseteq Tried("messaging")
      BY DEF Tried, Published
    <3>2. /\ DOMAIN outbox = 1..Len(outbox) /\ Len(outbox) \in Nat
          /\ DOMAIN outbox' = 1..(Len(outbox) + 1)
          /\ \A i \in 1..Len(outbox) : outbox'[i] = outbox[i]
          /\ outbox'[Len(outbox) + 1] = Last(t)
      BY <1>1, <1>2
    <3>3. ASSUME NEW i \in DOMAIN outbox', NEW j \in DOMAIN outbox', i < j
          PROVE  ~Precedes(outbox[j], outbox[i])'
      <4>1. i \in DOMAIN outbox /\ outbox'[i] = outbox[i]
        BY <3>2, <3>3
      <4>2. CASE j \in DOMAIN outbox
        BY <3>2, <3>3, <4>1, <4>2 DEF Inv, LogInv, OutboxInv, Precedes
      <4>3. CASE j = Len(outbox) + 1
        BY <2>4, <3>1, <3>2, <4>1, <4>3 DEF Precedes
      <4> QED
        BY <3>2, <4>2, <4>3
    <3>4. ASSUME NEW f \in log'["messaging"], NEW i \in DOMAIN outbox'
          PROVE  ~Precedes(outbox[i], f)'
      <4>1. CASE i \in DOMAIN outbox
        BY <1>2, <3>2, <4>1 DEF Inv, LogInv, OutboxInv, Precedes
      <4>2. CASE i = Len(outbox) + 1
        BY <1>2, <2>4, <3>1, <3>2, <4>2 DEF Precedes
      <4> QED
        BY <3>2, <4>1, <4>2
    <3> QED
      BY <3>3, <3>4 DEF OutboxInv, Precedes
  <2> QED
    BY <1>1, <2>2, <2>3, <2>5, DoneInv
<1>3. CASE Lose("messaging", Last(t)) /\ UNCHANGED outbox
  <2>1. \A j \in Sinks :
          Tried(j)' = IF j = "messaging" THEN Tried(j) \cup {Last(t)} ELSE Tried(j)
    BY <1>1, <1>3 DEF Lose, Tried, Published
  <2>2. lost' \in [Sinks -> SUBSET Entries]
    BY <1>1, <1>3 DEF Lose
  <2>3. TypeOK' /\ OutboxInv'
    BY <1>1, <1>3, <2>2 DEF Lose, Done, Inv, TypeOK, LogInv, OutboxInv
  <2> QED
    BY <1>1, <2>1, <2>3, DoneInv
<1> QED
  BY <1>2, <1>3 DEF WriteToMessaging

(* A goroutine writes its entry to one of the sinks.                        *)
LEMMA LoggingInv ==
  ASSUME Inv, NEW t \in Threads, Logging(t)
  PROVE  Inv'
<1>1. CASE WriteToDB(t)
  BY <1>1, WrittenInv DEF WriteToDB
<1>2. CASE WriteToMessaging(t)
  BY <1>2, MessagingInv
<1>3. CASE OpenLogfile(t)
  <2>1. entry[t] # 0
    BY <1>3 DEF OpenLogfile, Inv, LogInv
  <2>2. CASE opened' = opened \cup {Last(t)}
              /\ UNCHANGED <<flags, pc, exit, registered, wg, entry, writing, outbox, log, lost, conn>>
    <3>1. opened' \subseteq Entries
      BY <2>1, <2>2 DEF Inv, LogInv, TypeOK
    <3> QED
      BY <2>2, <3>1, OpenedInv
  <2> QED
    BY <1>3, <2>2, WrittenInv DEF OpenLogfile
<1>4. CASE WriteLogfile(t)
  BY <1>4, WrittenInv DEF WriteLogfile
<1> QED
  BY <1>1, <1>2, <1>3, <1>4 DEF Logging

(* The deferred Close.                                                      *)
LEMMA CloseInv ==
  ASSUME Inv, NEW e \in opened, CloseLogfile(e)
  PROVE  Inv'
<1>1. opened' \subseteq Entries
  BY DEF CloseLogfile, Inv, TypeOK
<1> QED
  BY <1>1, OpenedInv DEF CloseLogfile

(* The broker's client sends.                                               *)
LEMMA SendInv ==
  ASSUME Inv, Send
  PROVE  Inv'
<1> DEFINE e == Head(outbox)
<1>1. /\ UNCHANGED <<flags, pc, exit, registered, wg, entry, writing, opened, conn>>
      /\ exit = "no" /\ outbox \in Seq(Entries) /\ outbox # <<>> /\ outbox' = Tail(outbox)
      /\ "messaging" \in Sinks
      /\ log \in [Sinks -> SUBSET Entries] /\ lost \in [Sinks -> SUBSET Entries]
      /\ \/ log' = [log EXCEPT !["messaging"] = @ \cup {e}] /\ UNCHANGED lost
         \/ lost' = [lost EXCEPT !["messaging"] = @ \cup {e}] /\ UNCHANGED log
  BY DEF Send, Written, Lose, Sinks, Inv, TypeOK
<1>2. /\ Published = Published' \cup {e} /\ outbox' \in Seq(Entries)
      /\ e = outbox[1] /\ e \in Entries /\ 1 \in DOMAIN outbox
      /\ \A i \in DOMAIN outbox' : i + 1 \in DOMAIN outbox /\ outbox'[i] = outbox[i + 1]
  BY <1>1, PublishedTail
<1> HIDE DEF e
<1>3. log' \in [Sinks -> SUBSET Entries] /\ lost' \in [Sinks -> SUBSET Entries]
  BY <1>1, <1>2
<1>4. TypeOK'
  BY <1>1, <1>2, <1>3 DEF Inv, TypeOK
<1>5. \A k \in Sinks : Tried(k)' = Tried(k)
  BY <1>1, <1>2 DEF Tried
<1>6. \A f : (AllTried(f)' <=> AllTried(f)) /\ (Made(f)' <=> Made(f))
  BY <1>1, <1>5 DEF AllTried, Made
<1>7. MainInv' /\ WaitInv' /\ ConnInv' /\ PanicOnRecord'
  BY <1>1 DEF Inv, MainInv, WaitInv, ConnInv, PanicOnRecord
<1>8. ServiceInv'
  BY <1>1, <1>6 DEF Inv, ServiceInv
<1>9. OutboxInv'
  <2>1. ASSUME NEW i \in DOMAIN outbox', NEW j \in DOMAIN outbox', i < j
        PROVE  ~Precedes(outbox[j], outbox[i])'
    <3>1. i + 1 \in DOMAIN outbox /\ j + 1 \in DOMAIN outbox /\ i + 1 < j + 1
      BY <1>1, <1>2, <2>1
    <3> QED
      BY <1>2, <3>1 DEF Inv, LogInv, OutboxInv, Precedes
  <2>2. ASSUME NEW f \in log'["messaging"], NEW i \in DOMAIN outbox'
        PROVE  ~Precedes(outbox[i], f)'
    <3>1. i + 1 \in DOMAIN outbox /\ 1 < i + 1
      BY <1>1, <1>2
    <3>2. f \in log["messaging"] \/ f = e
      BY <1>1
    <3> QED
      BY <1>2, <3>1, <3>2 DEF Inv, LogInv, OutboxInv, Precedes
  <2> QED
    BY <2>1, <2>2 DEF OutboxInv, Precedes
<1>10. LogInv'
  <2>1. \A t : Last(t)' = Last(t)
    BY <1>1 DEF Last
  <2> QED
    BY <1>5, <1>6, <1>1, <1>9, <2>1, SameLogInv
<1> QED
  BY <1>4, <1>7, <1>8, <1>10 DEF Inv

-----------------------------------------------------------------------------
(* A goroutine whose entry was written makes its next one.                  *)
LEMMA EntryMade ==
  ASSUME Inv, NEW t \in Threads, Ready(t), NEW m \in Nat, MakeLogEntry(t, m),
         [by |-> t, n |-> m] \in Entries,
         t = "main" => m = entry["main"] + 1,
         t \in Services => \/ entry[t] = 0 /\ m \in {Started, StartFailed}
                           \/ entry[t] = Started /\ m = AcceptFailed
  PROVE  /\ LogInv'
         /\ \A e : AllTried(e)' <=> AllTried(e)
         /\ entry' = [entry EXCEPT ![t] = m] /\ writing' = [writing EXCEPT ![t] = Sinks]
         /\ UNCHANGED <<opened, outbox, log, lost>>
         /\ entry \in [Threads -> Nat]
<1>1. /\ entry' = [entry EXCEPT ![t] = m] /\ writing' = [writing EXCEPT ![t] = Sinks]
      /\ UNCHANGED <<opened, outbox, log, lost>> /\ writing[t] = {}
      /\ entry \in [Threads -> Nat] /\ writing \in [Threads -> SUBSET Sinks]
      /\ \A k \in Sinks : Tried(k) \subseteq Entries
  <2>1. Published \subseteq Entries
    BY DEF Published, Inv, TypeOK
  <2> QED
    BY <2>1 DEF MakeLogEntry, Ready, Inv, TypeOK, Tried
<1>2. (\A k : Tried(k)' = Tried(k)) /\ \A e : AllTried(e)' <=> AllTried(e)
  BY <1>1 DEF AllTried, Tried, Published
<1>3. entry[t] # 0 => AllTried(Last(t))
  BY <1>1 DEF Inv, LogInv, AllTried
<1>4. \A k \in Sinks : \A e \in Tried(k)' : Made(e)'
  <2> SUFFICES ASSUME NEW k \in Sinks, NEW e \in Tried(k)' PROVE Made(e)'
    OBVIOUS
  <2>1. Made(e) /\ e \in Entries
    BY <1>1, <1>2 DEF Inv, LogInv
  <2>2. e.by \in Threads /\ e.n \in Nat /\ e.n # 0
    BY <2>1, Lengths DEF Entries, Threads, Started, StartFailed, AcceptFailed, Shutdown, N
  <2>3. CASE e.by # t
    BY <1>1, <2>1, <2>2, <2>3 DEF Made, Threads
  <2>4. CASE e.by = t
    BY <1>1, <2>1, <2>2, <2>4 DEF Made, Threads, Services, Started, StartFailed, AcceptFailed
  <2> QED
    BY <2>3, <2>4
<1>5. \A n \in 1..Shutdown : n < entry'["main"] => AllTried(OfMain(n))'
  BY <1>1, <1>2, <1>3 DEF Inv, LogInv, Last, OfMain, Threads
<1>6. \A s \in Services : entry'[s] = AcceptFailed => AllTried([by |-> s, n |-> Started])'
  BY <1>1, <1>2, <1>3 DEF Inv, LogInv, Last, Threads, Services, Started, StartFailed,
                          AcceptFailed
<1>7. \A u \in Threads : entry'[u] # 0 =>
        Last(u)' \in Entries /\ \A k \in Sinks \ writing'[u] : Last(u)' \in Tried(k)'
  BY <1>1, <1>2 DEF Inv, LogInv, Last
<1>8. \A u \in Threads : entry'[u] = 0 => writing'[u] = {}
  BY <1>1, Lengths DEF Inv, LogInv, Threads, Services, Started, StartFailed, AcceptFailed, Entries
<1>9. ASSUME NEW u \in Threads, NEW k \in writing'[u] PROVE Last(u)' \notin Tried(k)'
  <2>1. CASE u # t
    BY <1>1, <1>2, <1>9, <2>1 DEF Inv, LogInv, Last
  <2>2. CASE u = t
    <3>1. ~Made([by |-> t, n |-> m])
      BY <1>1 DEF Made, Threads, Services, Started, StartFailed, AcceptFailed
    <3> QED
      BY <1>1, <1>2, <1>9, <2>2, <3>1 DEF Inv, LogInv, Last
  <2> QED
    BY <2>1, <2>2
<1>10. OutboxInv'
  BY <1>1 DEF Inv, LogInv, OutboxInv
<1> QED
  BY <1>1, <1>2, <1>4, <1>5, <1>6, <1>7, <1>8, <1>9, <1>10 DEF LogInv

(* A step that logs nothing leaves the logs as they are.                    *)
LEMMA NothingLogged ==
  ASSUME Inv, UNCHANGED logs
  PROVE  LogInv' /\ \A e : AllTried(e)' <=> AllTried(e)
<1>1. UNCHANGED <<entry, writing, outbox, log, lost>>
  BY DEF logs
<1>2. /\ \A k \in Sinks : Tried(k)' = Tried(k)
      /\ \A e : (AllTried(e)' <=> AllTried(e)) /\ (Made(e)' <=> Made(e))
      /\ \A t \in Threads : Last(t)' = Last(t)
  BY <1>1 DEF Tried, Published, AllTried, Made, Last
<1>3. OutboxInv'
  BY <1>1 DEF Inv, LogInv, OutboxInv
<1> QED
  BY <1>1, <1>2, <1>3, SameLogInv

(* Whoever is ready has written its last entry to all sinks.                *)
LEMMA LastTried ==
  ASSUME Inv, Ready("main"), entry["main"] = Startup
  PROVE  \A n \in 1..Startup : AllTried(OfMain(n))
<1>1. Startup \in Nat \ {0} /\ Shutdown = Startup + 1
  BY Lengths DEF Startup, Shutdown, N
<1>2. AllTried(OfMain(Startup))
  BY <1>1 DEF Inv, LogInv, AllTried, Last, OfMain, Threads, Ready
<1>3. ASSUME NEW n \in 1..Startup, n # Startup PROVE AllTried(OfMain(n))
  BY <1>1, <1>3 DEF Inv, LogInv
<1> QED
  BY <1>2, <1>3

(* main's own entries.                                                      *)
LEMMA SayInv ==
  ASSUME Inv, NEW step, NEW m \in 1..Shutdown, NEW next, Say(step, m, next),
         \/ step = "init" /\ m = INIT /\ next = "register"
         \/ step = "register" /\ m = Startup /\ next = "x3270" /\ registered = N
         \/ step = "wait" /\ m = Shutdown /\ next = "return" /\ wg = 0
  PROVE  Inv'
<1>1. /\ pc' = [pc EXCEPT !["main"] = next] /\ pc["main"] = step /\ exit = "no"
      /\ UNCHANGED <<flags, exit, registered, wg, conn>>
      /\ "main" \in Threads /\ "main" \notin Services
      /\ pc \in [Threads -> MainSteps \cup {"off", "listen", "start", "serve", "failed"}]
  BY DEF Say, Go, Ready, Inv, TypeOK, Threads, Services
<1>2. m = entry["main"] + 1
  BY <1>1, Lengths DEF Inv, MainInv, INIT, Startup, Shutdown, Services, N
<1>3. /\ LogInv' /\ \A e : AllTried(e)' <=> AllTried(e)
      /\ entry' = [entry EXCEPT !["main"] = m] /\ writing' = [writing EXCEPT !["main"] = Sinks]
      /\ UNCHANGED <<opened, outbox, log, lost>> /\ entry \in [Threads -> Nat]
  <2>1. [by |-> "main", n |-> m] \in Entries /\ m \in Nat
    BY Lengths DEF Entries, Shutdown, N
  <2> QED
    BY <1>1, <1>2, <2>1, EntryMade DEF Say
<1>4. MainInv' /\ WaitInv'
  <2>1. CASE step = "init"
    BY <1>1, <1>3, <2>1 DEF Inv, MainInv, WaitInv, INIT, Services, MainSteps
  <2>2. CASE step = "register"
    BY <1>1, <1>3, <2>2 DEF Inv, MainInv, WaitInv, Services, MainSteps
  <2>3. CASE step = "wait"
    BY <1>1, <1>3, <2>3 DEF Inv, MainInv, WaitInv, Services, MainSteps
  <2> QED
    BY <2>1, <2>2, <2>3
<1>5. TypeOK'
  BY <1>1, <1>3 DEF Inv, TypeOK, MainSteps, Services, Say, Ready
<1>6. ServiceInv'
  <2>1. \A s \in Services : pc'[s] = pc[s] /\ entry'[s] = entry[s]
    BY <1>1, <1>3 DEF Threads
  <2>2. \A s \in Services : pc["main"] \in After[s] => pc'["main"] \in After[s]
    BY <1>1 DEF Services, After
  <2> QED
    BY <1>1, <1>3, <2>1, <2>2 DEF Inv, ServiceInv
<1>7. ConnInv' /\ PanicOnRecord'
  BY <1>1 DEF Inv, ConnInv, PanicOnRecord
<1> QED
  BY <1>3, <1>4, <1>5, <1>6, <1>7 DEF Inv

(* Registration.                                                            *)
LEMMA RegisterInv ==
  ASSUME Inv, Register
  PROVE  Inv'
<1>1. /\ registered' = registered + 1 /\ registered < N /\ registered \in Nat
      /\ pc["main"] = "register" /\ exit = "no" /\ entry["main"] = registered + 1
      /\ UNCHANGED <<flags, pc, exit, wg, conn>>
      /\ "main" \in Threads /\ "main" \notin Services
  BY Lengths DEF Register, Ready, Inv, TypeOK, MainInv, N, Threads, Services
<1>2. /\ LogInv' /\ \A e : AllTried(e)' <=> AllTried(e)
      /\ entry' = [entry EXCEPT !["main"] = registered + 2]
      /\ writing' = [writing EXCEPT !["main"] = Sinks]
      /\ UNCHANGED <<opened, outbox, log, lost>> /\ entry \in [Threads -> Nat]
  <2>1. /\ MakeLogEntry("main", registered + 2) /\ Ready("main")
        /\ [by |-> "main", n |-> registered + 2] \in Entries
    BY <1>1, Lengths DEF Register, Added, Entries, Shutdown, N
  <2> QED
    BY <1>1, <2>1, EntryMade
<1>3. TypeOK'
  BY <1>1, <1>2, Lengths DEF Inv, TypeOK, N, Register, Ready
<1>4. MainInv' /\ WaitInv' /\ ConnInv' /\ PanicOnRecord'
  BY <1>1, <1>2 DEF Inv, MainInv, WaitInv, ConnInv, PanicOnRecord, Services
<1>5. ServiceInv'
  BY <1>1, <1>2 DEF Inv, ServiceInv, Threads
<1> QED
  BY <1>2, <1>3, <1>4, <1>5 DEF Inv

(* main starts a service, or does not.                                      *)
LEMMA StartInv ==
  ASSUME Inv, NEW s \in Services, Start(s)
  PROVE  Inv'
<1>1. /\ pc["main"] = s /\ exit = "no" /\ Ready("main")
      /\ wg' = IF s \in flags THEN wg + 1 ELSE wg
      /\ pc' = [pc EXCEPT !["main"] = NextOf[s], ![s] = IF s \in flags THEN "listen" ELSE @]
      /\ UNCHANGED <<flags, exit, registered, logs, conn>>
      /\ registered = N /\ entry["main"] = Startup
  BY DEF Start, Ready, Inv, MainInv
<1>2. /\ pc \in [Threads -> MainSteps \cup {"off", "listen", "start", "serve", "failed"}]
      /\ "main" \in Threads /\ s \in Threads /\ s # "main" /\ wg \in Nat
      /\ NextOf[s] \in {"rest", "web", "wait"}
  BY DEF Inv, TypeOK, Threads, Services, NextOf
<1>3. LogInv' /\ \A e : AllTried(e)' <=> AllTried(e)
  BY <1>1, NothingLogged
<1>4. TypeOK'
  BY <1>1, <1>2 DEF Inv, TypeOK, MainSteps, Services, logs
<1>5. MainInv'
  BY <1>1, <1>2 DEF Inv, MainInv, MainSteps, Services, logs
<1>6. WaitInv'
  <2>1. CASE s = "x3270"
    BY <1>1, <1>2, <2>1 DEF WaitInv, NextOf
  <2>2. CASE s = "rest"
    BY <1>1, <1>2, <2>2 DEF Inv, TypeOK, Services, WaitInv, NextOf
  <2>3. CASE s = "web"
    BY <1>1, <1>2, <2>3 DEF Inv, TypeOK, Services, WaitInv, NextOf
  <2> QED
    BY <2>1, <2>2, <2>3 DEF Services
<1>7. ServiceInv'
  <2>1. \A n \in 1..Startup : AllTried(OfMain(n))'
    BY <1>1, <1>3, LastTried
  <2>2. ASSUME NEW u \in Services
        PROVE  \/ pc'[u] = pc[u]
               \/ pc'[u] = "listen" /\ u = s /\ s \in flags
    BY <1>1, <1>2 DEF Threads, Services
  <2>3. /\ s \notin After[s]
        /\ \A u \in Services : s \in After[u] => NextOf[s] \in After[u]
        /\ NextOf[s] \in After[s]
    BY DEF Services, After, NextOf
  <2>4. pc[s] = "off" /\ pc'["main"] = NextOf[s]
    BY <1>1, <1>2, <2>3 DEF Inv, ServiceInv, After, Services
  <2>5. UNCHANGED <<flags, entry>>
    BY <1>1 DEF logs
  <2>6. ASSUME NEW u \in Services, pc'[u] = pc[u]
        PROVE  pc'[u] # "off" => u \in flags' /\ pc'["main"] \in After[u]
    BY <1>1, <2>3, <2>4, <2>5, <2>6 DEF Inv, ServiceInv
  <2>7. ASSUME NEW u \in Services, pc'[u] # "off"
        PROVE  u \in flags' /\ pc'["main"] \in After[u]
    BY <1>1, <2>2, <2>3, <2>4, <2>5, <2>6, <2>7
  <2>8. ASSUME NEW u \in Services
        PROVE  /\ pc'[u] \in {"off", "listen", "start", "serve", "failed"}
               /\ pc'[u] \in {"off", "listen"} => entry'[u] = 0
               /\ pc'[u] \in {"start", "serve"} => entry'[u] = Started
               /\ pc'[u] = "failed" => u = "x3270" /\ entry'[u] \in {StartFailed, AcceptFailed}
               /\ pc'[u] = "start" => u # "x3270"
    BY <2>2, <2>4, <2>5 DEF Inv, ServiceInv
  <2> QED
    BY <2>1, <2>7, <2>8 DEF ServiceInv
<1>8. ConnInv' /\ PanicOnRecord'
  BY <1>1 DEF Inv, ConnInv, PanicOnRecord
<1> QED
  BY <1>3, <1>4, <1>5, <1>6, <1>7, <1>8 DEF Inv

(* Every step of main.                                                      *)
LEMMA MainStep ==
  ASSUME Inv, Main
  PROVE  Inv'
<1>1. ASSUME NEW step, NEW next, SetUp(step, next),
             step \in {"configure", "database", "messaging"},
             next \in {"database", "messaging", "init"}
      PROVE  Inv'
  <2>1. /\ pc' = [pc EXCEPT !["main"] = next] /\ pc["main"] = step
        /\ UNCHANGED <<flags, exit, registered, wg, logs, conn>>
        /\ "main" \in Threads /\ "main" \notin Services
        /\ pc \in [Threads -> MainSteps \cup {"off", "listen", "start", "serve", "failed"}]
    BY <1>1 DEF SetUp, Go, Inv, TypeOK, Threads, Services
  <2>2. LogInv' /\ \A e : AllTried(e)' <=> AllTried(e)
    BY <2>1, NothingLogged
  <2>3. TypeOK' /\ MainInv' /\ WaitInv'
    BY <1>1, <2>1 DEF Inv, TypeOK, MainInv, WaitInv, MainSteps, Services, logs
  <2>4. \A s \in Services : pc'[s] = pc[s] /\ pc["main"] \notin After[s]
    BY <1>1, <2>1 DEF Threads, Services, After
  <2>5. ServiceInv'
    BY <2>1, <2>2, <2>4 DEF Inv, ServiceInv, logs
  <2>6. ConnInv' /\ PanicOnRecord'
    BY <2>1, <2>4, SamePanic DEF Inv, ConnInv, logs, Services
  <2> QED
    BY <2>2, <2>3, <2>5, <2>6 DEF Inv
<1>2. CASE SetupConfiguration \/ InitialiseDatabase \/ InitialiseMessaging
  BY <1>1, <1>2 DEF SetupConfiguration, InitialiseDatabase, InitialiseMessaging
<1>3. CASE LogInit \/ LogStartup \/ LogShutdown
  <2>1. INIT \in 1..Shutdown /\ Startup \in 1..Shutdown /\ Shutdown \in 1..Shutdown
    BY Lengths DEF INIT, Startup, Shutdown, N
  <2> QED
    BY <1>3, <2>1, SayInv DEF LogInit, LogStartup, LogShutdown, N
<1>4. CASE MainReturns
  <2>1. pc["x3270"] # "failed"
    BY <1>4 DEF MainReturns, Inv, MainInv, ServiceInv, Services
  <2> QED
    BY <1>4, <2>1, EndInv DEF MainReturns, Ready
<1> QED
  BY <1>2, <1>3, <1>4, RegisterInv, StartInv DEF Main

-----------------------------------------------------------------------------
(* A service goes on without an entry, or with its next one.                *)
LEMMA ServiceMoves ==
  ASSUME Inv, NEW s \in Services, NEW step, Go(s, step), pc[s] # "off", exit = "no",
         UNCHANGED <<flags, exit, registered, wg, conn>>,
         TypeOK', LogInv', \A e : AllTried(e)' <=> AllTried(e),
         \A t \in Threads : t # s => entry'[t] = entry[t],
         \/ step \in {"start", "serve"} /\ entry'[s] = Started
         \/ step = "failed" /\ s = "x3270" /\ entry'[s] \in {StartFailed, AcceptFailed},
         step = "start" => s # "x3270"
  PROVE  Inv'
<1>1. /\ pc' = [pc EXCEPT ![s] = step]
      /\ pc \in [Threads -> MainSteps \cup {"off", "listen", "start", "serve", "failed"}]
      /\ s \in Threads /\ s # "main" /\ "main" \in Threads
  BY DEF Go, Inv, TypeOK, Threads, Services
<1>2. pc'["main"] = pc["main"] /\ entry'["main"] = entry["main"]
  BY <1>1
<1>3. MainInv' /\ WaitInv'
  BY <1>2 DEF Inv, MainInv, WaitInv
<1>4. ServiceInv'
  <2>1. ASSUME NEW u \in Services, u # s PROVE pc'[u] = pc[u] /\ entry'[u] = entry[u]
    BY <1>1, <2>1 DEF Threads
  <2>2. pc'[s] = step
    BY <1>1
  <2> QED
    BY <1>2, <2>1, <2>2 DEF Inv, ServiceInv
<1>5. ConnInv' /\ PanicOnRecord'
  BY DEF Inv, ConnInv, PanicOnRecord
<1> QED
  BY <1>3, <1>4, <1>5 DEF Inv

(* A service makes its next entry.                                          *)
LEMMA ServiceSays ==
  ASSUME Inv, NEW s \in Services, Ready(s), NEW step, Go(s, step),
         NEW m, MakeLogEntry(s, m), UNCHANGED <<flags, exit, registered, wg, conn>>,
         \/ pc[s] = "listen" /\ step \in {"start", "serve"} /\ m = Started
         \/ pc[s] = "listen" /\ step = "failed" /\ s = "x3270" /\ m = StartFailed
         \/ pc[s] = "serve" /\ step = "failed" /\ s = "x3270" /\ m = AcceptFailed,
         step = "start" => s # "x3270"
  PROVE  Inv'
<1>1. /\ m \in {Started, StartFailed, AcceptFailed} /\ m \in Nat /\ m # 0
      /\ [by |-> s, n |-> m] \in Entries /\ s \in Threads /\ s # "main" /\ exit = "no"
  BY DEF Entries, Started, StartFailed, AcceptFailed, Threads, Services, Ready
<1>2. \/ entry[s] = 0 /\ m \in {Started, StartFailed}
      \/ entry[s] = Started /\ m = AcceptFailed
  BY DEF Inv, ServiceInv
<1>3. /\ LogInv' /\ \A e : AllTried(e)' <=> AllTried(e)
      /\ entry' = [entry EXCEPT ![s] = m] /\ writing' = [writing EXCEPT ![s] = Sinks]
      /\ UNCHANGED <<opened, outbox, log, lost>> /\ entry \in [Threads -> Nat]
  BY <1>1, <1>2, EntryMade
<1>4. TypeOK'
  BY <1>1, <1>3 DEF Inv, TypeOK, Go, Ready
<1> QED
  BY <1>1, <1>3, <1>4, ServiceMoves

(* Requests.                                                                *)
LEMMA ConnStep ==
  ASSUME Inv, NEW c \in Conns,
         LookUp(c) \/ Close(c) \/ \E s \in Services : Accept(c, s)
  PROVE  Inv'
<1>1. UNCHANGED <<flags, pc, exit, registered, wg, logs>>
  BY DEF LookUp, Close, Accept
<1>2. registered = N
  <2>1. ASSUME NEW s \in Services, pc[s] = "serve" PROVE registered = N
    BY <2>1 DEF Inv, ServiceInv, MainInv, After, Services
  <2>2. conn[c] # "none" => registered = N
    BY DEF Inv, ConnInv
  <2> QED
    BY <2>1, <2>2 DEF LookUp, Close, Accept
<1>3. conn' \in [Conns -> {"none", "x3270", "request", "found", "unknown"}]
      /\ \A d \in Conns : conn'[d] # "unknown"
  <2>1. \E v \in {"none", "x3270", "request", "found"} : conn' = [conn EXCEPT ![c] = v]
    <3>1. CASE LookUp(c)
      BY <1>2, <3>1 DEF LookUp, N
    <3>2. CASE Close(c)
      BY <3>2 DEF Close
    <3>3. CASE \E s \in Services : Accept(c, s)
      BY <3>3 DEF Accept
    <3> QED
      BY <3>1, <3>2, <3>3
  <2> QED
    BY <2>1 DEF Inv, TypeOK, ConnInv
<1>4. LogInv' /\ \A e : AllTried(e)' <=> AllTried(e)
  BY <1>1, NothingLogged
<1>5. TypeOK' /\ ConnInv'
  BY <1>1, <1>2, <1>3 DEF Inv, TypeOK, ConnInv, logs
<1>6. MainInv' /\ WaitInv' /\ ServiceInv' /\ PanicOnRecord'
  BY <1>1, <1>4, SamePanic DEF Inv, MainInv, WaitInv, ServiceInv, logs
<1> QED
  BY <1>4, <1>5, <1>6 DEF Inv

-----------------------------------------------------------------------------
(* Every step keeps the invariant.                                          *)
LEMMA StepInv == Inv /\ [Next]_vars => Inv'
<1> SUFFICES ASSUME Inv, [Next]_vars PROVE Inv'
  OBVIOUS
<1>1. CASE SetupPanics
  <2>1. pc["x3270"] # "failed"
    BY <1>1 DEF SetupPanics, Inv, ServiceInv, Services, After
  <2> QED
    BY <1>1, <2>1, EndInv DEF SetupPanics
<1>2. CASE ListenX3270
  <2>1. "x3270" \in Services
    BY DEF Services
  <2> QED
    BY <1>2, <2>1, ServiceSays DEF ListenX3270
<1>3. CASE FailToAccept
  <2>1. "x3270" \in Services
    BY DEF Services
  <2> QED
    BY <1>3, <2>1, ServiceSays DEF FailToAccept
<1>4. CASE Panic
  BY <1>4, EndInv DEF Panic, Ready
<1>5. ASSUME NEW s \in HTTP, StartUp(s) PROVE Inv'
  <2>1. s \in Services /\ s # "x3270"
    BY DEF HTTP, Services
  <2>2. CASE LogStarting(s)
    BY <2>1, <2>2, ServiceSays DEF LogStarting
  <2>3. CASE RouterStart(s)
    <3>1. LogInv' /\ \A e : AllTried(e)' <=> AllTried(e)
      BY <2>3, NothingLogged DEF RouterStart
    <3>2. TypeOK' /\ UNCHANGED <<entry, writing>>
      BY <2>3 DEF RouterStart, Go, logs, Inv, TypeOK
    <3>3. entry'[s] = Started /\ exit = "no" /\ pc[s] # "off"
      BY <2>1, <2>3, <3>2 DEF RouterStart, Ready, Inv, ServiceInv
    <3> QED
      BY <2>1, <2>3, <3>1, <3>2, <3>3, ServiceMoves DEF RouterStart, Inv, TypeOK
  <2>4. CASE RouterFails(s)
    BY <2>4, EndInv DEF RouterFails, Ready
  <2> QED
    BY <1>5, <2>2, <2>3, <2>4 DEF StartUp
<1>6. ASSUME NEW s \in HTTP, ServeFails(s) PROVE Inv'
  BY <1>6, EndInv DEF ServeFails
<1>7. CASE UNCHANGED vars
  <2>1. LogInv' /\ \A e : AllTried(e)' <=> AllTried(e)
    BY <1>7, NothingLogged DEF vars
  <2>2. PanicOnRecord'
    BY <1>7, SamePanic DEF vars, logs, Inv
  <2> QED
    BY <1>7, <2>1, <2>2 DEF vars, logs, Inv, TypeOK, MainInv, WaitInv, ServiceInv, ConnInv
<1> QED
  BY <1>1, <1>2, <1>3, <1>4, <1>5, <1>6, <1>7, MainStep, ConnStep, LoggingInv,
     SendInv, CloseInv DEF Next

(* Inv is an invariant of the specification.                                *)
THEOREM Invariance == Spec => []Inv
  BY InitInv, StepInv, PTL DEF Spec

(* Type correctness.                                                        *)
THEOREM TypeCorrect == Spec => []TypeOK
<1>1. Inv => TypeOK
  BY DEF Inv
<1> QED
  BY <1>1, Invariance, PTL

(* No request finds a registry that is being filled, however many names.    *)
THEOREM RegistriesAreComplete == Spec => []RegistriesComplete
<1>1. Inv => RegistriesComplete
  BY DEF Inv, ConnInv, RegistriesComplete, N
<1> QED
  BY <1>1, Invariance, PTL

(* The three logs keep the order of the program.                            *)
THEOREM LogsAreInOrder == Spec => []LogsInOrder
<1>1. Inv => LogsInOrder
  <2> SUFFICES ASSUME Inv PROVE LogsInOrder
    OBVIOUS
  <2>1. \A k \in Sinks : \A f \in Tried(k) : \A e \in Entries : Precedes(e, f) => AllTried(e)
    BY InOrder
  <2>2. \A f \in log["messaging"] : \A e \in Published : ~Precedes(e, f)
    BY DEF Inv, LogInv, OutboxInv, Published
  <2> QED
    BY <2>1, <2>2 DEF LogsInOrder, AllTried, Sinks
<1> QED
  BY <1>1, Invariance, PTL

(* What the log says of start-up has happened.                              *)
THEOREM LogIsTrue == Spec => []LogTellsTruth
<1>1. Inv => LogTellsTruth
  <2> SUFFICES ASSUME Inv PROVE LogTellsTruth
    OBVIOUS
  <2>1. ASSUME NEW t, NEW n, Logged(t, n) PROVE Made([by |-> t, n |-> n])
    BY <2>1 DEF Inv, LogInv, Logged, Tried
  <2>2. entry["main"] \in Nat /\ registered \in Nat /\ registered <= N
    BY Lengths DEF Inv, TypeOK, Threads, N
  <2>3. /\ \A i \in 1..N : Logged("main", Added(i)) => i <= registered
        /\ Logged("main", Startup) => registered = N
        /\ Logged("main", Shutdown) => flags = {}
    <3>1. ASSUME NEW n \in Nat, Logged("main", n) PROVE n <= entry["main"]
      BY <2>1, <3>1 DEF Made
    <3> QED
      BY <2>2, <3>1, Lengths DEF Inv, MainInv, MainSteps, Services, Added, Startup, Shutdown, N
  <2>4. /\ Logged("x3270", Started) => pc["x3270"] \in {"serve", "failed"}
        /\ Logged("x3270", StartFailed) => pc["x3270"] = "failed"
    BY <2>1 DEF Made, Inv, ServiceInv, Services, Started, StartFailed, AcceptFailed
  <2> QED
    BY <2>3, <2>4 DEF LogTellsTruth, N
<1> QED
  BY <1>1, Invariance, PTL

(* The terminal service does not take the process down before the database  *)
(* and the log file have the reason, or lost it, and the broker's client    *)
(* was given it.                                                            *)
THEOREM PanicsAreOnRecord == Spec => []PanicOnRecord
<1>1. Inv => PanicOnRecord
  BY DEF Inv
<1> QED
  BY <1>1, Invariance, PTL
=============================================================================
