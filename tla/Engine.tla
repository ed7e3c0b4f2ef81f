------------------------------- MODULE Engine -------------------------------
(***************************************************************************)
(* One life of the process ga10: main (ga10.go) reads the configuration,   *)
(* connects to the database and the broker, registers the protocols and    *)
(* rules, and starts the services that the command line asks for, each in  *)
(* a goroutine of its own.  All of them log on the way, and MakeLogEntry   *)
(* (logging.go) writes an entry to three sinks in parallel.                *)
(*                                                                         *)
(* Any goroutine ends the process: by a panic, by Logger.Fatal or, main,   *)
(* by returning.  Connections and each opening of the log file take file    *)
(* descriptors, of which the process has MaxFiles; those that are held      *)
(* from start to end, as the connections to database and broker, are not   *)
(* counted.                                                                *)
(* Killing the process changes nothing below: what the logs hold then is   *)
(* what they hold in the state it is killed in.                            *)
(***************************************************************************)
EXTENDS Naturals, Sequences, FiniteSets

CONSTANTS
  Protocols, Rules,   \* names in the order of their registration
  Conns,              \* connections that clients may open
  MaxFiles,           \* file descriptors for listeners, connections, the log file
  MaxOutbox,          \* messages that the broker's client takes before it sends one
  CommandLines,       \* bound: the sets of services that a command line asks for
  MayLose             \* bound: the writes of log entries that may fail, <<sink, entry>>

ASSUME RegistrationAssumption == Protocols \in Seq(STRING) /\ Rules \in Seq(STRING)
ASSUME BoundsAssumption ==
  MaxFiles \in Nat /\ MaxOutbox \in Nat \ {0}

Services == {"x3270", "rest", "web"}

ASSUME CommandLinesAssumption == CommandLines \subseteq SUBSET Services

Threads == Services \cup {"main"}
Sinks == {"db", "messaging", "logfile"}

VARIABLES
  flags,       \* the services the command line asks for
  pc,          \* where a goroutine is
  exit,        \* how the process ended, "no" while it runs
  registered,  \* how many protocols and rules are in the registries
  wg,          \* main's wait group
  entry,       \* the number of the last log entry a goroutine made
  writing,     \* the sinks whose goroutine has yet to call Done for its entry
  opened,      \* the entries whose goroutine has the log file open
  outbox,      \* the entries published that the broker's client has yet to send
  log,         \* the entries in a sink
  lost,        \* the entries whose write to a sink failed
  conn         \* connections

logs == <<entry, writing, opened, outbox, log, lost>>
vars == <<flags, pc, exit, registered, wg, logs, conn>>

-----------------------------------------------------------------------------
Registrations == Protocols \o Rules

(* The entries of a goroutine are numbered in the order it makes them.      *)
INIT == 1                               \* "startup/INIT"
Added(i) == i + 1                       \* "add" of the i-th registration
Startup == Len(Registrations) + 2
Shutdown == Len(Registrations) + 3
Started == 1                            \* a service's "started" or "starting"
StartFailed == 2                        \* the terminal service's "failed to start"
AcceptFailed == 3                       \* and "failed to accept"

Entries ==
  [by : {"main"}, n : 1..Shutdown] \cup [by : Services, n : {Started, StartFailed, AcceptFailed}]

Init ==
  /\ flags \in CommandLines
  /\ pc = [t \in Threads |-> IF t = "main" THEN "configure" ELSE "off"]
  /\ exit = "no"
  /\ registered = 0 /\ wg = 0
  /\ entry = [t \in Threads |-> 0]
  /\ writing = [t \in Threads |-> {}]
  /\ opened = {} /\ outbox = <<>>
  /\ log = [k \in Sinks |-> {}]
  /\ lost = [k \in Sinks |-> {}]
  /\ conn = [c \in Conns |-> "none"]

(* File descriptors in use.                                                 *)
Files ==
  Cardinality({s \in Services : pc[s] = "serve"}) + Cardinality(opened)
    + Cardinality({c \in Conns : conn[c] # "none"})

Go(t, step) == pc' = [pc EXCEPT ![t] = step]

End(how) == exit' = how /\ UNCHANGED <<flags, pc, registered, wg, logs, conn>>

-----------------------------------------------------------------------------
(***************************************************************************)
(* Logging.  MakeLogEntry starts one goroutine for each sink and waits for *)
(* them; their results are ignored.                                        *)
(***************************************************************************)
(* Mutant of Ready: the caller does not wait for the publication.           *)
ReadyUnpublished(t) == exit = "no" /\ writing[t] \subseteq {"messaging"}

(* wg.Wait has returned.                                                    *)
Ready(t) == exit = "no" /\ writing[t] = {}

MakeLogEntry(t, n) ==
  /\ entry' = [entry EXCEPT ![t] = n]
  /\ writing' = [writing EXCEPT ![t] = Sinks]
  /\ UNCHANGED <<opened, outbox, log, lost>>

Last(t) == [by |-> t, n |-> entry[t]]

Lose(k, e) == lost' = [lost EXCEPT ![k] = @ \cup {e}] /\ UNCHANGED log

(* Entry e is in sink k, or lost to it.                                     *)
Written(k, e) ==
  \/ log' = [log EXCEPT ![k] = @ \cup {e}] /\ UNCHANGED lost
  \/ <<k, e>> \in MayLose /\ Lose(k, e)

(* The goroutine for sink k calls Done.                                     *)
Done(t, k) ==
  /\ exit = "no" /\ k \in writing[t]
  /\ writing' = [writing EXCEPT ![t] = @ \ {k}]
  /\ UNCHANGED <<flags, pc, exit, registered, wg, entry, conn>>

WriteToDB(t) == Done(t, "db") /\ Written("db", Last(t)) /\ UNCHANGED <<opened, outbox>>

(* Publish hands the message to the broker's client as soon as that takes   *)
(* it.  Nobody waits for the token that it returns.                         *)
WriteToMessaging(t) ==
  /\ Done(t, "messaging")
  /\ \/ Len(outbox) < MaxOutbox /\ outbox' = Append(outbox, Last(t)) /\ UNCHANGED <<log, lost>>
     \/ <<"messaging", Last(t)>> \in MayLose /\ Lose("messaging", Last(t)) /\ UNCHANGED outbox
  /\ UNCHANGED opened

(* The client sends in a goroutine of its own; at quality of service 0 it   *)
(* does not send again what gets lost.                                     *)
Send ==
  /\ exit = "no" /\ outbox # <<>>
  /\ outbox' = Tail(outbox)
  /\ Written("messaging", Head(outbox))
  /\ UNCHANGED <<flags, pc, exit, registered, wg, entry, writing, opened, conn>>

(* Mutant of OpenLogfile: it returns when the file cannot be opened.        *)
OpenLogfileReturns(t) ==
  /\ exit = "no" /\ "logfile" \in writing[t] /\ Last(t) \notin opened
  /\ Files < MaxFiles
  /\ opened' = opened \cup {Last(t)}
  /\ UNCHANGED <<flags, pc, exit, registered, wg, entry, writing, outbox, log, lost, conn>>

(* writeToLogfile: without a descriptor there is no file to write to, and   *)
(* the code carries on to Done.                                             *)
OpenLogfile(t) ==
  /\ exit = "no" /\ "logfile" \in writing[t] /\ Last(t) \notin opened
  /\ \/ /\ Files < MaxFiles
        /\ opened' = opened \cup {Last(t)}
        /\ UNCHANGED <<flags, pc, exit, registered, wg, entry, writing, outbox, log, lost, conn>>
     \/ /\ Files >= MaxFiles
        /\ Done(t, "logfile") /\ Lose("logfile", Last(t)) /\ UNCHANGED <<opened, outbox>>

(* It writes and calls Done, and so the caller may go on ...                *)
WriteLogfile(t) ==
  /\ Last(t) \in opened
  /\ Done(t, "logfile") /\ Written("logfile", Last(t)) /\ UNCHANGED <<opened, outbox>>

IsWritten(e) == e # Last(e.by) \/ "logfile" \notin writing[e.by]

(* Mutant of CloseLogfile: it is not closed if the write failed.            *)
CloseLogfileIfLogged(e) ==
  /\ exit = "no" /\ e \in log["logfile"]
  /\ opened' = opened \ {e}
  /\ UNCHANGED <<flags, pc, exit, registered, wg, entry, writing, outbox, log, lost, conn>>

(* ... before the deferred Close.                                           *)
CloseLogfile(e) ==
  /\ exit = "no" /\ IsWritten(e)
  /\ opened' = opened \ {e}
  /\ UNCHANGED <<flags, pc, exit, registered, wg, entry, writing, outbox, log, lost, conn>>

Logging(t) == WriteToDB(t) \/ WriteToMessaging(t) \/ OpenLogfile(t) \/ WriteLogfile(t)

-----------------------------------------------------------------------------
(***************************************************************************)
(* main.                                                                   *)
(***************************************************************************)
(* SetupConfiguration, initialiseDatabase and initialiseMessaging succeed   *)
(* or panic.                                                                *)
SetUp(step, next) ==
  /\ exit = "no" /\ pc["main"] = step
  /\ Go("main", next)
  /\ UNCHANGED <<flags, exit, registered, wg, logs, conn>>

SetupConfiguration == SetUp("configure", "database")
InitialiseDatabase == SetUp("database", "messaging")
InitialiseMessaging == SetUp("messaging", "init")

SetupPanics ==
  /\ exit = "no" /\ pc["main"] \in {"configure", "database", "messaging"}
  /\ End("panic")

(* An entry of main's own.                                                  *)
Say(step, n, next) ==
  /\ Ready("main") /\ pc["main"] = step
  /\ MakeLogEntry("main", n)
  /\ Go("main", next)
  /\ UNCHANGED <<flags, exit, registered, wg, conn>>

LogInit == Say("init", INIT, "register")

(* Mutant of Register: one more than there are.                             *)
RegisterBeyond ==
  /\ Ready("main") /\ pc["main"] = "register" /\ registered <= Len(Registrations)
  /\ registered' = registered + 1
  /\ MakeLogEntry("main", Added(registered'))
  /\ UNCHANGED <<flags, pc, exit, wg, conn>>

(* AddProtocol and AddRule write to the map, then log.                      *)
Register ==
  /\ Ready("main") /\ pc["main"] = "register" /\ registered < Len(Registrations)
  /\ registered' = registered + 1
  /\ MakeLogEntry("main", Added(registered'))
  /\ UNCHANGED <<flags, pc, exit, wg, conn>>

(* Mutant of LogStartup: the services start when the protocols are in.      *)
LogStartupEarly ==
  registered >= Len(Protocols) /\ Say("register", Startup, "x3270")

LogStartup ==
  registered = Len(Registrations) /\ Say("register", Startup, "x3270")

NextOf == [x3270 |-> "rest", rest |-> "web", web |-> "wait"]

(* Mutant of Start: the last service is not counted.                        *)
StartUncounted(s) ==
  /\ Ready("main") /\ pc["main"] = s
  /\ wg' = IF s \in flags \ {"web"} THEN wg + 1 ELSE wg
  /\ pc' = [pc EXCEPT !["main"] = NextOf[s], ![s] = IF s \in flags THEN "listen" ELSE @]
  /\ UNCHANGED <<flags, exit, registered, logs, conn>>

(* One of the three ifs of main: wg.Add(1) and go.                          *)
Start(s) ==
  /\ Ready("main") /\ pc["main"] = s
  /\ wg' = IF s \in flags THEN wg + 1 ELSE wg
  /\ pc' = [pc EXCEPT !["main"] = NextOf[s], ![s] = IF s \in flags THEN "listen" ELSE @]
  /\ UNCHANGED <<flags, exit, registered, logs, conn>>

(* No service ever calls Done.                                              *)
LogShutdown == wg = 0 /\ Say("wait", Shutdown, "return")

MainReturns == Ready("main") /\ pc["main"] = "return" /\ End("clean")

Main ==
  \/ SetupConfiguration \/ InitialiseDatabase \/ InitialiseMessaging
  \/ LogInit \/ Register \/ LogStartup
  \/ \E s \in Services : Start(s)
  \/ LogShutdown \/ MainReturns

-----------------------------------------------------------------------------
(***************************************************************************)
(* The terminal service, StartX3270: it logs once it listens; if it cannot *)
(* listen or accept, it logs that and panics.                              *)
(***************************************************************************)
ListenX3270 ==
  /\ Ready("x3270") /\ pc["x3270"] = "listen"
  /\ \/ Files < MaxFiles /\ Go("x3270", "serve") /\ MakeLogEntry("x3270", Started)
     \/ Go("x3270", "failed") /\ MakeLogEntry("x3270", StartFailed)
  /\ UNCHANGED <<flags, exit, registered, wg, conn>>

Accept(c, s) ==
  /\ Ready(s) /\ pc[s] = "serve" /\ conn[c] = "none" /\ Files < MaxFiles
  /\ conn' = [conn EXCEPT ![c] = IF s = "x3270" THEN s ELSE "request"]
  /\ UNCHANGED <<flags, pc, exit, registered, wg, logs>>

(* A client connects when there is no descriptor left.                      *)
FailToAccept ==
  /\ Ready("x3270") /\ pc["x3270"] = "serve" /\ Files >= MaxFiles
  /\ \E c \in Conns : conn[c] = "none"
  /\ Go("x3270", "failed") /\ MakeLogEntry("x3270", AcceptFailed)
  /\ UNCHANGED <<flags, exit, registered, wg, conn>>

(* Mutant of Panic: the entry is still being written.                       *)
PanicAtOnce == exit = "no" /\ pc["x3270"] = "failed" /\ End("panic")

Panic == Ready("x3270") /\ pc["x3270"] = "failed" /\ End("panic")

-----------------------------------------------------------------------------
(***************************************************************************)
(* The REST and web services: StartRESTInterface and StartWebUI log before *)
(* router.Start, which returns only when it fails; Logger.Fatal then exits. *)
(* For want of a descriptor the http server waits and accepts later.       *)
(***************************************************************************)
HTTP == {"rest", "web"}

LogStarting(s) ==
  /\ Ready(s) /\ pc[s] = "listen"
  /\ Go(s, "start") /\ MakeLogEntry(s, Started)
  /\ UNCHANGED <<flags, exit, registered, wg, conn>>

RouterStart(s) ==
  /\ Ready(s) /\ pc[s] = "start" /\ Files < MaxFiles
  /\ Go(s, "serve")
  /\ UNCHANGED <<flags, exit, registered, wg, logs, conn>>

RouterFails(s) == Ready(s) /\ pc[s] = "start" /\ End("fatal")

ServeFails(s) == exit = "no" /\ pc[s] = "serve" /\ End("fatal")

(* GetProtocol or GetRule for one of the names that are to be registered.   *)
LookUp(c) ==
  /\ exit = "no" /\ conn[c] = "request"
  /\ \E i \in 1..Len(Registrations) :
       conn' = [conn EXCEPT ![c] = IF i <= registered THEN "found" ELSE "unknown"]
  /\ UNCHANGED <<flags, pc, exit, registered, wg, logs>>

Close(c) ==
  /\ exit = "no" /\ conn[c] \notin {"none", "request"}
  /\ conn' = [conn EXCEPT ![c] = "none"]
  /\ UNCHANGED <<flags, pc, exit, registered, wg, logs>>

-----------------------------------------------------------------------------
StartUp(s) == LogStarting(s) \/ RouterStart(s) \/ RouterFails(s)

Next ==
  \/ Main \/ SetupPanics
  \/ ListenX3270 \/ FailToAccept \/ Panic
  \/ \E s \in HTTP : StartUp(s) \/ ServeFails(s)
  \/ \E c \in Conns : LookUp(c) \/ Close(c) \/ \E s \in Services : Accept(c, s)
  \/ \E t \in Threads : Logging(t)
  \/ \E e \in opened : CloseLogfile(e)
  \/ Send

(* Goroutines run on, those of the broker's client among them, and the      *)
(* calls to the database return.  Nothing makes clients connect or leave,   *)
(* or a running service fail.                                               *)
Fairness ==
  /\ WF_vars(Main \/ Logging("main"))
  /\ WF_vars(ListenX3270 \/ Panic \/ Logging("x3270"))
  /\ \A s \in HTTP : WF_vars(StartUp(s) \/ Logging(s))
  /\ WF_vars(\E e \in opened : CloseLogfile(e)) /\ WF_vars(Send)

Spec == Init /\ [][Next]_vars

FairSpec == Spec /\ Fairness

-----------------------------------------------------------------------------
(***************************************************************************)
(* Properties.                                                             *)
(***************************************************************************)
MainSteps == {"configure", "database", "messaging", "init", "register"}
               \cup Services \cup {"wait", "return"}

(* Every variable keeps its type.                                           *)
TypeOK ==
  /\ flags \subseteq Services
  /\ pc \in [Threads -> MainSteps \cup {"off", "listen", "start", "serve", "failed"}]
  /\ exit \in {"no", "clean", "panic", "fatal"}
  /\ registered \in 0..Len(Registrations) /\ wg \in Nat
  /\ entry \in [Threads -> Nat]
  /\ writing \in [Threads -> SUBSET Sinks]
  /\ opened \subseteq Entries /\ outbox \in Seq(Entries)
  /\ log \in [Sinks -> SUBSET Entries] /\ lost \in [Sinks -> SUBSET Entries]
  /\ conn \in [Conns -> {"none", "x3270", "request", "found", "unknown"}]

(* No request finds a registry that is still being filled: Go's maps must   *)
(* not be read while they are written, and Attest would call the nil        *)
(* function of a protocol that is not there (main registers before it       *)
(* starts the services).                                                    *)
RegistriesComplete ==
  \A c \in Conns :
    /\ conn[c] # "unknown"
    /\ conn[c] \in {"request", "found"} => registered = Len(Registrations)

Published == {outbox[i] : i \in DOMAIN outbox}

Tried(k) == log[k] \cup lost[k] \cup (IF k = "messaging" THEN Published ELSE {})

Precedes(e, f) ==
  \/ e.by = "main" /\ f.by = "main" /\ e.n < f.n
  \/ e.by = "main" /\ f.by \in Services /\ e.n <= Startup
  \/ e.by = f.by /\ e.n = Started /\ f.n = AcceptFailed

(* The three logs keep the order of the program although their goroutines   *)
(* run in parallel: an entry is in a sink only after every earlier entry of *)
(* its goroutine, and for a service all of start-up's, was written to the   *)
(* database and the log file and published, or lost (MakeLogEntry's wait    *)
(* group).  The broker gets an entry only after every earlier one that is   *)
(* still to be sent.                                                        *)
LogsInOrder ==
  LET missing == Entries \ (Tried("db") \cap Tried("messaging") \cap Tried("logfile"))
  IN  /\ \A k \in Sinks : \A f \in Tried(k) : \A e \in missing : ~Precedes(e, f)
      /\ \A f \in log["messaging"] : \A e \in Published : ~Precedes(e, f)

Logged(t, n) == \E k \in Sinks : [by |-> t, n |-> n] \in log[k]

(* What the log says of start-up has happened, even if the process died     *)
(* meanwhile: the registries hold what was added, the terminal service did  *)
(* listen, and the clean shutdown leaves no service behind (AddProtocol and *)
(* AddRule, StartX3270, and main's wait group).                             *)
LogTellsTruth ==
  /\ \A i \in 1..Len(Registrations) : Logged("main", Added(i)) => i <= registered
  /\ Logged("main", Startup) => registered = Len(Registrations)
  /\ Logged("x3270", Started) => pc["x3270"] \in {"serve", "failed"}
  /\ Logged("x3270", StartFailed) => pc["x3270"] = "failed"
  /\ Logged("main", Shutdown) => flags = {}

(* When the terminal service takes the whole process down, the reason was   *)
(* written to the database and the log file, or lost there, and given to    *)
(* the broker's client, which may not live to send it (StartX3270 logs, and *)
(* panics after MakeLogEntry returned).                                     *)
PanicOnRecord ==
  exit = "panic" /\ pc["x3270"] = "failed"
    => \A k \in Sinks : \E n \in {StartFailed, AcceptFailed} :
         [by |-> "x3270", n |-> n] \in Tried(k)

(* The process ends up with all services it was asked for, or not at all:   *)
(* no failure of one of them, and none of the logs, leaves it running with  *)
(* a part of them (ga10.go:90 "If any of these internal services fail to    *)
(* start, then the system will panic").                                     *)
ServesAllOrEnds ==
  <>[](exit # "no" \/ \A s \in flags : pc[s] = "serve")

(* Every opening of the log file is closed, also that for an entry whose    *)
(* write failed, unless the process ends (writeToLogfile's defer).          *)
LogfilesAreClosed == <>[](exit # "no" \/ opened = {})
=============================================================================
