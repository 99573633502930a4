-------------------------------- MODULE Daemon --------------------------------
(***************************************************************************)
(* The life of the daemon (levshell-daemon/src/lib.rs, run_with_sync): it  *)
(* binds its socket, accepts connections one at a time, reads the Hello of *)
(* each inside the accept loop, attaches the first shell and its modules,  *)
(* hands each ctl client to a task of its own, and unwinds when a signal   *)
(* arrives or the shell is gone.  It may crash and be started again.       *)
(*                                                                         *)
(* A client is one connection: it connects at most once.  What modules and *)
(* requests do is the business of other modules.                           *)
(***************************************************************************)
EXTENDS Naturals, Sequences, FiniteSets

CONSTANTS
  Shell, Ctl,  \* the clients, by the role their Hello gives
  NModules,    \* modules the factory makes
  MaxBoots,    \* bound on the starts of the daemon
  None

Client == Shell \cup Ctl

ASSUME DaemonAssumption ==
  /\ Shell \cap Ctl = {} /\ None \notin Client
  /\ {NModules, MaxBoots} \subseteq Nat \ {0}

VARIABLES
  phase,      \* of run_with_sync: "down", "accept", "handshake", "attach",
              \* and then "runner", "sync", "tasks" of the clean-up
  socket,     \* the socket file: "none", "stale" (nobody listens) or "live"
  backlog,    \* connections the listener has yet to accept
  cur,        \* the connection whose Hello the accept loop reads
  place,      \* per client: "away", "queued", "held", "served", "attached", "closed"
  said,       \* per client: "nothing", "hello", or "wrong" (garbage, another version)
  asked,      \* ctl clients that have sent their request
  garbled,    \* clients whose frame behind the Hello cannot be decoded
  gone,       \* clients that have hung up
  answer,     \* per client: "none", "reply" or "error"
  factory,    \* factory_slot still holds the factory
  modules,    \* modules registered with the runner
  connected,  \* shell_connected, as ctl status reports it
  reader, writer, \* the shell's tasks: "none", "running", "ended"
  signal,     \* SIGINT or SIGTERM has arrived
  internal,   \* internal_shutdown_tx has been used
  boots,      \* counter for MaxBoots
  crashed     \* history: the last run did not return

daemonVars == <<factory, modules, connected, reader, writer, internal>>
clientVars == <<said, asked, garbled, gone>>
vars == <<phase, socket, backlog, cur, place, answer, clientVars, daemonVars,
          signal, boots, crashed>>

Running == phase # "down"

TypeOK ==
  /\ phase \in {"down", "accept", "handshake", "attach", "runner", "sync", "tasks"}
  /\ socket \in {"none", "stale", "live"}
  /\ backlog \in Seq(Client)
  /\ cur \in Client \cup {None}
  /\ place \in [Client -> {"away", "queued", "held", "served", "attached", "closed"}]
  /\ said \in [Client -> {"nothing", "hello", "wrong"}]
  /\ asked \subseteq Ctl /\ garbled \subseteq Client /\ gone \subseteq Client
  /\ answer \in [Client -> {"none", "reply", "error"}]
  /\ modules \in 0..NModules
  /\ {factory, connected, signal, internal, crashed} \subseteq BOOLEAN
  /\ {reader, writer} \subseteq {"none", "running", "ended"}
  /\ boots \in 0..MaxBoots
  /\ \A c \in Client : place[c] = "held" <=> phase = "handshake" /\ cur = c
  /\ \A c \in Client : place[c] = "queued" <=> \E i \in DOMAIN backlog : backlog[i] = c

\* What every run starts with.
Fresh ==
  /\ factory' = TRUE /\ modules' = 0 /\ connected' = FALSE
  /\ reader' = "none" /\ writer' = "none" /\ internal' = FALSE

\* The machine starts with or without the socket file of a daemon that crashed.
Init ==
  /\ phase = "down" /\ boots = 0 /\ signal = FALSE
  /\ crashed \in BOOLEAN
  /\ socket = IF crashed THEN "stale" ELSE "none"
  /\ backlog = <<>> /\ cur = None
  /\ place = [c \in Client |-> "away"]
  /\ said = [c \in Client |-> "nothing"] /\ answer = [c \in Client |-> "none"]
  /\ asked = {} /\ garbled = {} /\ gone = {}
  /\ factory = TRUE /\ modules = 0 /\ connected = FALSE
  /\ reader = "none" /\ writer = "none" /\ internal = FALSE

-----------------------------------------------------------------------------
(* Clients. *)

\* UnixStream::connect, which fails unless somebody listens.
Connect(c) ==
  /\ place[c] = "away" /\ socket = "live"
  /\ place' = [place EXCEPT ![c] = "queued"]
  /\ backlog' = Append(backlog, c)
  /\ UNCHANGED <<phase, socket, cur, answer, clientVars, daemonVars, signal, boots, crashed>>

Open(c) == place[c] \notin {"away", "closed"} /\ c \notin gone

SendHello(c) ==
  /\ Open(c) /\ said[c] = "nothing"
  /\ \E h \in {"hello", "wrong"} : said' = [said EXCEPT ![c] = h]
  /\ UNCHANGED <<phase, socket, backlog, cur, place, answer, asked, garbled, gone, daemonVars, signal, boots, crashed>>

\* levshell-ctl sends its request right behind the Hello.
Ask(c) ==
  /\ c \in Ctl /\ Open(c) /\ said[c] = "hello" /\ c \notin asked \cup garbled
  /\ asked' = asked \cup {c}
  /\ UNCHANGED <<phase, socket, backlog, cur, place, answer, said, garbled, gone, daemonVars, signal,
                 boots, crashed>>

\* A client of another version sends what is no CtlRequest, or no ShellMessage; what a
\* shell sends before it is attached is read then.
Garble(c) ==
  /\ Open(c) /\ said[c] = "hello" /\ c \notin asked \cup garbled
  /\ c \in Shell => place[c] = "attached"
  /\ garbled' = garbled \cup {c}
  /\ UNCHANGED <<phase, socket, backlog, cur, place, answer, said, asked, gone, daemonVars, signal,
                 boots, crashed>>

HangUp(c) ==
  /\ Open(c)
  /\ gone' = gone \cup {c}
  /\ UNCHANGED <<phase, socket, backlog, cur, place, answer, said, asked, garbled, daemonVars, signal, boots,
                 crashed>>

-----------------------------------------------------------------------------
(* The accept loop. *)

\* Up to IpcServer::bind, which removes a file that is there.
Boot ==
  /\ phase = "down" /\ boots < MaxBoots
  /\ phase' = "accept" /\ boots' = boots + 1 /\ socket' = "live"
  /\ signal' = FALSE /\ crashed' = FALSE
  /\ Fresh
  /\ UNCHANGED <<backlog, cur, place, answer, clientVars>>

Unwind ==
  /\ phase' = "runner"
  /\ UNCHANGED <<socket, backlog, cur, place, answer, clientVars, daemonVars, signal, boots, crashed>>

\* The three branches of select!, which takes any that is ready.
ShutdownSignalled == phase = "accept" /\ signal /\ Unwind
ShellDisconnected == phase = "accept" /\ internal /\ Unwind

\* IpcServer::accept may also fail, which ends the run.
AcceptFails == phase = "accept" /\ Unwind

Accept ==
  /\ phase = "accept" /\ backlog # <<>>
  /\ phase' = "handshake" /\ cur' = Head(backlog) /\ backlog' = Tail(backlog)
  /\ place' = [place EXCEPT ![Head(backlog)] = "held"]
  /\ UNCHANGED <<socket, answer, clientVars, daemonVars, signal, boots, crashed>>

\* What was said on connections that are closed is forgotten.
Forget(cs) ==
  /\ said' = [c \in Client |-> IF c \in cs THEN "nothing" ELSE said[c]]
  /\ asked' = asked \ cs /\ garbled' = garbled \ cs /\ gone' = gone \ cs

\* The Hello is read before anything else is looked at: neither a signal nor
\* the next connection is seen meanwhile.
Settle(where) ==
  /\ phase = "handshake"
  /\ place' = [place EXCEPT ![cur] = where]
  /\ Forget(IF where = "closed" THEN {cur} ELSE {})
  /\ cur' = None
  /\ UNCHANGED <<socket, backlog, signal, boots, crashed>>

\* Mutant: a shell that says something wrong uses up the factory.
BadHelloTakes ==
  /\ Settle("closed")
  /\ phase' = "accept"
  /\ said[cur] = "wrong" \/ (said[cur] = "nothing" /\ cur \in gone)
  /\ factory' = (factory /\ cur \notin Shell)
  /\ UNCHANGED <<answer, modules, connected, reader, writer, internal>>

\* Mutant: the end of the stream is not taken for an answer.
BadHelloNotEof ==
  /\ Settle("closed")
  /\ phase' = "accept"
  /\ said[cur] = "wrong"
  /\ UNCHANGED <<answer, daemonVars>>

\* End of stream, garbage (both without an answer), or another protocol version
\* (an error, if the client still takes one).
BadHello ==
  /\ Settle("closed")
  /\ phase' = "accept"
  /\ \/ said[cur] = "wrong" /\ answer' \in {answer, [answer EXCEPT ![cur] = "error"]}
     \/ said[cur] = "nothing" /\ cur \in gone /\ UNCHANGED answer
  /\ UNCHANGED daemonVars

AdmitCtl ==
  /\ Settle("served")
  /\ said[cur] = "hello" /\ cur \in Ctl
  /\ phase' = "accept"
  /\ UNCHANGED <<answer, daemonVars>>

RejectShell ==
  /\ Settle("closed")
  /\ said[cur] = "hello" /\ cur \in Shell /\ ~factory
  /\ phase' = "accept"
  /\ answer' = [answer EXCEPT ![cur] = "error"]
  /\ UNCHANGED daemonVars

AdmitShell ==
  /\ Settle("attached")
  /\ said[cur] = "hello" /\ cur \in Shell /\ factory
  /\ phase' = "attach"
  /\ factory' = FALSE /\ connected' = TRUE
  /\ reader' = "running" /\ writer' = "running"
  /\ UNCHANGED <<answer, modules, internal>>

\* ModuleRunner::register, awaited for one module after the other.
Register ==
  /\ phase = "attach" /\ modules < NModules
  /\ modules' = modules + 1
  /\ UNCHANGED <<phase, socket, backlog, cur, place, answer, clientVars, factory,
                 connected, reader, writer, internal, signal, boots, crashed>>

\* The settings are applied and the loop goes on.
Attached ==
  /\ phase = "attach" /\ modules = NModules
  /\ phase' = "accept"
  /\ UNCHANGED <<socket, backlog, cur, place, answer, clientVars, daemonVars, signal, boots, crashed>>

-----------------------------------------------------------------------------
(* Tasks beside the loop. *)

TheShell == {c \in Shell : place[c] = "attached"}

\* The reader task meets the end of the stream, or a message it cannot decode; it
\* takes the one for the other.
ReaderEnds ==
  /\ reader = "running" /\ TheShell \cap (gone \cup garbled) # {}
  /\ reader' = "ended" /\ connected' = FALSE /\ internal' = TRUE
  /\ UNCHANGED <<phase, socket, backlog, cur, place, answer, clientVars, factory,
                 modules, writer, signal, boots, crashed>>

\* The writer task meets an error: the shell is gone, or a frame is too large.
\* Nobody waits for its `closed`; the shell's side of the stream ends.
WriterEnds ==
  /\ writer = "running"
  /\ writer' = "ended"
  /\ UNCHANGED <<phase, socket, backlog, cur, place, answer, clientVars, factory,
                 modules, connected, reader, internal, signal, boots, crashed>>

\* handle_ctl_connection: one request, one response, close.
Answer(c) ==
  /\ place[c] = "served" /\ c \in asked
  /\ place' = [place EXCEPT ![c] = "closed"]
  /\ answer' = [answer EXCEPT ![c] = "reply"]
  /\ Forget({c})
  /\ UNCHANGED <<phase, socket, backlog, cur, daemonVars, signal, boots, crashed>>

\* The stream ends before a request came, or what came cannot be decoded: the
\* connection is dropped without an answer.
GiveUp(c) ==
  /\ place[c] = "served" /\ c \notin asked /\ c \in gone \cup garbled
  /\ place' = [place EXCEPT ![c] = "closed"]
  /\ Forget({c})
  /\ UNCHANGED <<phase, socket, backlog, cur, answer, daemonVars, signal, boots, crashed>>

-----------------------------------------------------------------------------
(* The end of a run. *)

Kill ==
  /\ Running /\ ~signal
  /\ signal' = TRUE
  /\ UNCHANGED <<phase, socket, backlog, cur, place, answer, clientVars, daemonVars, boots, crashed>>

\* Until the process ends the listener still takes connections.
ShutDownRunner ==
  /\ phase = "runner"
  /\ phase' = "sync" /\ modules' = 0
  /\ UNCHANGED <<socket, backlog, cur, place, answer, clientVars, factory, connected,
                 reader, writer, internal, signal, boots, crashed>>

ShutDownSync ==
  /\ phase = "sync"
  /\ phase' = "tasks"
  /\ UNCHANGED <<socket, backlog, cur, place, answer, clientVars, daemonVars, signal, boots, crashed>>

\* The process ends and takes every connection with it.
Exit(leaves, crash) ==
  /\ phase' = "down" /\ socket' = leaves /\ crashed' = crash
  /\ backlog' = <<>> /\ cur' = None
  /\ place' = [c \in Client |-> IF place[c] = "away" THEN "away" ELSE "closed"]
  /\ Fresh
  /\ Forget(Client)
  /\ UNCHANGED <<answer, signal, boots>>

\* Mutant: the socket file stays when the server is dropped.
ReturnAndKeep == phase = "tasks" /\ Exit("stale", FALSE)

\* The shell's tasks are aborted, and dropping the server unlinks the file.
Return == phase = "tasks" /\ Exit("none", FALSE)

Crash == Running /\ Exit("stale", TRUE)

-----------------------------------------------------------------------------
MainLoop ==
  \/ ShutdownSignalled \/ ShellDisconnected \/ Accept
  \/ BadHello \/ AdmitCtl \/ RejectShell \/ AdmitShell \/ Attached \/ Return

\* The main task in code of others that has no timeout: start() of a module, stop()
\* of the modules, and probe() of the adapters that a shutdown waits for.
Awaiting == Register \/ ShutDownRunner \/ ShutDownSync

Serve(c) == Answer(c) \/ GiveUp(c)

Next ==
  \/ MainLoop \/ Awaiting \/ AcceptFails \/ Boot \/ Crash \/ Kill
  \/ ReaderEnds \/ WriterEnds
  \/ \E c \in Client : Connect(c) \/ SendHello(c) \/ Ask(c) \/ Garble(c) \/ HangUp(c) \/ Serve(c)

Spec == Init /\ [][Next]_vars

\* The daemon's tasks run.  Whether what they await of modules and adapters returns is
\* another matter: CallsReturn is a hypothesis of the properties that need it.
FairSpec ==
  Spec /\ WF_vars(MainLoop) /\ WF_vars(ReaderEnds) /\ \A c \in Ctl : WF_vars(Serve(c))

CallsReturn == WF_vars(Awaiting)

\* And clients behave as main.qml and levshell-ctl do: whoever connects says
\* Hello, a ctl client asks, a shell whose stream ends hangs up.
Speaks(c) == said[c] = "nothing" /\ (SendHello(c) \/ HangUp(c))
Asks(c) == said[c] = "hello" /\ c \notin asked \cup garbled /\ (Ask(c) \/ HangUp(c))
Follows(c) == place[c] = "attached" /\ writer = "ended" /\ HangUp(c)

Patience ==
  /\ \A c \in Client : WF_vars(Speaks(c))
  /\ \A c \in Ctl : WF_vars(Asks(c))
  /\ \A c \in Shell : WF_vars(Follows(c))

PatientSpec == FairSpec /\ Patience

-----------------------------------------------------------------------------
(* Properties. *)

\* A run has one shell at most, whose tasks and modules are the only ones; ctl
\* status reports a shell exactly while that shell is being read, and once the
\* reader has seen it leave the daemon knows that it has to stop.
OneShell ==
  /\ Cardinality(TheShell) <= 1
  /\ Running => (TheShell = {} <=> reader = "none")
  /\ modules > 0 => TheShell # {}
  /\ connected <=> reader = "running"
  /\ reader = "ended" => internal

\* A client that said a proper Hello and has not hung up loses its connection
\* only because its request was answered, because another shell is attached, which it
\* is told, because the daemon ended, or because its request could not be decoded, and
\* then it gets no answer.
RefusedForCause ==
  [][\A c \in Client :
       /\ place[c] \in {"held", "served"} /\ place'[c] = "closed"
       /\ said[c] = "hello" /\ c \notin gone
       => \/ answer'[c] = "reply" /\ c \in asked
          \/ answer'[c] = "error" /\ c \in Shell /\ TheShell \ {c} # {}
          \/ answer'[c] = "none" /\ c \in garbled
          \/ phase' = "down"]_vars

\* A daemon that is told to stop, or whose shell is gone, cannot be understood or is no
\* longer written to, comes to its end if what it awaits of modules and adapters
\* returns, and leaves no socket file unless it crashed.
StopsWhenAsked ==
  CallsReturn =>
    (Running /\ (signal \/ TheShell \cap (gone \cup garbled) # {} \/ writer = "ended")
       ~> phase = "down" /\ (socket = "none" \/ crashed))

\* The signal alone, as the doc comment of run_with_sync puts it: shutdown is
\* awaited together with whatever the loop does.
SignalIsHeeded == CallsReturn => (Running /\ signal ~> phase = "down")

\* Whoever connects is attached, answered or turned away, if what the daemon awaits
\* of modules and adapters returns.
EveryoneIsServed ==
  CallsReturn => \A c \in Client : place[c] = "queued" ~> place[c] \in {"attached", "closed"}
=============================================================================
