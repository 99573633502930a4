----------------------------- MODULE DaemonProofs -----------------------------
(***************************************************************************)
(* Proofs about the daemon's clients and about the feeds its modules watch.*)
(*                                                                         *)
(* For any number of shells, ctl clients, modules and starts: one shell at *)
(* most is served, and nobody who behaves loses its connection without a   *)
(* cause.                                                                  *)
(*                                                                         *)
(* The invariant has three parts beside the types: the accept loop holds   *)
(* the one connection it reads a Hello from, the listener's queue holds    *)
(* every queued client once, and the factory is gone exactly while there   *)
(* is a shell.                                                             *)
(*                                                                         *)
(* For any window, cap, directories, pids and references: papers are       *)
(* announced once, builds with their result, CPU time is charged fairly    *)
(* and links are counted once.  What takes an argument is that no paper    *)
(* is evicted from the seen set while the feed still lists it: less than   *)
(* two windows of papers can follow it there.                              *)
(***************************************************************************)
EXTENDS Daemon, Feeds, FoldLemmas

Types ==
  /\ phase \in {"down", "accept", "handshake", "attach", "runner", "sync", "tasks"}
  /\ socket \in {"none", "stale", "live"}
  /\ cur \in Client \cup {None}
  /\ place \in [Client -> {"away", "queued", "held", "served", "attached", "closed"}]
  /\ said \in [Client -> {"nothing", "hello", "wrong"}]
  /\ asked \subseteq Ctl /\ garbled \subseteq Client /\ gone \subseteq Client
  /\ answer \in [Client -> {"none", "reply", "error"}]
  /\ modules \in 0..NModules
  /\ {factory, connected, signal, internal, crashed} \subseteq BOOLEAN
  /\ {reader, writer} \subseteq {"none", "running", "ended"}
  /\ boots \in 0..MaxBoots

\* The accept loop holds the connection it reads a Hello from.
HoldInv ==
  /\ phase = "handshake" => cur \in Client
  /\ \A c \in Client : place[c] = "held" <=> phase = "handshake" /\ cur = c

\* The listener's queue holds every queued client once.
QueueInv ==
  /\ backlog \in Seq(Client)
  /\ \A i \in 1..Len(backlog) : place[backlog[i]] = "queued"
  /\ \A c \in Client : place[c] = "queued" => \E i \in 1..Len(backlog) : backlog[i] = c
  /\ \A i, j \in 1..Len(backlog) : backlog[i] = backlog[j] => i = j

\* The factory is gone exactly while there is a shell.
ShellInv ==
  /\ \A c, d \in Shell : place[c] = "attached" /\ place[d] = "attached" => c = d
  /\ \A c \in Ctl : place[c] # "attached"
  /\ phase = "down" => TheShell = {} /\ factory /\ reader = "none"
  /\ factory <=> TheShell = {}
  /\ factory <=> reader = "none"
  /\ phase = "attach" \/ modules > 0 => ~factory
  /\ connected <=> reader = "running"
  /\ reader = "ended" => internal

\* An answer goes with the end of its connection.
AnswerInv == \A c \in Client : place[c] # "closed" => answer[c] = "none"

IInv == Types /\ HoldInv /\ QueueInv /\ ShellInv /\ AnswerInv

-----------------------------------------------------------------------------
\* The invariant holds at first.
THEOREM Initially == Init => IInv
<1> SUFFICES ASSUME Init PROVE IInv
  OBVIOUS
<1>1. Types
  <2>1. 0 \in 0..NModules /\ 0 \in 0..MaxBoots
    BY DaemonAssumption
  <2> QED
    BY <2>1 DEF Init, Types
<1>2. HoldInv
  BY DEF Init, HoldInv
<1>3. QueueInv
  BY DEF Init, QueueInv
<1>4. ShellInv
  BY DEF Init, ShellInv, TheShell, Client
<1>5. AnswerInv
  BY DEF Init, AnswerInv
<1> QED
  BY <1>1, <1>2, <1>3, <1>4, <1>5 DEF IInv

\* Every step keeps the types.
LEMMA TypesStep == Types /\ QueueInv /\ Next => Types'
<1> SUFFICES ASSUME Types, QueueInv, Next PROVE Types'
  OBVIOUS
<1> USE DEF Types, daemonVars, clientVars
<1>1. CASE ShutdownSignalled \/ ShellDisconnected \/ AcceptFails
  BY <1>1 DEF ShutdownSignalled, ShellDisconnected, AcceptFails, Unwind
<1>2. CASE Accept
  <2>1. Head(backlog) \in Client
    BY <1>2 DEF Accept, QueueInv
  <2> QED
    BY <1>2, <2>1 DEF Accept
<1>3. CASE BadHello
  BY <1>3 DEF BadHello, Settle, Forget
<1>4. CASE AdmitCtl \/ RejectShell \/ AdmitShell
  BY <1>4 DEF AdmitCtl, RejectShell, AdmitShell, Settle, Forget
<1>5. CASE Register
  BY <1>5, DaemonAssumption DEF Register
<1>6. CASE Attached
  BY <1>6 DEF Attached
<1>7. CASE ShutDownRunner \/ ShutDownSync
  BY <1>7, DaemonAssumption DEF ShutDownRunner, ShutDownSync
<1>8. CASE Return \/ Crash
  <2>1. 0 \in 0..NModules
    BY DaemonAssumption
  <2> QED
    BY <1>8, <2>1 DEF Return, Crash, Exit, Forget, Fresh
<1>9. CASE Boot
  <2>1. 0 \in 0..NModules
    BY DaemonAssumption
  <2>2. boots + 1 \in 0..MaxBoots
    BY <1>9, DaemonAssumption DEF Boot
  <2> QED
    BY <1>9, <2>1, <2>2 DEF Boot, Fresh
<1>10. CASE Kill \/ ReaderEnds \/ WriterEnds
  BY <1>10 DEF Kill, ReaderEnds, WriterEnds
<1>11. ASSUME NEW c \in Client, Connect(c) \/ SendHello(c) \/ Ask(c) \/ Garble(c) \/ HangUp(c) \/ Serve(c)
       PROVE  Types'
  BY <1>11 DEF Connect, SendHello, Ask, Garble, HangUp, Serve, Answer, GiveUp, Forget, Open
<1> QED
  BY <1>1, <1>2, <1>3, <1>4, <1>5, <1>6, <1>7, <1>8, <1>9, <1>10, <1>11 DEF Next, MainLoop, Awaiting

\* The connection in the accept loop's hands is the one it reads from.
LEMMA HoldStep == Types /\ HoldInv /\ QueueInv /\ Next => HoldInv'
<1> SUFFICES ASSUME Types, HoldInv, QueueInv, Next PROVE HoldInv'
  OBVIOUS
<1> USE DEF Types, HoldInv, daemonVars, clientVars
<1>1. CASE ShutdownSignalled \/ ShellDisconnected \/ AcceptFails
  BY <1>1 DEF ShutdownSignalled, ShellDisconnected, AcceptFails, Unwind
<1>2. CASE Accept
  <2>1. Head(backlog) \in Client
    BY <1>2 DEF Accept, QueueInv
  <2> QED
    BY <1>2, <2>1 DEF Accept
<1>3. CASE BadHello \/ AdmitCtl \/ RejectShell \/ AdmitShell
  BY <1>3, DaemonAssumption DEF BadHello, AdmitCtl, RejectShell, AdmitShell, Settle, Forget
<1>4. CASE Register \/ Attached
  BY <1>4 DEF Register, Attached
<1>5. CASE ShutDownRunner \/ ShutDownSync
  BY <1>5 DEF ShutDownRunner, ShutDownSync
<1>6. CASE Return \/ Crash
  BY <1>6 DEF Return, Crash, Exit
<1>7. CASE Boot
  BY <1>7 DEF Boot
<1>8. CASE Kill \/ ReaderEnds \/ WriterEnds
  BY <1>8 DEF Kill, ReaderEnds, WriterEnds
<1>9. ASSUME NEW c \in Client, Connect(c) \/ SendHello(c) \/ Ask(c) \/ Garble(c) \/ HangUp(c) \/ Serve(c)
      PROVE  HoldInv'
  BY <1>9 DEF Connect, SendHello, Ask, Garble, HangUp, Serve, Answer, GiveUp, Forget
<1> QED
  BY <1>1, <1>2, <1>3, <1>4, <1>5, <1>6, <1>7, <1>8, <1>9 DEF Next, MainLoop, Awaiting

\* The factory and the shell.
LEMMA ShellStep == IInv /\ Next => ShellInv'
<1> SUFFICES ASSUME IInv, Next PROVE ShellInv'
  OBVIOUS
<1> USE DEF IInv, Types, ShellInv, TheShell, daemonVars, clientVars
<1>1. CASE ShutdownSignalled \/ ShellDisconnected \/ AcceptFails
  BY <1>1 DEF ShutdownSignalled, ShellDisconnected, AcceptFails, Unwind
<1>2. CASE Accept
  <2>1. Head(backlog) \in Client /\ place[Head(backlog)] = "queued"
    BY <1>2 DEF Accept, QueueInv
  <2> QED
    BY <1>2, <2>1 DEF Accept
<1>3. CASE BadHello
  BY <1>3 DEF BadHello, Settle, Forget, HoldInv
<1>4. CASE AdmitCtl \/ RejectShell
  BY <1>4 DEF AdmitCtl, RejectShell, Settle, Forget, HoldInv, Client
<1>5. CASE AdmitShell
  BY <1>5, DaemonAssumption DEF AdmitShell, Settle, Forget, HoldInv, Client
<1>6. CASE Register \/ Attached
  BY <1>6 DEF Register, Attached
<1>7. CASE ShutDownRunner \/ ShutDownSync
  BY <1>7 DEF ShutDownRunner, ShutDownSync
<1>8. CASE Return \/ Crash
  BY <1>8 DEF Return, Crash, Exit, Forget, Fresh, Client
<1>9. CASE Boot
  BY <1>9 DEF Boot, Fresh
<1>10. CASE Kill \/ ReaderEnds \/ WriterEnds
  BY <1>10 DEF Kill, ReaderEnds, WriterEnds
<1>11. ASSUME NEW c \in Client, Connect(c) \/ SendHello(c) \/ Ask(c) \/ Garble(c) \/ HangUp(c)
       PROVE  ShellInv'
  BY <1>11 DEF Connect, SendHello, Ask, Garble, HangUp, Client
<1>12. ASSUME NEW c \in Client, Serve(c)
       PROVE  ShellInv'
  BY <1>12 DEF Serve, Answer, GiveUp, Forget, Client
<1> QED
  BY <1>1, <1>2, <1>3, <1>4, <1>5, <1>6, <1>7, <1>8, <1>9, <1>10, <1>11, <1>12 DEF Next, MainLoop, Awaiting

\* Only who is closed is answered.
LEMMA AnswerStep == IInv /\ Next => AnswerInv'
<1> SUFFICES ASSUME IInv, Next PROVE AnswerInv'
  OBVIOUS
<1> USE DEF IInv, Types, AnswerInv
<1>1. CASE Accept
  <2>1. Head(backlog) \in Client /\ place[Head(backlog)] = "queued"
    BY <1>1 DEF Accept, QueueInv
  <2> QED
    BY <1>1, <2>1 DEF Accept
<1>2. CASE BadHello \/ AdmitCtl \/ RejectShell \/ AdmitShell
  BY <1>2 DEF BadHello, AdmitCtl, RejectShell, AdmitShell, Settle, HoldInv
<1>3. CASE Return \/ Crash
  BY <1>3 DEF Return, Crash, Exit
<1>4. ASSUME NEW c \in Client, Connect(c) \/ Serve(c) PROVE AnswerInv'
  BY <1>4 DEF Connect, Serve, Answer, GiveUp
<1>5. CASE UNCHANGED <<place, answer>>
  BY <1>5
<1> QED
  BY <1>1, <1>2, <1>3, <1>4, <1>5
  DEF Next, MainLoop, Awaiting, ShutdownSignalled, ShellDisconnected, AcceptFails, Unwind, Register,
      Attached, ShutDownRunner, ShutDownSync, Boot, Kill, ReaderEnds, WriterEnds,
      SendHello, Ask, Garble, HangUp

\* A step that neither queues a client nor takes one from the queue.
QueueKept ==
  /\ UNCHANGED backlog
  /\ \A c \in Client : place'[c] = "queued" <=> place[c] = "queued"

\* Such a step keeps the queue as it should be.
LEMMA QueueFrame == QueueInv /\ QueueKept => QueueInv'
<1> SUFFICES ASSUME QueueInv, QueueKept PROVE QueueInv'
  OBVIOUS
<1>1. \A i \in 1..Len(backlog) : backlog[i] \in Client
  BY DEF QueueInv
<1> QED
  BY <1>1 DEF QueueInv, QueueKept

\* The process is gone, and its queue with it.
LEMMA QueueEmptied ==
  ASSUME Types, NEW l, NEW b, Exit(l, b)
  PROVE  QueueInv'
BY DEF Exit, Types, QueueInv

\* A client joins the end of the queue.
LEMMA QueueJoined ==
  ASSUME Types, QueueInv, NEW c \in Client, Connect(c)
  PROVE  QueueInv'
<1> DEFINE n == Len(backlog)
<1>1. /\ backlog' \in Seq(Client) /\ Len(backlog') = n + 1
      /\ \A i \in 1..n : backlog'[i] = backlog[i]
      /\ backlog'[n + 1] = c
  BY DEF Connect, QueueInv
<1>2. n \in Nat /\ \A i \in 1..n : backlog[i] \in Client /\ backlog[i] # c
  BY DEF Connect, QueueInv
<1>3. \A d \in Client : place'[d] = IF d = c THEN "queued" ELSE place[d]
  BY DEF Connect, Types
<1>4. \A i \in 1..(n + 1) : place'[backlog'[i]] = "queued"
  BY <1>1, <1>2, <1>3 DEF QueueInv
<1>5. \A d \in Client : place'[d] = "queued" => \E i \in 1..(n + 1) : backlog'[i] = d
  <2> SUFFICES ASSUME NEW d \in Client, place'[d] = "queued"
               PROVE  \E i \in 1..(n + 1) : backlog'[i] = d
    OBVIOUS
  <2>1. CASE d = c
    BY <2>1, <1>1, <1>2
  <2>2. CASE d # c
    <3>1. PICK i \in 1..n : backlog[i] = d
      BY <2>2, <1>3 DEF QueueInv
    <3> QED
      BY <3>1, <1>1, <1>2
  <2> QED
    BY <2>1, <2>2
<1>6. \A i, j \in 1..(n + 1) : backlog'[i] = backlog'[j] => i = j
  BY <1>1, <1>2 DEF QueueInv
<1> QED
  BY <1>1, <1>4, <1>5, <1>6 DEF QueueInv

\* The client at the head of the queue is accepted.
LEMMA QueueTaken ==
  ASSUME Types, QueueInv, Accept
  PROVE  QueueInv'
<1> DEFINE n == Len(backlog)
<1>1. n \in Nat \ {0} /\ Head(backlog) = backlog[1] /\ Head(backlog) \in Client
  BY DEF Accept, QueueInv
<1>2. /\ backlog' \in Seq(Client) /\ Len(backlog') = n - 1
      /\ \A i \in 1..(n - 1) : backlog'[i] = backlog[i + 1]
  BY <1>1 DEF Accept, QueueInv
<1>3. \A d \in Client : place'[d] = IF d = Head(backlog) THEN "held" ELSE place[d]
  BY DEF Accept, Types
<1>4. \A i \in 1..n : backlog[i] \in Client
  BY DEF QueueInv
<1>5. \A i \in 1..(n - 1) : place'[backlog'[i]] = "queued"
  <2> SUFFICES ASSUME NEW i \in 1..(n - 1) PROVE place'[backlog'[i]] = "queued"
    OBVIOUS
  <2>1. i + 1 \in 1..n /\ 1 \in 1..n /\ i + 1 # 1
    BY <1>1
  <2>2. backlog[i + 1] # backlog[1]
    BY <2>1 DEF QueueInv
  <2> QED
    BY <2>1, <2>2, <1>1, <1>2, <1>3, <1>4 DEF QueueInv
<1>6. \A d \in Client : place'[d] = "queued" => \E i \in 1..(n - 1) : backlog'[i] = d
  <2> SUFFICES ASSUME NEW d \in Client, place'[d] = "queued"
               PROVE  \E i \in 1..(n - 1) : backlog'[i] = d
    OBVIOUS
  <2>1. d # backlog[1] /\ place[d] = "queued"
    BY <1>1, <1>3
  <2>2. PICK i \in 1..n : backlog[i] = d
    BY <2>1 DEF QueueInv
  <2>3. i - 1 \in 1..(n - 1) /\ (i - 1) + 1 = i
    BY <2>1, <2>2, <1>1
  <2> QED
    BY <2>2, <2>3, <1>2
<1>7. \A i, j \in 1..(n - 1) : backlog'[i] = backlog'[j] => i = j
  <2> SUFFICES ASSUME NEW i \in 1..(n - 1), NEW j \in 1..(n - 1), backlog'[i] = backlog'[j]
               PROVE  i = j
    OBVIOUS
  <2>1. i + 1 \in 1..n /\ j + 1 \in 1..n
    BY <1>1
  <2>2. i + 1 = j + 1
    BY <2>1, <1>2 DEF QueueInv
  <2> QED
    BY <2>2
<1> QED
  BY <1>1, <1>2, <1>5, <1>6, <1>7 DEF QueueInv

\* Every step keeps the queue.
LEMMA QueueStep == IInv /\ Next => QueueInv'
<1> SUFFICES ASSUME IInv, Next PROVE QueueInv'
  OBVIOUS
<1> USE DEF IInv
<1>1. CASE ShutdownSignalled \/ ShellDisconnected \/ AcceptFails
  BY <1>1, QueueFrame DEF ShutdownSignalled, ShellDisconnected, AcceptFails, Unwind, QueueKept
<1>2. CASE Accept
  BY <1>2, QueueTaken
<1>3. CASE BadHello \/ AdmitCtl \/ RejectShell \/ AdmitShell
  <2>1. \E where \in {"closed", "served", "attached"} : Settle(where)
    BY <1>3 DEF BadHello, AdmitCtl, RejectShell, AdmitShell
  <2>2. cur \in Client /\ place[cur] = "held"
    BY <2>1 DEF Settle, Forget, HoldInv
  <2>3. QueueKept
    BY <2>1, <2>2 DEF Settle, Forget, QueueKept, Types
  <2> QED
    BY <2>3, QueueFrame
<1>4. CASE Register \/ Attached
  BY <1>4, QueueFrame DEF Register, Attached, QueueKept
<1>5. CASE ShutDownRunner \/ ShutDownSync
  BY <1>5, QueueFrame DEF ShutDownRunner, ShutDownSync, QueueKept
<1>6. CASE Return \/ Crash
  BY <1>6, QueueEmptied DEF Return, Crash
<1>7. CASE Boot
  BY <1>7, QueueFrame DEF Boot, QueueKept
<1>8. CASE Kill \/ ReaderEnds \/ WriterEnds
  BY <1>8, QueueFrame DEF Kill, ReaderEnds, WriterEnds, QueueKept
<1>9. ASSUME NEW c \in Client, Connect(c) PROVE QueueInv'
  BY <1>9, QueueJoined
<1>10. ASSUME NEW c \in Client, SendHello(c) \/ Ask(c) \/ Garble(c) \/ HangUp(c) PROVE QueueInv'
  BY <1>10, QueueFrame DEF SendHello, Ask, Garble, HangUp, QueueKept
<1>11. ASSUME NEW c \in Client, Serve(c) PROVE QueueInv'
  BY <1>11, QueueFrame DEF Serve, Answer, GiveUp, Forget, QueueKept, Types
<1> QED
  BY <1>1, <1>2, <1>3, <1>4, <1>5, <1>6, <1>7, <1>8, <1>9, <1>10, <1>11 DEF Next, MainLoop, Awaiting

-----------------------------------------------------------------------------
\* Every step preserves the invariant.
THEOREM Preserved == IInv /\ [Next]_vars => IInv'
<1> SUFFICES ASSUME IInv, [Next]_vars PROVE IInv'
  OBVIOUS
<1>1. CASE Next
  BY <1>1, TypesStep, HoldStep, QueueStep, ShellStep, AnswerStep DEF IInv
<1>2. CASE UNCHANGED vars
  BY <1>2 DEF IInv, Types, HoldInv, QueueInv, ShellInv, AnswerInv, TheShell, vars, clientVars, daemonVars
<1> QED
  BY <1>1, <1>2

\* The inductive invariant of the daemon.
THEOREM Invariance == Spec => []IInv
<1>1. Init => IInv
  BY Initially
<1>2. IInv /\ [Next]_vars => IInv'
  BY Preserved
<1> QED
  BY <1>1, <1>2, PTL DEF Spec

\* The invariant implies the type invariant: a client is in the listener's queue
\* or in the accept loop's hands exactly when it says so.
LEMMA InvTypeOK == IInv => TypeOK
<1> SUFFICES ASSUME IInv PROVE TypeOK
  OBVIOUS
<1>1. backlog \in Seq(Client) /\ DOMAIN backlog = 1..Len(backlog)
  BY DEF IInv, QueueInv
<1>2. \A c \in Client : place[c] = "queued" <=> \E i \in DOMAIN backlog : backlog[i] = c
  BY <1>1 DEF IInv, QueueInv
<1> QED
  BY <1>1, <1>2 DEF IInv, Types, HoldInv, TypeOK

\* For every value of the constants the variables keep their types.
THEOREM TypeCorrect == Spec => []TypeOK
BY Invariance, InvTypeOK, PTL

\* And the part of the invariant about the shell implies that there is one at most.
LEMMA InvOneShell == IInv => OneShell
<1> SUFFICES ASSUME IInv PROVE OneShell
  OBVIOUS
<1>1. Cardinality(TheShell) <= 1
  <2>1. CASE TheShell = {}
    BY <2>1, FS_EmptySet
  <2>2. CASE TheShell # {}
    <3>1. PICK c \in TheShell : TRUE
      BY <2>2
    <3>2. TheShell = {c}
      BY <3>1 DEF IInv, ShellInv, TheShell
    <3>3. Cardinality({c}) = 1
      BY FS_Singleton
    <3> QED
      BY <3>2, <3>3
  <2> QED
    BY <2>1, <2>2
<1> QED
  BY <1>1 DEF IInv, ShellInv, OneShell, Running

\* A run serves one shell at most, whatever the number of shells that try.
THEOREM OneShellOnly == Spec => []OneShell
BY Invariance, InvOneShell, PTL

\* Whoever said a proper Hello and stays is answered, finds the place taken, sees the
\* daemon end, or sent a request that cannot be decoded and is dropped without a word.
THEOREM NobodyIsForgotten == Spec => RefusedForCause
<1> DEFINE Cause(c) ==
      \/ answer'[c] = "reply" /\ c \in asked
      \/ answer'[c] = "error" /\ c \in Shell /\ TheShell \ {c} # {}
      \/ answer'[c] = "none" /\ c \in garbled
      \/ phase' = "down"
<1> DEFINE Fair ==
      \A c \in Client :
        /\ place[c] \in {"held", "served"} /\ place'[c] = "closed"
        /\ said[c] = "hello" /\ c \notin gone
        => Cause(c)
<1>1. IInv /\ [Next]_vars => [Fair]_vars
  <2> SUFFICES ASSUME IInv, Next,
                      NEW c \in Client,
                      place[c] \in {"held", "served"}, place'[c] = "closed",
                      said[c] = "hello", c \notin gone
               PROVE  Cause(c)
    OBVIOUS
  <2> USE DEF IInv, Types
  <2>1. CASE Accept
    <3>1. Head(backlog) \in Client
      BY <2>1 DEF Accept, QueueInv
    <3> QED
      BY <2>1, <3>1 DEF Accept
  <2>2. CASE BadHello
    BY <2>2, DaemonAssumption DEF BadHello, Settle, Forget, HoldInv
  <2>3. CASE AdmitCtl \/ AdmitShell
    BY <2>3, DaemonAssumption DEF AdmitCtl, AdmitShell, Settle, Forget, HoldInv
  <2>4. CASE RejectShell
    BY <2>4, DaemonAssumption DEF RejectShell, Settle, Forget, HoldInv, ShellInv, TheShell
  <2>5. CASE Return \/ Crash
    BY <2>5 DEF Return, Crash, Exit
  <2>6. ASSUME NEW d \in Client, Connect(d) PROVE Cause(c)
    BY <2>6 DEF Connect
  <2>7. ASSUME NEW d \in Client, Serve(d) PROVE Cause(c)
    BY <2>7 DEF Serve, Answer, GiveUp, AnswerInv
  <2>8. CASE UNCHANGED place
    BY <2>8
  <2> QED
    BY <2>1, <2>2, <2>3, <2>4, <2>5, <2>6, <2>7, <2>8
    DEF Next, MainLoop, Awaiting, ShutdownSignalled, ShellDisconnected, AcceptFails, Unwind, Register,
        Attached, ShutDownRunner, ShutDownSync, Boot, Kill, ReaderEnds, WriterEnds,
        SendHello, Ask, Garble, HangUp
<1> QED
  BY <1>1, Invariance, PTL DEF Spec, RefusedForCause
-----------------------------------------------------------------------------
(* The feeds *)

\* What is met after an id: another one, of a paper less than a window older at most, and a later
\* version if the paper is the same.
MetAfter(y, x) == x # y /\ x.paper < y.paper + Window /\ (x.paper = y.paper => x.version < y.version)

\* The ids of a list in the order in which they were met, with n papers and the versions v.
Ordered(s, n, v) ==
  \A i \in 1..Len(s) :
    /\ s[i].paper <= n /\ s[i].version <= v[s[i].paper]
    /\ \A j \in (i + 1)..Len(s) : MetAfter(s[j], s[i])

\* An id that the feed may list, now or later.
Current(x, n, v) == x.paper + Window > n /\ x.version >= v[x.paper]

IsSeenSet(s) == s \in Seq(Id) /\ Len(s) <= MaxSeen /\ Ordered(s, papers, version)

\* An id that no restart lost is announced once at most, and is not forgotten while the feed may
\* list it; what was seen is in the file, or was not written, or is lost.
PapersInv ==
  /\ papers \in 0..MaxPapers /\ version \in [1..MaxPapers -> 1..MaxVersions]
  /\ announcedAs \in [Id -> Nat]
  /\ IsSeenSet(seen) /\ (seenFile # Torn => IsSeenSet(seenFile))
  /\ \A x \in Id \ lostIds :
       announcedAs[x] <= 1 /\ (announcedAs[x] = 1 /\ Current(x, papers, version) => x \in ToSet(seen))
  /\ \A x \in ToSet(seen) : x \in unwritten \cup lostIds \/ (seenFile # Torn /\ x \in ToSet(seenFile))

\* A log that was read is still that of the build that ended, unless there was another build there.
BuildInv ==
  /\ logs \in [Dir -> BOOLEAN] /\ tracked \in Dir \cup {Torn} /\ resultOf \in Dir
  /\ probed # Torn => probed \in [engine : Dir \cup {Torn}, failed : BOOLEAN \cup {Torn}]
  /\ /\ probed # Torn /\ probed.engine = Torn /\ probed.failed # Torn
     /\ tracked # Torn /\ tracked \notin rebuilt /\ ~logUnread
     => probed.failed = logs[tracked]
  /\ BuildIsReported

\* While a sample is taken no process has used more than what is accounted to its pid.
SniperInv ==
  /\ {jiffies, firstSample} \ {Torn} \subseteq [Pid -> Nat \cup {Torn}] /\ jiffies # Torn
  /\ spent \in [Pid -> Nat] /\ listed \subseteq Pid \X Nat
  /\ firstSample # Torn => \A p \in Pid :
       jiffies[p] # Torn /\ firstSample[p] # Torn => jiffies[p] <= firstSample[p] + spent[p]
  /\ ChargedFairly

LibraryInv ==
  /\ edges \subseteq Ref \X Note \X {"cites", "scaffolds"}
  /\ \A row \in rows \cup library : row.linked <= Cardinality(Note)

\* The ids of the window, in their newest version, that are not in a set, newest paper first.
IsFresh(f, s, n, v) ==
  /\ \A x : x \in ToSet(f) <=> /\ x \in Id /\ x.paper <= n /\ x.paper + Window > n
                               /\ x.version = v[x.paper] /\ x \notin ToSet(s)
  /\ \A i, j \in 1..Len(f) : i < j => f[i].paper > f[j].paper

\* A poll finds what is fresh.
LEMMA FreshPapers ==
  ASSUME papers \in 0..MaxPapers, version \in [1..MaxPapers -> 1..MaxVersions]
  PROVE  NewPapers \in Seq(Id) /\ IsFresh(NewPapers, seen, papers, version)
<1> DEFINE n == IF papers < Window THEN papers ELSE Window
           K == Id \ ToSet(seen)
<1>1. n \in Nat /\ n <= papers /\ n <= Window /\ papers \in Nat /\ Window \in Nat \ {0} /\ MaxPapers \in Nat
  BY FeedsAssumption
<1>2. Feed = [i \in 1..n |-> Entry(papers + 1 - i)]
  BY DEF Feed
<1>3. \A p \in 1..MaxPapers : Entry(p) \in Id /\ Entry(p).paper = p /\ Entry(p).version = version[p]
  <2> TAKE p \in 1..MaxPapers
  <2>1. version[p] \in 1..MaxVersions OBVIOUS
  <2> QED BY <2>1 DEF Entry, Id
<1>4. \A i \in 1..n : papers + 1 - i \in 1..MaxPapers /\ papers + 1 - i + Window > papers /\ papers + 1 - i <= papers
  <2> HIDE DEF n
  <2> QED BY <1>1
<1> HIDE DEF n
<1>5. Feed \in Seq(Id) /\ Len(Feed) = n
  <2>1. \A i \in 1..n : Entry(papers + 1 - i) \in Id BY <1>3, <1>4
  <2>2. Feed \in [1..n -> Id] BY <1>2, <2>1
  <2> QED BY <1>1, <2>2
<1>6. \A i \in 1..n : Feed[i].paper = papers + 1 - i /\ Feed[i].version = version[papers + 1 - i] /\ Feed[i] \in Id
  <2> TAKE i \in 1..n
  <2>1. Feed[i] = Entry(papers + 1 - i) /\ papers + 1 - i \in 1..MaxPapers BY <1>2, <1>4
  <2> QED BY <1>3, <2>1
<1>7. NewPapers = Kept(Feed, K)
  <2>1. \A i \in DOMAIN Feed : Feed[i] \notin ToSet(seen) <=> Feed[i] \in K BY <1>5
  <2> HIDE DEF K
  <2> QED BY <2>1 DEF NewPapers, Kept
<1>8. NewPapers \in Seq(Id) /\ Range(NewPapers) = Range(Feed) \cap K
  <2> HIDE DEF K
  <2> QED BY <1>5, <1>7, KeptRange
<1>9. Range(Feed) = {x \in Id : x.paper <= papers /\ x.paper + Window > papers /\ x.version = version[x.paper]}
  <2>1. Range(Feed) = {Feed[i] : i \in 1..n} BY <1>5 DEF Range
  <2>2. \A i \in 1..n : Feed[i] \in Id /\ Feed[i].paper <= papers /\ Feed[i].paper + Window > papers
                        /\ Feed[i].version = version[Feed[i].paper]
    BY <1>4, <1>6
  <2>3. ASSUME NEW x \in Id, x.paper <= papers, x.paper + Window > papers, x.version = version[x.paper]
        PROVE  \E i \in 1..n : Feed[i] = x
    <3>1. x.paper \in 1..MaxPapers BY DEF Id
    <3>2. papers + 1 - x.paper \in 1..n /\ papers + 1 - (papers + 1 - x.paper) = x.paper
      <4> DEFINE q == x.paper
      <4>1. q \in 1..MaxPapers /\ q <= papers /\ q + Window > papers BY <2>3, <3>1
      <4> HIDE DEF q
      <4>2. papers + 1 - q \in 1..n /\ papers + 1 - (papers + 1 - q) = q BY <1>1, <4>1 DEF n
      <4> QED BY <4>2 DEF q
    <3>3. Feed[papers + 1 - x.paper] = Entry(x.paper) BY <1>2, <3>2
    <3>4. Entry(x.paper) = [paper |-> x.paper, version |-> x.version] BY <2>3 DEF Entry
    <3>5. x = [paper |-> x.paper, version |-> x.version] BY DEF Id
    <3> QED BY <3>2, <3>3, <3>4, <3>5
  <2> QED BY <2>1, <2>2, <2>3
<1>10. \A x : x \in ToSet(NewPapers) <=> /\ x \in Id /\ x.paper <= papers /\ x.paper + Window > papers
                                  /\ x.version = version[x.paper] /\ x \notin ToSet(seen)
  <2>1. ToSet(NewPapers) = Range(NewPapers)
    BY DEF ToSet, Range
  <2> QED BY <1>8, <1>9, <2>1
<1>11. ASSUME NEW i \in 1..Len(NewPapers), NEW j \in 1..Len(NewPapers), i < j
       PROVE  NewPapers[i].paper > NewPapers[j].paper
  <2>1. PICK a, b \in 1..Len(Feed) : a < b /\ Feed[a] = NewPapers[i] /\ Feed[b] = NewPapers[j]
    <3> HIDE DEF K
    <3>1. i \in 1..Len(Kept(Feed, K)) /\ j \in 1..Len(Kept(Feed, K)) BY <1>7, <1>11
    <3>2. \A x, y \in 1..Len(Kept(Feed, K)) : x < y =>
            \E a, b \in 1..Len(Feed) : a < b /\ Feed[a] = Kept(Feed, K)[x] /\ Feed[b] = Kept(Feed, K)[y]
      <4> DEFINE s == Feed
      <4> HIDE DEF s
      <4>2. s \in Seq(Id) BY <1>5 DEF s
      <4>3. \A x, y \in 1..Len(Kept(s, K)) : x < y =>
              \E a, b \in 1..Len(s) : a < b /\ s[a] = Kept(s, K)[x] /\ s[b] = Kept(s, K)[y]
        BY <4>2, KeptOrder
      <4> QED BY <4>3 DEF s
    <3> QED BY <1>7, <1>11, <3>1, <3>2
  <2>2. a \in 1..n /\ b \in 1..n BY <1>5
  <2>3. Feed[a].paper = papers + 1 - a /\ Feed[b].paper = papers + 1 - b BY <1>6, <2>2
  <2>4. papers + 1 - a > papers + 1 - b BY <1>1, <2>1, <2>2
  <2> QED BY <2>1, <2>3, <2>4
<1> QED
  BY <1>8, <1>10, <1>11 DEF IsFresh

\* In an ordered list less than two windows of papers, in all their versions, follow a current id.
LEMMA FewFollow ==
  ASSUME NEW n \in 0..MaxPapers, NEW v \in [1..MaxPapers -> 1..MaxVersions], NEW s \in Seq(Id), Ordered(s, n, v),
         NEW i \in 1..Len(s), Current(s[i], n, v)
  PROVE  Len(s) - i <= (2 * Window - 2) * MaxVersions
<1> DEFINE p == s[i].paper
           T == ((p - Window + 1)..n) \ {p}
           V == 1..MaxVersions
           m == Len(s) - i
           g == [k \in 1..m |-> <<s[i + k].paper, s[i + k].version>>]
<1>0. \A k \in 1..Len(s) : s[k] \in Id /\ s[k].paper \in 1..MaxPapers /\ s[k].version \in 1..MaxVersions
                           /\ s[k] = [paper |-> s[k].paper, version |-> s[k].version]
  <2>1. \A x \in Id : x.paper \in 1..MaxPapers /\ x.version \in 1..MaxVersions
                      /\ x = [paper |-> x.paper, version |-> x.version]
    BY DEF Id
  <2>2. \A k \in 1..Len(s) : s[k] \in Id OBVIOUS
  <2> QED BY <2>1, <2>2
<1>1. /\ Window \in Nat \ {0} /\ MaxVersions \in Nat /\ MaxPapers \in Nat /\ n \in Nat
      /\ p \in 1..MaxPapers /\ p <= n /\ p + Window > n /\ m \in Nat /\ Len(s) \in Nat
      /\ s[i].version >= v[p] /\ v[p] \in 1..MaxVersions
  <2>1. p <= n BY DEF Ordered
  <2>2. p + Window > n /\ s[i].version >= v[p] BY DEF Current
  <2>3. p \in 1..MaxPapers /\ v[p] \in 1..MaxVersions BY <1>0
  <2>4. m \in Nat /\ Len(s) \in Nat OBVIOUS
  <2> HIDE DEF p, m
  <2> QED BY <2>1, <2>2, <2>3, <2>4, FeedsAssumption
<1>2. IsFiniteSet(T) /\ Cardinality(T) = n - p + Window - 1
  <2> HIDE DEF p
  <2> DEFINE U == (p - Window + 1)..n
  <2>1. IsFiniteSet(U) /\ Cardinality(U) = n - (p - Window + 1) + 1
    <3>1. p - Window + 1 \in Int /\ n \in Int /\ p - Window + 1 <= n BY <1>1
    <3> DEFINE q == p - Window + 1
    <3> HIDE DEF q
    <3>2. IsFiniteSet(q..n) /\ Cardinality(q..n) = IF q > n THEN 0 ELSE n - q + 1
      BY <3>1, FS_Interval DEF q
    <3> QED BY <3>1, <3>2 DEF q
  <2>2. p \in U BY <1>1
  <2> HIDE DEF U
  <2>3. IsFiniteSet(U \ {p}) /\ Cardinality(U \ {p}) = Cardinality(U) - 1
    BY <2>1, <2>2, FS_RemoveElement
  <2> USE DEF U
  <2> QED BY <1>1, <2>1, <2>3
<1>3. IsFiniteSet(V) /\ Cardinality(V) = MaxVersions
  <2>1. \A k \in Nat : IsFiniteSet(1..k) /\ Cardinality(1..k) = k
    <3> TAKE k \in Nat
    <3>0. 1 \in Int /\ k \in Int OBVIOUS
    <3>1. IsFiniteSet(1..k) /\ Cardinality(1..k) = IF 1 > k THEN 0 ELSE k - 1 + 1
      BY <3>0, FS_Interval
    <3> QED BY <3>1
  <2> QED BY <1>1, <2>1
<1>4. IsFiniteSet(T \X V) /\ Cardinality(T \X V) = Cardinality(T) * Cardinality(V)
  <2> HIDE DEF T, V
  <2> QED BY <1>2, <1>3, FS_Product
<1>5. g \in Injection(1..m, T \X V)
  <2>1. \A k \in 1..m : i + k \in (i + 1)..Len(s) /\ i + k \in 1..Len(s)
    BY <1>1
  <2>2. \A k \in 1..m : MetAfter(s[i + k], s[i]) /\ s[i + k].paper <= n /\ s[i + k].version <= v[s[i + k].paper]
    BY <2>1 DEF Ordered
  <2>3. \A k \in 1..m : s[i + k].paper \in T /\ s[i + k].version \in V
    <3> TAKE k \in 1..m
    <3> DEFINE q == s[i + k].paper
               w == s[i + k].version
    <3>1. q \in 1..MaxPapers /\ w \in 1..MaxVersions BY <1>0, <2>1
    <3>2. q <= n /\ w <= v[q] /\ p < q + Window /\ (p = q => s[i].version < w) BY <2>2 DEF MetAfter
    <3>3. s[i].version \in 1..MaxVersions BY <1>0
    <3>4. q # p
      <4> SUFFICES ASSUME q = p PROVE FALSE OBVIOUS
      <4>1. w <= v[p] /\ s[i].version < w /\ s[i].version >= v[p] BY <1>1, <3>2
      <4> HIDE DEF p, q, w, m, T, g
      <4> QED BY <1>1, <3>1, <3>3, <4>1
    <3>5. q \in T
      <4>1. p < q + Window /\ q <= n BY <3>2
      <4> HIDE DEF p, q, w, m, g
      <4> QED BY <1>1, <3>1, <3>4, <4>1
    <3> QED BY <3>1, <3>5
  <2>4. \A k, l \in 1..m : k < l => s[i + k] # s[i + l]
    <3> TAKE k, l \in 1..m
    <3> HAVE k < l
    <3>0. Len(s) \in Nat BY <1>1
    <3>1. i + k \in 1..Len(s) /\ i + l \in (i + k + 1)..Len(s)
      BY <3>0
    <3> QED BY <3>1 DEF Ordered, MetAfter
  <2>5. \A k, l \in 1..m : s[i + k] = s[i + l] => k = l
    <3> TAKE k, l \in 1..m
    <3>1. k < l \/ l < k \/ k = l BY <1>1
    <3> QED BY <2>4, <3>1
  <2>6. \A k, l \in 1..m : s[i + k].paper = s[i + l].paper /\ s[i + k].version = s[i + l].version => k = l
    <3> TAKE k, l \in 1..m
    <3> HAVE s[i + k].paper = s[i + l].paper /\ s[i + k].version = s[i + l].version
    <3>1. s[i + k] = s[i + l] BY <1>0, <2>1
    <3> QED BY <2>5, <3>1
  <2> HIDE DEF T, V, m
  <2>7. g \in [1..m -> T \X V]
    <3>1. \A k \in 1..m : <<s[i + k].paper, s[i + k].version>> \in T \X V BY <2>3
    <3> QED BY <3>1
  <2>8. \A k, l \in 1..m : g[k] = g[l] => k = l
    <3> TAKE k, l \in 1..m
    <3>1. g[k] = <<s[i + k].paper, s[i + k].version>> /\ g[l] = <<s[i + l].paper, s[i + l].version>> OBVIOUS
    <3> HIDE DEF g
    <3> QED BY <2>6, <3>1
  <2> HIDE DEF g
  <2> QED BY <2>7, <2>8 DEF Injection, IsInjective
<1>6. m <= Cardinality(T) * MaxVersions
  <2> HIDE DEF g, T, V, m
  <2>1. IsFiniteSet(1..m) /\ Cardinality(1..m) = m
    <3>1. 1 \in Int /\ m \in Int /\ m \in Nat BY <1>1
    <3>2. IsFiniteSet(1..m) /\ Cardinality(1..m) = IF 1 > m THEN 0 ELSE m - 1 + 1
      BY <3>1, FS_Interval
    <3> QED BY <3>1, <3>2
  <2>2. Cardinality(1..m) <= Cardinality(T \X V)
    BY <1>4, <1>5, FS_Injection
  <2> QED BY <1>3, <1>4, <2>1, <2>2
<1> QED
  <2> DEFINE c == Cardinality(T)
  <2>0. c = n - p + Window - 1 BY <1>2
  <2>1. m <= c * MaxVersions BY <1>6
  <2> HIDE DEF c, p, m, T, V, g
  <2>2. c \in Nat /\ c <= 2 * Window - 2 /\ 2 * Window - 2 \in Nat
    <3>1. p \in Nat /\ p <= n /\ p + Window > n /\ n \in Nat /\ Window \in Nat \ {0} BY <1>1
    <3> QED BY <2>0, <3>1
  <2>3. \A a, b, d \in Nat : a <= b => a * d <= b * d OBVIOUS
  <2>4. c * MaxVersions <= (2 * Window - 2) * MaxVersions BY <1>1, <2>2, <2>3
  <2>5. c * MaxVersions \in Nat /\ (2 * Window - 2) * MaxVersions \in Nat
    <3>1. \A a, b \in Nat : a * b \in Nat OBVIOUS
    <3> QED BY <1>1, <2>2, <3>1
  <2>6. m <= (2 * Window - 2) * MaxVersions
    <3>1. \A a, b, d \in Nat : a <= b /\ b <= d => a <= d OBVIOUS
    <3>2. m \in Nat BY <1>1
    <3> QED BY <2>1, <2>4, <2>5, <3>1, <3>2
  <2> QED BY <2>6 DEF m

\* Remembering the fresh ids keeps the order and forgets none that is current.
LEMMA RemembersWindow ==
  ASSUME NEW n \in 0..MaxPapers, NEW v \in [1..MaxPapers -> 1..MaxVersions], NEW s \in Seq(Id), Ordered(s, n, v),
         NEW f \in Seq(Id), IsFresh(f, s, n, v)
  PROVE  /\ Remember(s, f) \in Seq(Id) /\ Len(Remember(s, f)) <= MaxSeen
         /\ Ordered(Remember(s, f), n, v)
         /\ ToSet(Remember(s, f)) \subseteq ToSet(s) \cup ToSet(f)
         /\ \A x \in ToSet(s) \cup ToSet(f) : Current(x, n, v) => x \in ToSet(Remember(s, f))
<1> DEFINE all == s \o f
           from == IF Len(all) > MaxSeen THEN Len(all) - MaxSeen + 1 ELSE 1
           r == SubSeq(all, from, Len(all))
           room == (2 * Window - 2) * MaxVersions
<1>1. /\ Window \in Nat \ {0} /\ MaxSeen \in Nat /\ room + 1 <= MaxSeen /\ MaxPapers \in Nat /\ n \in Nat
      /\ MaxVersions \in Nat /\ room \in Nat
  <2>1. Window \in Nat \ {0} /\ MaxSeen \in Nat /\ MaxPapers \in Nat /\ MaxVersions \in Nat /\ room + 1 <= MaxSeen
    BY FeedsAssumption
  <2>2. 2 * Window - 2 \in Nat BY <2>1
  <2>3. \A a, b \in Nat : a * b \in Nat OBVIOUS
  <2> QED BY <2>1, <2>2, <2>3
<1> HIDE DEF room
<1>2. /\ all \in Seq(Id) /\ Len(all) = Len(s) + Len(f) /\ Len(s) \in Nat /\ Len(f) \in Nat
      /\ \A i \in 1..Len(s) : all[i] = s[i]
      /\ \A i \in (Len(s) + 1)..Len(all) : all[i] = f[i - Len(s)]
  OBVIOUS
<1>3. \A i \in 1..Len(f) : f[i] \in Id /\ f[i].paper <= n /\ f[i].paper + Window > n
                           /\ f[i].version = v[f[i].paper] /\ f[i] \notin ToSet(s)
  <2>1. \A i \in 1..Len(f) : f[i] \in ToSet(f) BY DEF ToSet
  <2> QED BY <2>1 DEF IsFresh
<1>4. \A i \in 1..Len(s) : s[i] \in ToSet(s) /\ s[i] \in Id
  <2>2. DOMAIN s = 1..Len(s) /\ \A i \in 1..Len(s) : s[i] \in Id OBVIOUS
  <2> QED BY <2>2 DEF ToSet
<1>0. \A x \in Id : /\ x.paper \in Nat /\ x.paper \in 1..MaxPapers /\ x.version \in Nat /\ v[x.paper] \in Nat
                    /\ x = [paper |-> x.paper, version |-> x.version]
  <2> TAKE x \in Id
  <2>1. x.paper \in 1..MaxPapers /\ x.version \in 1..MaxVersions BY DEF Id
  <2>2. v[x.paper] \in 1..MaxVersions BY <2>1
  <2>3. x = [paper |-> x.paper, version |-> x.version] BY DEF Id
  <2> QED BY <2>1, <2>2, <2>3
<1> HIDE DEF all
<1>5. Ordered(all, n, v)
  <2>1. SUFFICES ASSUME NEW i \in 1..Len(all)
                 PROVE  /\ all[i].paper <= n /\ all[i].version <= v[all[i].paper]
                        /\ \A j \in (i + 1)..Len(all) : MetAfter(all[j], all[i])
    BY DEF Ordered
  <2>2. CASE i \in 1..Len(s)
    <3>1. all[i] = s[i] /\ s[i].paper <= n /\ s[i].version <= v[s[i].paper] /\ s[i] \in Id /\ s[i] \in ToSet(s)
      <4>1. all[i] = s[i] BY <1>2, <2>2
      <4>2. s[i].paper <= n /\ s[i].version <= v[s[i].paper] BY <2>2 DEF Ordered
      <4> QED BY <1>4, <2>2, <4>1, <4>2
    <3>2. ASSUME NEW j \in (i + 1)..Len(all) PROVE MetAfter(all[j], all[i])
      <4>1. CASE j \in 1..Len(s)
        <5>1. all[j] = s[j] /\ j \in (i + 1)..Len(s) BY <1>2, <2>2, <4>1, <3>2
        <5> QED BY <2>2, <3>1, <5>1 DEF Ordered
      <4>2. CASE j \in (Len(s) + 1)..Len(all)
        <5>1. all[j] = f[j - Len(s)] /\ j - Len(s) \in 1..Len(f) BY <1>2, <4>2
        <5> DEFINE y == all[j]
                   x == all[i]
        <5>2. y \in Id /\ y.paper + Window > n /\ y.version = v[y.paper] /\ y \notin ToSet(s)
          BY <1>3, <5>1
        <5>3. x \in Id /\ x \in ToSet(s) /\ x.paper <= n /\ x.version <= v[x.paper] BY <3>1
        <5> HIDE DEF x, y
        <5>4. x # y BY <5>2, <5>3
        <5>5. x.paper < y.paper + Window
          <6>1. x.paper \in Nat /\ y.paper \in Nat BY <1>0, <5>2, <5>3
          <6> QED BY <1>1, <5>2, <5>3, <6>1
        <5>6. x.paper = y.paper => x.version < y.version
          <6> HAVE x.paper = y.paper
          <6>1. x.version # y.version BY <1>0, <5>2, <5>3, <5>4
          <6>2. x.version <= y.version BY <5>2, <5>3
          <6>3. x.version \in Nat /\ y.version \in Nat BY <1>0, <5>2, <5>3
          <6> QED BY <6>1, <6>2, <6>3
        <5>7. MetAfter(y, x) BY <5>4, <5>5, <5>6 DEF MetAfter
        <5> QED BY <5>7 DEF x, y
      <4> QED BY <1>2, <2>2, <3>2, <4>1, <4>2
    <3> QED BY <3>1, <3>2
  <2>3. CASE i \in (Len(s) + 1)..Len(all)
    <3>1. all[i] = f[i - Len(s)] /\ i - Len(s) \in 1..Len(f) BY <1>2, <2>3
    <3> DEFINE x == all[i]
    <3>2. x \in Id /\ x.paper <= n /\ x.version = v[x.paper] BY <1>3, <3>1
    <3>3. ASSUME NEW j \in (i + 1)..Len(all) PROVE MetAfter(all[j], all[i])
      <4>1. all[j] = f[j - Len(s)] /\ j - Len(s) \in 1..Len(f) /\ i - Len(s) < j - Len(s)
        BY <1>2, <2>3, <3>3
      <4> DEFINE y == all[j]
      <4>2. y \in Id /\ y.paper + Window > n BY <1>3, <4>1
      <4>3. f[i - Len(s)].paper > f[j - Len(s)].paper BY <3>1, <4>1 DEF IsFresh
      <4>4. x.paper > y.paper BY <3>1, <4>1, <4>3
      <4> HIDE DEF x, y
      <4>5. x.paper \in Nat /\ y.paper \in Nat BY <1>0, <3>2, <4>2
      <4>6. x.paper # y.paper /\ x.paper < y.paper + Window BY <1>1, <3>2, <4>2, <4>4, <4>5
      <4>7. MetAfter(y, x) BY <4>6 DEF MetAfter
      <4> QED BY <4>7 DEF x, y
    <3>4. x.version <= v[x.paper]
      <4> HIDE DEF x
      <4> QED BY <1>0, <3>2
    <3> QED BY <3>2, <3>3, <3>4
  <2> QED BY <1>2, <2>2, <2>3
<1>6. from \in 1..(Len(all) + 1) /\ Len(all) - from + 1 <= MaxSeen
  BY <1>1, <1>2
<1>7. /\ r \in Seq(Id) /\ Len(r) = Len(all) - from + 1
      /\ \A i \in 1..Len(r) : r[i] = all[i + from - 1] /\ i + from - 1 \in 1..Len(all)
  <2>1. Len(all) \in Nat BY <1>2
  <2> HIDE DEF from
  <2>2. \A i \in from..Len(all) : i \in 1..Len(all) /\ all[i] \in Id BY <1>2, <1>6, <2>1
  <2>3. r \in Seq(Id) /\ Len(r) = Len(all) - from + 1
    BY <1>2, <1>6, <2>1, <2>2
  <2>4. \A i \in 1..Len(r) : r[i] = all[i + from - 1] /\ i + from - 1 \in 1..Len(all)
    BY <1>2, <1>6, <2>1, <2>3
  <2> QED BY <2>3, <2>4
<1>8. Remember(s, f) = r
  BY DEF Remember, all
<1> HIDE DEF r
<1>9. Ordered(r, n, v)
  <2>1. SUFFICES ASSUME NEW i \in 1..Len(r)
                 PROVE  /\ r[i].paper <= n /\ r[i].version <= v[r[i].paper]
                        /\ \A j \in (i + 1)..Len(r) : MetAfter(r[j], r[i])
    BY DEF Ordered
  <2>2. r[i] = all[i + from - 1] /\ i + from - 1 \in 1..Len(all) BY <1>7
  <2>3. \A j \in (i + 1)..Len(r) : r[j] = all[j + from - 1] /\ j + from - 1 \in (i + from - 1 + 1)..Len(all)
    <3> HIDE DEF from
    <3>1. Len(all) \in Nat BY <1>2
    <3>2. \A j \in (i + 1)..Len(r) : j \in 1..Len(r) BY <1>6, <1>7, <3>1
    <3> TAKE j \in (i + 1)..Len(r)
    <3>3. r[j] = all[j + from - 1] /\ j + from - 1 \in 1..Len(all) BY <1>7, <3>2
    <3>4. j \in Int /\ i < j /\ i \in Int /\ from \in Int BY <1>6, <1>7, <3>1
    <3>5. j + from - 1 \in (i + from - 1 + 1)..Len(all) BY <3>1, <3>3, <3>4
    <3> QED BY <3>3, <3>5
  <2> HIDE DEF from
  <2>4. DEFINE k == i + from - 1
  <2>5. /\ all[k].paper <= n /\ all[k].version <= v[all[k].paper]
        /\ \A j \in (k + 1)..Len(all) : MetAfter(all[j], all[k])
    <3> HIDE DEF k
    <3>1. k \in 1..Len(all) BY <2>2 DEF k
    <3> QED BY <1>5, <3>1 DEF Ordered
  <2> QED BY <2>2, <2>3, <2>5
<1>10. ASSUME NEW x \in ToSet(s) \cup ToSet(f), Current(x, n, v) PROVE x \in ToSet(r)
  <2>1. PICK i \in 1..Len(all) : all[i] = x
    <3>1. CASE x \in ToSet(s)
      <4>1. PICK k \in 1..Len(s) : s[k] = x BY <3>1 DEF ToSet
      <4> QED BY <1>2, <4>1
    <3>2. CASE x \in ToSet(f)
      <4>1. PICK k \in 1..Len(f) : f[k] = x BY <3>2 DEF ToSet
      <4>2. k + Len(s) \in (Len(s) + 1)..Len(all) /\ k + Len(s) - Len(s) = k /\ k + Len(s) \in 1..Len(all)
        <5>1. k \in 1..Len(f) /\ Len(s) \in Nat /\ Len(f) \in Nat /\ Len(all) = Len(s) + Len(f) BY <1>2, <4>1
        <5> QED BY <5>1
      <4>3. all[k + Len(s)] = f[k]
        <5> DEFINE h == k + Len(s)
        <5>1. h \in (Len(s) + 1)..Len(all) /\ h - Len(s) = k BY <4>2
        <5> HIDE DEF h
        <5>2. all[h] = f[h - Len(s)] BY <1>2, <5>1
        <5> QED BY <5>1, <5>2 DEF h
      <4> QED BY <4>1, <4>2, <4>3
    <3> QED BY <3>1, <3>2, <1>10
  <2>2. Len(all) - i <= room
    BY <1>2, <1>5, <1>10, <2>1, FewFollow DEF room
  <2>3. i - from + 1 \in 1..Len(r) /\ (i - from + 1) + from - 1 = i
    BY <1>1, <1>2, <1>6, <1>7, <2>1, <2>2
  <2>4. r[i - from + 1] = x
    <3> HIDE DEF from
    <3> DEFINE k == i - from + 1
    <3>1. k \in 1..Len(r) /\ k + from - 1 = i BY <2>3
    <3> HIDE DEF k
    <3>2. r[k] = all[k + from - 1] BY <1>7, <3>1
    <3> QED BY <2>1, <3>1, <3>2 DEF k
  <2>5. DOMAIN r = 1..Len(r) BY <1>7
  <2> QED BY <2>3, <2>4, <2>5 DEF ToSet
<1>11. ToSet(r) \subseteq ToSet(s) \cup ToSet(f)
  <2>0. ToSet(r) = {r[k] : k \in 1..Len(r)} BY <1>7 DEF ToSet
  <2> SUFFICES ASSUME NEW k \in 1..Len(r) PROVE r[k] \in ToSet(s) \cup ToSet(f)
    BY <2>0
  <2>1. PICK i \in 1..Len(all) : r[k] = all[i] BY <1>7
  <2>2. CASE i \in 1..Len(s) BY <1>2, <1>4, <2>1, <2>2
  <2>3. CASE i \in (Len(s) + 1)..Len(all)
    <3>1. all[i] = f[i - Len(s)] /\ i - Len(s) \in 1..Len(f) BY <1>2, <2>3
    <3>2. f[i - Len(s)] \in ToSet(f) BY <3>1 DEF ToSet
    <3> QED BY <2>1, <3>1, <3>2
  <2> QED BY <1>2, <2>2, <2>3
<1> QED
  <2>1. Len(r) <= MaxSeen BY <1>6, <1>7
  <2> QED BY <1>7, <1>8, <1>9, <1>10, <1>11, <2>1

\* Nothing is announced or seen at first.
LEMMA PapersInitially == FeedsInit => PapersInv
<1> SUFFICES ASSUME FeedsInit PROVE PapersInv OBVIOUS
<1>1. /\ seen = <<>> /\ seenFile = <<>> /\ papers = 0 /\ announcedAs = [x \in Id |-> 0]
      /\ version = [p \in 1..MaxPapers |-> 1]
  BY DEF FeedsInit
<1>2. <<>> \in Seq(Id) /\ Len(<<>>) = 0 /\ 0 <= MaxSeen /\ 0 \in 0..MaxPapers /\ 1 \in 1..MaxVersions BY FeedsAssumption
<1>3. Ordered(<<>>, 0, version) BY <1>2 DEF Ordered
<1>4. announcedAs \in [Id -> Nat] /\ \A x \in Id : announcedAs[x] = 0 BY <1>1
<1>5. version \in [1..MaxPapers -> 1..MaxVersions] BY <1>1, <1>2
<1>6. ToSet(<<>>) = {} BY DEF ToSet
<1> QED BY <1>1, <1>2, <1>3, <1>4, <1>5, <1>6 DEF PapersInv, IsSeenSet

\* A poll announces the fresh ids only, and they are remembered.
LEMMA PollKeepsPapers == PapersInv /\ Poll => PapersInv'
<1> SUFFICES ASSUME PapersInv, Poll PROVE PapersInv' OBVIOUS
<1> DEFINE fresh == NewPapers
           old == seen
           r == Remember(old, fresh)
<1>1. papers \in 0..MaxPapers /\ version \in [1..MaxPapers -> 1..MaxVersions] /\ announcedAs \in [Id -> Nat]
  BY DEF PapersInv
<1>2. /\ papers' = papers /\ version' = version /\ seen' = r /\ lostIds' = lostIds
      /\ announcedAs' = [x \in Id |-> announcedAs[x] + IF x \in ToSet(fresh) THEN 1 ELSE 0]
      /\ \/ seenFile' = r /\ unwritten' = {}
         \/ seenFile' = seenFile /\ unwritten' = unwritten \cup ToSet(fresh)
         \/ fresh = <<>> /\ seenFile' = seenFile /\ unwritten' = unwritten
  BY DEF Poll, Persist
<1>3. fresh \in Seq(Id) /\ IsFresh(fresh, old, papers, version)
  BY <1>1, FreshPapers
<1> HIDE DEF fresh
<1>4. \A x : x \in ToSet(fresh) <=> /\ x \in Id /\ x.paper <= papers /\ x.paper + Window > papers
                                    /\ x.version = version[x.paper] /\ x \notin ToSet(old)
  BY <1>3 DEF IsFresh
<1> HIDE DEF fresh, r
<1>5. announcedAs' \in [Id -> Nat]
  <2>1. \A x \in Id : announcedAs[x] + (IF x \in ToSet(fresh) THEN 1 ELSE 0) \in Nat BY <1>1
  <2> QED BY <1>2, <2>1
<1>6. old \in Seq(Id) /\ Ordered(old, papers, version) BY DEF PapersInv, IsSeenSet
<1>7. /\ r \in Seq(Id) /\ Len(r) <= MaxSeen /\ Ordered(r, papers, version)
      /\ ToSet(r) \subseteq ToSet(old) \cup ToSet(fresh)
      /\ \A x \in ToSet(old) \cup ToSet(fresh) : Current(x, papers, version) => x \in ToSet(r)
  <2> HIDE DEF old
  <2> QED BY <1>1, <1>3, <1>6, RemembersWindow DEF r
<1>8. IsSeenSet(seen)'
  BY <1>2, <1>7 DEF IsSeenSet
<1>9. seenFile' # Torn => IsSeenSet(seenFile)'
  <2>1. CASE seenFile' = r BY <1>2, <1>7, <2>1 DEF IsSeenSet
  <2>2. CASE seenFile' = seenFile BY <1>2, <2>2 DEF IsSeenSet, PapersInv
  <2> QED BY <1>2, <2>1, <2>2
<1>10. ASSUME NEW x \in Id \ lostIds'
       PROVE  announcedAs'[x] <= 1 /\ (announcedAs'[x] = 1 /\ Current(x, papers', version') => x \in ToSet(seen'))
  <2>1. announcedAs'[x] = announcedAs[x] + (IF x \in ToSet(fresh) THEN 1 ELSE 0) BY <1>2
  <2>2. announcedAs[x] \in Nat /\ announcedAs[x] <= 1
        /\ (announcedAs[x] = 1 /\ Current(x, papers, version) => x \in ToSet(old))
    BY <1>1, <1>2 DEF PapersInv
  <2>3. CASE x \in ToSet(fresh)
    <3>1. Current(x, papers, version) /\ x \notin ToSet(old)
      <4>1. x.paper + Window > papers /\ x.version = version[x.paper] /\ x \notin ToSet(old) BY <1>4, <2>3
      <4>2. x.paper \in 1..MaxPapers BY DEF Id
      <4>3. version[x.paper] \in Nat BY <1>1, <4>2, FeedsAssumption
      <4>4. x.version >= version[x.paper]
        <5> DEFINE w == version[x.paper]
        <5>1. x.version = w /\ w \in Nat BY <4>1, <4>3
        <5> HIDE DEF w
        <5>2. x.version >= w BY <5>1
        <5> QED BY <5>2 DEF w
      <4> QED BY <4>1, <4>4 DEF Current
    <3>2. announcedAs[x] = 0 BY <2>2, <3>1
    <3>3. x \in ToSet(r) BY <1>7, <2>3, <3>1
    <3>4. announcedAs'[x] = 1 BY <2>1, <2>3, <3>2
    <3> QED BY <1>2, <3>3, <3>4
  <2>4. CASE x \notin ToSet(fresh)
    <3>1. announcedAs'[x] = announcedAs[x] BY <2>1, <2>2, <2>4
    <3>2. announcedAs[x] = 1 /\ Current(x, papers, version) => x \in ToSet(r) BY <1>7, <2>2
    <3> QED BY <1>2, <2>2, <3>1, <3>2
  <2> QED BY <2>3, <2>4
<1>11. ASSUME NEW x \in ToSet(seen')
       PROVE  x \in unwritten' \cup lostIds' \/ (seenFile' # Torn /\ x \in ToSet(seenFile'))
  <2>0. x \in ToSet(r) BY <1>2
  <2>1. x \in ToSet(old) \cup ToSet(fresh) BY <1>7, <2>0
  <2>2. CASE seenFile' = r /\ unwritten' = {}
    <3>1. r # Torn BY <1>7, FeedsAssumption
    <3> QED BY <2>0, <2>2, <3>1
  <2>3. ASSUME seenFile' = seenFile, unwritten \subseteq unwritten', x \in ToSet(fresh) => x \in unwritten'
        PROVE  x \in unwritten' \cup lostIds' \/ (seenFile' # Torn /\ x \in ToSet(seenFile'))
    <3>1. CASE x \in ToSet(fresh) BY <2>3, <3>1
    <3>2. CASE x \in ToSet(old)
      <4>1. x \in unwritten \cup lostIds \/ (seenFile # Torn /\ x \in ToSet(seenFile)) BY <3>2 DEF PapersInv
      <4> QED BY <1>2, <2>3, <4>1
    <3> QED BY <2>1, <3>1, <3>2
  <2>4. CASE seenFile' = seenFile /\ unwritten' = unwritten \cup ToSet(fresh)
    <3>1. unwritten \subseteq unwritten' /\ (x \in ToSet(fresh) => x \in unwritten') BY <2>4
    <3> QED BY <2>3, <2>4, <3>1
  <2>5. CASE fresh = <<>> /\ seenFile' = seenFile /\ unwritten' = unwritten
    <3>1. ToSet(fresh) = {} BY <2>5 DEF ToSet
    <3> QED BY <2>3, <2>5, <3>1
  <2> QED BY <1>2, <2>2, <2>4, <2>5
<1> QED
  BY <1>1, <1>2, <1>5, <1>8, <1>9, <1>10, <1>11 DEF PapersInv

\* Every list stays one of ids as they were met when there is another paper or another version.
LEMMA OrderedStays ==
  ASSUME NEW s \in Seq(Id), NEW n \in 0..MaxPapers, NEW v \in [1..MaxPapers -> 1..MaxVersions],
         NEW m \in 0..MaxPapers, NEW w \in [1..MaxPapers -> 1..MaxVersions],
         n <= m, \A p \in 1..MaxPapers : v[p] <= w[p]
  PROVE  /\ Ordered(s, n, v) => Ordered(s, m, w)
         /\ \A x \in Id : Current(x, m, w) => Current(x, n, v)
<1>0. /\ MaxPapers \in Nat /\ MaxVersions \in Nat /\ n \in Nat /\ m \in Nat /\ Window \in Nat
      /\ \A p \in 1..MaxPapers : v[p] \in Nat /\ w[p] \in Nat
  BY FeedsAssumption
<1>1. \A x \in Id : x.paper \in 1..MaxPapers /\ x.version \in 1..MaxVersions /\ x.paper \in Nat /\ x.version \in Nat
  BY <1>0 DEF Id
<1>2. ASSUME Ordered(s, n, v) PROVE Ordered(s, m, w)
  <2> SUFFICES ASSUME NEW i \in 1..Len(s)
               PROVE  /\ s[i].paper <= m /\ s[i].version <= w[s[i].paper]
                      /\ \A j \in (i + 1)..Len(s) : MetAfter(s[j], s[i])
    BY DEF Ordered
  <2> DEFINE x == s[i]
  <2>1. x.paper <= n /\ x.version <= v[x.paper] /\ \A j \in (i + 1)..Len(s) : MetAfter(s[j], x)
    BY <1>2 DEF Ordered
  <2>2. x \in Id OBVIOUS
  <2> HIDE DEF x
  <2>3. x.paper <= m BY <1>0, <1>1, <2>1, <2>2
  <2>4. v[x.paper] \in Nat /\ w[x.paper] \in Nat /\ v[x.paper] <= w[x.paper] /\ x.version \in Nat BY <1>0, <1>1, <2>2
  <2>5. x.version <= w[x.paper] BY <2>1, <2>4
  <2> QED BY <2>1, <2>3, <2>5 DEF x
<1>3. ASSUME NEW x \in Id, Current(x, m, w) PROVE Current(x, n, v)
  <2>1. x.paper + Window > m /\ x.version >= w[x.paper] BY <1>3 DEF Current
  <2>2. x.paper + Window > n BY <1>0, <1>1, <2>1
  <2>4. v[x.paper] \in Nat /\ w[x.paper] \in Nat /\ v[x.paper] <= w[x.paper] /\ x.version \in Nat BY <1>0, <1>1
  <2>5. x.version >= v[x.paper] BY <2>1, <2>4
  <2> QED BY <2>2, <2>5 DEF Current
<1> QED BY <1>2, <1>3

\* Only a poll announces; another paper or another version takes none from the set; what comes
\* back after a restart is what was written.
LEMMA PapersStep == PapersInv /\ (ArxivNext \/ UNCHANGED paperVars) => PapersInv'
<1> SUFFICES ASSUME PapersInv, ArxivNext \/ UNCHANGED paperVars PROVE PapersInv' OBVIOUS
<1>1. CASE Poll BY <1>1, PollKeepsPapers
<1>2. CASE Acknowledge \/ UNCHANGED paperVars
  BY <1>2 DEF PapersInv, IsSeenSet, Acknowledge, paperVars
<1>3. CASE RestartFeeds
  <2>1. UNCHANGED <<papers, version, announcedAs>> /\ lostIds \subseteq lostIds' /\ unwritten' = {}
    BY <1>3 DEF RestartFeeds
  <2>2. seen' = IF seenFile' = Torn THEN <<>> ELSE seenFile' BY <1>3 DEF RestartFeeds
  <2>3. \/ seenFile' = seenFile /\ lostIds' = lostIds \cup unwritten
        \/ seenFile' = Torn /\ lostIds' = lostIds \cup ToSet(seen)
    BY <1>3 DEF RestartFeeds
  <2>4. seenFile' # Torn => IsSeenSet(seenFile)'
    BY <2>1, <2>3 DEF PapersInv, IsSeenSet
  <2>5. IsSeenSet(<<>>)'
    <3>1. <<>> \in Seq(Id) /\ Len(<<>>) = 0 /\ 0 <= MaxSeen BY FeedsAssumption
    <3>2. Ordered(<<>>, papers', version') BY <3>1 DEF Ordered
    <3> QED BY <3>1, <3>2 DEF IsSeenSet
  <2>6. IsSeenSet(seen)' BY <2>2, <2>4, <2>5 DEF IsSeenSet
  <2>7. \A x \in ToSet(seen) : x \notin lostIds' => seenFile' # Torn /\ x \in ToSet(seenFile')
    <3> SUFFICES ASSUME NEW x \in ToSet(seen), x \notin lostIds'
                 PROVE  seenFile' # Torn /\ x \in ToSet(seenFile')
      OBVIOUS
    <3>1. x \in unwritten \cup lostIds \/ (seenFile # Torn /\ x \in ToSet(seenFile)) BY DEF PapersInv
    <3>2. seenFile' = seenFile /\ x \notin unwritten \cup lostIds BY <2>1, <2>3
    <3> QED BY <3>1, <3>2
  <2>8. ASSUME NEW x \in Id \ lostIds'
        PROVE  announcedAs'[x] <= 1 /\ (announcedAs'[x] = 1 /\ Current(x, papers', version') => x \in ToSet(seen'))
    <3>1. announcedAs[x] <= 1 /\ (announcedAs[x] = 1 /\ Current(x, papers, version) => x \in ToSet(seen))
      BY <2>1 DEF PapersInv
    <3>2. x \in ToSet(seen) => x \in ToSet(seen') BY <2>2, <2>7
    <3> QED BY <2>1, <3>1, <3>2
  <2>9. \A x \in ToSet(seen') : seenFile' # Torn /\ x \in ToSet(seenFile')
    <3>1. ToSet(<<>>) = {} BY DEF ToSet
    <3> QED BY <2>2, <3>1
  <2>10. papers' \in 0..MaxPapers /\ version' \in [1..MaxPapers -> 1..MaxVersions] /\ announcedAs' \in [Id -> Nat]
    BY <2>1 DEF PapersInv
  <2> QED BY <2>4, <2>6, <2>8, <2>9, <2>10 DEF PapersInv
<1>4. CASE Submit \/ Revise
  <2>0. papers \in 0..MaxPapers /\ version \in [1..MaxPapers -> 1..MaxVersions] BY DEF PapersInv
  <2>1. UNCHANGED <<seen, seenFile, announcedAs, unwritten, lostIds>> BY <1>4 DEF Submit, Revise
  <2>2. /\ papers' \in 0..MaxPapers /\ papers <= papers' /\ version' \in [1..MaxPapers -> 1..MaxVersions]
        /\ \A p \in 1..MaxPapers : version[p] <= version'[p]
    <3>0. \A p \in 1..MaxPapers : version[p] \in Nat /\ version[p] \in 1..MaxVersions BY <2>0, FeedsAssumption
    <3>1. CASE Submit
      <4>1. papers' = papers + 1 /\ papers < MaxPapers /\ version' = version BY <3>1 DEF Submit
      <4>2. papers' \in 0..MaxPapers /\ papers <= papers' BY <2>0, <4>1, FeedsAssumption
      <4>3. \A p \in 1..MaxPapers : version[p] <= version'[p] BY <3>0, <4>1
      <4> QED BY <2>0, <4>1, <4>2, <4>3
    <3>2. CASE Revise
      <4>1. papers' = papers BY <3>2 DEF Revise
      <4>2. PICK q \in 1..papers : version[q] < MaxVersions /\ version' = [version EXCEPT ![q] = @ + 1]
        BY <3>2 DEF Revise
      <4>3. q \in 1..MaxPapers BY <2>0, FeedsAssumption
      <4>4. version[q] + 1 \in 1..MaxVersions BY <3>0, <4>2, <4>3, FeedsAssumption
      <4>5. version' \in [1..MaxPapers -> 1..MaxVersions] BY <2>0, <4>2, <4>4
      <4>6. \A p \in 1..MaxPapers : version[p] <= version'[p]
        <5> TAKE p \in 1..MaxPapers
        <5>1. CASE p = q
          <6>1. version'[p] = version[p] + 1 BY <2>0, <4>2, <5>1
          <6> QED BY <3>0, <6>1
        <5>2. CASE p # q
          <6>1. version'[p] = version[p] BY <2>0, <4>2, <5>2
          <6> QED BY <3>0, <6>1
        <5> QED BY <5>1, <5>2
      <4>7. papers' \in 0..MaxPapers /\ papers <= papers' BY <2>0, <4>1, FeedsAssumption
      <4> QED BY <4>5, <4>6, <4>7
    <3> QED BY <1>4, <3>1, <3>2
  <2>3. \A s \in Seq(Id) : Ordered(s, papers, version) => Ordered(s, papers', version')
    BY <2>0, <2>2, OrderedStays
  <2>4. \A x \in Id : Current(x, papers', version') => Current(x, papers, version)
    <3>1. <<>> \in Seq(Id) OBVIOUS
    <3> QED BY <2>0, <2>2, <3>1, OrderedStays
  <2>5. IsSeenSet(seen)' BY <2>1, <2>3 DEF PapersInv, IsSeenSet
  <2>6. seenFile' # Torn => IsSeenSet(seenFile)' BY <2>1, <2>3 DEF PapersInv, IsSeenSet
  <2>7. \A x \in Id \ lostIds' :
          announcedAs'[x] <= 1 /\ (announcedAs'[x] = 1 /\ Current(x, papers', version') => x \in ToSet(seen'))
    BY <2>1, <2>4 DEF PapersInv
  <2>8. \A x \in ToSet(seen') : x \in unwritten' \cup lostIds' \/ (seenFile' # Torn /\ x \in ToSet(seenFile'))
    BY <2>1 DEF PapersInv
  <2>9. announcedAs' \in [Id -> Nat] BY <2>1 DEF PapersInv
  <2> QED BY <2>2, <2>5, <2>6, <2>7, <2>8, <2>9 DEF PapersInv
<1> QED BY <1>1, <1>2, <1>3, <1>4 DEF ArxivNext

\* The result of a build is what its log said when it was read.
LEMMA BuildStep == BuildInv /\ (LatexNext \/ UNCHANGED latexVars) => BuildInv'
<1> SUFFICES ASSUME BuildInv, LatexNext \/ UNCHANGED latexVars PROVE BuildInv' OBVIOUS
<1> DEFINE Probe == [engine : Dir \cup {Torn}, failed : BOOLEAN \cup {Torn}]
           Vouched == /\ probed # Torn /\ probed.engine = Torn /\ probed.failed # Torn
                      /\ tracked # Torn /\ tracked \notin rebuilt /\ ~logUnread
<1>0. ResultTicks \in Nat \ {0} /\ Torn \notin BOOLEAN /\ Torn \notin Dir BY FeedsAssumption
<1>1. /\ logs \in [Dir -> BOOLEAN] /\ tracked \in Dir \cup {Torn} /\ resultOf \in Dir
      /\ probed # Torn => probed \in Probe
      /\ Vouched => probed.failed = logs[tracked]
  BY DEF BuildInv
<1>2. BuildIsReported BY DEF BuildInv
<1>3. CASE UNCHANGED latexVars BY <1>3 DEF BuildInv, BuildIsReported, latexVars
<1>4. ASSUME UNCHANGED <<latexPhase, tracked, ttl, resultOf>>, logs'[resultOf] = logs[resultOf] \/ resultOf \in rebuilt',
             tracked # Torn \/ (rebuilt \subseteq rebuilt' /\ (logUnread => logUnread'))
      PROVE  BuildIsReported'
  <2>1. CASE tracked # Torn BY <1>2, <1>4, <2>1 DEF BuildIsReported
  <2>2. CASE tracked = Torn
    <3>1. (tracked' # Torn) = (latexPhase' = "compiling") BY <1>2, <1>4 DEF BuildIsReported
    <3>2. latexPhase' \in {"success", "error"} => ttl' \in 1..ResultTicks BY <1>2, <1>4 DEF BuildIsReported
    <3>3. ASSUME latexPhase' \in {"success", "error"}, resultOf' \notin rebuilt', ~logUnread'
          PROVE  (latexPhase' = "error") = logs'[resultOf']
      <4>1. resultOf \notin rebuilt /\ ~logUnread BY <1>4, <2>2, <3>3
      <4>2. (latexPhase = "error") = logs[resultOf] BY <1>2, <1>4, <3>3, <4>1 DEF BuildIsReported
      <4> QED BY <1>4, <3>3, <4>2
    <3> QED BY <3>1, <3>2, <3>3 DEF BuildIsReported
  <2> QED BY <2>1, <2>2
<1>5. CASE Scan
  <2>1. UNCHANGED <<logs, latexPhase, tracked, ttl, resultOf, rebuilt, logUnread>> BY <1>5 DEF Scan
  <2>2. \/ \E d \in Dir : probed' = [engine |-> d, failed |-> FALSE]
        \/ probed' = [engine |-> Torn, failed |-> Torn]
    BY <1>5 DEF Scan, Engines
  <2>3. probed' \in Probe /\ ~(probed'.engine = Torn /\ probed'.failed # Torn)
    <3>1. \A e \in Dir \cup {Torn}, b \in BOOLEAN \cup {Torn} :
            LET q == [engine |-> e, failed |-> b] IN q \in Probe /\ q.engine = e /\ q.failed = b
      OBVIOUS
    <3>2. FALSE \in BOOLEAN OBVIOUS
    <3> HIDE DEF Probe
    <3>3. CASE probed' = [engine |-> Torn, failed |-> Torn] BY <3>1, <3>3
    <3>4. ASSUME NEW d \in Dir, probed' = [engine |-> d, failed |-> FALSE]
          PROVE  probed' \in Probe /\ ~(probed'.engine = Torn /\ probed'.failed # Torn)
      <4>1. probed' \in Probe /\ probed'.engine = d BY <3>1, <3>2, <3>4
      <4> QED BY <1>0, <4>1
    <3> QED BY <2>2, <3>3, <3>4
  <2>4. BuildIsReported' BY <1>4, <2>1
  <2> QED BY <1>1, <2>1, <2>3, <2>4 DEF BuildInv
<1>6. CASE ReadLog
  <2>1. UNCHANGED <<logs, latexPhase, tracked, ttl, resultOf>> /\ probed # Torn BY <1>6 DEF ReadLog
  <2>2. probed' = [probed EXCEPT !.failed = IF tracked = Torn THEN FALSE ELSE logs[tracked]] BY <1>6 DEF ReadLog
  <2>3. PICK b : b = IF tracked = Torn THEN FALSE ELSE logs[tracked] OBVIOUS
  <2>4. b \in BOOLEAN BY <1>1, <2>3
  <2>5. probed \in Probe BY <1>1, <2>1
  <2>6. probed' = [probed EXCEPT !.failed = b] BY <2>2, <2>3
  <2>7. probed' \in Probe /\ probed'.failed = b BY <2>4, <2>5, <2>6
  <2>8. tracked # Torn \/ (rebuilt \subseteq rebuilt' /\ (logUnread => logUnread')) BY <1>6 DEF ReadLog
  <2>9. BuildIsReported' BY <1>4, <2>1, <2>8
  <2>10. tracked # Torn => b = logs[tracked] BY <2>3
  <2> QED BY <1>1, <2>1, <2>7, <2>9, <2>10 DEF BuildInv
<1>7. CASE ScanFails
  <2>1. UNCHANGED <<logs, latexPhase, tracked, ttl, resultOf, rebuilt>> /\ probed' = [engine |-> Torn, failed |-> FALSE]
    BY <1>7 DEF ScanFails
  <2>2. (tracked # Torn => logUnread') /\ (logUnread => logUnread') BY <1>7 DEF ScanFails
  <2>3. probed' \in Probe BY <2>1
  <2>4. BuildIsReported' BY <1>4, <2>1, <2>2
  <2> QED BY <1>1, <2>1, <2>2, <2>3, <2>4 DEF BuildInv
<1>8. CASE BuildsChange
  <2>1. UNCHANGED <<latexPhase, tracked, ttl, probed, resultOf, logUnread>> BY <1>8 DEF BuildsChange
  <2>2. PICK d \in Dir : rebuilt' = rebuilt \cup {d} /\ \E b \in BOOLEAN : logs' = [logs EXCEPT ![d] = b]
    <3>1. PICK d \in Dir : /\ rebuilt' = rebuilt \cup {d}
                           /\ logs' = [logs EXCEPT ![d] = FALSE] \/ logs' = [logs EXCEPT ![d] = ~builds[d]]
      BY <1>8 DEF BuildsChange
    <3>2. FALSE \in BOOLEAN /\ (~builds[d]) \in BOOLEAN OBVIOUS
    <3> QED BY <3>1, <3>2
  <2>3. logs' \in [Dir -> BOOLEAN] /\ \A e \in Dir : e # d => logs'[e] = logs[e] BY <1>1, <2>2
  <2>4. logs'[resultOf] = logs[resultOf] \/ resultOf \in rebuilt' BY <1>1, <2>2, <2>3
  <2>5. BuildIsReported' BY <1>4, <2>1, <2>2, <2>4
  <2>6. tracked # Torn /\ tracked \notin rebuilt' => tracked \notin rebuilt /\ logs'[tracked] = logs[tracked]
    BY <1>1, <2>2, <2>3
  <2>7. Vouched' => probed'.failed = logs'[tracked'] BY <1>1, <2>1, <2>6
  <2> QED BY <1>1, <2>1, <2>3, <2>5, <2>7 DEF BuildInv
<1>9. CASE Apply
  <2>1. UNCHANGED <<logs, rebuilt, logUnread>> /\ probed # Torn /\ probed.failed # Torn /\ probed' = Torn
    BY <1>9 DEF Apply
  <2>2. probed \in Probe BY <1>1, <2>1
  <2>3. CASE probed.engine # Torn /\ Compiles
    <3>1. tracked' = probed.engine /\ latexPhase' = "compiling" /\ resultOf' = resultOf BY <2>3 DEF Compiles
    <3>2. tracked' \in Dir /\ tracked' # Torn BY <1>0, <2>2, <2>3, <3>1
    <3>3. BuildIsReported' BY <3>1, <3>2 DEF BuildIsReported
    <3> QED BY <1>1, <2>1, <3>1, <3>2, <3>3 DEF BuildInv
  <2>4. CASE probed.engine = Torn /\ Ends
    <3>1. /\ tracked # Torn /\ tracked' = Torn /\ ttl' = ResultTicks /\ resultOf' = tracked
          /\ latexPhase' = IF probed.failed THEN "error" ELSE "success"
      BY <2>4 DEF Ends
    <3>2. ttl' \in 1..ResultTicks BY <1>0, <3>1
    <3>3. probed.failed \in BOOLEAN BY <2>1, <2>2
    <3>4. (latexPhase' = "error") = probed.failed BY <3>1, <3>3
    <3>5. latexPhase' # "compiling" BY <3>1
    <3>6. resultOf' \notin rebuilt' /\ ~logUnread' => probed.failed = logs'[resultOf'] BY <1>1, <2>1, <2>4, <3>1
    <3>7. BuildIsReported' BY <3>1, <3>2, <3>4, <3>5, <3>6 DEF BuildIsReported
    <3> QED BY <1>1, <2>1, <3>1, <3>7 DEF BuildInv
  <2>5. CASE Fades
    <3>1. tracked = Torn /\ tracked' = Torn /\ resultOf' = resultOf BY <2>5 DEF Fades
    <3>2. latexPhase # "compiling" BY <1>2, <3>1 DEF BuildIsReported
    <3>3. CASE latexPhase \in {"success", "error"}
      <4>1. ttl \in 1..ResultTicks /\ ttl' = ttl - 1 /\ latexPhase' = IF ttl' = 0 THEN "idle" ELSE latexPhase
        BY <1>2, <2>5, <3>3 DEF Fades, BuildIsReported
      <4>2. ttl' # 0 => ttl' \in 1..ResultTicks BY <1>0, <4>1
      <4>3. latexPhase' \in {"success", "error"} => latexPhase' = latexPhase /\ ttl' \in 1..ResultTicks BY <4>1, <4>2
      <4>4. latexPhase' # "compiling" BY <3>2, <4>1
      <4>5. latexPhase' \in {"success", "error"} /\ resultOf' \notin rebuilt' /\ ~logUnread'
            => (latexPhase' = "error") = logs'[resultOf']
        BY <1>2, <2>1, <3>1, <4>3 DEF BuildIsReported
      <4>6. BuildIsReported' BY <3>1, <4>3, <4>4, <4>5 DEF BuildIsReported
      <4> QED BY <1>1, <2>1, <3>1, <4>6 DEF BuildInv
    <3>4. CASE latexPhase \notin {"success", "error"}
      <4>1. latexPhase' = latexPhase BY <2>5, <3>4 DEF Fades
      <4>2. BuildIsReported' BY <3>1, <3>2, <3>4, <4>1 DEF BuildIsReported
      <4> QED BY <1>1, <2>1, <3>1, <4>2 DEF BuildInv
    <3> QED BY <3>3, <3>4
  <2> QED BY <1>9, <2>3, <2>4, <2>5 DEF Apply
<1> QED BY <1>3, <1>5, <1>6, <1>7, <1>8, <1>9 DEF LatexNext

\* What a pid has used since the first sample is at most what is accounted to it.
LEMMA SniperStep == SniperInv /\ (SniperNext \/ UNCHANGED sniperVars) => SniperInv'
<1> SUFFICES ASSUME SniperInv, SniperNext \/ UNCHANGED sniperVars PROVE SniperInv' OBVIOUS
<1> DEFINE F == [Pid -> Nat \cup {Torn}]
<1>0. Torn \notin F /\ Torn \notin Nat BY FeedsAssumption
<1>1. jiffies \in F /\ (firstSample # Torn => firstSample \in F) /\ spent \in [Pid -> Nat]
  BY DEF SniperInv
<1>2. listed \subseteq Pid \X Nat BY DEF SniperInv
<1> HIDE DEF F
<1>3. CASE UNCHANGED sniperVars BY <1>3 DEF SniperInv, ChargedFairly, sniperVars
<1>4. CASE FirstSample
  <2>1. firstSample' = jiffies /\ spent' = [p \in Pid |-> 0] /\ UNCHANGED <<jiffies, listed>>
    BY <1>4 DEF FirstSample
  <2>2. firstSample' # Torn /\ jiffies # Torn BY <1>0, <1>1, <2>1
  <2>3. \A p \in Pid : jiffies[p] # Torn => jiffies[p] \in Nat /\ jiffies[p] <= jiffies[p] + 0
    BY <1>1 DEF F
  <2>4. spent' \in [Pid -> Nat] /\ \A p \in Pid : spent'[p] = 0 BY <2>1
  <2> QED BY <1>1, <1>2, <2>1, <2>2, <2>3, <2>4 DEF SniperInv, ChargedFairly, F
<1>5. CASE SecondSample
  <2>1. /\ firstSample # Torn /\ firstSample' = Torn /\ UNCHANGED <<jiffies, spent>>
        /\ listed' = {<<p, UsedSince(p)>> : p \in {q \in Pid : jiffies[q] # Torn}}
    BY <1>5 DEF SecondSample
  <2>2. \A p \in Pid : jiffies[p] # Torn => UsedSince(p) \in Nat /\ UsedSince(p) <= spent[p]
    <3> TAKE p \in Pid
    <3> HAVE jiffies[p] # Torn
    <3>1. jiffies[p] \in Nat /\ spent[p] \in Nat /\ firstSample[p] \in Nat \cup {Torn} BY <1>1, <2>1 DEF F
    <3>2. firstSample[p] # Torn => jiffies[p] <= firstSample[p] + spent[p] BY <2>1 DEF SniperInv
    <3>3. CASE firstSample[p] = Torn BY <3>1, <3>3 DEF UsedSince
    <3>4. CASE firstSample[p] # Torn BY <3>1, <3>2, <3>4 DEF UsedSince
    <3> QED BY <3>3, <3>4
  <2>3. \A row \in listed' : row \in Pid \X Nat /\ row[2] <= spent[row[1]]
    BY <2>1, <2>2
  <2> QED BY <1>1, <2>1, <2>3 DEF SniperInv, ChargedFairly, F
<1> DEFINE Changes(p) ==
             \/ jiffies' = [jiffies EXCEPT ![p] = Torn]
             \/ jiffies' = [jiffies EXCEPT ![p] = 0] /\ jiffies[p] = Torn
<1>6. ASSUME NEW p \in Pid, Changes(p), UNCHANGED <<spent, firstSample, listed>>
      PROVE  SniperInv'
  <2>1. jiffies' \in F /\ \A q \in Pid : jiffies'[q] \in {jiffies[q], Torn, 0} BY <1>1, <1>6 DEF F
  <2>2. firstSample # Torn => \A q \in Pid :
          jiffies'[q] # Torn /\ firstSample[q] # Torn => jiffies'[q] <= firstSample[q] + spent[q]
    <3> SUFFICES ASSUME firstSample # Torn, NEW q \in Pid, jiffies'[q] # Torn, firstSample[q] # Torn
                 PROVE  jiffies'[q] <= firstSample[q] + spent[q]
      OBVIOUS
    <3>1. firstSample[q] \in Nat /\ spent[q] \in Nat BY <1>1 DEF F
    <3>2. jiffies[q] # Torn => jiffies[q] <= firstSample[q] + spent[q] BY DEF SniperInv
    <3> QED BY <2>1, <3>1, <3>2
  <2>3. jiffies' # Torn BY <1>0, <2>1
  <2>4. {jiffies', firstSample'} \ {Torn} \subseteq F BY <1>1, <1>6, <2>1
  <2> QED BY <1>1, <1>2, <1>6, <2>2, <2>3, <2>4 DEF SniperInv, ChargedFairly, F
<1>7. CASE KillListed
  <2>1. PICK row \in listed : jiffies' = [jiffies EXCEPT ![row[1]] = Torn] BY <1>7 DEF KillListed
  <2>2. row[1] \in Pid BY <1>2
  <2>3. UNCHANGED <<spent, firstSample, listed>> BY <1>7 DEF KillListed
  <2> DEFINE p == row[1]
  <2>4. p \in Pid /\ Changes(p) BY <2>1, <2>2
  <2> HIDE DEF p, Changes
  <2> QED BY <1>6, <2>3, <2>4
<1>8. CASE ProcessesChange
  <2>1. UNCHANGED <<firstSample, listed>> BY <1>8 DEF ProcessesChange
  <2>2. PICK p \in Pid :
          \/ /\ jiffies[p] # Torn /\ jiffies' = [jiffies EXCEPT ![p] = @ + 1]
             /\ spent' = [spent EXCEPT ![p] = IF firstSample = Torn THEN @ ELSE @ + 1]
          \/ jiffies[p] # Torn /\ jiffies' = [jiffies EXCEPT ![p] = Torn] /\ UNCHANGED spent
          \/ jiffies[p] = Torn /\ jiffies' = [jiffies EXCEPT ![p] = 0] /\ UNCHANGED spent
    BY <1>8 DEF ProcessesChange
  <2>3. CASE UNCHANGED spent /\ Changes(p)
    <3> HIDE DEF Changes
    <3> QED BY <1>6, <2>1, <2>3
  <2>4. CASE /\ jiffies[p] # Torn /\ jiffies' = [jiffies EXCEPT ![p] = @ + 1]
             /\ spent' = [spent EXCEPT ![p] = IF firstSample = Torn THEN @ ELSE @ + 1]
    <3>1. jiffies[p] \in Nat /\ spent[p] \in Nat BY <1>1, <2>4 DEF F
    <3>2. jiffies' \in F /\ jiffies' # Torn BY <1>0, <1>1, <2>4, <3>1 DEF F
    <3>3. CASE firstSample = Torn
      <4>1. spent' = spent BY <1>1, <2>4, <3>3
      <4>2. {jiffies', firstSample'} \ {Torn} \subseteq F BY <2>1, <3>2, <3>3
      <4> QED BY <1>1, <1>2, <2>1, <3>2, <3>3, <4>1, <4>2 DEF SniperInv, ChargedFairly, F
    <3>4. CASE firstSample # Torn
      <4>1. spent' = [spent EXCEPT ![p] = @ + 1] BY <2>4, <3>4
      <4>2. spent' \in [Pid -> Nat] BY <1>1, <3>1, <4>1
      <4>3. \A q \in Pid : jiffies'[q] # Torn /\ firstSample[q] # Torn => jiffies'[q] <= firstSample[q] + spent'[q]
        <5> SUFFICES ASSUME NEW q \in Pid, jiffies'[q] # Torn, firstSample[q] # Torn
                     PROVE  jiffies'[q] <= firstSample[q] + spent'[q]
          OBVIOUS
        <5>1. firstSample[q] \in Nat /\ spent[q] \in Nat BY <1>1, <3>4 DEF F
        <5>2. jiffies[q] # Torn => jiffies[q] \in Nat /\ jiffies[q] <= firstSample[q] + spent[q]
          BY <1>1, <3>4 DEF SniperInv, F
        <5>3. CASE q = p
          <6>1. jiffies'[q] = jiffies[q] + 1 /\ spent'[q] = spent[q] + 1 BY <1>1, <2>4, <4>1, <5>3 DEF F
          <6> QED BY <2>4, <5>1, <5>2, <5>3, <6>1
        <5>4. CASE q # p
          <6>1. jiffies'[q] = jiffies[q] /\ spent'[q] = spent[q] BY <1>1, <2>4, <4>1, <5>4 DEF F
          <6> QED BY <5>2, <6>1
        <5> QED BY <5>3, <5>4
      <4>4. {jiffies', firstSample'} \ {Torn} \subseteq F BY <1>1, <2>1, <3>2, <3>4
      <4> QED BY <1>2, <2>1, <3>2, <3>4, <4>2, <4>3, <4>4 DEF SniperInv, ChargedFairly, F
    <3> QED BY <3>3, <3>4
  <2> QED BY <2>2, <2>3, <2>4
<1> QED BY <1>3, <1>4, <1>5, <1>7, <1>8 DEF SniperNext

\* The notes a reference is linked to are notes, however often they are.
LEMMA LibraryStep == LibraryInv /\ (LibraryNext \/ UNCHANGED libraryVars) => LibraryInv'
<1> SUFFICES ASSUME LibraryInv, LibraryNext \/ UNCHANGED libraryVars PROVE LibraryInv' OBVIOUS
<1>1. CASE BeginRefresh \/ PublishLibrary \/ UNCHANGED libraryVars
  BY <1>1 DEF LibraryInv, BeginRefresh, PublishLibrary, libraryVars
<1>2. CASE LookUp
  <2>0. PICK r : \E linked \in {Cardinality(LinkedNotes(r)), 0} : rows' = rows \cup {[ref |-> r, linked |-> linked]}
    BY <1>2 DEF LookUp
  <2>1. PICK linked \in {Cardinality(LinkedNotes(r)), 0} : rows' = rows \cup {[ref |-> r, linked |-> linked]}
    BY <2>0
  <2>2. LinkedNotes(r) \subseteq Note BY DEF LinkedNotes, LibraryInv
  <2>3. linked <= Cardinality(Note)
    <3>1. Cardinality(LinkedNotes(r)) <= Cardinality(Note) BY <2>2, FS_Subset, FeedsAssumption
    <3>2. Cardinality(Note) \in Nat /\ 0 <= Cardinality(Note) BY FS_CardinalityType, FeedsAssumption
    <3> QED BY <2>1, <3>1, <3>2
  <2>4. UNCHANGED <<edges, library>> BY <1>2 DEF LookUp
  <2> QED BY <2>1, <2>3, <2>4 DEF LibraryInv
<1>3. CASE ShelfChanges
  <2>1. edges' \subseteq edges BY <1>3 DEF ShelfChanges
  <2>2. UNCHANGED <<rows, library>> BY <1>3 DEF ShelfChanges
  <2> QED BY <2>1, <2>2 DEF LibraryInv
<1> QED BY <1>1, <1>2, <1>3 DEF LibraryNext

\* The four watchers, each with its invariant.
FeedsInv == PapersInv /\ BuildInv /\ SniperInv /\ LibraryInv

\* At first nothing was built, sampled or listed.
LEMMA FeedsInitially == FeedsInit => FeedsInv
<1> SUFFICES ASSUME FeedsInit PROVE FeedsInv OBVIOUS
<1>1. PapersInv BY PapersInitially
<1>2. BuildInv
  <2>1. latexPhase = "idle" /\ tracked = Torn /\ probed = Torn /\ resultOf \in Dir /\ logs = [d \in Dir |-> FALSE]
    BY DEF FeedsInit
  <2>2. logs \in [Dir -> BOOLEAN] BY <2>1
  <2>3. BuildIsReported BY <2>1 DEF BuildIsReported
  <2> QED BY <2>1, <2>2, <2>3 DEF BuildInv
<1>3. SniperInv
  <2>1. jiffies = [p \in Pid |-> 0] /\ spent = [p \in Pid |-> 0] /\ firstSample = Torn /\ listed = {}
    BY DEF FeedsInit
  <2>2. jiffies \in [Pid -> Nat \cup {Torn}] /\ spent \in [Pid -> Nat] BY <2>1
  <2>3. jiffies # Torn BY <2>2, FeedsAssumption
  <2>4. ChargedFairly BY <2>1 DEF ChargedFairly
  <2> QED BY <2>1, <2>2, <2>3, <2>4 DEF SniperInv
<1>4. LibraryInv BY DEF FeedsInit, LibraryInv
<1> QED BY <1>1, <1>2, <1>3, <1>4 DEF FeedsInv

\* For any windows, caps and numbers of versions that fit, directories, pids and references: no id is
\* announced twice unless a restart lost it, a build is shown as under way exactly while it is
\* tracked and with the result its log has, no process is charged more than it used, and links
\* count once.
THEOREM FeedsAreTold == FeedsSpec => []FeedsTold
<1>1. FeedsInv /\ [ArxivNext \/ LatexNext \/ SniperNext \/ LibraryNext]_feedVars => FeedsInv'
  <2> SUFFICES ASSUME FeedsInv, [ArxivNext \/ LatexNext \/ SniperNext \/ LibraryNext]_feedVars
               PROVE  FeedsInv'
    OBVIOUS
  <2>1. ArxivNext => UNCHANGED <<latexVars, sniperVars, libraryVars>>
    BY DEF ArxivNext, Poll, Acknowledge, RestartFeeds, Submit, Revise
  <2>2. LatexNext => UNCHANGED <<paperVars, sniperVars, libraryVars>>
    BY DEF LatexNext, Scan, ReadLog, ScanFails, Apply, BuildsChange
  <2>3. SniperNext => UNCHANGED <<paperVars, latexVars, libraryVars>>
    BY DEF SniperNext, FirstSample, SecondSample, KillListed, ProcessesChange
  <2>4. LibraryNext => UNCHANGED <<paperVars, latexVars, sniperVars>>
    BY DEF LibraryNext, BeginRefresh, LookUp, PublishLibrary, ShelfChanges
  <2>5. UNCHANGED feedVars => UNCHANGED <<paperVars, latexVars, sniperVars, libraryVars>> BY DEF feedVars
  <2>6. /\ ArxivNext \/ UNCHANGED paperVars
        /\ LatexNext \/ UNCHANGED latexVars
        /\ SniperNext \/ UNCHANGED sniperVars
        /\ LibraryNext \/ UNCHANGED libraryVars
    BY <2>1, <2>2, <2>3, <2>4, <2>5
  <2> QED BY <2>6, PapersStep, BuildStep, SniperStep, LibraryStep DEF FeedsInv
<1>2. FeedsInv => FeedsTold
  BY DEF FeedsInv, FeedsTold, PapersInv, BuildInv, AnnouncedOnce, SniperInv, LibraryInv, LinksCountedOnce
<1> QED BY <1>1, <1>2, FeedsInitially, PTL DEF FeedsSpec
=============================================================================
