------------------------------ MODULE RubberDuck ------------------------------
(***************************************************************************)
(* The rubber duck (levshell-modules, rubber_duck/; shell/main.qml): the   *)
(* shell shows a chat and sends what the user types; the module keeps the  *)
(* conversation and has every message answered by a task of its own, which *)
(* streams the reply of the language model to the shell.  What is said is  *)
(* numbered; a reply has the number of what it answers.                    *)
(***************************************************************************)
EXTENDS Naturals, Sequences, SequencesExt

CONSTANTS
  Cap,         \* MAX_MESSAGES
  ShellSlots,  \* of the shell's queue
  MaxSays, MaxResets, MaxTokens \* bounds: messages, resets, tokens of a reply

ASSUME DuckAssumption == {Cap, ShellSlots, MaxSays, MaxTokens} \subseteq Nat

VARIABLES
  enabled,     \* RubberDuckConfig::enabled
  chat,        \* shell.duckMessages, as [who, n]
  thinking,    \* shell.duckStreaming
  says,        \* DuckUserMessage events on their way to the module
  conversation, \* as [who, n]
  reply,       \* per number: the task that answers, as [at, tokens]
  toShell,     \* messages queued for the shell
  tokenLost,   \* history: a message found the queue full, and no reset found room since
  outOfStep, \* history: a message overtook what was under way, or a reset did, and none met with
             \* nothing under way since
  broken,      \* history: numbers whose reply failed
  said, resets \* counters for the bounds

duckVars == <<enabled, chat, thinking, says, conversation, reply, toShell, tokenLost, outOfStep, broken, said, resets>>

User(n) == [who |-> "user", n |-> n]
Reply(n) == [who |-> "assistant", n |-> n]
Token(n, done) == [type |-> "token", n |-> n, done |-> done]
End(n) == [type |-> "end", n |-> n, done |-> TRUE]
ResetMessage == [type |-> "reset", n |-> 0, done |-> TRUE]

Over == [at |-> "over", tokens |-> 0]

DuckInit ==
  /\ enabled \in BOOLEAN
  /\ chat = <<>> /\ thinking = FALSE /\ says = <<>>
  /\ conversation = <<>> /\ reply = [n \in 1..MaxSays |-> Over]
  /\ toShell = <<>> /\ tokenLost = FALSE /\ outOfStep = FALSE /\ broken = {}
  /\ said = 0 /\ resets = 0

\* WidgetPublisher::try_send()
SendShell(m) ==
  /\ toShell' = IF Len(toShell) < ShellSlots THEN Append(toShell, m) ELSE toShell
  /\ tokenLost' = (tokenLost \/ Len(toShell) >= ShellSlots)

Running == {n \in 1..MaxSays : reply[n] # Over}

\* sendDuckMessage() of the shell
Say ==
  /\ ~thinking /\ said < MaxSays
  /\ said' = said + 1
  /\ chat' = Append(chat, User(said'))
  /\ thinking' = TRUE
  /\ says' = Append(says, said')
  /\ outOfStep' = (outOfStep \/ \E i \in DOMAIN toShell : toShell[i].type = "reset")
  /\ UNCHANGED <<enabled, conversation, reply, toShell, tokenLost, broken, resets>>

-----------------------------------------------------------------------------
(* RubberDuckModule *)

\* A reset that crosses nothing and finds room makes good what was lost or crossed before.
Clear ==
  /\ conversation' = <<>>
  /\ outOfStep' = (Running # {} \/ says' # <<>>)
  /\ toShell' = IF Len(toShell) < ShellSlots THEN Append(toShell, ResetMessage) ELSE toShell
  /\ tokenLost' = (Len(toShell) >= ShellSlots)

\* Mutant: at the limit the conversation starts over and the shell is not told.
HearQuietly(n) ==
  IF Len(conversation) < Cap
    THEN /\ conversation' = Append(conversation, User(n))
         /\ reply' = [reply EXCEPT ![n] = [at |-> "streaming", tokens |-> 0]]
         /\ outOfStep' = (outOfStep \/ Running # {})
         /\ UNCHANGED <<toShell, tokenLost>>
    ELSE conversation' = <<>> /\ UNCHANGED <<reply, toShell, tokenLost, outOfStep>>

\* push_user() and what follows it
Heard(n) ==
  IF Len(conversation) < Cap
    THEN /\ conversation' = Append(conversation, User(n))
         /\ reply' = [reply EXCEPT ![n] = [at |-> "streaming", tokens |-> 0]]
         /\ outOfStep' = (outOfStep \/ Running # {})
         /\ UNCHANGED <<toShell, tokenLost>>
    ELSE Clear /\ UNCHANGED reply

\* handle_user_message(); a duck that is disabled only reports its status.
Hear ==
  /\ says # <<>>
  /\ says' = Tail(says)
  /\ IF enabled THEN Heard(Head(says))
     ELSE UNCHANGED <<conversation, reply, toShell, tokenLost, outOfStep>>
  /\ UNCHANGED <<enabled, chat, thinking, broken, said, resets>>

\* handle_action("reset")
ResetDuck ==
  /\ resets < MaxResets /\ resets' = resets + 1
  /\ says' = says
  /\ Clear
  /\ UNCHANGED <<enabled, chat, thinking, reply, broken, said>>

-----------------------------------------------------------------------------
(* The task that streams a reply, chat_stream(). *)

StreamToken(n) ==
  /\ reply[n].at = "streaming" /\ reply[n].tokens < MaxTokens
  /\ reply' = [reply EXCEPT ![n].tokens = @ + 1]
  /\ SendShell(Token(n, FALSE))
  /\ UNCHANGED <<enabled, chat, thinking, says, conversation, outOfStep, broken, said, resets>>

\* The last line, or one made up if the stream ends without it.
StreamDone(n) ==
  /\ reply[n].at = "streaming"
  /\ reply' = [reply EXCEPT ![n].at = "record"]
  /\ SendShell(End(n))
  /\ UNCHANGED <<enabled, chat, thinking, says, conversation, outOfStep, broken, said, resets>>

RecordReply(n) ==
  /\ reply[n].at = "record"
  /\ conversation' = IF reply[n].tokens = 0 THEN conversation ELSE Append(conversation, Reply(n))
  /\ reply' = [reply EXCEPT ![n] = Over]
  /\ UNCHANGED <<enabled, chat, thinking, says, toShell, tokenLost, outOfStep, broken, said, resets>>

\* No connection, an error status, a bad line, the timeout: the error is shown as
\* the last token.
StreamFails(n) ==
  /\ reply[n].at = "streaming"
  /\ reply' = [reply EXCEPT ![n] = Over]
  /\ SendShell(Token(n, TRUE))
  /\ broken' = broken \cup {n}
  /\ UNCHANGED <<enabled, chat, thinking, says, conversation, outOfStep, said, resets>>

-----------------------------------------------------------------------------
(* appendDuckToken() and "duck_reset" of the shell: a delta goes to the last message *)
(* if that is the duck's, or starts one.                                             *)

Grown(m) ==
  IF m.type = "end" \/ (chat # <<>> /\ Last(chat).who = "assistant") THEN chat
  ELSE Append(chat, Reply(m.n))

ShellReceives ==
  /\ toShell # <<>>
  /\ toShell' = Tail(toShell)
  /\ LET m == Head(toShell) IN
     /\ chat' = IF m.type = "reset" THEN <<>> ELSE Grown(m)
     /\ thinking' = (thinking /\ ~m.done)
  /\ UNCHANGED <<enabled, says, conversation, reply, tokenLost, outOfStep, broken, said, resets>>

DuckNext ==
  \/ Say \/ Hear \/ ResetDuck \/ ShellReceives
  \/ \E n \in 1..MaxSays : StreamToken(n) \/ StreamDone(n) \/ RecordReply(n) \/ StreamFails(n)

DuckSpec == DuckInit /\ [][DuckNext]_duckVars

-----------------------------------------------------------------------------
(* Property. *)

\* What is said but for the replies that failed.
Successful(s) ==
  FlattenSeq([i \in DOMAIN s |-> IF s[i].who = "user" \/ s[i].n \notin broken THEN <<s[i]>> ELSE <<>>])

AtRest == says = <<>> /\ toShell = <<>> /\ Running = {}

\* The input field of an enabled duck does not wait for nothing: a message, a reply or the end
\* of one is under way unless the shell's queue overflowed.  The conversation the model is given
\* is the one the user sees, failed replies aside, whenever nothing is under way: unless, since
\* the last reset that found room and nothing under way, a message was lost, or a reset came in
\* between, or a message came before the reply that had just been shown was recorded.  Each reply
\* stands after what it answers, and the limit is exceeded by one reply at most.
DuckAnswers ==
  /\ thinking /\ enabled /\ ~tokenLost =>
       \/ says # <<>>
       \/ \E n \in 1..MaxSays : reply[n].at = "streaming"
       \/ \E i \in DOMAIN toShell : toShell[i].done
  /\ ~outOfStep =>
       /\ \A i \in DOMAIN conversation : conversation[i].who = "assistant" =>
            \E j \in 1..(i - 1) : conversation[j] = User(conversation[i].n)
       /\ Len(conversation) <= Cap + 1
       /\ AtRest /\ enabled /\ ~tokenLost =>
            conversation = Successful(chat)
=============================================================================
