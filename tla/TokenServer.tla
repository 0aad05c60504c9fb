---------------------------- MODULE TokenServer ----------------------------
(***************************************************************************)
(* The token that lets one tag range at a time: multitag_tcp_server.py,    *)
(* one thread per connection and one lock, and multitag_main.ino.          *)
(*                                                                         *)
(* Both ends of a connection find out later that it is lost.  Time counts  *)
(* in seconds; one passes only when every loop and thread has done what it *)
(* can do at once, so a message is under way for less than a second.       *)
(***************************************************************************)
EXTENDS Integers, FiniteSets

CONSTANTS
  Tags,
  TokenTimeout,    \* TOKEN_TIMEOUT of a tag, in seconds
  ServerTimeout,   \* settimeout of a connection, in seconds
  Pauses,          \* the delay behind an attempt to connect, early or late, in seconds
  MaxConnections,  \* bound: connections that exist at a time
  MaxDrops,        \* bound: connections lost under a running tag
  MaxRestarts      \* bound: tags that restart

ASSUME TokenAssumption ==
  /\ TokenTimeout \in Nat /\ ServerTimeout \in Nat /\ Pauses \subseteq Nat
  /\ MaxConnections \in Nat /\ MaxDrops \in Nat /\ MaxRestarts \in Nat

\* The server waits longer than a tag keeps the token: 5 s and 2 s.
ASSUME TimeoutAssumption == ServerTimeout > TokenTimeout + 1

VARIABLES
  \* a tag
  mode,      \* at the head of loop(), in connectToServer, or behind it
  pause,     \* how long connectToServer still waits behind a connection it made
  socket,    \* the connection of the tag's client, 0 before the first
  token,     \* hasToken
  held,      \* millis() - tokenTime while the tag has the token, up to HeldBound
  \* a connection
  broken,    \* closed by an end, or lost
  toTag,     \* bytes "1" that the tag has not read
  toServer,  \* messages that the server has not read
  \* the server
  thread,    \* where the connection's handle_connection is
  waiting,   \* how long it has waited for data
  lock,      \* the connection whose thread has the lock, or 0
  latest,    \* the variable connection of the main program, or 0
  \* the world
  drops, restarts

tagVars == <<mode, pause, socket, token, held>>
netVars == <<broken, toTag, toServer>>
serverVars == <<thread, waiting, lock, latest>>
vars == <<tagVars, netVars, serverVars, drops, restarts>>

Connection == 1..MaxConnections
Mode == {"loop", "connecting", "delay", "pass"}
Thread == {"none", "backlog", "hello", "free", "asked", "ended"}
HeldBound == TokenTimeout + 2

Init ==
  /\ mode = [t \in Tags |-> "loop"]
  /\ pause = [t \in Tags |-> 0]
  /\ socket = [t \in Tags |-> 0]
  /\ token = [t \in Tags |-> FALSE]
  /\ held = [t \in Tags |-> 0]
  /\ broken = [c \in Connection |-> TRUE]
  /\ toTag = [c \in Connection |-> 0]
  /\ toServer = [c \in Connection |-> 0]
  /\ thread = [c \in Connection |-> "none"]
  /\ waiting = [c \in Connection |-> 0]
  /\ lock = 0 /\ latest = 0
  /\ drops = 0 /\ restarts = 0

Live(t) == socket[t] # 0 /\ ~broken[socket[t]]
TokenArrived(t) == socket[t] # 0 /\ toTag[socket[t]] > 0
----------------------------------------------------------------------------
\* A tag.  client.connected() may be true for a while after the connection is
\* lost; connectToServer returns with a connection or after its last attempt.

Reconnect(t) ==
  /\ mode[t] = "loop" /\ ~Live(t)
  /\ mode' = [mode EXCEPT ![t] = "connecting"]
  /\ UNCHANGED <<pause, socket, token, held, netVars, serverVars, drops, restarts>>

Unused(c) == thread[c] \in {"none", "ended"} /\ \A t \in Tags : socket[t] # c

\* The i-th attempt makes the connection, and delay(100*i) comes behind it.
Connected(t) ==
  /\ mode[t] = "connecting"
  /\ \E c \in Connection :
       /\ Unused(c) /\ \A b \in 1..(c - 1) : ~Unused(b)
       /\ socket' = [socket EXCEPT ![t] = c]
       /\ broken' = [broken EXCEPT ![c] = FALSE]
       /\ toTag' = [toTag EXCEPT ![c] = 0]
       /\ toServer' = [toServer EXCEPT ![c] = 0]
       /\ thread' = [thread EXCEPT ![c] = "backlog"]
  /\ \E seconds \in Pauses : pause' = [pause EXCEPT ![t] = seconds]
  /\ mode' = [mode EXCEPT ![t] = "delay"]
  /\ UNCHANGED <<token, held, waiting, lock, latest, drops, restarts>>

GiveUp(t) ==
  /\ mode[t] = "connecting"
  /\ mode' = [mode EXCEPT ![t] = "pass"]
  /\ UNCHANGED <<pause, socket, token, held, netVars, serverVars, drops, restarts>>

Waited(t) == mode[t] = "delay" /\ pause[t] = 0

\* A message of t reaches the server if the connection does.
Sends(t) ==
  toServer' = [c \in Connection |->
                 IF c = socket[t] /\ ~broken[c] THEN toServer[c] + 1 ELSE toServer[c]]

\* The measurements are sent as a first message.
SayHello(t) ==
  /\ Waited(t) /\ Sends(t)
  /\ mode' = [mode EXCEPT ![t] = "pass"]
  /\ UNCHANGED <<pause, socket, token, held, broken, toTag, serverVars, drops, restarts>>

\* The connection was lost or closed in the meantime, and is tried again.
ConnectAgain(t) ==
  /\ Waited(t) /\ ~Live(t)
  /\ mode' = [mode EXCEPT ![t] = "connecting"]
  /\ UNCHANGED <<pause, socket, token, held, netVars, serverVars, drops, restarts>>

\* The pass of loop() goes on behind connectToServer.
InPass(t) == mode[t] = "pass" \/ (mode[t] = "loop" /\ socket[t] # 0)

TakeToken(t) ==
  /\ InPass(t) /\ TokenArrived(t)
  /\ toTag' = [toTag EXCEPT ![socket[t]] = 0]
  /\ token' = [token EXCEPT ![t] = TRUE]
  /\ held' = [held EXCEPT ![t] = 0]
  /\ mode' = [mode EXCEPT ![t] = "loop"]
  /\ UNCHANGED <<pause, socket, broken, toServer, serverVars, drops, restarts>>

\* Mutant of Release: hasToken stays set.
ReleaseKeepsToken(t) ==
  /\ InPass(t) /\ ~TokenArrived(t) /\ token[t] /\ Sends(t)
  /\ mode' = [mode EXCEPT ![t] = "loop"]
  /\ UNCHANGED <<pause, socket, token, held, broken, toTag, serverVars, drops, restarts>>

\* The token is given back with the measurements, because the ranges of all
\* anchors are there or because it has been held for too long.
Release(t) ==
  /\ InPass(t) /\ ~TokenArrived(t) /\ token[t] /\ Sends(t)
  /\ token' = [token EXCEPT ![t] = FALSE]
  /\ held' = [held EXCEPT ![t] = 0]
  /\ mode' = [mode EXCEPT ![t] = "loop"]
  /\ UNCHANGED <<pause, socket, broken, toTag, serverVars, drops, restarts>>

Overdue(t) == token[t] /\ held[t] > TokenTimeout

\* Nothing to read, and no reason to give the token back.
EndPass(t) ==
  /\ mode[t] = "pass" /\ ~TokenArrived(t) /\ ~Overdue(t)
  /\ mode' = [mode EXCEPT ![t] = "loop"]
  /\ UNCHANGED <<pause, socket, token, held, netVars, serverVars, drops, restarts>>
----------------------------------------------------------------------------
\* The server.  A thread that ends by an exception does not close its socket:
\* that happens when nothing refers to it any more, and the main program refers
\* to the latest one.

Accept(c) ==
  /\ thread[c] = "backlog"
  /\ thread' = [thread EXCEPT ![c] = "hello"]
  /\ waiting' = [waiting EXCEPT ![c] = 0]
  /\ broken' = [b \in Connection |-> broken[b] \/ (b = latest /\ thread[b] = "ended")]
  /\ latest' = c
  /\ UNCHANGED <<tagVars, toTag, toServer, lock, drops, restarts>>

Unlock(c) == lock' = IF lock = c THEN 0 ELSE lock

\* json.loads fails on two messages at once, or nobody sends the first one.
Crash(c) ==
  /\ thread' = [thread EXCEPT ![c] = "ended"]
  /\ broken' = [broken EXCEPT ![c] = @ \/ c # latest]
  /\ Unlock(c)

\* Mutant of Close: the lock is kept.
CloseKeepsLock(c) ==
  /\ thread' = [thread EXCEPT ![c] = "ended"]
  /\ broken' = [broken EXCEPT ![c] = TRUE]
  /\ lock' = lock

Close(c) ==
  /\ thread' = [thread EXCEPT ![c] = "ended"]
  /\ broken' = [broken EXCEPT ![c] = TRUE]
  /\ Unlock(c)

\* recv returns what has arrived, one message or several.
ReadOne(c) == toServer[c] > 0 /\ toServer' = [toServer EXCEPT ![c] = @ - 1]
ReadSeveral(c) ==
  /\ toServer[c] > 1
  /\ \E k \in 2..toServer[c] : toServer' = [toServer EXCEPT ![c] = @ - k]
NoData(c) == toServer[c] = 0 /\ toServer' = toServer

\* The first message, outside the lock.
Hello(c) ==
  /\ thread[c] = "hello"
  /\ \/ ReadOne(c) /\ thread' = [thread EXCEPT ![c] = "free"] /\ UNCHANGED <<broken, lock>>
     \/ ReadSeveral(c) /\ Crash(c)
     \/ NoData(c) /\ broken[c] /\ Close(c)
     \/ NoData(c) /\ waiting[c] = ServerTimeout /\ Crash(c)
  /\ waiting' = [waiting EXCEPT ![c] = 0]
  /\ UNCHANGED <<tagVars, toTag, latest, drops, restarts>>

\* Mutant of Ask: the lock is not waited for.
AskWithoutLock(c) ==
  /\ thread[c] = "free"
  /\ lock' = c
  /\ thread' = [thread EXCEPT ![c] = "asked"]
  /\ waiting' = [waiting EXCEPT ![c] = 0]
  /\ toTag' = [toTag EXCEPT ![c] = IF broken[c] THEN @ ELSE @ + 1]
  /\ UNCHANGED <<tagVars, broken, toServer, latest, drops, restarts>>

\* The thread gets the lock and asks for measurements.
Ask(c) ==
  /\ thread[c] = "free" /\ lock = 0
  /\ lock' = c
  /\ thread' = [thread EXCEPT ![c] = "asked"]
  /\ waiting' = [waiting EXCEPT ![c] = 0]
  /\ toTag' = [toTag EXCEPT ![c] = IF broken[c] THEN @ ELSE @ + 1]
  /\ UNCHANGED <<tagVars, broken, toServer, latest, drops, restarts>>

Answer(c) ==
  /\ thread[c] = "asked"
  /\ \/ ReadOne(c) /\ thread' = [thread EXCEPT ![c] = "free"] /\ Unlock(c) /\ UNCHANGED broken
     \/ ReadSeveral(c) /\ Crash(c)
  /\ waiting' = [waiting EXCEPT ![c] = 0]
  /\ UNCHANGED <<tagVars, toTag, latest, drops, restarts>>

\* sendall or recv fails, recv returns nothing, or the wait is over.
NoAnswer(c) ==
  /\ thread[c] = "asked"
  /\ broken[c] \/ (toServer[c] = 0 /\ waiting[c] = ServerTimeout)
  /\ Close(c)
  /\ waiting' = [waiting EXCEPT ![c] = 0]
  /\ UNCHANGED <<tagVars, toTag, toServer, latest, drops, restarts>>
----------------------------------------------------------------------------
\* The world.

\* What is under way on a connection that is lost may arrive or not.
Lose(c) ==
  /\ broken' = [broken EXCEPT ![c] = TRUE]
  /\ \E kept \in BOOLEAN : toServer' = [toServer EXCEPT ![c] = IF kept THEN @ ELSE 0]
  /\ \E kept \in BOOLEAN : toTag' = [toTag EXCEPT ![c] = IF kept THEN @ ELSE 0]

Drop(t) ==
  /\ drops < MaxDrops /\ Live(t)
  /\ Lose(socket[t])
  /\ drops' = drops + 1
  /\ UNCHANGED <<tagVars, serverVars, restarts>>

Restart(t) ==
  /\ restarts < MaxRestarts
  /\ IF Live(t) THEN Lose(socket[t]) ELSE UNCHANGED netVars
  /\ mode' = [mode EXCEPT ![t] = "loop"]
  /\ pause' = [pause EXCEPT ![t] = 0]
  /\ socket' = [socket EXCEPT ![t] = 0]
  /\ token' = [token EXCEPT ![t] = FALSE]
  /\ held' = [held EXCEPT ![t] = 0]
  /\ restarts' = restarts + 1
  /\ UNCHANGED <<serverVars, drops>>

\* Something will be done in less than a second.
TagBusy(t) ==
  \/ mode[t] = "pass" \/ Waited(t) \/ (mode[t] = "loop" /\ socket[t] = 0)
  \/ InPass(t) /\ (TokenArrived(t) \/ Overdue(t))
ThreadBusyForEver(c) ==  \* mutant of ThreadBusy: a connection without a timeout
  \/ thread[c] = "backlog" \/ (thread[c] = "free" /\ lock = 0)
  \/ thread[c] \in {"hello", "asked"} /\ toServer[c] > 0
ThreadBusy(c) ==
  \/ thread[c] = "backlog" \/ (thread[c] = "free" /\ lock = 0)
  \/ thread[c] \in {"hello", "asked"} /\ (toServer[c] > 0 \/ waiting[c] = ServerTimeout)

Second ==
  /\ ~\E t \in Tags : TagBusy(t)
  /\ ~\E c \in Connection : ThreadBusy(c)
  /\ pause' = [t \in Tags |-> IF pause[t] > 0 THEN pause[t] - 1 ELSE 0]
  /\ held' = [t \in Tags |-> IF token[t] /\ held[t] < HeldBound THEN held[t] + 1 ELSE held[t]]
  /\ waiting' = [c \in Connection |->
                   IF thread[c] \in {"hello", "asked"} THEN waiting[c] + 1 ELSE waiting[c]]
  /\ UNCHANGED <<mode, socket, token, netVars, thread, lock, latest, drops, restarts>>
----------------------------------------------------------------------------
TagStep(t) ==
  \/ Reconnect(t) \/ Connected(t) \/ GiveUp(t) \/ SayHello(t) \/ ConnectAgain(t)
  \/ TakeToken(t) \/ Release(t) \/ EndPass(t)
ServerStep(c) == Accept(c) \/ Hello(c) \/ Ask(c) \/ Answer(c) \/ NoAnswer(c)

Next ==
  \/ \E t \in Tags : TagStep(t) \/ Drop(t) \/ Restart(t)
  \/ \E c \in Connection : ServerStep(c)
  \/ Second

Spec == Init /\ [][Next]_vars

\* Loops and threads keep running and a tag that tries again and again gets a
\* connection.  The lock goes to one of the threads that wait for it, and not
\* to each in turn.
Fairness ==
  /\ \A t \in Tags : /\ WF_vars(Reconnect(t)) /\ SF_vars(Connected(t))
                     /\ WF_vars(SayHello(t) \/ ConnectAgain(t))
                     /\ WF_vars(TakeToken(t)) /\ WF_vars(Release(t)) /\ WF_vars(EndPass(t))
  /\ \A c \in Connection : /\ WF_vars(Accept(c)) /\ WF_vars(Hello(c))
                           /\ WF_vars(Answer(c)) /\ WF_vars(NoAnswer(c))
  /\ WF_vars(\E c \in Connection : Ask(c))
  /\ WF_vars(Second)

FairSpec == Spec /\ Fairness
============================================================================
