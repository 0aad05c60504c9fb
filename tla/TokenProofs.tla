---------------------------- MODULE TokenProofs ----------------------------
(***************************************************************************)
(* For any tags, connections and timeouts.  As long as no connection is    *)
(* lost under a running tag, one tag ranges at a time, and the tags and    *)
(* the server implement the abstract token.  Each connection that is lost  *)
(* lets at most one more tag range at the same time.                       *)
(***************************************************************************)
EXTENDS TokenProperties, TLAPS, FiniteSetTheorems

\* Who has the lock is the one whose tag is asked, and no two tags have the
\* same connection.
Ownership ==
  /\ \A c \in Connection : lock = c <=> thread[c] = "asked"
  /\ \A s, t \in Tags : socket[s] = socket[t] /\ socket[s] # 0 => s = t

\* Where the one message of a connection is that has not been lost: the hello,
\* the token on its way, the token at the tag, the answer -- or nowhere.
Message(t, c) ==
  \/ /\ thread[c] \in {"backlog", "hello"} /\ ~token[t]
     /\ toTag[c] = 0 /\ toServer[c] = 1
  \/ thread[c] = "free" /\ ~token[t] /\ toTag[c] = 0 /\ toServer[c] = 0
  \/ /\ thread[c] = "asked" /\ ~token[t]
     /\ toTag[c] = 1 /\ toServer[c] = 0 /\ waiting[c] = 0
  \/ /\ thread[c] = "asked" /\ token[t] /\ toTag[c] = 0 /\ toServer[c] = 0
     /\ held[t] = waiting[c] /\ held[t] <= TokenTimeout + 1
  \/ thread[c] = "asked" /\ ~token[t] /\ toTag[c] = 0 /\ toServer[c] = 1

\* The connection of a tag that waits before its hello, that has sent it, or
\* that the server did not wait for.
Turn(t, c) ==
  \/ /\ mode[t] = "delay" /\ ~broken[c] /\ thread[c] \in {"backlog", "hello"}
     /\ ~token[t] /\ toTag[c] = 0 /\ toServer[c] = 0
  \/ mode[t] \notin {"connecting", "delay"} /\ ~broken[c] /\ Message(t, c)
  \/ thread[c] = "ended" /\ ~token[t] /\ toTag[c] = 0

Orderly ==
  \A t \in Tags : IF socket[t] = 0 THEN ~token[t] ELSE Turn(t, socket[t])

\* The inductive invariant.
IInv == TypeOK /\ Ownership /\ (drops = 0 => Orderly)
----------------------------------------------------------------------------
THEOREM InitIInv == Init => IInv
<1>. SUFFICES ASSUME Init PROVE IInv
  OBVIOUS
<1>1. TypeOK
  BY TokenAssumption DEF Init, TypeOK, Mode, Thread, Connection, HeldBound
<1>2. Ownership
  BY TokenAssumption DEF Init, Ownership, Connection
<1>3. Orderly
  BY DEF Init, Orderly
<1>. QED BY <1>1, <1>2, <1>3 DEF IInv

LEMMA ReconnectStep ==
  ASSUME IInv, NEW t \in Tags, Reconnect(t) \/ ConnectAgain(t)
  PROVE  IInv'
<1> USE DEF Reconnect, ConnectAgain, netVars, serverVars
<1>1. TypeOK' /\ Ownership'
  BY DEF IInv, TypeOK, Ownership, Mode
<1>2. (drops = 0 => Orderly)'
  BY DEF IInv, TypeOK, Orderly, Turn, Message, Live
<1>. QED BY <1>1, <1>2 DEF IInv

\* A message of a tag is one more on its connection, and on no other.
LEMMA SendsOne ==
  ASSUME TypeOK, NEW t \in Tags, Sends(t)
  PROVE  /\ toServer' \in [Connection -> Nat]
         /\ \A c \in Connection :
              toServer'[c] = IF c = socket[t] /\ ~broken[c] THEN toServer[c] + 1 ELSE toServer[c]
BY DEF Sends, TypeOK

LEMMA SayHelloStep == ASSUME IInv, NEW t \in Tags, SayHello(t) PROVE IInv'
<1> USE DEF SayHello, Waited, serverVars
<1>1. TypeOK'
  BY SendsOne DEF IInv, TypeOK, Mode
<1>2. Ownership'
  BY DEF IInv, Ownership
<1>3. ASSUME drops = 0, NEW s \in Tags, socket[s] # 0, Turn(s, socket[s])
      PROVE  Turn(s, socket[s])'
  <2>1. socket[s] \in Connection /\ toServer[socket[s]] \in Nat
    BY <1>3 DEF IInv, TypeOK
  <2>2. CASE s = t
    <3>1. CASE broken[socket[t]]
      <4>1. thread[socket[t]] = "ended" /\ ~token[t] /\ toTag[socket[t]] = 0
        BY <1>3, <2>2, <3>1 DEF Turn
      <4>. QED BY <2>2, <4>1 DEF Turn
    <3>2. CASE ~broken[socket[t]]
      <4>1. toServer'[socket[t]] = toServer[socket[t]] + 1 /\ mode'[t] = "pass"
        BY <2>1, <2>2, <3>2, SendsOne DEF IInv, TypeOK
      <4>. QED BY <1>3, <2>1, <2>2, <3>2, <4>1 DEF Turn, Message
    <3>. QED BY <3>1, <3>2
  <2>3. CASE s # t
    <3>1. toServer'[socket[s]] = toServer[socket[s]] /\ mode'[s] = mode[s]
      BY <1>3, <2>1, <2>3, SendsOne DEF IInv, TypeOK, Ownership
    <3>. QED BY <1>3, <3>1 DEF Turn, Message
  <2>. QED BY <2>2, <2>3
<1>4. (drops = 0 => Orderly)'
  BY <1>3 DEF IInv, Orderly
<1>. QED BY <1>1, <1>2, <1>4 DEF IInv

LEMMA ConnectedStep == ASSUME IInv, NEW t \in Tags, Connected(t) PROVE IInv'
<1>1. PICK c \in Connection :
        /\ Unused(c)
        /\ socket' = [socket EXCEPT ![t] = c]
        /\ broken' = [broken EXCEPT ![c] = FALSE]
        /\ toTag' = [toTag EXCEPT ![c] = 0]
        /\ toServer' = [toServer EXCEPT ![c] = 0]
        /\ thread' = [thread EXCEPT ![c] = "backlog"]
  BY DEF Connected
<1>2. /\ mode[t] = "connecting" /\ mode' = [mode EXCEPT ![t] = "delay"]
      /\ UNCHANGED <<token, held, waiting, lock, latest, drops, restarts>>
      /\ pause' \in [Tags -> Nat]
  BY TokenAssumption DEF Connected, IInv, TypeOK
<1>3. TypeOK'
  BY <1>1, <1>2 DEF IInv, TypeOK, Mode, Thread
<1>4. Ownership'
  BY <1>1, <1>2, TokenAssumption DEF IInv, TypeOK, Ownership, Unused, Connection
<1>5. ASSUME drops = 0 PROVE Orderly'
  BY <1>1, <1>2, <1>5, TokenAssumption DEF IInv, TypeOK, Orderly, Turn, Message, Unused, Connection
<1>. QED BY <1>2, <1>3, <1>4, <1>5 DEF IInv

LEMMA GiveUpStep == ASSUME IInv, NEW t \in Tags, GiveUp(t) \/ EndPass(t) PROVE IInv'
<1> USE DEF GiveUp, EndPass, netVars, serverVars
<1>1. TypeOK' /\ Ownership'
  BY DEF IInv, TypeOK, Ownership, Mode
<1>2. (drops = 0 => Orderly)'
  BY DEF IInv, TypeOK, Orderly, Turn, Message
<1>. QED BY <1>1, <1>2 DEF IInv

LEMMA TakeTokenStep == ASSUME IInv, NEW t \in Tags, TakeToken(t) PROVE IInv'
<1> USE DEF TakeToken, serverVars
<1>1. socket[t] \in Connection
  BY DEF TokenArrived, IInv, TypeOK
<1>2. TypeOK'
  BY <1>1, TokenAssumption DEF IInv, TypeOK, Mode, HeldBound
<1>3. Ownership'
  BY DEF IInv, Ownership
<1>4. (drops = 0 => Orderly)'
  BY <1>1, TokenAssumption DEF IInv, TypeOK, Ownership, Orderly, Turn, Message, TokenArrived
<1>. QED BY <1>2, <1>3, <1>4 DEF IInv

LEMMA ReleaseStep == ASSUME IInv, NEW t \in Tags, Release(t) PROVE IInv'
<1> USE DEF Release, serverVars
<1>1. TypeOK'
  BY SendsOne, TokenAssumption DEF IInv, TypeOK, Mode, HeldBound
<1>2. Ownership'
  BY DEF IInv, Ownership
<1>3. ASSUME drops = 0, NEW s \in Tags, socket[s] # 0, Turn(s, socket[s])
      PROVE  Turn(s, socket[s])'
  <2>1. socket[s] \in Connection /\ toServer[socket[s]] \in Nat
    BY <1>3 DEF IInv, TypeOK
  <2>2. CASE s = t
    <3>1. /\ mode[t] # "delay" /\ ~broken[socket[t]] /\ thread[socket[t]] = "asked"
          /\ toTag[socket[t]] = 0 /\ toServer[socket[t]] = 0
      BY <1>3, <2>2 DEF Turn, Message, InPass
    <3>2. /\ toServer'[socket[t]] = 1 /\ mode'[t] = "loop" /\ ~token'[t]
      BY <2>1, <2>2, <3>1, SendsOne DEF IInv, TypeOK
    <3>. QED BY <2>2, <3>1, <3>2 DEF Turn, Message
  <2>3. CASE s # t
    <3>1. /\ toServer'[socket[s]] = toServer[socket[s]] /\ mode'[s] = mode[s]
          /\ token'[s] = token[s] /\ held'[s] = held[s]
      BY <1>3, <2>1, <2>3, SendsOne DEF IInv, TypeOK, Ownership
    <3>. QED BY <1>3, <3>1 DEF Turn, Message
  <2>. QED BY <2>2, <2>3
<1>4. (drops = 0 => Orderly)'
  <2>. SUFFICES ASSUME drops = 0, NEW s \in Tags
                PROVE  (IF socket[s] = 0 THEN ~token[s] ELSE Turn(s, socket[s]))'
    BY DEF Orderly
  <2>. QED BY <1>3 DEF IInv, TypeOK, Orderly
<1>. QED BY <1>1, <1>2, <1>4 DEF IInv
----------------------------------------------------------------------------
LEMMA AcceptStep == ASSUME IInv, NEW c \in Connection, Accept(c) PROVE IInv'
<1> USE DEF Accept, tagVars
<1>1. TypeOK'
  BY TokenAssumption DEF IInv, TypeOK, Thread
<1>2. Ownership'
  BY DEF IInv, TypeOK, Ownership
<1>3. (drops = 0 => Orderly)'
  BY DEF IInv, TypeOK, Orderly, Turn, Message
<1>. QED BY <1>1, <1>2, <1>3 DEF IInv

\* A thread ends by an exception or closes its connection.
LEMMA EndTypes ==
  ASSUME IInv, NEW c \in Connection, Crash(c) \/ Close(c)
  PROVE  /\ thread' \in [Connection -> Thread] /\ broken' \in [Connection -> BOOLEAN]
         /\ lock' \in Connection \cup {0}
         /\ \A b \in Connection : lock' = b <=> thread'[b] = "asked"
<1>1. thread' \in [Connection -> Thread] /\ broken' \in [Connection -> BOOLEAN]
  BY Zenon DEF Crash, Close, IInv, TypeOK, Thread
<1>2. lock' \in Connection \cup {0}
  BY DEF Crash, Close, Unlock, IInv, TypeOK
<1>3. \A b \in Connection : lock' = b <=> thread'[b] = "asked"
  <2>1. thread' = [thread EXCEPT ![c] = "ended"] /\ lock' = IF lock = c THEN 0 ELSE lock
    BY DEF Crash, Close, Unlock
  <2>2. thread \in [Connection -> Thread] /\ 0 \notin Connection
    BY TokenAssumption DEF IInv, TypeOK, Connection
  <2>3. \A b \in Connection : lock = b <=> thread[b] = "asked"
    BY DEF IInv, Ownership
  <2>. QED BY <2>1, <2>2, <2>3
<1>. QED BY <1>1, <1>2, <1>3

\* The connection of one tag changes, and all others stay as they are.
LEMMA OtherTurns ==
  ASSUME IInv, Orderly, NEW c \in Connection,
         UNCHANGED <<mode, socket, token, held, toTag>>,
         \A b \in Connection \ {c} : /\ toServer'[b] = toServer[b] /\ waiting'[b] = waiting[b]
                                      /\ thread'[b] = thread[b] /\ broken'[b] = broken[b],
         \A t \in Tags : socket[t] = c => Turn(t, c)'
  PROVE  Orderly'
<1>1. ASSUME NEW t \in Tags, socket[t] # 0, socket[t] # c
      PROVE  Turn(t, socket[t])'
  <2>1. PICK b \in Connection \ {c} : b = socket[t]
    BY <1>1 DEF IInv, TypeOK
  <2>2. Turn(t, b)
    BY <1>1, <2>1 DEF Orderly
  <2>3. Turn(t, b)'
    BY <2>1, <2>2 DEF Turn, Message
  <2>. QED BY <2>1, <2>3
<1>2. ASSUME NEW t \in Tags
      PROVE  IF socket'[t] = 0 THEN ~token'[t] ELSE Turn(t, socket[t])'
  <2>1. socket'[t] = socket[t] /\ token'[t] = token[t]
    OBVIOUS
  <2>2. CASE socket[t] = c /\ c # 0
    BY <2>1, <2>2
  <2>3. CASE socket[t] = 0
    BY <2>1, <2>3 DEF Orderly
  <2>4. CASE socket[t] # 0 /\ socket[t] # c
    BY <2>1, <2>4, <1>1
  <2>. QED BY <2>2, <2>3, <2>4
<1>. QED BY <1>2 DEF Orderly

\* With an orderly connection a thread never reads two messages at once, and waits
\* until the timeout only for a hello that the tag has not sent yet.
LEMMA HelloStep == ASSUME IInv, NEW c \in Connection, Hello(c) PROVE IInv'
<1> USE DEF Hello, tagVars
<1>1. TypeOK'
  <2>1. toServer' \in [Connection -> Nat]
    BY TokenAssumption DEF ReadOne, ReadSeveral, NoData, IInv, TypeOK
  <2>2. /\ thread' \in [Connection -> Thread] /\ broken' \in [Connection -> BOOLEAN]
        /\ lock' \in Connection \cup {0}
    BY EndTypes DEF IInv, TypeOK, Thread
  <2>3. waiting' \in [Connection -> 0..ServerTimeout]
    BY TokenAssumption DEF IInv, TypeOK
  <2>. QED BY <2>1, <2>2, <2>3 DEF IInv, TypeOK
<1>2. Ownership'
  BY EndTypes DEF IInv, TypeOK, Ownership
<1>3. ASSUME drops = 0 PROVE Orderly'
  <2>1. ASSUME NEW t \in Tags, socket[t] = c
        PROVE  Turn(t, c)'
    <3>1. Turn(t, c) /\ thread[c] = "hello"
      BY <1>3, <2>1, TokenAssumption DEF IInv, Orderly, Connection
    <3>2. ~broken[c] /\ ~token[t] /\ toTag[c] = 0 /\ toServer[c] \in {0, 1}
      BY <3>1 DEF Turn, Message
    <3>3. CASE ReadOne(c) /\ thread' = [thread EXCEPT ![c] = "free"] /\ UNCHANGED broken
      <4>1. toServer[c] = 1 /\ mode[t] \notin {"connecting", "delay"}
        BY <3>1, <3>3 DEF Turn, Message, ReadOne
      <4>2. toServer'[c] = 0 /\ thread'[c] = "free" /\ ~broken'[c]
        BY <3>2, <3>3, <4>1 DEF ReadOne, IInv, TypeOK
      <4>. QED BY <3>2, <4>1, <4>2 DEF Turn, Message
    <3>4. CASE Crash(c) \/ Close(c)
      <4>1. thread'[c] = "ended"
        BY <3>4 DEF Crash, Close, IInv, TypeOK
      <4>. QED BY <3>2, <4>1 DEF Turn
    <3>. QED BY <3>3, <3>4
  <2>2. \A b \in Connection \ {c} : /\ toServer'[b] = toServer[b] /\ waiting'[b] = waiting[b]
                                     /\ thread'[b] = thread[b] /\ broken'[b] = broken[b]
    BY DEF ReadOne, ReadSeveral, NoData, Crash, Close, IInv, TypeOK
  <2>. QED BY <1>3, <2>1, <2>2, OtherTurns DEF IInv
<1>. QED BY <1>1, <1>2, <1>3 DEF IInv

LEMMA AskStep == ASSUME IInv, NEW c \in Connection, Ask(c) PROVE IInv'
<1> USE DEF Ask, tagVars
<1>1. TypeOK'
  BY TokenAssumption DEF IInv, TypeOK, Thread
<1>2. Ownership'
  BY DEF IInv, TypeOK, Ownership, Connection
<1>3. (drops = 0 => Orderly)'
  BY DEF IInv, TypeOK, Orderly, Turn, Message
<1>. QED BY <1>1, <1>2, <1>3 DEF IInv

LEMMA AnswerStep == ASSUME IInv, NEW c \in Connection, Answer(c) PROVE IInv'
<1> USE DEF Answer, tagVars
<1>1. TypeOK'
  <2>1. toServer' \in [Connection -> Nat]
    BY DEF ReadOne, ReadSeveral, IInv, TypeOK
  <2>2. /\ thread' \in [Connection -> Thread] /\ broken' \in [Connection -> BOOLEAN]
        /\ lock' \in Connection \cup {0}
    BY EndTypes DEF IInv, TypeOK, Thread, Unlock
  <2>3. waiting' \in [Connection -> 0..ServerTimeout]
    BY TokenAssumption DEF IInv, TypeOK
  <2>. QED BY <2>1, <2>2, <2>3 DEF IInv, TypeOK
<1>2. Ownership'
  <2>1. CASE Crash(c)
    BY <2>1, EndTypes DEF IInv, Ownership
  <2>2. CASE thread' = [thread EXCEPT ![c] = "free"] /\ Unlock(c)
    <3>1. 0 \notin Connection /\ thread \in [Connection -> Thread]
      BY TokenAssumption DEF IInv, TypeOK, Connection
    <3>. QED BY <2>2, <3>1 DEF IInv, Ownership, Unlock
  <2>. QED BY <2>1, <2>2
<1>3. ASSUME drops = 0 PROVE Orderly'
  <2>1. ASSUME NEW t \in Tags, socket[t] = c
        PROVE  Turn(t, c)'
    <3>1. Turn(t, c) /\ thread[c] = "asked"
      BY <1>3, <2>1, TokenAssumption DEF IInv, Orderly, Connection
    <3>2. mode[t] \notin {"connecting", "delay"} /\ ~broken[c] /\ Message(t, c)
      BY <3>1 DEF Turn
    <3>3. toServer[c] \in Nat /\ toServer[c] > 0
      BY DEF ReadOne, ReadSeveral, IInv, TypeOK
    <3>4. ~token[t] /\ toTag[c] = 0 /\ toServer[c] = 1
      BY <3>1, <3>2, <3>3 DEF Message
    <3>5. ReadOne(c) /\ thread' = [thread EXCEPT ![c] = "free"] /\ UNCHANGED broken
      BY <3>4 DEF ReadSeveral
    <3>6. toServer'[c] = 0 /\ thread'[c] = "free"
      BY <3>4, <3>5 DEF ReadOne, IInv, TypeOK
    <3>. QED BY <3>2, <3>4, <3>5, <3>6 DEF Turn, Message
  <2>2. \A b \in Connection \ {c} : /\ toServer'[b] = toServer[b] /\ waiting'[b] = waiting[b]
                                     /\ thread'[b] = thread[b] /\ broken'[b] = broken[b]
    BY DEF ReadOne, ReadSeveral, NoData, Crash, Close, IInv, TypeOK
  <2>. QED BY <1>3, <2>1, <2>2, OtherTurns DEF IInv
<1>. QED BY <1>1, <1>2, <1>3 DEF IInv

LEMMA NoAnswerStep == ASSUME IInv, NEW c \in Connection, NoAnswer(c) PROVE IInv'
<1> USE DEF NoAnswer, tagVars
<1>1. TypeOK' /\ Ownership'
  BY EndTypes, TokenAssumption DEF IInv, TypeOK, Ownership
<1>2. ASSUME drops = 0, NEW t \in Tags PROVE socket[t] # c
  <2>1. c # 0 /\ thread[c] = "asked" /\ toServer[c] \in Nat
    BY TokenAssumption DEF IInv, TypeOK, Connection
  <2>2. SUFFICES ASSUME socket[t] = c PROVE FALSE
    OBVIOUS
  <2>3. ~broken[c] /\ Message(t, c)
    BY <1>2, <2>1, <2>2 DEF IInv, Orderly, Turn
  <2>4. toServer[c] = 0 /\ waiting[c] = ServerTimeout
    BY <2>3
  <2>5. waiting[c] <= TokenTimeout + 1
    BY <2>1, <2>3, <2>4, TokenAssumption DEF Message
  <2>. QED BY <2>4, <2>5, TokenAssumption, TimeoutAssumption
<1>3. ASSUME drops = 0 PROVE Orderly'
  <2>1. \A b \in Connection \ {c} : /\ toServer'[b] = toServer[b] /\ waiting'[b] = waiting[b]
                                     /\ thread'[b] = thread[b] /\ broken'[b] = broken[b]
    BY DEF Close, IInv, TypeOK
  <2>. QED BY <1>2, <1>3, <2>1, OtherTurns DEF IInv
<1>. QED BY <1>1, <1>3 DEF IInv
----------------------------------------------------------------------------
LEMMA DropStep == ASSUME IInv, NEW t \in Tags, Drop(t) PROVE IInv'
<1> USE DEF Drop, tagVars, serverVars
<1>1. TypeOK'
  BY TokenAssumption DEF Lose, Live, IInv, TypeOK
<1>2. Ownership'
  BY DEF IInv, Ownership
<1>3. drops' # 0
  BY DEF IInv, TypeOK
<1>. QED BY <1>1, <1>2, <1>3 DEF IInv

LEMMA RestartStep == ASSUME IInv, NEW t \in Tags, Restart(t) PROVE IInv'
<1> USE DEF Restart, serverVars
<1>1. TypeOK'
  <2>1. /\ broken' \in [Connection -> BOOLEAN]
        /\ toTag' \in [Connection -> Nat] /\ toServer' \in [Connection -> Nat]
    <3>1. CASE Live(t)
      <4>1. Lose(socket[t])
        BY <3>1
      <4>2. PICK keptS, keptT \in BOOLEAN :
              /\ toServer' = [toServer EXCEPT ![socket[t]] = IF keptS THEN @ ELSE 0]
              /\ toTag' = [toTag EXCEPT ![socket[t]] = IF keptT THEN @ ELSE 0]
        BY <4>1 DEF Lose
      <4>3. broken' = [broken EXCEPT ![socket[t]] = TRUE]
        BY <4>1 DEF Lose
      <4>. QED BY <4>2, <4>3 DEF IInv, TypeOK
    <3>2. CASE ~Live(t)
      BY <3>2 DEF netVars, IInv, TypeOK
    <3>. QED BY <3>1, <3>2
  <2>. QED BY <2>1, TokenAssumption DEF IInv, TypeOK, Mode, HeldBound
<1>2. Ownership'
  BY DEF IInv, TypeOK, Ownership
<1>3. \A b \in Connection \ {socket[t]} :
        /\ broken'[b] = broken[b] /\ toTag'[b] = toTag[b] /\ toServer'[b] = toServer[b]
  BY DEF Lose, netVars, IInv, TypeOK
<1>4. (drops = 0 => Orderly)'
  BY <1>3 DEF IInv, TypeOK, Ownership, Orderly, Turn, Message
<1>. QED BY <1>1, <1>2, <1>4 DEF IInv

\* A second passes at a tag with the token and at the thread that waits for it.
LEMMA SecondStep == ASSUME IInv, Second PROVE IInv'
<1> USE DEF Second, netVars
<1>1. TypeOK'
  BY TokenAssumption DEF IInv, TypeOK, HeldBound, ThreadBusy
<1>2. Ownership'
  BY DEF IInv, Ownership
<1>3. (drops = 0 => Orderly)'
  BY TokenAssumption
  DEF IInv, TypeOK, Orderly, Turn, Message, TagBusy, InPass, TokenArrived, Overdue, ThreadBusy,
      HeldBound, Mode, Connection
<1>. QED BY <1>1, <1>2, <1>3 DEF IInv

THEOREM StepIInv == IInv /\ [Next]_vars => IInv'
<1>. SUFFICES ASSUME IInv, [Next]_vars PROVE IInv'
  OBVIOUS
<1>1. ASSUME NEW t \in Tags, TagStep(t) \/ Drop(t) \/ Restart(t) PROVE IInv'
  BY <1>1, ReconnectStep, ConnectedStep, SayHelloStep, GiveUpStep, TakeTokenStep, ReleaseStep, DropStep,
     RestartStep DEF TagStep
<1>2. ASSUME NEW c \in Connection, ServerStep(c) PROVE IInv'
  BY <1>2, AcceptStep, HelloStep, AskStep, AnswerStep, NoAnswerStep DEF ServerStep
<1>3. CASE Second
  BY <1>3, SecondStep
<1>4. CASE UNCHANGED vars
  BY <1>4 DEF vars, tagVars, netVars, serverVars, IInv, TypeOK, Ownership, Orderly, Turn, Message
<1>. QED BY <1>1, <1>2, <1>3, <1>4 DEF Next

THEOREM InductiveInvariant == Spec => []IInv
<1>1. Init => IInv
  BY InitIInv
<1>2. IInv /\ [Next]_vars => IInv'
  BY StepIInv
<1>. QED BY <1>1, <1>2, PTL DEF Spec

\* Every interleaving of tags, server threads, lost connections and restarts keeps
\* the variables in their types; in particular no thread waits longer than its
\* timeout.
THEOREM TypeCorrect == Spec => []TypeOK
<1>1. IInv => TypeOK
  BY DEF IInv
<1>. QED BY <1>1, InductiveInvariant, PTL

LEMMA IInvOneAtATime == IInv => OneAtATime
BY DEF IInv, TypeOK, Ownership, Orderly, Turn, Message, OneAtATime, Holders, Live, Connection

\* As long as no connection is lost under a running tag, at most one tag has the
\* token, its connection is alive, and the server asks nobody else.
THEOREM MutualExclusion == Spec => []OneAtATime
<1>. QED BY IInvOneAtATime, InductiveInvariant, PTL
----------------------------------------------------------------------------
LEMMA HolderIs ==
  ASSUME NEW t \in Tags, \A s \in Holders : s = t
  PROVE  Holder = IF token[t] THEN t ELSE NoTag
<1>1. CASE token[t]
  <2>1. t \in Holders
    BY <1>1 DEF Holders
  <2>. QED BY <1>1, <2>1 DEF Holder
<1>2. CASE ~token[t]
  BY <1>2 DEF Holder, Holders
<1>. QED BY <1>1, <1>2

\* A step of a tag that takes or gives back the token.
LEMMA TakeIsTake ==
  ASSUME IInv, IInv', drops' = 0, NEW t \in Tags, TakeToken(t)
  PROVE  Abstract!Take(t)
<1>1. drops = 0 /\ socket' = socket /\ thread' = thread
  BY DEF TakeToken, serverVars
<1>2. socket[t] \in Connection /\ ~token[t] /\ thread[socket[t]] = "asked"
  BY <1>1 DEF TakeToken, TokenArrived, IInv, TypeOK, Orderly, Turn, Message
<1>3. lock = socket[t]
  BY <1>2 DEF IInv, Ownership
<1>4. Holders = {}
  <2>1. ASSUME NEW s \in Tags, token[s] PROVE FALSE
    <3>1. lock = socket[s]
      BY <1>1, <2>1, IInvOneAtATime DEF OneAtATime, Holders
    <3>2. socket[t] # 0
      BY <1>2, TokenAssumption DEF Connection
    <3>3. s = t
      BY <1>3, <3>1, <3>2 DEF IInv, Ownership
    <3>. QED BY <1>2, <2>1, <3>3
  <2>. QED BY <2>1 DEF Holders
<1>5. token' = [token EXCEPT ![t] = TRUE] /\ token \in [Tags -> BOOLEAN]
  BY DEF TakeToken, IInv, TypeOK
<1>6. Holders' = {t}
  BY <1>4, <1>5 DEF Holders
<1>. QED BY <1>4, <1>6 DEF Abstract!Take, Holder

LEMMA LoseIsGiveBack ==
  ASSUME IInv, drops = 0, NEW t \in Tags, token[t], token' = [token EXCEPT ![t] = FALSE]
  PROVE  Abstract!GiveBack
<1>1. Holders = {t} /\ Holders' = {}
  BY IInvOneAtATime DEF OneAtATime, Holders, IInv, TypeOK
<1>. QED BY <1>1, NoTagAssumption DEF Abstract!GiveBack, Holder

\* As long as no connection is lost, a step takes the token from nobody, gives
\* it back, or leaves it where it is.
LEMMA StepImplements ==
  ASSUME IInv, IInv', drops' = 0, [Next]_vars
  PROVE  [Abstract!Next]_Holder
<1>1. ASSUME token' = token PROVE Holder' = Holder
  BY <1>1 DEF Holder, Holders
<1>2. ASSUME NEW t \in Tags, TakeToken(t) PROVE Abstract!Next
  BY <1>2, TakeIsTake DEF Abstract!Next
<1>3. ASSUME NEW t \in Tags, Release(t) \/ Restart(t) PROVE Abstract!Next \/ token' = token
  <2>1. drops = 0 /\ token' = [token EXCEPT ![t] = FALSE]
    BY <1>3 DEF Release, Restart, serverVars
  <2>2. CASE token[t]
    BY <2>1, <2>2, LoseIsGiveBack DEF Abstract!Next
  <2>3. CASE ~token[t]
    BY <2>1, <2>3 DEF IInv, TypeOK
  <2>. QED BY <2>2, <2>3
<1>4. ASSUME NEW t \in Tags, TagStep(t) \/ Drop(t), ~TakeToken(t), ~Release(t)
      PROVE  token' = token
  BY <1>4 DEF TagStep, Reconnect, Connected, SayHello, ConnectAgain, GiveUp, EndPass, Drop, tagVars
<1>5. ASSUME NEW c \in Connection, ServerStep(c) PROVE token' = token
  BY <1>5 DEF ServerStep, Accept, Hello, Ask, Answer, NoAnswer, tagVars
<1>6. ASSUME Second \/ UNCHANGED vars PROVE token' = token
  BY <1>6 DEF Second, vars, tagVars
<1>. QED BY <1>1, <1>2, <1>3, <1>4, <1>5, <1>6 DEF Next, TagStep

LEMMA InitImplements == ASSUME Init PROVE Abstract!Init
BY DEF Init, Abstract!Init, Holder, Holders

\* If connections are not lost under running tags, the tags and the server
\* implement the abstract token, whatever the number of tags and restarts.
THEOREM ImplementsAbstractToken ==
  ASSUME MaxDrops = 0
  PROVE  Spec => ImplementsToken
<1>1. IInv /\ IInv' /\ [Next]_vars => [Abstract!Next]_Holder
  <2>. SUFFICES ASSUME IInv, IInv', [Next]_vars PROVE [Abstract!Next]_Holder
    OBVIOUS
  <2>1. drops' = 0
    BY TokenAssumption DEF IInv, TypeOK
  <2>. QED BY <2>1, StepImplements
<1>2. Init => Abstract!Init
  BY InitImplements
<1>. QED BY <1>1, <1>2, InductiveInvariant, PTL DEF Spec, ImplementsToken, Abstract!Spec
----------------------------------------------------------------------------
\* The thread of a connection that is alive has asked its tag, which has the
\* question before it, the answer behind it, or the token.
AskedTag(t, c) ==
  \/ toTag[c] > 0 /\ waiting[c] = 0
  \/ toTag[c] = 0 /\ toServer[c] > 0
  \/ toTag[c] = 0 /\ token[t] /\ waiting[c] <= held[t] /\ held[t] <= TokenTimeout + 1

\* What the server has read of a connection that is alive: nothing before the
\* hello, and not more than the hello before it asks.
Greeted(t, c) ==
  IF mode[t] = "delay" THEN thread[c] \notin {"free", "asked"} /\ toServer[c] = 0
  ELSE thread[c] \in {"backlog", "hello"} => toServer[c] > 0

\* What holds of the connections that are alive, however many are lost.
Alive ==
  /\ \A c \in Connection : ~broken[c] => \E t \in Tags : socket[t] = c
  /\ \A t \in Tags : Live(t) => mode[t] # "connecting" /\ Greeted(t, socket[t])
  /\ \A t \in Tags : Live(t) /\ lock = socket[t] => AskedTag(t, socket[t])

LEMMA NoConnectionZero == 0 \notin Connection
BY TokenAssumption DEF Connection

\* A connection that the step does not touch.
LEMMA AliveElsewhere ==
  ASSUME Alive, NEW s \in Tags, Live(s)', socket'[s] = socket[s],
         LET c == socket[s] IN
           /\ ~broken[c]
           /\ thread'[c] = thread[c] /\ toServer'[c] = toServer[c] /\ toTag'[c] = toTag[c]
           /\ waiting'[c] = waiting[c] /\ (lock' = c => lock = c),
         mode'[s] = mode[s], token'[s] = token[s], held'[s] = held[s]
  PROVE  /\ mode'[s] # "connecting" /\ Greeted(s, socket[s])'
         /\ lock' = socket'[s] => AskedTag(s, socket[s])'
<1>1. Live(s)
  BY DEF Live
<1>. QED BY <1>1 DEF Alive, Greeted, AskedTag

LEMMA AliveTagStep ==
  ASSUME IInv, IInv', Alive, NEW t \in Tags, TagStep(t)
  PROVE  Alive'
<1> USE NoConnectionZero DEF tagVars, netVars, serverVars
<1>1. CASE Reconnect(t) \/ GiveUp(t) \/ EndPass(t) \/ ConnectAgain(t)
  <2>1. UNCHANGED <<socket, token, held, netVars, serverVars>>
    BY <1>1 DEF Reconnect, GiveUp, EndPass, ConnectAgain
  <2>2. \A s \in Tags : Live(s) => /\ mode'[s] # "connecting"
                                   /\ mode'[s] = "delay" <=> mode[s] = "delay"
    BY <1>1 DEF Reconnect, GiveUp, EndPass, ConnectAgain, IInv, TypeOK, Alive
  <2>. QED BY <2>1, <2>2 DEF Alive, Live, AskedTag, Greeted
<1>2. CASE Connected(t)
  <2>1. PICK c \in Connection :
          /\ Unused(c)
          /\ socket' = [socket EXCEPT ![t] = c]
          /\ broken' = [broken EXCEPT ![c] = FALSE]
          /\ toTag' = [toTag EXCEPT ![c] = 0]
          /\ toServer' = [toServer EXCEPT ![c] = 0]
          /\ thread' = [thread EXCEPT ![c] = "backlog"]
    BY <1>2 DEF Connected
  <2>2. /\ mode[t] = "connecting" /\ mode' = [mode EXCEPT ![t] = "delay"]
        /\ UNCHANGED <<token, held, waiting, lock, latest>>
    BY <1>2 DEF Connected
  <2>3. lock # c /\ ~Live(t)
    BY <2>1, <2>2 DEF IInv, Ownership, Unused, Alive
  <2>4. (\A b \in Connection : ~broken[b] => \E s \in Tags : socket[s] = b)'
    BY <2>1, <2>3 DEF IInv, TypeOK, Live, Alive
  <2>5. socket'[t] = c /\ mode'[t] = "delay" /\ thread'[c] = "backlog" /\ toServer'[c] = 0
    BY <2>1, <2>2 DEF IInv, TypeOK
  <2>6. ASSUME NEW s \in Tags, s # t, Live(s)'
        PROVE  /\ mode'[s] # "connecting" /\ Greeted(s, socket[s])'
               /\ lock' = socket'[s] => AskedTag(s, socket[s])'
    <3>1. socket'[s] = socket[s] /\ socket[s] # c /\ socket[s] \in Connection
      BY <2>1, <2>6 DEF IInv, TypeOK, Live, Unused
    <3>. QED BY <2>1, <2>2, <2>6, <3>1, AliveElsewhere DEF IInv, TypeOK, Live
  <2>7. Greeted(t, socket[t])' /\ lock' # socket'[t]
    BY <2>2, <2>3, <2>5 DEF Greeted
  <2>. QED BY <2>4, <2>5, <2>6, <2>7 DEF Alive
<1>3. CASE SayHello(t) \/ Release(t)
  <2>1. /\ UNCHANGED <<socket, broken, toTag, thread, waiting, lock>>
        /\ mode'[t] \in {"loop", "pass"}
        /\ \A s \in Tags : s # t => mode'[s] = mode[s] /\ token'[s] = token[s] /\ held'[s] = held[s]
    BY <1>3 DEF SayHello, Release, Waited, InPass, IInv, TypeOK
  <2>2. \A b \in Connection :
          toServer'[b] = IF b = socket[t] /\ ~broken[b] THEN toServer[b] + 1 ELSE toServer[b]
    BY <1>3, SendsOne DEF SayHello, Release, IInv
  <2>3. ASSUME NEW s \in Tags, s # t, Live(s)'
        PROVE  /\ mode'[s] # "connecting" /\ Greeted(s, socket[s])'
               /\ lock' = socket'[s] => AskedTag(s, socket[s])'
    <3>1. socket[s] \in Connection /\ socket[s] # socket[t] /\ ~broken[socket[s]]
      BY <2>1, <2>3 DEF IInv, TypeOK, Live, Ownership
    <3>. QED BY <2>1, <2>2, <2>3, <3>1, AliveElsewhere
  <2>4. ASSUME Live(t)
        PROVE  /\ Greeted(t, socket[t])'
               /\ lock' = socket'[t] => AskedTag(t, socket[t])'
    <3>1. socket[t] \in Connection /\ toServer[socket[t]] \in Nat /\ ~broken[socket[t]]
      BY <2>4 DEF IInv, TypeOK, Live
    <3>2. toServer'[socket[t]] > 0
      BY <2>2, <3>1
    <3>3. lock = socket[t] => toTag[socket[t]] = 0
      BY <1>3, <2>4, <3>1
      DEF SayHello, Release, TokenArrived, Waited, Alive, Greeted, Live, IInv, TypeOK, Ownership
    <3>. QED BY <2>1, <3>2, <3>3 DEF Greeted, AskedTag
  <2>5. (\A b \in Connection : ~broken[b] => \E s \in Tags : socket[s] = b)'
    BY <2>1 DEF Alive
  <2>6. Live(t)' => Live(t)
    BY <2>1 DEF Live
  <2>. QED BY <2>1, <2>3, <2>4, <2>5, <2>6 DEF Alive
<1>4. CASE TakeToken(t)
  <2>1. /\ UNCHANGED <<socket, broken, toServer, thread, waiting, lock>>
        /\ mode[t] # "delay" /\ mode'[t] = "loop" /\ socket[t] \in Connection
        /\ token'[t] /\ held'[t] = 0 /\ toTag' = [toTag EXCEPT ![socket[t]] = 0]
        /\ \A s \in Tags : s # t => mode'[s] = mode[s] /\ token'[s] = token[s] /\ held'[s] = held[s]
    BY <1>4 DEF TakeToken, TokenArrived, InPass, IInv, TypeOK
  <2>2. ASSUME NEW s \in Tags, s # t, Live(s)'
        PROVE  /\ mode'[s] # "connecting" /\ Greeted(s, socket[s])'
               /\ lock' = socket'[s] => AskedTag(s, socket[s])'
    <3>1. socket[s] \in Connection /\ socket[s] # socket[t] /\ ~broken[socket[s]]
      BY <2>1, <2>2 DEF IInv, TypeOK, Live, Ownership
    <3>2. toTag'[socket[s]] = toTag[socket[s]]
      BY <2>1, <3>1 DEF IInv, TypeOK
    <3>. QED BY <2>1, <2>2, <3>1, <3>2, AliveElsewhere
  <2>3. ASSUME Live(t), lock = socket[t] PROVE AskedTag(t, socket[t])'
    <3>1. waiting[socket[t]] = 0 \/ toServer[socket[t]] > 0
      BY <1>4, <2>1, <2>3 DEF TakeToken, TokenArrived, Alive, AskedTag, IInv, TypeOK
    <3>2. toTag'[socket[t]] = 0
      BY <2>1 DEF IInv, TypeOK
    <3>. QED BY <2>1, <3>1, <3>2, TokenAssumption DEF AskedTag
  <2>. QED BY <2>1, <2>2, <2>3 DEF Alive, Live, Greeted
<1>. QED BY <1>1, <1>2, <1>3, <1>4 DEF TagStep

\* A step of the server leaves the tags alone, closes connections, and changes what
\* is known of one connection only.
LEMMA AliveServer ==
  ASSUME IInv, Alive, NEW c \in Connection, UNCHANGED tagVars,
         \A b \in Connection : broken[b] => broken'[b],
         \A b \in Connection \ {c} : /\ thread'[b] = thread[b] /\ toServer'[b] = toServer[b]
                                     /\ toTag'[b] = toTag[b] /\ waiting'[b] = waiting[b]
                                     /\ lock' = b => lock = b,
         ~broken'[c] => \A t \in Tags : socket[t] = c => Greeted(t, c)',
         ~broken'[c] /\ lock' = c => \A t \in Tags : socket[t] = c => AskedTag(t, c)'
  PROVE  Alive'
<1> USE NoConnectionZero DEF tagVars
<1>1. (\A b \in Connection : ~broken[b] => \E t \in Tags : socket[t] = b)'
  BY DEF Alive
<1>2. ASSUME NEW t \in Tags, Live(t)'
      PROVE  /\ mode'[t] # "connecting" /\ Greeted(t, socket[t])'
             /\ lock' = socket'[t] => AskedTag(t, socket[t])'
  <2>1. socket'[t] = socket[t] /\ socket[t] \in Connection /\ ~broken[socket[t]] /\ Live(t)
    BY <1>2 DEF Live, IInv, TypeOK
  <2>2. CASE socket[t] = c
    BY <1>2, <2>1, <2>2 DEF Live, Alive
  <2>3. CASE socket[t] # c
    BY <1>2, <2>1, <2>3, AliveElsewhere
  <2>. QED BY <2>2, <2>3
<1>. QED BY <1>1, <1>2 DEF Alive

LEMMA AliveServerStep ==
  ASSUME IInv, IInv', Alive, NEW c \in Connection, ServerStep(c)
  PROVE  Alive'
<1> USE NoConnectionZero DEF tagVars
<1>0. ASSUME NEW t \in Tags, socket[t] = c, ~broken[c] PROVE Greeted(t, c)
  BY <1>0 DEF Alive, Live
<1>1. CASE Accept(c)
  <2>1. /\ thread[c] = "backlog" /\ thread'[c] = "hello" /\ toServer' = toServer /\ lock' = lock
        /\ lock # c
    BY <1>1 DEF Accept, IInv, TypeOK, Ownership
  <2>2. \A b \in Connection : broken[b] => broken'[b]
    BY <1>1 DEF Accept
  <2>3. ASSUME NEW t \in Tags, socket[t] = c, ~broken'[c] PROVE Greeted(t, c)'
    BY <1>0, <1>1, <2>1, <2>2, <2>3 DEF Accept, Greeted
  <2>. QED BY <1>1, <2>1, <2>2, <2>3, AliveServer DEF Accept, IInv, TypeOK
<1>2. CASE Hello(c)
  <2>1. lock # c /\ lock' = lock /\ thread[c] = "hello" /\ thread'[c] \in {"free", "ended"}
    BY <1>2 DEF Hello, Crash, Close, Unlock, IInv, TypeOK, Ownership
  <2>2. \A b \in Connection : broken[b] => broken'[b]
    BY <1>2 DEF Hello, Crash, Close, IInv, TypeOK
  <2>3. ASSUME NEW t \in Tags, socket[t] = c, ~broken'[c] PROVE Greeted(t, c)'
    <3>1. CASE mode[t] = "delay"
      <4>1. toServer[c] = 0
        BY <1>0, <2>2, <2>3, <3>1 DEF Greeted
      <4>2. toServer'[c] = 0 /\ thread'[c] = "ended"
        BY <1>2, <4>1 DEF Hello, ReadOne, ReadSeveral, NoData, Crash, Close, IInv, TypeOK
      <4>. QED BY <1>2, <3>1, <4>2 DEF Hello, Greeted
    <3>2. CASE mode[t] # "delay"
      BY <1>2, <2>1, <3>2 DEF Hello, Greeted
    <3>. QED BY <3>1, <3>2
  <2>4. \A b \in Connection \ {c} : thread'[b] = thread[b] /\ toServer'[b] = toServer[b]
    BY <1>2 DEF Hello, ReadOne, ReadSeveral, NoData, Crash, Close, IInv, TypeOK
  <2>. QED BY <1>2, <2>1, <2>2, <2>3, <2>4, AliveServer DEF Hello, IInv, TypeOK
<1>3. CASE Ask(c)
  <2>1. /\ thread[c] = "free" /\ thread'[c] = "asked" /\ lock' = c
        /\ waiting'[c] = 0 /\ ~broken[c] => toTag'[c] > 0
        /\ UNCHANGED <<broken, toServer>>
    BY <1>3 DEF Ask, IInv, TypeOK
  <2>2. ASSUME NEW t \in Tags, socket[t] = c, ~broken'[c] PROVE Greeted(t, c)'
    BY <1>0, <1>3, <2>1, <2>2 DEF Ask, Greeted
  <2>. QED BY <1>3, <2>1, <2>2, AliveServer DEF Ask, AskedTag, IInv, TypeOK
<1>4. CASE Answer(c)
  <2>1. lock = c /\ lock' = 0 /\ thread[c] = "asked" /\ thread'[c] \in {"free", "ended"}
    BY <1>4 DEF Answer, Crash, Unlock, IInv, TypeOK, Ownership
  <2>2. \A b \in Connection : broken[b] => broken'[b]
    BY <1>4 DEF Answer, Crash, IInv, TypeOK
  <2>3. ASSUME NEW t \in Tags, socket[t] = c, ~broken'[c] PROVE Greeted(t, c)'
    BY <1>0, <1>4, <2>1, <2>2, <2>3 DEF Answer, Greeted
  <2>4. \A b \in Connection \ {c} : thread'[b] = thread[b] /\ toServer'[b] = toServer[b]
    BY <1>4 DEF Answer, ReadOne, ReadSeveral, Crash, IInv, TypeOK
  <2>. QED BY <1>4, <2>1, <2>2, <2>3, <2>4, AliveServer DEF Answer, IInv, TypeOK
<1>5. CASE NoAnswer(c)
  <2>1. lock = c /\ lock' = 0 /\ broken' = [broken EXCEPT ![c] = TRUE]
    BY <1>5 DEF NoAnswer, Close, Unlock, IInv, Ownership
  <2>. QED BY <1>5, <2>1, AliveServer DEF NoAnswer, Close, IInv, TypeOK
<1>. QED BY <1>1, <1>2, <1>3, <1>4, <1>5 DEF ServerStep

LEMMA AliveWorldStep ==
  ASSUME IInv, IInv', Alive, Second \/ \E t \in Tags : Drop(t) \/ Restart(t)
  PROVE  Alive'
<1> USE NoConnectionZero DEF tagVars, serverVars, netVars
<1>1. CASE Second
  <2>1. /\ UNCHANGED <<mode, socket, token, netVars, thread, lock>>
        /\ ~\E t \in Tags : TagBusy(t)
        /\ ~\E c \in Connection : ThreadBusy(c)
    BY <1>1 DEF Second
  <2>2. ASSUME NEW t \in Tags, Live(t), lock = socket[t] PROVE AskedTag(t, socket[t])'
    <3>1. /\ socket[t] \in Connection /\ thread[socket[t]] = "asked"
          /\ AskedTag(t, socket[t]) /\ Greeted(t, socket[t]) /\ mode[t] # "connecting"
      BY <2>2 DEF Live, Alive, IInv, TypeOK, Ownership
    <3>2. InPass(t)
      BY <2>2, <3>1 DEF Greeted, InPass, Live, IInv, TypeOK, Mode
    <3>3. ~TokenArrived(t) /\ ~Overdue(t) /\ ~(toServer[socket[t]] > 0)
      BY <2>1, <3>1, <3>2 DEF TagBusy, ThreadBusy
    <3>4. /\ token[t] /\ toTag[socket[t]] = 0 /\ waiting[socket[t]] <= held[t]
          /\ held[t] \in Nat /\ held[t] <= TokenTimeout
      BY <2>2, <3>1, <3>3, TokenAssumption DEF AskedTag, TokenArrived, Overdue, Live, IInv, TypeOK, HeldBound
    <3>5. held'[t] = held[t] + 1 /\ waiting'[socket[t]] = waiting[socket[t]] + 1
      BY <1>1, <3>1, <3>4, TokenAssumption DEF Second, HeldBound
    <3>. QED BY <2>1, <3>1, <3>4, <3>5, TokenAssumption DEF AskedTag, IInv, TypeOK
  <2>. QED BY <2>1, <2>2 DEF Alive, Live, Greeted
<1>2. ASSUME NEW t \in Tags, Drop(t) \/ Restart(t) PROVE Alive'
  <2>1. /\ \A s \in Tags : s # t => /\ socket'[s] = socket[s] /\ mode'[s] = mode[s]
                                    /\ token'[s] = token[s] /\ held'[s] = held[s]
        /\ UNCHANGED <<thread, waiting, lock>>
    BY <1>2 DEF Drop, Restart, IInv, TypeOK
  <2>2. ~Live(t)'
    BY <1>2 DEF Drop, Restart, Lose, Live, IInv, TypeOK
  <2>3. \A b \in Connection : broken[b] => broken'[b]
    BY <1>2 DEF Drop, Restart, Lose, IInv, TypeOK
  <2>4. \A b \in Connection : b # socket[t] => toServer'[b] = toServer[b] /\ toTag'[b] = toTag[b]
    BY <1>2 DEF Drop, Restart, Lose, IInv, TypeOK
  <2>5. ASSUME NEW s \in Tags, Live(s)'
        PROVE  /\ mode'[s] # "connecting" /\ Greeted(s, socket[s])'
               /\ lock' = socket'[s] => AskedTag(s, socket[s])'
    <3>1. s # t /\ socket[s] \in Connection /\ ~broken[socket[s]] /\ socket[s] # socket[t]
      BY <2>1, <2>2, <2>3, <2>5 DEF Live, IInv, TypeOK, Ownership
    <3>. QED BY <2>1, <2>4, <2>5, <3>1, AliveElsewhere
  <2>6. ASSUME NEW b \in Connection, ~broken'[b] PROVE \E s \in Tags : socket'[s] = b
    <3>1. PICK s \in Tags : socket[s] = b
      BY <2>3, <2>6 DEF Alive
    <3>2. s # t
      BY <1>2, <2>6, <3>1 DEF Drop, Restart, Lose, Live, IInv, TypeOK
    <3>. QED BY <2>1, <3>1, <3>2
  <2>. QED BY <2>5, <2>6 DEF Alive
<1>. QED BY <1>1, <1>2
----------------------------------------------------------------------------
\* What allows a tag to range, now or later: the token at a tag, a token under
\* way to a tag, and an answer that the server takes for the one to its next
\* question.  The first message of a connection is not an answer.
Unread(c) ==
  CASE broken[c] \/ thread[c] \in {"none", "ended"} -> 0
    [] ~broken[c] /\ thread[c] \in {"backlog", "hello"} /\ toServer[c] > 0 -> toServer[c] - 1
    [] OTHER -> toServer[c]

Counted(k, x, i) ==
  \/ k = "held" /\ x \in Tags /\ token[x] /\ i = 0
  \/ k = "toTag" /\ x \in Connection /\ (\E t \in Tags : socket[t] = x) /\ i \in 1..toTag[x]
  \/ k = "toServer" /\ x \in Connection /\ i \in 1..Unread(x)

Units ==
  {u \in {"held", "toTag", "toServer"} \X (Tags \cup Connection) \X Nat :
     Counted(u[1], u[2], u[3])}

\* The lock counts for one while its connection is alive, and each connection
\* lost under a running tag for one.
Allowed == drops + (IF lock # 0 /\ ~broken[lock] THEN 1 ELSE 0)
Budget == IsFiniteSet(Units) /\ Cardinality(Units) <= Allowed

LEMMA UnitsAre == \A k, x, i : Counted(k, x, i) <=> <<k, x, i>> \in Units
BY DEF Units, Counted

LEMMA UnitsKept ==
  ASSUME IsFiniteSet(Units), \A k, x, i : Counted(k, x, i)' => Counted(k, x, i)
  PROVE  IsFiniteSet(Units') /\ Cardinality(Units') <= Cardinality(Units)
<1>1. Units' \subseteq Units
  BY DEF Units
<1>. QED BY <1>1, FS_Subset

LEMMA UnitAdded ==
  ASSUME IsFiniteSet(Units), NEW k, NEW x, NEW i,
         \A l, y, j : Counted(l, y, j)' => Counted(l, y, j) \/ <<l, y, j>> = <<k, x, i>>
  PROVE  IsFiniteSet(Units') /\ Cardinality(Units') <= Cardinality(Units) + 1
<1>1. Units' \subseteq Units \cup {<<k, x, i>>}
  BY DEF Units
<1>2. /\ IsFiniteSet(Units \cup {<<k, x, i>>}) /\ Cardinality(Units) \in Nat
      /\ Cardinality(Units \cup {<<k, x, i>>}) <= Cardinality(Units) + 1
  <2>1. Cardinality(Units) \in Nat
    BY FS_CardinalityType
  <2>2. /\ IsFiniteSet(Units \cup {<<k, x, i>>})
        /\ Cardinality(Units \cup {<<k, x, i>>}) =
             IF <<k, x, i>> \in Units THEN Cardinality(Units) ELSE Cardinality(Units) + 1
    BY FS_AddElement, Zenon
  <2>. QED BY <2>1, <2>2
<1>3. IsFiniteSet(Units') /\ Cardinality(Units') <= Cardinality(Units \cup {<<k, x, i>>})
  BY <1>1, <1>2, FS_Subset
<1>4. /\ Cardinality(Units') \in Nat /\ Cardinality(Units \cup {<<k, x, i>>}) \in Nat
  BY <1>2, <1>3, FS_CardinalityType
<1>. QED BY <1>2, <1>3, <1>4

LEMMA UnitLost ==
  ASSUME IsFiniteSet(Units), NEW k, NEW x, NEW i, Counted(k, x, i), ~Counted(k, x, i)',
         \A l, y, j : Counted(l, y, j)' => Counted(l, y, j)
  PROVE  IsFiniteSet(Units') /\ Cardinality(Units') <= Cardinality(Units) - 1
<1>1. Units' \subseteq Units \ {<<k, x, i>>} /\ <<k, x, i>> \in Units
  BY DEF Units, Counted
<1>2. /\ IsFiniteSet(Units \ {<<k, x, i>>})
      /\ Cardinality(Units \ {<<k, x, i>>}) = Cardinality(Units) - 1
  BY <1>1, FS_RemoveElement
<1>. QED BY <1>1, <1>2, FS_Subset

LEMMA UnitMoved ==
  ASSUME IsFiniteSet(Units), NEW k, NEW x, NEW i, Counted(k, x, i), ~Counted(k, x, i)',
         NEW m, NEW z, NEW n,
         \A l, y, j : Counted(l, y, j)' => Counted(l, y, j) \/ <<l, y, j>> = <<m, z, n>>
  PROVE  IsFiniteSet(Units') /\ Cardinality(Units') <= Cardinality(Units)
<1> DEFINE Rest == Units \ {<<k, x, i>>}
<1>1. Units' \subseteq Rest \cup {<<m, z, n>>} /\ <<k, x, i>> \in Units
  BY DEF Units, Counted
<1>2. IsFiniteSet(Rest) /\ Cardinality(Rest) = Cardinality(Units) - 1
  BY <1>1, FS_RemoveElement
<1>3. Cardinality(Rest) \in Nat /\ Cardinality(Units) \in Nat
  BY <1>2, FS_CardinalityType
<1>4. /\ IsFiniteSet(Rest \cup {<<m, z, n>>})
      /\ Cardinality(Rest \cup {<<m, z, n>>}) <= Cardinality(Units)
  <2> HIDE DEF Rest
  <2>1. /\ IsFiniteSet(Rest \cup {<<m, z, n>>})
        /\ Cardinality(Rest \cup {<<m, z, n>>}) =
             IF <<m, z, n>> \in Rest THEN Cardinality(Rest) ELSE Cardinality(Rest) + 1
    BY <1>2, FS_AddElement, Zenon
  <2>. QED BY <1>2, <1>3, <2>1
<1>5. /\ IsFiniteSet(Units') /\ Cardinality(Units') <= Cardinality(Rest \cup {<<m, z, n>>})
  <2> HIDE DEF Rest
  <2>. QED BY <1>1, <1>4, FS_Subset
<1>6. Cardinality(Units') \in Nat /\ Cardinality(Rest \cup {<<m, z, n>>}) \in Nat
  BY <1>4, <1>5, FS_CardinalityType
<1> HIDE DEF Rest
<1>. QED BY <1>3, <1>4, <1>5, <1>6
----------------------------------------------------------------------------
LEMMA UnreadNat ==
  ASSUME IInv, Alive, NEW c \in Connection PROVE Unread(c) \in Nat
BY DEF Unread, IInv, TypeOK, Alive

LEMMA CardinalityInt ==
  ASSUME Budget, IsFiniteSet(Units') 
  PROVE  Cardinality(Units) \in Nat /\ Cardinality(Units') \in Nat
BY FS_CardinalityType DEF Budget

LEMMA AllowedNat == ASSUME IInv PROVE Allowed \in Nat
BY TokenAssumption DEF IInv, TypeOK, Allowed

LEMMA NextAllowedNat == ASSUME IInv' PROVE Allowed' \in Nat
<1>1. PICK n \in Nat : drops' = n
  BY TokenAssumption DEF IInv, TypeOK
<1>. QED BY <1>1 DEF Allowed

\* Nothing is added, and the lock and the lost connections allow as much.
LEMMA NothingAdded ==
  ASSUME IInv, IInv', Budget, \A k, x, i : Counted(k, x, i)' => Counted(k, x, i),
         Allowed' >= Allowed
  PROVE  Budget'
<1>1. IsFiniteSet(Units') /\ Cardinality(Units') <= Cardinality(Units)
  BY UnitsKept DEF Budget
<1>2. Allowed \in Nat /\ Allowed' \in Nat
  BY AllowedNat, NextAllowedNat
<1>. QED BY <1>1, <1>2, CardinalityInt DEF Budget

\* The unread messages of a connection, of one that nothing happens to, and of one
\* that is lost or whose thread has ended.
LEMMA UnreadSame ==
  ASSUME NEW c \in Connection, broken'[c] = broken[c], thread'[c] = thread[c],
         toServer'[c] = toServer[c]
  PROVE  Unread(c)' = Unread(c)
BY DEF Unread

LEMMA UnreadNone ==
  ASSUME NEW c \in Connection, broken'[c] \/ thread'[c] \in {"none", "ended"}
  PROVE  Unread(c)' = 0
BY DEF Unread

LEMMA BudgetTagStep ==
  ASSUME IInv, IInv', Alive, Budget, NEW t \in Tags, TagStep(t)
  PROVE  Budget'
<1> USE DEF tagVars, netVars, serverVars
<1>1. CASE Reconnect(t) \/ GiveUp(t) \/ EndPass(t) \/ ConnectAgain(t)
  <2>1. UNCHANGED <<socket, token, netVars, serverVars, drops>>
    BY <1>1 DEF Reconnect, GiveUp, EndPass, ConnectAgain
  <2>2. \A k, x, i : Counted(k, x, i)' => Counted(k, x, i)
    BY <2>1 DEF Counted, Unread
  <2>. QED BY <2>1, <2>2, NothingAdded, AllowedNat DEF Allowed
<1>2. CASE Connected(t)
  <2>1. PICK c \in Connection :
          /\ Unused(c)
          /\ socket' = [socket EXCEPT ![t] = c]
          /\ broken' = [broken EXCEPT ![c] = FALSE]
          /\ toTag' = [toTag EXCEPT ![c] = 0]
          /\ toServer' = [toServer EXCEPT ![c] = 0]
          /\ thread' = [thread EXCEPT ![c] = "backlog"]
    BY <1>2 DEF Connected
  <2>2. UNCHANGED <<token, lock, drops>> /\ lock # c
    BY <1>2, <2>1 DEF Connected, IInv, Ownership, Unused
  <2>3. \A b \in Connection \ {c} : Unread(b)' = Unread(b)
    BY <2>1, UnreadSame DEF IInv, TypeOK
  <2>4. Unread(c)' = 0
    BY <2>1 DEF IInv, TypeOK, Unread
  <2>5. \A k, x, i : Counted(k, x, i)' => Counted(k, x, i)
    <3>1. \A b \in Connection \ {c} :
            /\ toTag'[b] = toTag[b]
            /\ (\E s \in Tags : socket'[s] = b) => \E s \in Tags : socket[s] = b
      BY <2>1 DEF IInv, TypeOK
    <3>2. toTag'[c] = 0
      BY <2>1 DEF IInv, TypeOK
    <3>. QED BY <2>2, <2>3, <2>4, <3>1, <3>2 DEF Counted
  <2>6. Allowed' = Allowed
    BY <2>1, <2>2 DEF Allowed, IInv, TypeOK
  <2>. QED BY <2>5, <2>6, NothingAdded, AllowedNat
<1>3. CASE TakeToken(t)
  <2>1. PICK c \in Connection : c = socket[t] /\ toTag[c] > 0
    BY <1>3 DEF TakeToken, TokenArrived, IInv, TypeOK
  <2>2. /\ toTag' = [toTag EXCEPT ![c] = 0] /\ token' = [token EXCEPT ![t] = TRUE]
        /\ UNCHANGED <<socket, broken, toServer, thread, lock, drops>>
    BY <1>3, <2>1 DEF TakeToken
  <2>3. \A b \in Connection : Unread(b)' = Unread(b)
    BY <2>2, UnreadSame
  <2>4. Counted("toTag", c, 1) /\ ~Counted("toTag", c, 1)'
    BY <2>1, <2>2 DEF Counted, IInv, TypeOK
  <2>5. \A l, y, j : Counted(l, y, j)' => Counted(l, y, j) \/ <<l, y, j>> = <<"held", t, 0>>
    BY <2>1, <2>2, <2>3 DEF Counted, IInv, TypeOK
  <2>6. IsFiniteSet(Units') /\ Cardinality(Units') <= Cardinality(Units)
    BY <2>4, <2>5, UnitMoved DEF Budget
  <2>. QED BY <2>2, <2>6, CardinalityInt, AllowedNat DEF Budget, Allowed
<1>4. CASE Release(t)
  <2>1. /\ token[t] /\ token' = [token EXCEPT ![t] = FALSE]
        /\ \A c \in Connection :
             toServer'[c] = IF c = socket[t] /\ ~broken[c] THEN toServer[c] + 1 ELSE toServer[c]
        /\ UNCHANGED <<socket, broken, toTag, thread, lock, drops>>
    BY <1>4, SendsOne DEF Release, IInv
  <2>2. Counted("held", t, 0) /\ ~Counted("held", t, 0)'
    BY <2>1 DEF Counted, IInv, TypeOK
  <2>3. \A b \in Connection : b # socket[t] => Unread(b)' = Unread(b)
    BY <2>1, UnreadSame DEF IInv, TypeOK
  <2>4. socket[t] \in Connection =>
          Unread(socket[t])' = Unread(socket[t]) \/ Unread(socket[t])' = Unread(socket[t]) + 1
    BY <2>1, UnreadNat DEF Unread, IInv, TypeOK
  <2>5. \A l, y, j : Counted(l, y, j)' =>
          Counted(l, y, j) \/ <<l, y, j>> = <<"toServer", socket[t], Unread(socket[t])'>>
    BY <2>1, <2>3, <2>4, UnreadNat DEF Counted, IInv, TypeOK
  <2>6. IsFiniteSet(Units') /\ Cardinality(Units') <= Cardinality(Units)
    BY <2>2, <2>5, UnitMoved DEF Budget
  <2>. QED BY <2>1, <2>6, CardinalityInt, AllowedNat DEF Budget, Allowed
<1>5. CASE SayHello(t)
  <2>1. UNCHANGED <<socket, token, broken, toTag, thread, lock, drops>> /\ mode[t] = "delay"
    BY <1>5 DEF SayHello, Waited
  <2>2. \A b \in Connection : Unread(b)' = Unread(b)
    <3>1. ASSUME NEW b \in Connection, b # socket[t] \/ broken[b] PROVE Unread(b)' = Unread(b)
      BY <1>5, <2>1, <3>1, SendsOne, UnreadSame DEF SayHello, IInv
    <3>2. ASSUME NEW b \in Connection, b = socket[t], ~broken[b] PROVE Unread(b)' = Unread(b)
      <4>1. toServer'[b] = toServer[b] + 1 /\ toServer[b] = 0 /\ thread[b] \notin {"free", "asked"}
        BY <1>5, <2>1, <3>2, SendsOne, NoConnectionZero DEF SayHello, IInv, Alive, Live, Greeted
      <4>. QED BY <2>1, <4>1 DEF Unread, IInv, TypeOK, Thread
    <3>. QED BY <3>1, <3>2
  <2>3. \A k, x, i : Counted(k, x, i)' => Counted(k, x, i)
    BY <2>1, <2>2 DEF Counted
  <2>. QED BY <2>1, <2>3, NothingAdded, AllowedNat DEF Allowed
<1>. QED BY <1>1, <1>2, <1>3, <1>4, <1>5 DEF TagStep

LEMMA BudgetServerStep ==
  ASSUME IInv, IInv', Alive, Budget, NEW c \in Connection, ServerStep(c)
  PROVE  Budget'
<1> USE DEF tagVars
<1>1. CASE Accept(c)
  <2>1. /\ thread[c] = "backlog" /\ thread' = [thread EXCEPT ![c] = "hello"]
        /\ broken' = [b \in Connection |-> broken[b] \/ (b = latest /\ thread[b] = "ended")]
        /\ UNCHANGED <<socket, token, toTag, toServer, lock, drops>>
    BY <1>1 DEF Accept
  <2>2. \A b \in Connection : Unread(b)' = Unread(b) \/ Unread(b)' = 0
    BY <2>1 DEF Unread, IInv, TypeOK
  <2>3. \A k, x, i : Counted(k, x, i)' => Counted(k, x, i)
    BY <2>1, <2>2, UnreadNat DEF Counted
  <2>4. lock # 0 => broken'[lock] = broken[lock]
    BY <2>1 DEF IInv, TypeOK, Ownership
  <2>. QED BY <2>1, <2>3, <2>4, NothingAdded, AllowedNat DEF Allowed
<1>2. CASE Hello(c)
  <2>1. /\ UNCHANGED <<socket, token, toTag, lock, drops>> /\ thread[c] = "hello"
        /\ lock # 0 => broken'[lock] = broken[lock]
    BY <1>2 DEF Hello, Crash, Close, Unlock, IInv, TypeOK, Ownership
  <2>2. \A b \in Connection \ {c} : Unread(b)' = Unread(b)
    <3>1. \A b \in Connection \ {c} : /\ broken'[b] = broken[b] /\ thread'[b] = thread[b]
                                        /\ toServer'[b] = toServer[b]
      BY <1>2 DEF Hello, ReadOne, ReadSeveral, NoData, Crash, Close, IInv, TypeOK
    <3>. QED BY <3>1, UnreadSame
  <2>3. Unread(c)' = Unread(c) \/ Unread(c)' = 0
    <3>1. CASE ReadOne(c) /\ thread' = [thread EXCEPT ![c] = "free"] /\ UNCHANGED broken
      BY <2>1, <3>1 DEF ReadOne, Unread, IInv, TypeOK
    <3>2. CASE Crash(c) \/ Close(c)
      BY <3>2, UnreadNone DEF Crash, Close, IInv, TypeOK
    <3>. QED BY <1>2, <3>1, <3>2 DEF Hello
  <2>4. \A k, x, i : Counted(k, x, i)' => Counted(k, x, i)
    BY <2>1, <2>2, <2>3, UnreadNat DEF Counted
  <2>. QED BY <2>1, <2>4, NothingAdded, AllowedNat DEF Allowed
<1>3. CASE Ask(c)
  <2>1. /\ thread[c] = "free" /\ thread' = [thread EXCEPT ![c] = "asked"]
        /\ lock = 0 /\ lock' = c
        /\ toTag' = [toTag EXCEPT ![c] = IF broken[c] THEN @ ELSE @ + 1]
        /\ UNCHANGED <<socket, token, broken, toServer, drops>>
    BY <1>3 DEF Ask
  <2>2. \A b \in Connection : Unread(b)' = Unread(b)
    BY <2>1 DEF Unread, IInv, TypeOK
  <2>3. CASE broken[c]
    <3>1. \A k, x, i : Counted(k, x, i)' => Counted(k, x, i)
      BY <2>1, <2>2, <2>3 DEF Counted, IInv, TypeOK
    <3>. QED BY <2>1, <2>3, <3>1, NothingAdded, AllowedNat DEF Allowed
  <2>4. CASE ~broken[c]
    <3>1. \A l, y, j : Counted(l, y, j)' =>
            Counted(l, y, j) \/ <<l, y, j>> = <<"toTag", c, toTag[c] + 1>>
      <4>1. /\ toTag[c] \in Nat /\ toTag'[c] = toTag[c] + 1
            /\ \A b \in Connection \ {c} : toTag'[b] = toTag[b]
        BY <2>1, <2>4 DEF IInv, TypeOK
      <4>. QED BY <2>1, <2>2, <4>1 DEF Counted
    <3>2. IsFiniteSet(Units') /\ Cardinality(Units') <= Cardinality(Units) + 1
      BY <3>1, UnitAdded DEF Budget
    <3>3. Allowed' = Allowed + 1
      BY <2>1, <2>4, NoConnectionZero, TokenAssumption DEF Allowed, IInv, TypeOK
    <3>. QED BY <3>2, <3>3, CardinalityInt, AllowedNat DEF Budget
  <2>. QED BY <2>3, <2>4
<1>4. CASE Answer(c)
  <2>1. /\ UNCHANGED <<socket, token, toTag, drops>> /\ thread[c] = "asked"
        /\ lock = c /\ lock' = 0 /\ toServer[c] > 0
    BY <1>4 DEF Answer, ReadOne, ReadSeveral, Crash, Unlock, IInv, TypeOK, Ownership
  <2>2. \A b \in Connection \ {c} : Unread(b)' = Unread(b)
    <3>1. \A b \in Connection \ {c} : /\ broken'[b] = broken[b] /\ thread'[b] = thread[b]
                                        /\ toServer'[b] = toServer[b]
      BY <1>4 DEF Answer, ReadOne, ReadSeveral, Crash, IInv, TypeOK
    <3>. QED BY <3>1, UnreadSame
  <2>3. CASE broken[c]
    <3>1. Unread(c)' = 0 /\ Unread(c) = 0
      BY <1>4, <2>3, UnreadNone DEF Answer, Crash, Unread, IInv, TypeOK
    <3>2. \A k, x, i : Counted(k, x, i)' => Counted(k, x, i)
      BY <2>1, <2>2, <3>1 DEF Counted
    <3>. QED BY <2>1, <2>3, <3>2, NothingAdded, AllowedNat DEF Allowed
  <2>4. CASE ~broken[c]
    <3>1. Unread(c) = toServer[c]
      BY <2>1, <2>4 DEF Unread
    <3>2. Unread(c)' \in 0..(toServer[c] - 1)
      <4>1. CASE ReadOne(c) /\ thread' = [thread EXCEPT ![c] = "free"] /\ UNCHANGED broken
        BY <2>1, <2>4, <4>1 DEF ReadOne, Unread, IInv, TypeOK
      <4>2. CASE Crash(c)
        BY <2>1, <4>2, UnreadNone DEF Crash, IInv, TypeOK
      <4>. QED BY <1>4, <4>1, <4>2 DEF Answer
    <3>3. PICK n \in Nat : n = toServer[c] /\ n > 0
      BY <2>1 DEF IInv, TypeOK
    <3>4. Counted("toServer", c, n) /\ ~Counted("toServer", c, n)'
      BY <3>1, <3>2, <3>3 DEF Counted
    <3>5. \A l, y, j : Counted(l, y, j)' => Counted(l, y, j)
      BY <2>1, <2>2, <3>1, <3>2, <3>3 DEF Counted
    <3>6. IsFiniteSet(Units') /\ Cardinality(Units') <= Cardinality(Units) - 1
      BY <3>4, <3>5, UnitLost DEF Budget
    <3>7. Allowed' = Allowed - 1
      BY <2>1, <2>4, NoConnectionZero, TokenAssumption DEF Allowed, IInv, TypeOK
    <3>. QED BY <3>6, <3>7, CardinalityInt, AllowedNat DEF Budget
  <2>. QED BY <2>3, <2>4
<1>5. CASE NoAnswer(c)
  <2>1. /\ UNCHANGED <<socket, token, toTag, toServer, drops>> /\ thread[c] = "asked"
        /\ lock = c /\ lock' = 0
        /\ thread' = [thread EXCEPT ![c] = "ended"] /\ broken' = [broken EXCEPT ![c] = TRUE]
    BY <1>5 DEF NoAnswer, Close, Unlock, IInv, TypeOK, Ownership
  <2>2. broken[c]
    <3>1. SUFFICES ASSUME ~broken[c] PROVE FALSE
      OBVIOUS
    <3>2. toServer[c] = 0 /\ waiting[c] = ServerTimeout
      BY <1>5, <3>1 DEF NoAnswer
    <3>3. PICK t \in Tags : socket[t] = c
      BY <3>1 DEF Alive
    <3>4. AskedTag(t, c)
      BY <2>1, <3>1, <3>3, NoConnectionZero DEF Alive, Live
    <3>. QED BY <3>2, <3>4, TokenAssumption, TimeoutAssumption DEF AskedTag, IInv, TypeOK, HeldBound
  <2>3. \A b \in Connection \ {c} : Unread(b)' = Unread(b)
    BY <2>1, UnreadSame DEF IInv, TypeOK
  <2>4. Unread(c)' = 0
    BY <2>1, UnreadNone DEF IInv, TypeOK
  <2>5. \A k, x, i : Counted(k, x, i)' => Counted(k, x, i)
    BY <2>1, <2>3, <2>4 DEF Counted
  <2>. QED BY <2>1, <2>2, <2>5, NothingAdded, AllowedNat DEF Allowed
<1>. QED BY <1>1, <1>2, <1>3, <1>4, <1>5 DEF ServerStep

\* The connection of a tag is lost.
LEMMA LoseUnits ==
  ASSUME IInv, NEW c \in Connection, Lose(c), UNCHANGED thread
  PROVE  /\ Unread(c)' = 0 /\ \A b \in Connection \ {c} : Unread(b)' = Unread(b)
         /\ \A b \in Connection : toTag'[b] \in 0..toTag[b]
         /\ broken' = [broken EXCEPT ![c] = TRUE]
<1>1. \A b \in Connection \ {c} : broken'[b] = broken[b] /\ toServer'[b] = toServer[b]
  BY DEF Lose, IInv, TypeOK
<1>2. broken'[c] /\ broken' = [broken EXCEPT ![c] = TRUE]
  BY DEF Lose, IInv, TypeOK
<1>3. \A b \in Connection : toTag'[b] \in 0..toTag[b]
  BY DEF Lose, IInv, TypeOK
<1>. QED BY <1>1, <1>2, <1>3, UnreadSame, UnreadNone

LEMMA BudgetWorldStep ==
  ASSUME IInv, IInv', Alive, Budget, Second \/ \E t \in Tags : Drop(t) \/ Restart(t)
  PROVE  Budget'
<1> USE DEF tagVars, netVars, serverVars
<1>1. CASE Second
  <2>1. UNCHANGED <<socket, token, netVars, thread, lock, drops>>
    BY <1>1 DEF Second
  <2>2. \A k, x, i : Counted(k, x, i)' => Counted(k, x, i)
    BY <2>1 DEF Counted, Unread
  <2>. QED BY <2>1, <2>2, NothingAdded, AllowedNat DEF Allowed
<1>2. ASSUME NEW t \in Tags, Drop(t) PROVE Budget'
  <2>1. /\ socket[t] \in Connection /\ Lose(socket[t]) /\ drops' = drops + 1
        /\ UNCHANGED <<socket, token, thread, lock>>
    BY <1>2 DEF Drop, Live, IInv, TypeOK
  <2>2. \A k, x, i : Counted(k, x, i)' => Counted(k, x, i)
    BY <2>1, LoseUnits DEF Counted, IInv, TypeOK
  <2>3. Allowed' >= Allowed
    BY <2>1, LoseUnits, TokenAssumption DEF Allowed, IInv, TypeOK
  <2>. QED BY <2>2, <2>3, NothingAdded
<1>3. ASSUME NEW t \in Tags, Restart(t) PROVE Budget'
  <2>1. /\ socket' = [socket EXCEPT ![t] = 0] /\ token' = [token EXCEPT ![t] = FALSE]
        /\ UNCHANGED <<thread, lock, drops>>
    BY <1>3 DEF Restart
  <2>2. \A b \in Connection : (\E s \in Tags : socket'[s] = b) => \E s \in Tags : socket[s] = b
    BY <2>1, NoConnectionZero DEF IInv, TypeOK
  <2>3. CASE ~Live(t)
    <3>1. UNCHANGED <<toTag, toServer, broken>>
      BY <1>3, <2>3 DEF Restart
    <3>2. \A k, x, i : Counted(k, x, i)' => Counted(k, x, i)
      BY <2>1, <2>2, <3>1, UnreadSame DEF Counted, IInv, TypeOK
    <3>. QED BY <2>1, <3>1, <3>2, NothingAdded, AllowedNat DEF Allowed
  <2>4. CASE Live(t)
    <3>1. PICK c \in Connection : c = socket[t] /\ Lose(c) /\ ~broken[c]
      BY <1>3, <2>4 DEF Restart, Live, IInv, TypeOK
    <3>2. \A l, y, j : Counted(l, y, j)' => Counted(l, y, j)
      <4>1. \A x \in Tags : token'[x] => token[x]
        BY <2>1 DEF IInv, TypeOK
      <4>2. /\ Unread(c)' = 0 /\ \A b \in Connection \ {c} : Unread(b)' = Unread(b)
            /\ \A b \in Connection : toTag'[b] \in 0..toTag[b]
        BY <2>1, <3>1, LoseUnits
      <4>3. \A x \in Connection : \A i \in 1..toTag'[x] : i \in 1..toTag[x]
        BY <4>2 DEF IInv, TypeOK
      <4>4. \A x \in Connection : \A i \in 1..Unread(x)' : i \in 1..Unread(x)
        BY <4>2
      <4>. QED BY <2>2, <4>1, <4>3, <4>4 DEF Counted
    <3>3. CASE lock # c
      <4>1. broken' = [broken EXCEPT ![c] = TRUE]
        BY <3>1 DEF Lose
      <4>2. lock # 0 => broken'[lock] = broken[lock]
        BY <3>3, <4>1 DEF IInv, TypeOK
      <4>3. Allowed' = Allowed
        BY <2>1, <4>2 DEF Allowed
      <4>. QED BY <3>2, <4>3, NothingAdded, AllowedNat
    <3>4. CASE lock = c
      <4>1. thread[c] = "asked" /\ AskedTag(t, c)
        BY <2>4, <3>1, <3>4 DEF Alive, IInv, Ownership
      <4>2. \E k, x, i : Counted(k, x, i) /\ ~Counted(k, x, i)'
        <5>1. CASE toTag[c] > 0
          <6>1. Counted("toTag", c, 1)
            BY <3>1, <5>1 DEF Counted, IInv, TypeOK
          <6>2. ~\E s \in Tags : socket'[s] = c
            BY <2>1, <3>1, NoConnectionZero DEF IInv, TypeOK, Ownership
          <6>. QED BY <6>1, <6>2 DEF Counted
        <5>2. CASE toServer[c] > 0
          <6>1. Unread(c) = toServer[c]
            BY <3>1, <4>1 DEF Unread
          <6>2. Counted("toServer", c, 1)
            BY <5>2, <6>1 DEF Counted, IInv, TypeOK
          <6>3. Unread(c)' = 0
            BY <2>1, <3>1, LoseUnits
          <6>. QED BY <6>2, <6>3 DEF Counted
        <5>3. CASE token[t]
          <6>1. Counted("held", t, 0) /\ ~Counted("held", t, 0)'
            BY <2>1, <5>3 DEF Counted, IInv, TypeOK
          <6>. QED BY <6>1
        <5>. QED BY <4>1, <5>1, <5>2, <5>3 DEF AskedTag
      <4>3. IsFiniteSet(Units') /\ Cardinality(Units') <= Cardinality(Units) - 1
        BY <3>2, <4>2, UnitLost DEF Budget
      <4>4. Allowed' = Allowed - 1
        BY <2>1, <3>1, <3>4, LoseUnits, NoConnectionZero, TokenAssumption
        DEF Allowed, IInv, TypeOK
      <4>. QED BY <4>3, <4>4, CardinalityInt, AllowedNat DEF Budget
    <3>. QED BY <3>3, <3>4
  <2>. QED BY <2>3, <2>4
<1>. QED BY <1>1, <1>2, <1>3
----------------------------------------------------------------------------
\* The inductive invariant with any number of lost connections.
LossInv == IInv /\ Alive /\ Budget

LEMMA InitLossInv == Init => LossInv
<1>. SUFFICES ASSUME Init PROVE LossInv
  OBVIOUS
<1>1. Alive
  BY DEF Init, Alive, Live
<1>2. Units = {}
  <2>1. \A k, x, i : ~Counted(k, x, i)
    BY DEF Init, Counted, Unread
  <2>. QED BY <2>1 DEF Units
<1>3. Budget
  BY <1>2, FS_EmptySet DEF Init, Budget, Allowed
<1>. QED BY <1>1, <1>3, InitIInv DEF LossInv

LEMMA StepLossInv == LossInv /\ [Next]_vars => LossInv'
<1>. SUFFICES ASSUME LossInv, [Next]_vars PROVE LossInv'
  OBVIOUS
<1>1. IInv /\ Alive /\ Budget /\ IInv'
  BY StepIInv DEF LossInv
<1>2. ASSUME NEW t \in Tags, TagStep(t) PROVE LossInv'
  BY <1>1, <1>2, AliveTagStep, BudgetTagStep DEF LossInv
<1>3. ASSUME NEW c \in Connection, ServerStep(c) PROVE LossInv'
  BY <1>1, <1>3, AliveServerStep, BudgetServerStep DEF LossInv
<1>4. CASE Second \/ \E t \in Tags : Drop(t) \/ Restart(t)
  BY <1>1, <1>4, AliveWorldStep, BudgetWorldStep DEF LossInv
<1>5. CASE UNCHANGED vars
  <2>1. UNCHANGED <<tagVars, netVars, serverVars, drops>>
    BY <1>5 DEF vars
  <2>2. Alive'
    BY <1>1, <2>1 DEF tagVars, netVars, serverVars, Alive, Live, AskedTag, Greeted
  <2>3. \A k, x, i : Counted(k, x, i)' => Counted(k, x, i)
    BY <2>1 DEF tagVars, netVars, serverVars, Counted, Unread
  <2>4. Allowed' = Allowed
    BY <2>1 DEF netVars, serverVars, Allowed
  <2>. QED BY <1>1, <2>2, <2>3, <2>4, NothingAdded, AllowedNat DEF LossInv
<1>. QED BY <1>2, <1>3, <1>4, <1>5 DEF Next

\* The tokens at tags are some of the units.
LEMMA HoldersCounted == ASSUME LossInv PROVE TokensBounded
<1> DEFINE place == [t \in Holders |-> <<"held", t, 0>>]
<1>1. place \in Injection(Holders, Units)
  <2>1. \A t \in Holders : <<"held", t, 0>> \in Units
    BY DEF Holders, Units, Counted
  <2>. QED BY <2>1 DEF Injection, IsInjective
<1>2. IsFiniteSet(Holders) /\ Cardinality(Holders) <= Cardinality(Units)
  <2> HIDE DEF place
  <2>. QED BY <1>1, FS_Injection DEF LossInv, Budget
<1>3. Cardinality(Holders) \in Nat /\ Cardinality(Units) \in Nat
  BY <1>2, FS_CardinalityType DEF LossInv, Budget
<1>4. Cardinality(Units) <= Allowed /\ Allowed <= 1 + drops
  BY TokenAssumption DEF LossInv, Budget, Allowed, IInv, TypeOK
<1>. QED BY <1>2, <1>3, <1>4, AllowedNat, TokenAssumption DEF TokensBounded, LossInv, IInv, TypeOK

\* With any number of lost connections, reconnecting tags, restarts and messages
\* that a crashed thread leaves unread, at most one tag more ranges at a time than
\* connections were lost under a running tag.
THEOREM LossesBound == Spec => []TokensBounded
<1>1. Init => LossInv
  BY InitLossInv
<1>2. LossInv /\ [Next]_vars => LossInv'
  BY StepLossInv
<1>3. LossInv => TokensBounded
  BY HoldersCounted
<1>. QED BY <1>1, <1>2, <1>3, PTL DEF Spec
============================================================================
