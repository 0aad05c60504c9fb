---- MODULE RTLSProofs ----
(* Proofs about RTLS, for any number of anchors and tags, while nothing but  *)
(* lost frames disturbs a round: what has happened of a round is the number  *)
(* m of anchors that have ranged the tag that is awake, the number p of the  *)
(* last of them that has reported, and the round id. Session says what every *)
(* node is doing then; the steps of a round move one node of it at a time.   *)
EXTENDS RTLSProperties, FiniteSetTheorems, TLAPS

\* The rounds that ranges can be of.
Ids == {Id(t, r) : t \in Tags, r \in 0..(Rounds - 1)}
PCs == {"asleep", "request", "polled", "final", "loop", "accept", "answered", "confirming", "reporting"}
Radios == {"off", "tx", "sent", "rx", "good"}

RTLSTypes ==
  /\ pc \in [Nodes -> PCs] /\ radio \in [Nodes -> Radios]
  /\ inbox = [n \in Nodes |-> inbox[n]] /\ out = [n \in Nodes |-> out[n]]
  /\ round \in [Tags -> 0..(Rounds - 1)] /\ addressed \subseteq Tags
  /\ pollReceived = [a \in Anchors |-> pollReceived[a]]
  /\ range = [a \in Anchors |-> range[a]]
  /\ collected = [a \in Anchors \ {1} |-> collected[a]]

\* Nobody is busy with an anchor that listens; it may have waited in vain.
Listening(a) == radio[a] = "rx" /\ pc[a] \in {Root(a), "accept", "answered"}

Final(a, id) == [kind |-> "FINAL", to |-> a, pollSent |-> id, answered |-> id]
ReportOf(a, id) == [kind |-> "REPORT", to |-> 1, from |-> a, range |-> {id}]

\* The anchor has sent its answer to FINAL and will compute a range of id.
Sure(a, id) ==
  pc[a] = "confirming" /\ radio[a] = "sent" /\ inbox[a] = Final(a, id) /\ pollReceived[a] = {id}

\* Where an anchor is that has ranged the tag, when reports 2..p have been sent.
Done(a, p, id) ==
  /\ range[a] = {id}
  /\ \/ /\ a = 1 /\ pc[a] = "loop"
        /\ radio[a] = "rx" \/ (radio[a] = "good" /\ p >= 2 /\ inbox[a] = ReportOf(p, id))
     \/ a \in 2..p /\ pc[a] = "accept" /\ radio[a] = "rx"
     \/ a > 1 /\ a > p /\ pc[a] = "reporting" /\ radio[a] = "off"
     \/ a > 1 /\ a = p + 1 /\ pc[a] = "accept" /\ radio[a] = "tx" /\ out[a] = ReportOf(a, id)

Ready(m, p, id) == m >= 1 => Done(m, p, id) \/ ((m = 1 \/ m > p) /\ Sure(m, id))

\* Anchors 1..m have ranged the tag in the exchanges of id and reported it up to p.
Chain(m, p, id) == (\A a \in 1..(m - 1) : Done(a, p, id)) /\ Ready(m, p, id)

\* Of the reports up to k the primary has those before the first that was lost, it
\* has started over, or it has missed the one of anchor 2 that tells it to.
Seen(k, id) ==
  k >= 2 => \/ missed \/ received = {}
            \/ \E j \in 2..k : /\ j < N /\ received = 2..j
                               /\ \A a \in 2..j : collected[a] = {id}

Idle(m) == \A a \in (m + 2)..N : Rest(a)

Asleep(t) == pc[t] = "asleep" /\ radio[t] = "off"

Asking(t) ==
  /\ pc[t] = "request"
  /\ \/ radio[t] = "tx" /\ out[t] = ShortBlink(t) /\ Rest(1)
     \/ radio[t] = "rx" /\ pc[1] = "loop" /\ radio[1] = "good" /\ inbox[1] = ShortBlink(t)
     \/ radio[t] = "rx" /\ pc[1] = "accept" /\ radio[1] = "tx" /\ out[1] = RangingInitiation(t)
     \/ /\ radio[t] = "good" /\ inbox[t] = RangingInitiation(t)
        /\ pc[1] = "accept" /\ radio[1] = "rx"
     \/ radio[t] = "rx" /\ Listening(1)

Polled(t, a, id) ==
  /\ pc[t] = "polled"
  /\ \/ radio[t] = "tx" /\ out[t] = Poll(t, a) /\ pc[a] = "accept" /\ radio[a] = "rx"
     \/ radio[t] = "rx" /\ pc[a] = "accept" /\ radio[a] = "good" /\ inbox[a] = Poll(t, a)
     \/ /\ pollReceived[a] = {id} /\ pc[a] = "answered"
        /\ \/ radio[t] = "rx" /\ radio[a] = "tx" /\ out[a] = ResponseToPoll(a, id)
           \/ radio[t] = "good" /\ inbox[t] = ResponseToPoll(a, id) /\ radio[a] = "rx"
     \/ radio[t] = "rx" /\ Listening(a)

Closing(t, a, id) ==
  /\ pc[t] = "final"
  /\ \/ /\ pollReceived[a] = {id}
        /\ \/ radio[t] = "tx" /\ out[t] = Final(a, id) /\ pc[a] = "answered" /\ radio[a] = "rx"
           \/ radio[t] = "rx" /\ pc[a] = "answered" /\ radio[a] = "good" /\ inbox[a] = Final(a, id)
           \/ /\ radio[t] = "rx" /\ pc[a] = "confirming" /\ radio[a] = "tx"
              /\ out[a] = Activity(a) /\ inbox[a] = Final(a, id)
     \/ radio[t] = "rx" /\ Listening(a)

After(t, m) ==
  /\ pc[t] = "final" /\ m >= 1 /\ (m < N => Rest(m + 1))
  /\ radio[t] = "rx" \/ (radio[t] = "good" /\ inbox[t] = Activity(m))

\* What the tag that is awake is doing.
Stage(t, m, id) ==
  \/ m = 0 /\ Asking(t)
  \/ m < N /\ (Polled(t, m + 1, id) \/ Closing(t, m + 1, id))
  \/ After(t, m)

Awake(t, m, id) == id = Now(t) /\ Stage(t, m, id) /\ \A u \in Tags \ {t} : Asleep(u)

AllAsleep(m) == (\A t \in Tags : Asleep(t)) /\ (m < N => Listening(m + 1))

Numbers(m, p, id) ==
  m \in 0..N /\ p \in 1..N /\ (p = 1 \/ p <= m) /\ id \in Ids \cup Unknown /\ (m > 0 => id \in Ids)

Ahead(p) == IF p >= 2 /\ radio[1] = "good" THEN p - 1 ELSE p

Session(m, p, id) ==
  /\ Numbers(m, p, id) /\ Chain(m, p, id) /\ Idle(m) /\ Seen(Ahead(p), id)
  /\ AllAsleep(m) \/ \E t \in Tags : Awake(t, m, id)

Ordered == \E m \in 0..N, p \in 1..N, id \in Ids \cup Unknown : Session(m, p, id)
Starts == received = {} \/ 2 \in received
OwnRange == \A a \in Anchors : range[a] = {} \/ \E id \in Ids : range[a] = {id}

RTLSInv == RTLSTypes /\ Ordered /\ Starts /\ OwnRange

----
(* The state has its shape *)

LEMMA NodeFacts ==
  /\ Nodes = Tags \cup Anchors /\ Tags \cap Anchors = {} /\ 1 \in Anchors /\ Anchors \subseteq Nat
  /\ TagAddress \notin Nodes /\ TagAddress \notin Anchors
BY RTLSAssumption DEF Nodes, Anchors, TagAddress

LEMMA RootType == \A n \in Nodes : Setup(n).pc \in PCs /\ Setup(n).radio \in Radios
BY DEF Setup, TagSetup, PrimarySetup, SecondarySetup, PCs, Radios

LEMMA TypesInit == ASSUME Init PROVE RTLSTypes
<1>1. pc \in [Nodes -> PCs] /\ radio \in [Nodes -> Radios]
  BY RootType DEF Init
<1>2. round \in [Tags -> 0..(Rounds - 1)]
  BY RTLSAssumption DEF Init
<1> QED BY <1>1, <1>2 DEF Init, RTLSTypes

LEMMA GotoTypes ==
  ASSUME RTLSTypes, NEW n \in Nodes, NEW at \in PCs, NEW r \in Radios, Goto(n, at, r)
  PROVE /\ pc' \in [Nodes -> PCs] /\ radio' \in [Nodes -> Radios]
        /\ inbox' = [k \in Nodes |-> inbox'[k]]
BY DEF RTLSTypes, Goto

LEMMA SentTypes == ASSUME RTLSTypes, NEW n \in Nodes, Sent(n) PROVE RTLSTypes'
<1>1. PICK S : radio' = [m \in Nodes |-> IF m \in S THEN "good"
                                    ELSE IF m # n THEN radio[m]
                                    ELSE IF pc[n] = "confirming" THEN "sent" ELSE "rx"]
               /\ inbox' = [m \in Nodes |-> IF m \in S THEN out[n] ELSE inbox[m]]
  BY DEF Sent
<1>2. radio' \in [Nodes -> Radios]
  BY <1>1 DEF RTLSTypes, Radios
<1> QED BY <1>1, <1>2 DEF Sent, RTLSTypes, results

LEMMA BlinkRound ==
  ASSUME RTLSTypes, NEW t \in Tags, Blink(t)
  PROVE /\ round' = [round EXCEPT ![t] = (round[t] + 1) % Rounds]
        /\ round' \in [Tags -> 0..(Rounds - 1)]
<1>0. round[t] \in 0..(Rounds - 1)
  BY DEF RTLSTypes
<1>1. round[t] \in Nat
  BY <1>0
<1>2. (round[t] + 1) % Rounds \in 0..(Rounds - 1)
  BY <1>1, RTLSAssumption
<1> QED BY <1>2 DEF Blink, RTLSTypes

LEMMA BlinkTypes == ASSUME RTLSTypes, NEW t \in Tags, Blink(t) PROVE RTLSTypes'
<1>1. round' \in [Tags -> 0..(Rounds - 1)]
  BY BlinkRound
<1>2. Goto(t, "request", "tx") /\ t \in Nodes /\ out' = [out EXCEPT ![t] = ShortBlink(t)]
  BY NodeFacts DEF Blink, Transmit
<1>3. pc' \in [Nodes -> PCs] /\ radio' \in [Nodes -> Radios] /\ inbox' = [k \in Nodes |-> inbox'[k]]
  BY <1>2, GotoTypes DEF PCs, Radios
<1> QED BY <1>1, <1>2, <1>3 DEF Blink, RTLSTypes, results

\* Every other step that is not a transmission goes through Goto.
LEMMA MoveTypes ==
  ASSUME RTLSTypes, NEW n \in Nodes, NEW at \in PCs, NEW r \in Radios, Goto(n, at, r),
         out' = out \/ \E f : out' = [out EXCEPT ![n] = f],
         round' = round, addressed' \subseteq Tags,
         pollReceived' = pollReceived \/ \E f : pollReceived' = [pollReceived EXCEPT ![n] = f],
         range' = range \/ \E f : range' = [range EXCEPT ![n] = f],
         collected' = collected \/ \E b, f : collected' = [collected EXCEPT ![b] = f]
  PROVE RTLSTypes'
<1>1. pc' \in [Nodes -> PCs] /\ radio' \in [Nodes -> Radios] /\ inbox' = [k \in Nodes |-> inbox'[k]]
  BY GotoTypes
<1>2. out' = [k \in Nodes |-> out'[k]]
  BY DEF RTLSTypes
<1>3. pollReceived' = [a \in Anchors |-> pollReceived'[a]]
  BY DEF RTLSTypes
<1>4. range' = [a \in Anchors |-> range'[a]]
  BY DEF RTLSTypes
<1>5. collected' = [a \in Anchors \ {1} |-> collected'[a]]
  BY DEF RTLSTypes
<1> QED BY <1>1, <1>2, <1>3, <1>4, <1>5 DEF RTLSTypes

LEMMA TagTypes ==
  ASSUME RTLSTypes, NEW t \in Tags, Requested(t) \/ PollAnswered(t) \/ Finished(t) \/ TagTimeout(t)
  PROVE RTLSTypes'
<1>1. PICK at \in PCs, r \in Radios : Goto(t, at, r) /\ (out' = out \/ \E f : out' = [out EXCEPT ![t] = f])
  BY DEF Requested, PollAnswered, Finished, TagTimeout, Sleep, TransmitPoll, Transmit, UninitialisedRange,
         UninitialisedRate, PCs, Radios
<1>2. /\ round' = round /\ addressed' \subseteq Tags /\ pollReceived' = pollReceived
      /\ range' = range /\ collected' = collected
  BY DEF Requested, PollAnswered, Finished, TagTimeout, UNCHANGEDbyTag, results, RTLSTypes
<1>3. t \in Nodes
  BY NodeFacts
<1> QED BY <1>1, <1>2, <1>3, MoveTypes

LEMMA AnchorTypes ==
  ASSUME RTLSTypes, NEW a \in Anchors,
         GotPoll(a) \/ GotFinal(a) \/ Ranged(a) \/ AnchorTimeout(a) \/ Report(a)
  PROVE RTLSTypes'
<1>0. a \in Nodes /\ Root(a) \in PCs
  BY NodeFacts, RootType DEF Root
<1>1. PICK at \in PCs, r \in Radios : Goto(a, at, r) /\ (out' = out \/ \E f : out' = [out EXCEPT ![a] = f])
  BY <1>0 DEF GotPoll, GotFinal, Ranged, AnchorTimeout, Report, Transmit, UninitialisedAccept, Refused,
         Accepted, Receive, PCs, Radios
<1>2. /\ round' = round /\ addressed' \subseteq Tags /\ collected' = collected
      /\ pollReceived' = pollReceived \/ \E f : pollReceived' = [pollReceived EXCEPT ![a] = f]
      /\ range' = range \/ \E f : range' = [range EXCEPT ![a] = f]
  BY DEF GotPoll, GotFinal, Ranged, AnchorTimeout, Report, UNCHANGEDbyAnchor, results, RTLSTypes,
         UninitialisedAccept, Refused, Accepted
<1> QED BY <1>0, <1>1, <1>2, MoveTypes

LEMMA PrimaryTypes == ASSUME RTLSTypes, PrimaryStep PROVE RTLSTypes'
<1>0. 1 \in Nodes
  BY NodeFacts
<1>1. PICK at \in PCs, r \in Radios : Goto(1, at, r) /\ (out' = out \/ \E f : out' = [out EXCEPT ![1] = f])
  BY DEF PrimaryStep, GotBlink, GotReport, GotOther, Transmit, Receive, PCs, Radios
<1>2. /\ round' = round /\ addressed' \subseteq Tags /\ pollReceived' = pollReceived /\ range' = range
      /\ collected' = collected \/ \E b, f : collected' = [collected EXCEPT ![b] = f]
  BY DEF PrimaryStep, GotBlink, GotReport, GotOther, UNCHANGEDbyAnchor, results, RTLSTypes
<1> QED BY <1>0, <1>1, <1>2, MoveTypes

LEMMA TypesNext == ASSUME RTLSTypes, [Next]_vars PROVE RTLSTypes'
<1>1. CASE \E n \in Nodes : Sent(n)
  BY <1>1, SentTypes
<1>2. CASE \E t \in Tags : Blink(t)
  BY <1>2, BlinkTypes
<1>3. CASE \E t \in Tags : Requested(t) \/ PollAnswered(t) \/ Finished(t) \/ TagTimeout(t)
  BY <1>3, TagTypes
<1>4. CASE \E a \in Anchors : GotPoll(a) \/ GotFinal(a) \/ Ranged(a) \/ AnchorTimeout(a) \/ Report(a)
  BY <1>4, AnchorTypes
<1>5. CASE PrimaryStep
  BY <1>5, PrimaryTypes
<1>6. CASE UNCHANGED vars
  BY <1>6 DEF vars, wait, results, RTLSTypes
<1> QED BY <1>1, <1>2, <1>3, <1>4, <1>5, <1>6, NodeFacts DEF Next, TagStep, AnchorStep

----
(* What a step leaves alone *)

Kept(n) == pc'[n] = pc[n] /\ radio'[n] = radio[n] /\ inbox'[n] = inbox[n] /\ out'[n] = out[n]
KeptAnchor(a) == Kept(a) /\ pollReceived'[a] = pollReceived[a] /\ range'[a] = range[a]
KeptReports == received' = received /\ collected' = collected /\ missed' = missed

LEMMA KeptBelow ==
  ASSUME NEW m, NEW p, NEW id, Numbers(m, p, id), Chain(m, p, id), Seen(Ahead(p), id),
         \A a \in 1..m : KeptAnchor(a), KeptReports
  PROVE Chain(m, p, id)' /\ Seen(Ahead(p), id)'
<1>0. m \in Nat /\ m <= N /\ p \in Nat /\ p >= 1 /\ (p = 1 \/ p <= m) /\ N \in Nat
  BY RTLSAssumption DEF Numbers
<1>1. ASSUME NEW a \in 1..m, Done(a, p, id) PROVE Done(a, p, id)'
  BY <1>0, <1>1 DEF Done, KeptAnchor, Kept
<1>2. Ready(m, p, id)'
  <2>1. CASE m >= 1
    <3>1. m \in 1..m /\ KeptAnchor(m)
      BY <2>1, <1>0
    <3>2. CASE Done(m, p, id)
      BY <3>1, <3>2, <1>1 DEF Ready
    <3>3. CASE (m = 1 \/ m > p) /\ Sure(m, id)
      BY <3>1, <3>3 DEF Ready, Sure, KeptAnchor, Kept
    <3> QED BY <2>1, <3>2, <3>3 DEF Chain, Ready
  <2> QED BY <2>1 DEF Ready
<1>3. Chain(m, p, id)'
  <2>1. \A a \in 1..(m - 1) : a \in 1..m
    BY <1>0
  <2> QED BY <1>1, <1>2, <2>1 DEF Chain
<1>4. Ahead(p)' = Ahead(p)
  <2>1. CASE p >= 2
    <3>1. 1 \in 1..m
      BY <1>0, <2>1
    <3> QED BY <3>1 DEF KeptAnchor, Kept, Ahead
  <2> QED BY <1>0, <2>1 DEF Ahead
<1>5. Seen(Ahead(p), id)'
  <2>1. PICK k : k = Ahead(p)
    OBVIOUS
  <2>2. Seen(k, id)'
    BY <2>1 DEF Seen, KeptReports
  <2> QED BY <1>4, <2>1, <2>2 DEF Seen
<1> QED BY <1>3, <1>5

LEMMA KeptAbove ==
  ASSUME NEW m, Idle(m), \A a \in (m + 2)..N : Kept(a)
  PROVE Idle(m)'
BY DEF Idle, Rest, Kept, Root, Setup, TagSetup, PrimarySetup, SecondarySetup

\* A node that is not asleep is the tag that is awake.
LEMMA TheTagAwake ==
  ASSUME NEW m, NEW p, NEW id, Session(m, p, id), NEW t \in Tags, ~Asleep(t)
  PROVE Awake(t, m, id)
BY DEF Session, AllAsleep, Awake

\* Session after a step in which the tag that is awake goes on.
LEMMA SessionGoesOn ==
  ASSUME NEW m, NEW p, NEW id, Numbers(m, p, id), Chain(m, p, id), Seen(Ahead(p), id), Idle(m),
         NEW t \in Tags, Awake(t, m, id), round' = round,
         \A a \in (1..m) \cup ((m + 2)..N) : KeptAnchor(a), KeptReports,
         \A u \in Tags \ {t} : Kept(u),
         Stage(t, m, id)' \/ (Asleep(t)' /\ (m < N => Listening(m + 1)'))
  PROVE Ordered'
<1>1. Chain(m, p, id)' /\ Seen(Ahead(p), id)'
  BY KeptBelow
<1>2. Idle(m)'
  BY KeptAbove DEF KeptAnchor
<1>3. \A u \in Tags \ {t} : Asleep(u)'
  BY DEF Awake, Asleep, Kept
<1>4. id = Now(t)'
  BY DEF Awake, Now
<1>5. (AllAsleep(m) \/ \E u \in Tags : Awake(u, m, id))'
  <2>1. CASE Stage(t, m, id)'
    BY <2>1, <1>3, <1>4 DEF Awake
  <2>2. CASE Asleep(t)' /\ (m < N => Listening(m + 1)')
    BY <2>2, <1>3 DEF AllAsleep, Listening
  <2> QED BY <2>1, <2>2
<1>6. Session(m, p, id)'
  BY <1>1, <1>2, <1>5 DEF Session, Numbers
<1> QED BY <1>6 DEF Ordered, Numbers

----
(* The steps of the tag *)

LEMMA NIsNat == N \in Nat /\ N >= 2
BY RTLSAssumption

LEMMA TagKeeps ==
  ASSUME RTLSTypes, NEW t \in Tags, NEW at, NEW r, Goto(t, at, r),
         out' = out \/ \E f : out' = [out EXCEPT ![t] = f],
         UNCHANGED <<pollReceived, results, missed>>
  PROVE /\ \A a \in Anchors : KeptAnchor(a)
        /\ \A u \in Tags \ {t} : Kept(u)
        /\ KeptReports
        /\ pc'[t] = at /\ radio'[t] = r
<1>1. t \in Nodes /\ t \notin Anchors /\ Anchors \subseteq Nodes /\ Tags \subseteq Nodes
  BY NodeFacts
<1>2. \A n \in Nodes : n # t => Kept(n)
  BY <1>1 DEF RTLSTypes, Goto, Kept
<1>3. pc'[t] = at /\ radio'[t] = r
  BY <1>1 DEF RTLSTypes, Goto
<1> QED BY <1>1, <1>2, <1>3 DEF KeptAnchor, KeptReports, results

LEMMA TagGoesOn ==
  ASSUME RTLSTypes, NEW m, NEW p, NEW id, Session(m, p, id), NEW t \in Tags, Awake(t, m, id),
         NEW at, NEW r, Goto(t, at, r), out' = out \/ \E f : out' = [out EXCEPT ![t] = f],
         round' = round, UNCHANGED <<pollReceived, results, missed>>,
         Stage(t, m, id)' \/ (at = "asleep" /\ r = "off" /\ (m < N => Listening(m + 1)))
  PROVE Ordered'
<1>1. m \in Nat /\ m <= N /\ N \in Nat
  BY NIsNat DEF Session, Numbers
<1>2. /\ \A a \in Anchors : KeptAnchor(a)
      /\ \A u \in Tags \ {t} : Kept(u)
      /\ KeptReports
      /\ pc'[t] = at /\ radio'[t] = r
  BY TagKeeps
<1>3. \A a \in (1..m) \cup ((m + 2)..N) : KeptAnchor(a)
  BY <1>1, <1>2 DEF Anchors
<1>4. ASSUME m < N, Listening(m + 1) PROVE Listening(m + 1)'
  <2>1. PICK a : a = m + 1
    OBVIOUS
  <2>2. a \in Anchors
    BY <1>1, <1>4, <2>1 DEF Anchors
  <2>3. Listening(a)'
    BY <1>2, <1>4, <2>1, <2>2 DEF Listening, KeptAnchor, Kept, Root, Setup
  <2> QED BY <2>1, <2>3
<1>5. Stage(t, m, id)' \/ (Asleep(t)' /\ (m < N => Listening(m + 1)'))
  BY <1>2, <1>4 DEF Asleep
<1> QED BY <1>2, <1>3, <1>5, SessionGoesOn DEF Session

\* In each stage, who else is ready when the tag has a frame or gives up.
LEMMA RequestedStep ==
  ASSUME RTLSTypes, NEW m, NEW p, NEW id, Session(m, p, id), NEW t \in Tags, Requested(t)
  PROVE Ordered'
<1>0. t \in Nodes /\ 1 \in Anchors /\ t # 1 /\ 1 \in Nodes /\ 1 \in Nat
  BY NodeFacts
<1>1. pc[t] = "request" /\ radio[t] = "good"
  BY DEF Requested, Got
<1>2. Awake(t, m, id)
  BY <1>1, TheTagAwake DEF Asleep
<1>3. m = 0 /\ inbox[t] = RangingInitiation(t) /\ pc[1] = "accept" /\ radio[1] = "rx"
  BY <1>1, <1>2 DEF Awake, Stage, Asking, Polled, Closing, After
<1>4. Transmit(t, Poll(t, 1), "polled") /\ round' = round /\ UNCHANGED <<pollReceived, results, missed>>
  BY <1>3 DEF Requested, RangingInitiation, TransmitPoll
<1>5. pc'[t] = "polled" /\ radio'[t] = "tx" /\ out'[t] = Poll(t, 1) /\ pc'[1] = "accept" /\ radio'[1] = "rx"
  BY <1>0, <1>3, <1>4 DEF RTLSTypes, Transmit, Goto
<1>6. Poll(t, 1)' = Poll(t, 1)
  BY <1>4 DEF Poll, Now
<1>7. Polled(t, 1, id)'
  BY <1>5, <1>6 DEF Polled
<1>8. Stage(t, m, id)'
  BY <1>3, <1>7, RTLSAssumption DEF Stage
<1> QED BY <1>2, <1>4, <1>8, TagGoesOn DEF Transmit

LEMMA PollAnsweredStep ==
  ASSUME RTLSTypes, NEW m, NEW p, NEW id, Session(m, p, id), NEW t \in Tags, PollAnswered(t)
  PROVE Ordered'
<1>1. pc[t] = "polled" /\ radio[t] = "good"
  BY DEF PollAnswered, Got
<1>2. Awake(t, m, id) /\ id = Now(t)
  BY <1>1, TheTagAwake DEF Asleep, Awake
<1>3. PICK a : a = m + 1
  OBVIOUS
<1>4. /\ m < N /\ a \in Anchors
      /\ inbox[t] = ResponseToPoll(a, id) /\ pollReceived[a] = {id} /\ pc[a] = "answered" /\ radio[a] = "rx"
  <2>1. m < N /\ Polled(t, a, id)
    BY <1>1, <1>2, <1>3 DEF Awake, Stage, Asking, Closing, After
  <2>2. a \in Anchors
    BY <2>1, <1>3, RTLSAssumption DEF Session, Numbers, Anchors
  <2> QED BY <1>1, <2>1, <2>2 DEF Polled
<1>0. t \in Nodes /\ a \in Nodes /\ a # t
  BY <1>4, NodeFacts
<1>5. Transmit(t, Final(a, id), "final") /\ round' = round /\ UNCHANGED <<pollReceived, results, missed>>
  BY <1>2, <1>4 DEF PollAnswered, ResponseToPoll, FinalMessage, Final, UNCHANGEDbyTag
<1>6. /\ pc'[t] = "final" /\ radio'[t] = "tx" /\ out'[t] = Final(a, id)
      /\ pc'[a] = "answered" /\ radio'[a] = "rx" /\ pollReceived'[a] = {id}
  BY <1>0, <1>4, <1>5 DEF RTLSTypes, Transmit, Goto
<1>7. Closing(t, a, id)'
  BY <1>6 DEF Closing, Final
<1>8. Stage(t, m, id)'
  BY <1>3, <1>4, <1>7 DEF Stage
<1> QED BY <1>2, <1>5, <1>8, TagGoesOn DEF Transmit

LEMMA FinishedStep ==
  ASSUME RTLSTypes, NEW m, NEW p, NEW id, Session(m, p, id), NEW t \in Tags, Finished(t)
  PROVE Ordered'
<1>1. pc[t] = "final" /\ radio[t] = "good"
  BY DEF Finished, Got
<1>2. Awake(t, m, id)
  BY <1>1, TheTagAwake DEF Asleep
<1>3. After(t, m) /\ inbox[t] = Activity(m)
  BY <1>1, <1>2 DEF Awake, Stage, Asking, Polled, Closing, After
<1>4. m \in Nat /\ m >= 1 /\ m <= N
  BY <1>3, NIsNat DEF After, Session, Numbers
<1>5. round' = round /\ UNCHANGED <<pollReceived, results, missed>>
  BY DEF Finished, UNCHANGEDbyTag
<1>6. CASE m < N
  <2>1. PICK a : a = m + 1
    OBVIOUS
  <2>2. a \in Anchors /\ a # 1 /\ a \in Nat /\ a <= N
    BY <1>4, <1>6, <2>1, NIsNat DEF Anchors
  <2>3. a \notin Tags /\ a \in Nodes /\ t \in Nodes
    BY <2>2, NodeFacts
  <2>4. pc[a] = "accept" /\ radio[a] = "rx"
    BY <1>3, <1>6, <2>1, <2>2, <2>3 DEF After, Rest, Root, Setup, SecondarySetup
  <2>5. inbox[t].kind = "CONFIRM" /\ inbox[t].next = a
    BY <1>3, <1>6, <2>1 DEF Activity, RangingConfirm
  <2>6. Transmit(t, Poll(t, a), "polled")
    BY <2>5 DEF Finished, TransmitPoll
  <2>7. /\ pc'[t] = "polled" /\ radio'[t] = "tx" /\ out'[t] = Poll(t, a)
        /\ pc'[a] = "accept" /\ radio'[a] = "rx"
    BY <2>2, <2>3, <2>4, <2>6 DEF RTLSTypes, Transmit, Goto
  <2>8. Poll(t, a)' = Poll(t, a)
    BY <1>5 DEF Poll, Now
  <2>9. Polled(t, a, id)'
    BY <2>7, <2>8 DEF Polled
  <2>10. Stage(t, m, id)'
    BY <1>6, <2>1, <2>9 DEF Stage
  <2> QED BY <1>2, <1>5, <2>6, <2>10, TagGoesOn DEF Transmit
<1>7. CASE ~(m < N)
  <2>1. inbox[t].kind = "FINISHED"
    BY <1>3, <1>4, <1>7, NIsNat DEF Activity, ActivityFinished
  <2>2. Sleep(t)
    BY <2>1 DEF Finished, UninitialisedRate
  <2> QED BY <1>2, <1>5, <1>7, <2>2, TagGoesOn DEF Sleep
<1> QED BY <1>6, <1>7

LEMMA TagTimeoutStep ==
  ASSUME RTLSTypes, NEW m, NEW p, NEW id, Session(m, p, id), ~Early, NEW t \in Tags, TagTimeout(t)
  PROVE Ordered'
<1>1. radio[t] = "rx" /\ Still
  BY DEF TagTimeout, TimesOut
<1>2. Awake(t, m, id)
  BY <1>1, TheTagAwake DEF Asleep
<1>3. m \in Nat /\ m <= N /\ N \in Nat /\ N >= 2
  BY NIsNat DEF Session, Numbers
<1>4. \A n \in Nodes : radio[n] \in {"off", "rx"}
  BY <1>1 DEF Still
<1>5. ASSUME m < N PROVE Listening(m + 1)
  <2>1. PICK a : a = m + 1
    OBVIOUS
  <2>2. a \in Anchors /\ a \in Nodes /\ t \in Nodes /\ 1 \in Nodes
    BY <1>3, <1>5, <2>1, NodeFacts DEF Anchors
  <2>3. CASE m = 0 /\ Asking(t)
    <3>1. Listening(1)
      BY <1>1, <1>4, <2>2, <2>3 DEF Asking
    <3> QED BY <2>3, <3>1
  <2>4. CASE Polled(t, a, id) \/ Closing(t, a, id)
    BY <1>1, <1>4, <2>1, <2>2, <2>4 DEF Polled, Closing
  <2>5. CASE After(t, m)
    BY <1>5, <2>5 DEF After, Rest, Listening
  <2> QED BY <1>2, <1>5, <2>1, <2>3, <2>4, <2>5 DEF Awake, Stage
<1>6. Sleep(t) /\ round' = round /\ UNCHANGED <<pollReceived, results, missed>>
  BY DEF TagTimeout, UNCHANGEDbyTag
<1> QED BY <1>2, <1>5, <1>6, TagGoesOn DEF Sleep

LEMMA SetupOfAnchors ==
  ASSUME NEW a \in Anchors
  PROVE a \notin Tags /\ a \in Nodes /\ a \in Nat /\ Root(a) = IF a = 1 THEN "loop" ELSE "accept"
BY NodeFacts DEF Root, Setup, PrimarySetup, SecondarySetup

LEMMA BlinkStep ==
  ASSUME RTLSTypes, NEW m, NEW p, NEW id, Session(m, p, id), Alone, NEW t \in Tags, Blink(t)
  PROVE Ordered'
<1>1. (\A a \in Anchors : Rest(a)) /\ \A u \in Tags : pc[u] = "asleep"
  BY DEF Blink
<1>2. \A u \in Tags : Asleep(u)
  BY <1>1, TheTagAwake DEF Awake, Stage, Asking, Polled, Closing, After
<1>3. Transmit(t, ShortBlink(t), "request") /\ UNCHANGED <<pollReceived, results, missed>>
  BY DEF Blink
<1>4. /\ \A a \in Anchors : KeptAnchor(a)
      /\ \A u \in Tags \ {t} : Kept(u)
      /\ pc'[t] = "request" /\ radio'[t] = "tx"
  BY <1>3, TagKeeps DEF Transmit
<1>5. out'[t] = ShortBlink(t)
  BY <1>3, NodeFacts DEF RTLSTypes, Transmit
<1>6. \A u \in Tags \ {t} : Asleep(u)'
  BY <1>2, <1>4 DEF Asleep, Kept
<1>7. \A a \in Anchors : Rest(a)'
  BY <1>1, <1>4 DEF Rest, KeptAnchor, Kept, Root, Setup
<1>8. Asking(t)'
  BY <1>4, <1>5, <1>7, NodeFacts DEF Asking, ShortBlink
<1>9. PICK new : new = Now(t)'
  OBVIOUS
<1>10. new \in Ids
  BY <1>9, BlinkRound DEF Now, Ids
<1>11. Numbers(0, 1, new)
  BY <1>10, NIsNat DEF Numbers
<1>12. Chain(0, 1, new)' /\ Seen(Ahead(1), new)'
  BY DEF Chain, Ready, Seen, Ahead
<1>13. Idle(0)'
  BY <1>7, NIsNat DEF Idle, Anchors
<1>14. Awake(t, 0, new)'
  BY <1>6, <1>8, <1>9 DEF Awake, Stage
<1>15. Session(0, 1, new)'
  BY <1>11, <1>12, <1>13, <1>14 DEF Session, Numbers
<1> QED BY <1>11, <1>15 DEF Ordered, Numbers

----
(* A frame on its way *)

\* What n has sent may have reached h and nobody else.
Delivered(n, h) ==
  /\ pc' = pc /\ inbox'[n] = inbox[n]
  /\ radio'[n] = IF pc[n] = "confirming" THEN "sent" ELSE "rx"
  /\ \A k \in Nodes \ {n} : out'[k] = out[k]
  /\ \A k \in Nodes \ {n, h} : radio'[k] = radio[k] /\ inbox'[k] = inbox[k]
  /\ \/ /\ radio'[h] = radio[h] /\ inbox'[h] = inbox[h]
        /\ out[n].kind \in Lost \/ radio[h] # "rx" \/ ~Accepts(h, out[n])
     \/ radio[h] = "rx" /\ radio'[h] = "good" /\ inbox'[h] = out[n]

LEMMA SentDelivers ==
  ASSUME RTLSTypes, NEW n \in Nodes, NEW h \in Nodes \ {n}, Sent(n),
         \A k \in Nodes : radio[k] = "rx" /\ Accepts(k, out[n]) => k = h
  PROVE Delivered(n, h)
<1> DEFINE hearers == {k \in Nodes : radio[k] = "rx" /\ Accepts(k, out[n])}
<1>1. PICK S \in IF out[n].kind \in Lost THEN SUBSET hearers ELSE {hearers} :
        /\ inbox' = [k \in Nodes |-> IF k \in S THEN out[n] ELSE inbox[k]]
        /\ radio' = [k \in Nodes |-> IF k \in S THEN "good"
                                    ELSE IF k # n THEN radio[k]
                                    ELSE IF pc[n] = "confirming" THEN "sent" ELSE "rx"]
  BY DEF Sent
<1>2. S \subseteq hearers /\ hearers \subseteq {h} /\ (out[n].kind \notin Lost => S = hearers)
  BY <1>1
<1>3. pc' = pc /\ out' = [out EXCEPT ![n] = Nothing]
  BY DEF Sent
<1>4. \A k \in Nodes \ {n} : out'[k] = out[k]
  BY <1>3 DEF RTLSTypes
<1>5. n \notin S /\ \A k \in Nodes \ {n, h} : k \notin S
  BY <1>2
<1>6. /\ inbox'[n] = inbox[n] /\ radio'[n] = IF pc[n] = "confirming" THEN "sent" ELSE "rx"
      /\ \A k \in Nodes \ {n, h} : radio'[k] = radio[k] /\ inbox'[k] = inbox[k]
  BY <1>1, <1>5
<1>7. CASE h \in S
  <2>1. radio[h] = "rx" /\ radio'[h] = "good" /\ inbox'[h] = out[n]
    BY <1>1, <1>2, <1>7
  <2> QED BY <1>3, <1>4, <1>6, <2>1 DEF Delivered
<1>8. CASE h \notin S
  <2>1. radio'[h] = radio[h] /\ inbox'[h] = inbox[h]
    BY <1>1, <1>8
  <2>2. out[n].kind \in Lost \/ radio[h] # "rx" \/ ~Accepts(h, out[n])
    BY <1>2, <1>8
  <2> QED BY <1>3, <1>4, <1>6, <2>1, <2>2 DEF Delivered
<1> QED BY <1>7, <1>8

LEMMA DeliveredKeeps ==
  ASSUME NEW n \in Nodes, NEW h \in Nodes, Delivered(n, h)
  PROVE \A k \in Nodes \ {n, h} : Kept(k)
BY DEF Delivered, Kept

\* Only a report of anchor 2 can be missed.
LEMMA SentMisses ==
  ASSUME RTLSTypes, NEW n \in Nodes, 1 \in Nodes, Sent(n)
  PROVE /\ n # 2 \/ out[n].kind # "REPORT" => missed' = missed
        /\ n = 2 /\ out[n].kind = "REPORT" /\ radio'[1] # "good" => missed'
BY DEF Sent

LEMMA SentByTag ==
  ASSUME RTLSTypes, NEW m, NEW p, NEW id, Session(m, p, id), NEW t \in Tags, Sent(t)
  PROVE Ordered'
<1>1. radio[t] = "tx"
  BY DEF Sent
<1>2. Awake(t, m, id) /\ id = Now(t)
  BY <1>1, TheTagAwake DEF Asleep, Awake
<1>3. m \in Nat /\ m <= N /\ N \in Nat /\ N >= 2
  BY NIsNat DEF Session, Numbers
<1>4. round' = round /\ UNCHANGED <<pollReceived, results>>
  BY DEF Sent
<1>5. PICK a : a = m + 1
  OBVIOUS
<1>6. m < N /\ ((m = 0 /\ Asking(t)) \/ Polled(t, a, id) \/ Closing(t, a, id))
  BY <1>1, <1>2, <1>3, <1>5 DEF Awake, Stage, After
<1>7. a \in Anchors /\ a \notin Tags /\ a \in Nodes /\ t \in Nodes /\ a # t /\ a # TagAddress
  BY <1>3, <1>5, <1>6, NodeFacts DEF Anchors
<1>8. \/ m = 0 /\ Asking(t) /\ out[t] = ShortBlink(t) /\ Rest(a)
      \/ out[t] = Poll(t, a) /\ pc[t] = "polled" /\ pc[a] = "accept" /\ radio[a] = "rx"
      \/ out[t] = Final(a, id) /\ pc[t] = "final" /\ pc[a] = "answered" /\ radio[a] = "rx" /\ pollReceived[a] = {id}
  BY <1>1, <1>5, <1>6 DEF Asking, Polled, Closing
<1>9. \A k \in Nodes : Accepts(k, out[t]) => k = a
  BY <1>5, <1>7, <1>8 DEF Accepts, ShortBlink, Poll, Final
<1>10. Delivered(t, a)
  BY <1>7, <1>9, SentDelivers
<1>11. /\ pc'[t] = pc[t] /\ pc'[a] = pc[a]
       /\ radio'[t] = IF pc[t] = "confirming" THEN "sent" ELSE "rx"
       /\ \/ radio'[a] = radio[a]
          \/ radio[a] = "rx" /\ radio'[a] = "good" /\ inbox'[a] = out[t]
  BY <1>7, <1>10 DEF Delivered
<1>12. Stage(t, m, id)'
  <2>1. CASE m = 0 /\ Asking(t) /\ out[t] = ShortBlink(t) /\ Rest(a)
    <3>1. a = 1 /\ pc[t] = "request" /\ pc[1] = "loop" /\ radio[1] = "rx" /\ 1 \in Anchors
      BY <1>5, <1>7, <2>1, SetupOfAnchors DEF Rest, Asking
    <3>2. Asking(t)'
      BY <1>11, <2>1, <3>1, SetupOfAnchors DEF Asking, Listening, Root, Setup, ShortBlink
    <3> QED BY <2>1, <3>2 DEF Stage
  <2>2. CASE out[t] = Poll(t, a) /\ pc[t] = "polled" /\ pc[a] = "accept" /\ radio[a] = "rx"
    <3>1. Poll(t, a)' = Poll(t, a)
      BY <1>4 DEF Poll, Now
    <3>2. Polled(t, a, id)'
      BY <1>11, <2>2, <3>1 DEF Polled, Listening
    <3> QED BY <1>5, <1>6, <3>2 DEF Stage
  <2>3. CASE /\ out[t] = Final(a, id) /\ pc[t] = "final" /\ pc[a] = "answered" /\ radio[a] = "rx"
             /\ pollReceived[a] = {id}
    <3>1. Closing(t, a, id)'
      BY <1>4, <1>11, <2>3 DEF Closing, Listening, Final
    <3> QED BY <1>5, <1>6, <3>1 DEF Stage
  <2> QED BY <1>8, <2>1, <2>2, <2>3
<1>13. \A k \in Nodes \ {t, a} : Kept(k)
  BY <1>7, <1>10, DeliveredKeeps
<1>14. \A b \in (1..m) \cup ((m + 2)..N) : b \in Nodes \ {t, a}
  BY <1>3, <1>5, <1>7, NodeFacts DEF Anchors
<1>15. \A b \in (1..m) \cup ((m + 2)..N) : KeptAnchor(b)
  BY <1>4, <1>13, <1>14 DEF KeptAnchor, results
<1>16. (\A u \in Tags \ {t} : Kept(u)) /\ KeptReports
  <2>1. out[t].kind # "REPORT"
    BY <1>8 DEF ShortBlink, Poll, Final
  <2>2. missed' = missed
    BY <1>7, <2>1, SentMisses, NodeFacts
  <2> QED BY <1>4, <1>7, <1>13, <2>2, NodeFacts DEF KeptReports, results
<1> QED BY <1>2, <1>4, <1>12, <1>15, <1>16, SessionGoesOn DEF Session

\* The anchor that the tag ranges with sends.
LEMMA SentByNext ==
  ASSUME RTLSTypes, NEW m, NEW p, NEW id, Session(m, p, id), Prompt,
         NEW a, a = m + 1, a \in Anchors, Sent(a)
  PROVE Ordered'
<1>1. radio[a] = "tx" /\ round' = round /\ UNCHANGED <<pollReceived, results>>
  BY DEF Sent
<1>2. m \in Nat /\ m < N /\ m <= N /\ N \in Nat /\ N >= 2 /\ a \in Nodes /\ a \notin Tags
  BY NIsNat, SetupOfAnchors DEF Session, Numbers, Anchors
<1>3. PICK t \in Tags : Awake(t, m, id)
  <2>1. ~AllAsleep(m)
    BY <1>1, <1>2 DEF AllAsleep, Listening
  <2> QED BY <2>1 DEF Session
<1>4. t \in Nodes /\ t # a /\ t # TagAddress
  BY <1>2, NodeFacts
<1>5. \/ m = 0 /\ pc[t] = "request" /\ out[a] = RangingInitiation(t) /\ pc[a] = "accept"
      \/ pc[t] = "polled" /\ out[a] = ResponseToPoll(a, id) /\ pc[a] = "answered" /\ pollReceived[a] = {id}
      \/ /\ pc[t] = "final" /\ out[a] = Activity(a) /\ pc[a] = "confirming" /\ pollReceived[a] = {id}
         /\ inbox[a] = Final(a, id)
  <2>1. CASE m = 0 /\ Asking(t)
    BY <1>1, <2>1 DEF Asking, Rest, Listening
  <2>2. CASE Polled(t, a, id)
    BY <1>1, <2>2 DEF Polled, Listening
  <2>3. CASE Closing(t, a, id)
    BY <1>1, <2>3 DEF Closing, Listening
  <2>4. ~After(t, m)
    BY <1>1, <1>2 DEF After, Rest
  <2> QED BY <1>3, <2>1, <2>2, <2>3, <2>4 DEF Awake, Stage
<1>6. radio[t] = "rx"
  <2>1. CASE m = 0 /\ Asking(t)
    BY <1>1, <2>1 DEF Asking, Rest, Listening
  <2>2. CASE Polled(t, a, id)
    BY <1>1, <2>2 DEF Polled, Listening
  <2>3. CASE Closing(t, a, id)
    BY <1>1, <2>3 DEF Closing, Listening
  <2>4. ~After(t, m)
    BY <1>1, <1>2 DEF After, Rest
  <2> QED BY <1>3, <2>1, <2>2, <2>3, <2>4 DEF Awake, Stage
<1>7. out[a].kind # "BLINK" /\ out[a].to \in {t, TagAddress}
  BY <1>5 DEF RangingInitiation, ResponseToPoll, Activity, RangingConfirm, ActivityFinished
<1>8. \A k \in Nodes : radio[k] = "rx" /\ Accepts(k, out[a]) => k = t
  <2>1. \A k \in Nodes : Accepts(k, out[a]) => k = t \/ k \in addressed
    BY <1>7, NodeFacts DEF Accepts
  <2>2. \A k \in addressed : k \in Tags
    BY DEF RTLSTypes
  <2>3. \A k \in Tags \ {t} : radio[k] = "off"
    BY <1>3 DEF Awake, Asleep
  <2> QED BY <2>1, <2>2, <2>3
<1>9. Delivered(a, t)
  BY <1>2, <1>4, <1>8, SentDelivers
<1>10. /\ pc'[t] = pc[t] /\ pc'[a] = pc[a] /\ inbox'[a] = inbox[a]
       /\ radio'[a] = IF pc[a] = "confirming" THEN "sent" ELSE "rx"
       /\ radio'[t] = "rx" \/ (radio'[t] = "good" /\ inbox'[t] = out[a])
  BY <1>4, <1>6, <1>9 DEF Delivered
<1>11. \A k \in Nodes \ {a, t} : Kept(k)
  BY <1>2, <1>4, <1>9, DeliveredKeeps
<1>12. \A b \in (1..m) \cup ((m + 2)..N) : b \in Nodes \ {a, t}
  BY <1>2, <1>4, NodeFacts DEF Anchors
<1>13. \A b \in (1..m) \cup ((m + 2)..N) : KeptAnchor(b)
  BY <1>1, <1>11, <1>12 DEF KeptAnchor, results
<1>14. (\A u \in Tags \ {t} : Kept(u)) /\ KeptReports
  <2>1. out[a].kind # "REPORT"
    BY <1>5 DEF RangingInitiation, ResponseToPoll, Activity, RangingConfirm, ActivityFinished
  <2>2. missed' = missed
    BY <1>2, <2>1, SentMisses, NodeFacts
  <2> QED BY <1>1, <1>2, <1>4, <1>11, <2>2, NodeFacts DEF KeptReports, results
<1>15. CASE m = 0 /\ pc[t] = "request" /\ out[a] = RangingInitiation(t) /\ pc[a] = "accept"
  <2>1. a = 1
    BY <1>15
  <2>2. Asking(t)'
    BY <1>10, <1>15, <2>1 DEF Asking, Listening, RangingInitiation
  <2>3. Stage(t, m, id)'
    BY <1>15, <2>2 DEF Stage
  <2> QED BY <1>1, <1>3, <1>13, <1>14, <2>3, SessionGoesOn DEF Session
<1>16. CASE pc[t] = "polled" /\ out[a] = ResponseToPoll(a, id) /\ pc[a] = "answered" /\ pollReceived[a] = {id}
  <2>1. pollReceived'[a] = {id}
    BY <1>1, <1>16
  <2>2. Polled(t, a, id)'
    BY <1>10, <1>16, <2>1 DEF Polled, Listening, ResponseToPoll
  <2>3. Stage(t, m, id)'
    BY <1>2, <2>2 DEF Stage
  <2> QED BY <1>1, <1>3, <1>13, <1>14, <2>3, SessionGoesOn DEF Session
<1>17. CASE /\ pc[t] = "final" /\ out[a] = Activity(a) /\ pc[a] = "confirming" /\ pollReceived[a] = {id}
            /\ inbox[a] = Final(a, id)
  <2>1. Sure(a, id)'
    BY <1>1, <1>10, <1>17 DEF Sure, Final
  <2>2. id = Now(t) /\ id \in Ids /\ m \in 0..N /\ p \in 1..N /\ p \in Nat /\ (p = 1 \/ p <= m)
    BY <1>2, <1>3 DEF Awake, Now, Ids, RTLSTypes, Session, Numbers
  <2>3. Numbers(a, p, id)
    BY <1>2, <2>2 DEF Numbers
  <2>4. Ready(a, p, id)'
    BY <1>2, <2>1, <2>2 DEF Ready
  <2>5. Chain(m, p, id)' /\ Seen(Ahead(p), id)'
    BY <1>13, <1>14, KeptBelow DEF Session
  <2>6. ASSUME m >= 1 PROVE Done(m, p, id)'
    <3>1. m \in Nodes \ {a, t}
      BY <1>2, <1>12, <2>6
    <3>2. radio[m] # "sent"
      BY <3>1 DEF Sent, Meanwhile
    <3>3. radio'[m] # "sent"
      BY <3>1, <3>2, <1>11 DEF Kept
    <3> QED BY <2>5, <2>6, <3>3 DEF Chain, Ready, Sure
  <2>7. \A b \in 1..(a - 1) : Done(b, p, id)'
    <3>1. \A b \in 1..(a - 1) : b \in 1..(m - 1) \/ (b = m /\ m >= 1)
      BY <1>2
    <3> QED BY <2>5, <2>6, <3>1 DEF Chain
  <2>8. Chain(a, p, id)'
    BY <2>4, <2>7 DEF Chain
  <2>9. Idle(m)'
    BY <1>13, KeptAbove DEF Session, KeptAnchor
  <2>10. Idle(a)' /\ (a < N => Rest(a + 1)')
    BY <1>2, <2>9 DEF Idle
  <2>11. After(t, a)'
    BY <1>2, <1>10, <1>17, <2>10 DEF After, Activity, RangingConfirm, ActivityFinished
  <2>12. \A u \in Tags \ {t} : Asleep(u)'
    BY <1>3, <1>14 DEF Awake, Asleep, Kept
  <2>13. id = Now(t)'
    BY <1>1, <2>2 DEF Now
  <2>14. Awake(t, a, id)'
    BY <2>11, <2>12, <2>13 DEF Awake, Stage
  <2>15. Session(a, p, id)'
    BY <2>3, <2>5, <2>8, <2>10, <2>14 DEF Session, Numbers
  <2> QED BY <2>3, <2>15 DEF Ordered, Numbers
<1> QED BY <1>5, <1>15, <1>16, <1>17

\* The others stay as they are when an anchor that has finished goes on.
LEMMA OthersKept ==
  ASSUME NEW m, NEW id, m \in 0..N, AllAsleep(m) \/ \E t \in Tags : Awake(t, m, id),
         \A u \in Tags : Kept(u), m < N => KeptAnchor(m + 1), round' = round
  PROVE (AllAsleep(m) \/ \E t \in Tags : Awake(t, m, id))'
<1>1. CASE AllAsleep(m)
  <2>1. AllAsleep(m)'
    BY <1>1 DEF AllAsleep, Asleep, Kept, KeptAnchor, Listening, Root, Setup
  <2> QED BY <2>1
<1>2. ASSUME NEW t \in Tags, Awake(t, m, id) PROVE Awake(t, m, id)'
  <2>1. id = Now(t)' /\ \A a : Poll(t, a)' = Poll(t, a)
    BY <1>2 DEF Awake, Now, Poll
  <2>2. \A u \in Tags \ {t} : Asleep(u)'
    BY <1>2 DEF Awake, Asleep, Kept
  <2>3. CASE m = 0 /\ Asking(t)
    <3>1. Kept(1)
      BY <2>3, NIsNat DEF KeptAnchor
    <3>2. Asking(t)'
      BY <2>3, <3>1 DEF Asking, Kept, Rest, Listening, Root, Setup, ShortBlink, RangingInitiation
    <3> QED BY <2>1, <2>2, <2>3, <3>2 DEF Awake, Stage
  <2>4. CASE m < N /\ (Polled(t, m + 1, id) \/ Closing(t, m + 1, id))
    <3>1. PICK a : a = m + 1
      OBVIOUS
    <3>2. KeptAnchor(a) /\ Kept(t)
      BY <2>4, <3>1
    <3>3. CASE Polled(t, a, id)
      <4>1. Polled(t, a, id)'
        BY <2>1, <3>2, <3>3 DEF Polled, Kept, KeptAnchor, Listening, Root, Setup, ResponseToPoll
      <4> QED BY <2>1, <2>2, <2>4, <3>1, <4>1 DEF Awake, Stage
    <3>4. CASE Closing(t, a, id)
      <4>1. Closing(t, a, id)'
        BY <3>2, <3>4 DEF Closing, Kept, KeptAnchor, Listening, Root, Setup, Activity, RangingConfirm, ActivityFinished, Final
      <4> QED BY <2>1, <2>2, <2>4, <3>1, <4>1 DEF Awake, Stage
    <3> QED BY <2>4, <3>1, <3>3, <3>4
  <2>5. CASE After(t, m)
    <3>1. After(t, m)'
      BY <2>5 DEF After, Kept, KeptAnchor, Rest, Root, Setup, Activity, RangingConfirm, ActivityFinished
    <3> QED BY <2>1, <2>2, <3>1 DEF Awake, Stage
  <2> QED BY <1>2, <2>3, <2>4, <2>5 DEF Awake, Stage
<1> QED BY <1>1, <1>2

\* An anchor that has finished sends its report.
LEMMA SentByDone ==
  ASSUME RTLSTypes, NEW m, NEW p, NEW id, Session(m, p, id), Prompt,
         NEW a \in 1..m, Sent(a)
  PROVE Ordered'
<1>1. radio[a] = "tx" /\ round' = round /\ UNCHANGED <<pollReceived, results>>
  BY DEF Sent
<1>2. /\ m \in Nat /\ m <= N /\ N \in Nat /\ N >= 2 /\ p \in Nat /\ p >= 1 /\ id \in Ids
      /\ a \in Nat /\ a <= m /\ a >= 1
  BY NIsNat DEF Session, Numbers
<1>3. \A b \in 1..m : b \in Anchors /\ b \in Nodes /\ b \notin Tags
  BY <1>2, NodeFacts DEF Anchors
<1>4. \A b \in 1..m : radio[b] # "sent" => Done(b, p, id)
  <2>1. \A b \in 1..m : b \in 1..(m - 1) \/ (b = m /\ m >= 1)
    BY <1>2
  <2> QED BY <2>1 DEF Session, Chain, Ready, Sure
<1>5. /\ a > 1 /\ a = p + 1 /\ pc[a] = "accept" /\ out[a] = ReportOf(a, id)
  BY <1>1, <1>4 DEF Done
<1>6. \A b \in 1..m : b # a => radio[b] \notin {"good", "sent"}
  BY <1>3 DEF Sent, Meanwhile
<1>7. 1 \in 1..m /\ 1 # a /\ 1 \in Nodes
  BY <1>2, <1>3, <1>5
<1>8. range[1] = {id} /\ pc[1] = "loop" /\ radio[1] = "rx"
  BY <1>2, <1>4, <1>6, <1>7 DEF Done
<1>9. \A k \in Nodes : Accepts(k, out[a]) <=> k = 1
  <2>1. 1 # TagAddress
    BY NodeFacts
  <2> QED BY <1>5, <2>1 DEF Accepts, ReportOf
<1>10. Delivered(a, 1)
  BY <1>3, <1>7, <1>9, SentDelivers
<1>11. /\ pc' = pc /\ radio'[a] = "rx"
       /\ \/ radio'[1] = "good" /\ inbox'[1] = ReportOf(a, id)
          \/ radio'[1] = "rx"
  BY <1>5, <1>8, <1>10 DEF Delivered
<1>12. \A k \in Nodes \ {a, 1} : Kept(k)
  BY <1>3, <1>7, <1>10, DeliveredKeeps
<1>13. range' = range /\ received' = received /\ collected' = collected
  BY <1>1 DEF results
<1>14. Done(a, a, id)' /\ Done(1, a, id)'
  <2>1. range[a] = {id}
    BY <1>1, <1>4 DEF Done
  <2>2. a \in 2..a /\ a >= 2
    BY <1>2, <1>5
  <2> QED BY <1>5, <1>8, <1>11, <1>13, <2>1, <2>2 DEF Done, ReportOf
<1>15. ASSUME NEW b \in 1..m, Done(b, p, id) PROVE Done(b, a, id)'
  <2>1. CASE b \in {1, a}
    BY <1>14, <2>1
  <2>2. CASE b \notin {1, a}
    <3>1. Kept(b) /\ b \in Nat /\ b > 1
      BY <1>2, <1>3, <1>12, <2>2
    <3>2. range[b] = {id} /\ ((b \in 2..p /\ pc[b] = "accept" /\ radio[b] = "rx")
                                \/ (b > p /\ pc[b] = "reporting" /\ radio[b] = "off"))
      BY <1>2, <1>5, <1>15, <2>2, <3>1 DEF Done
    <3>3. (b \in 2..p => b \in 2..a) /\ (b > p => b > a)
      BY <1>2, <1>5, <2>2, <3>1
    <3> QED BY <1>13, <3>1, <3>2, <3>3 DEF Done, Kept
  <2> QED BY <2>1, <2>2
<1>16. Ready(m, a, id)'
  <2>1. m \in 1..m
    BY <1>2
  <2>2. CASE Done(m, p, id)
    BY <1>15, <2>1, <2>2 DEF Ready
  <2>3. CASE (m = 1 \/ m > p) /\ Sure(m, id)
    <3>1. m = a
      BY <1>6, <2>1, <2>3 DEF Sure
    <3> QED BY <1>14, <3>1 DEF Ready
  <2> QED BY <1>2, <2>2, <2>3 DEF Session, Chain, Ready
<1>17. Chain(m, a, id)'
  <2>1. \A b \in 1..(m - 1) : b \in 1..m
    BY <1>2
  <2> QED BY <1>15, <1>16, <2>1 DEF Session, Chain
<1>18. Seen(Ahead(a), id)'
  <2>1. Ahead(p) = p /\ Seen(p, id)
    BY <1>8 DEF Ahead, Session
  <2>2. a # 2 => missed' = missed
    BY <1>3, <1>7, SentMisses
  <2>3. CASE radio'[1] = "good"
    <3>1. Ahead(a)' = p
      BY <1>2, <1>5, <2>3 DEF Ahead
    <3>2. Seen(p, id)'
      BY <1>2, <1>5, <1>13, <2>1, <2>2 DEF Seen
    <3> QED BY <3>1, <3>2 DEF Seen
  <2>4. CASE radio'[1] = "rx"
    <3>1. Ahead(a)' = a
      BY <2>4 DEF Ahead
    <3>2. a = 2 => missed'
      BY <1>3, <1>5, <1>7, <2>4, SentMisses DEF ReportOf
    <3>3. a # 2 => p >= 2
      BY <1>2, <1>5
    <3>4. \A j \in 2..p : j \in 2..a
      BY <1>2, <1>5
    <3>5. Seen(a, id)'
      BY <1>13, <2>1, <2>2, <3>2, <3>3, <3>4 DEF Seen
    <3> QED BY <3>1, <3>5 DEF Seen
  <2> QED BY <1>11, <2>3, <2>4
<1>19. Idle(m)'
  <2>1. \A b \in (m + 2)..N : b \in Nodes \ {a, 1}
    BY <1>2, NodeFacts DEF Anchors
  <2> QED BY <1>12, <2>1, KeptAbove DEF Session
<1>20. (AllAsleep(m) \/ \E t \in Tags : Awake(t, m, id))'
  <2>1. \A u \in Tags : Kept(u)
    BY <1>3, <1>7, <1>12, NodeFacts
  <2>2. m < N => KeptAnchor(m + 1)
    <3>1. m < N => m + 1 \in Nodes \ {a, 1}
      BY <1>2, <1>7, NodeFacts DEF Anchors
    <3> QED BY <1>1, <1>12, <1>13, <3>1 DEF KeptAnchor
  <2> QED BY <1>1, <2>1, <2>2, OthersKept DEF Session, Numbers
<1>21. Numbers(m, a, id)
  BY <1>2, <1>5 DEF Session, Numbers
<1>22. Session(m, a, id)'
  BY <1>17, <1>18, <1>19, <1>20, <1>21 DEF Session, Numbers
<1> QED BY <1>21, <1>22 DEF Ordered, Numbers

LEMMA SentStep ==
  ASSUME RTLSTypes, NEW m, NEW p, NEW id, Session(m, p, id), Prompt,
         NEW n \in Nodes, Sent(n)
  PROVE Ordered'
<1>1. m \in Nat /\ N \in Nat
  BY NIsNat DEF Session, Numbers
<1>2. CASE n \in Tags
  BY <1>2, SentByTag
<1>3. CASE n \in Anchors /\ n = m + 1
  BY <1>3, SentByNext
<1>4. CASE n \in 1..m
  BY <1>4, SentByDone
<1>5. CASE n \in (m + 2)..N
  BY <1>5 DEF Session, Idle, Rest, Sent
<1>6. n \in Anchors => n = m + 1 \/ n \in 1..m \/ n \in (m + 2)..N
  BY <1>1 DEF Anchors
<1> QED BY <1>2, <1>3, <1>4, <1>5, <1>6, NodeFacts

----
(* The steps of the anchors *)

LEMMA AnchorKeeps ==
  ASSUME RTLSTypes, NEW a \in Anchors, NEW at, NEW r, Goto(a, at, r),
         out' = out \/ \E f : out' = [out EXCEPT ![a] = f],
         pollReceived' = pollReceived \/ \E f : pollReceived' = [pollReceived EXCEPT ![a] = f],
         range' = range \/ \E f : range' = [range EXCEPT ![a] = f]
  PROVE /\ \A n \in Nodes \ {a} : Kept(n)
        /\ \A b \in Anchors \ {a} : KeptAnchor(b)
        /\ \A u \in Tags : Kept(u)
        /\ pc'[a] = at /\ radio'[a] = r
<1>1. a \in Nodes /\ a \notin Tags /\ Anchors \subseteq Nodes /\ Tags \subseteq Nodes
  BY NodeFacts
<1>2. \A n \in Nodes \ {a} : Kept(n)
  BY <1>1 DEF RTLSTypes, Goto, Kept
<1>3. pc'[a] = at /\ radio'[a] = r
  BY <1>1 DEF RTLSTypes, Goto
<1>4. \A b \in Anchors \ {a} : pollReceived'[b] = pollReceived[b] /\ range'[b] = range[b]
  BY DEF RTLSTypes
<1> QED BY <1>1, <1>2, <1>3, <1>4 DEF KeptAnchor

\* Where an anchor is that has finished, and the one that is next is the only
\* other that may be away from the root of its loop.
LEMMA AwayFromRoot ==
  ASSUME RTLSTypes, NEW m, NEW p, NEW id, Session(m, p, id), NEW a \in Anchors
  PROVE \/ a = m + 1 /\ m < N
        \/ a \in 1..m /\ (Done(a, p, id) \/ (a = m /\ (m = 1 \/ m > p) /\ Sure(m, id)))
        \/ a \in (m + 2)..N /\ Rest(a)
<1>1. m \in Nat /\ m <= N /\ N \in Nat
  BY NIsNat DEF Session, Numbers
<1>2. a \in 1..m => a \in 1..(m - 1) \/ (a = m /\ m >= 1)
  BY <1>1
<1>3. (a = m + 1 /\ m < N) \/ a \in 1..m \/ a \in (m + 2)..N
  BY <1>1 DEF Anchors
<1> QED BY <1>2, <1>3 DEF Session, Chain, Ready, Idle

\* The anchor that the tag ranges with goes on.
LEMMA NextGoesOn ==
  ASSUME RTLSTypes, NEW m, NEW p, NEW id, Session(m, p, id),
         NEW a, a = m + 1, a \in Anchors, NEW at, NEW r, Goto(a, at, r),
         out' = out \/ \E f : out' = [out EXCEPT ![a] = f],
         pollReceived' = pollReceived \/ \E f : pollReceived' = [pollReceived EXCEPT ![a] = f],
         range' = range, round' = round, KeptReports,
         \/ AllAsleep(m) /\ Listening(a)'
         \/ \E t \in Tags : Awake(t, m, id) /\ Stage(t, m, id)'
  PROVE Ordered'
<1>1. m \in Nat /\ m < N /\ N \in Nat
  BY NIsNat DEF Session, Numbers, Anchors
<1>2. /\ \A b \in Anchors \ {a} : KeptAnchor(b)
      /\ \A u \in Tags : Kept(u)
  BY AnchorKeeps
<1>3. \A b \in (1..m) \cup ((m + 2)..N) : KeptAnchor(b)
  BY <1>1, <1>2 DEF Anchors
<1>4. CASE \E t \in Tags : Awake(t, m, id) /\ Stage(t, m, id)'
  BY <1>2, <1>3, <1>4, SessionGoesOn DEF Session
<1>5. CASE AllAsleep(m) /\ Listening(a)'
  <2>1. Chain(m, p, id)' /\ Seen(Ahead(p), id)'
    BY <1>3, KeptBelow DEF Session
  <2>2. Idle(m)'
    BY <1>3, KeptAbove DEF Session, KeptAnchor
  <2>3. AllAsleep(m)'
    BY <1>2, <1>5 DEF AllAsleep, Asleep, Kept
  <2>4. Session(m, p, id)'
    BY <2>1, <2>2, <2>3 DEF Session, Numbers
  <2> QED BY <2>4 DEF Ordered, Session, Numbers
<1> QED BY <1>4, <1>5

LEMMA GotPollStep ==
  ASSUME RTLSTypes, NEW m, NEW p, NEW id, Session(m, p, id), NEW a \in Anchors, GotPoll(a)
  PROVE Ordered' /\ range' = range
<1>1. pc[a] = "accept" /\ radio[a] = "good"
  BY DEF GotPoll, Got
<1>2. a = m + 1 /\ m < N
  BY <1>1, AwayFromRoot DEF Done, Sure, Rest
<1>3. PICK t \in Tags : Awake(t, m, id)
  BY <1>1, <1>2 DEF Session, AllAsleep, Listening
<1>4. Polled(t, a, id) /\ inbox[a] = Poll(t, a) /\ radio[t] = "rx" /\ pc[t] = "polled"
  <2>1. ~(m = 0 /\ Asking(t))
    BY <1>1, <1>2 DEF Asking, Rest, Listening
  <2>2. ~Closing(t, a, id)
    BY <1>1 DEF Closing, Listening
  <2>3. ~After(t, m)
    BY <1>1, <1>2 DEF After, Rest
  <2>4. Polled(t, a, id)
    BY <1>2, <1>3, <2>1, <2>2, <2>3 DEF Awake, Stage
  <2> QED BY <1>1, <2>4 DEF Polled, Listening
<1>5. inbox[a].kind = "POLL" /\ inbox[a].sent = id
  BY <1>3, <1>4 DEF Poll, Awake
<1>6. /\ pollReceived' = [pollReceived EXCEPT ![a] = {id}]
      /\ Transmit(a, ResponseToPoll(a, id), "answered") /\ range' = range
      /\ KeptReports /\ round' = round
  BY <1>5 DEF GotPoll, UNCHANGEDbyAnchor, KeptReports
<1>7. a \in Nodes /\ t \in Nodes /\ a # t
  BY NodeFacts
<1>8. /\ pollReceived'[a] = {id} /\ pc'[a] = "answered" /\ radio'[a] = "tx" /\ out'[a] = ResponseToPoll(a, id)
      /\ pc'[t] = "polled" /\ radio'[t] = "rx"
  BY <1>4, <1>6, <1>7 DEF RTLSTypes, Transmit, Goto
<1>9. Polled(t, a, id)'
  BY <1>8 DEF Polled, ResponseToPoll
<1>10. Stage(t, m, id)'
  BY <1>2, <1>9 DEF Stage
<1> QED BY <1>2, <1>3, <1>6, <1>10, NextGoesOn DEF Transmit

LEMMA GotFinalStep ==
  ASSUME RTLSTypes, NEW m, NEW p, NEW id, Session(m, p, id), NEW a \in Anchors, GotFinal(a)
  PROVE Ordered' /\ range' = range
<1>1. pc[a] = "answered" /\ radio[a] = "good"
  BY DEF GotFinal, Got
<1>2. a = m + 1 /\ m < N
  BY <1>1, AwayFromRoot, SetupOfAnchors DEF Done, Sure, Rest
<1>3. PICK t \in Tags : Awake(t, m, id)
  BY <1>1, <1>2 DEF Session, AllAsleep, Listening
<1>4. /\ inbox[a] = Final(a, id) /\ radio[t] = "rx" /\ pc[t] = "final" /\ pollReceived[a] = {id}
  <2>1. ~(m = 0 /\ Asking(t))
    BY <1>1, <1>2 DEF Asking, Rest, Listening
  <2>2. ~Polled(t, a, id)
    BY <1>1 DEF Polled, Listening
  <2>3. ~After(t, m)
    BY <1>1, <1>2 DEF After, Rest
  <2>4. Closing(t, a, id)
    BY <1>2, <1>3, <2>1, <2>2, <2>3 DEF Awake, Stage
  <2> QED BY <1>1, <2>4 DEF Closing, Listening
<1>5. inbox[a].kind = "FINAL"
  BY <1>4 DEF Final
<1>6. /\ Transmit(a, Activity(a), "confirming") /\ UNCHANGED <<range, pollReceived>>
      /\ KeptReports /\ round' = round
  BY <1>5 DEF GotFinal, UNCHANGEDbyAnchor, KeptReports
<1>7. a \in Nodes /\ t \in Nodes /\ a # t
  BY NodeFacts
<1>8. /\ pollReceived'[a] = {id} /\ pc'[a] = "confirming" /\ radio'[a] = "tx" /\ out'[a] = Activity(a)
      /\ inbox'[a] = Final(a, id) /\ pc'[t] = "final" /\ radio'[t] = "rx"
  BY <1>4, <1>6, <1>7 DEF RTLSTypes, Transmit, Goto
<1>9. Closing(t, a, id)'
  BY <1>8 DEF Closing, Final, Activity, RangingConfirm, ActivityFinished
<1>10. Stage(t, m, id)'
  BY <1>2, <1>9 DEF Stage
<1> QED BY <1>2, <1>3, <1>6, <1>10, NextGoesOn DEF Transmit

LEMMA AnchorTimeoutStep ==
  ASSUME RTLSTypes, NEW m, NEW p, NEW id, Session(m, p, id), ~Early, NEW a \in Anchors, AnchorTimeout(a)
  PROVE Ordered' /\ range' = range
<1>1. radio[a] = "rx" /\ Still /\ pc[a] # Root(a)
  BY DEF AnchorTimeout, TimesOut
<1>2. a = m + 1 /\ m < N
  BY <1>1, AwayFromRoot, SetupOfAnchors DEF Done, Sure, Rest
<1>3. /\ Goto(a, Root(a), "rx") /\ out' = out /\ pollReceived' = [pollReceived EXCEPT ![a] = NoRange]
      /\ range' = range /\ round' = round /\ KeptReports
  BY DEF AnchorTimeout, Refused, Receive, UNCHANGEDbyAnchor, KeptReports
<1>4. \A n \in Nodes : radio[n] \in {"off", "rx"}
  BY <1>1 DEF Still
<1>5. pc'[a] = Root(a) /\ radio'[a] = "rx" /\ \A u \in Tags : Kept(u)
  BY <1>3, AnchorKeeps
<1>6. Listening(a)'
  BY <1>5 DEF Listening, Root, Setup
<1>7. ASSUME NEW t \in Tags, Awake(t, m, id) PROVE Stage(t, m, id)'
  <2>1. t \in Nodes /\ 1 \in Nodes /\ a \in Nodes
    BY NodeFacts
  <2>2. CASE m = 0 /\ Asking(t)
    <3>1. a = 1
      BY <1>2, <2>2
    <3>2. pc[t] = "request" /\ radio[t] = "rx"
      BY <1>4, <2>1, <2>2 DEF Asking
    <3>3. Asking(t)'
      BY <1>5, <1>6, <3>1, <3>2 DEF Asking, Kept
    <3> QED BY <2>2, <3>3 DEF Stage
  <2>3. CASE Polled(t, a, id)
    <3>1. pc[t] = "polled" /\ radio[t] = "rx"
      BY <1>4, <2>1, <2>3 DEF Polled
    <3>2. Polled(t, a, id)'
      BY <1>5, <1>6, <3>1 DEF Polled, Kept
    <3> QED BY <1>2, <3>2 DEF Stage
  <2>4. CASE Closing(t, a, id)
    <3>1. pc[t] = "final" /\ radio[t] = "rx"
      BY <1>4, <2>1, <2>4 DEF Closing
    <3>2. Closing(t, a, id)'
      BY <1>5, <1>6, <3>1 DEF Closing, Kept
    <3> QED BY <1>2, <3>2 DEF Stage
  <2>5. ~After(t, m)
    BY <1>1, <1>2 DEF After, Rest
  <2> QED BY <1>2, <1>7, <2>2, <2>3, <2>4, <2>5 DEF Awake, Stage
<1> QED BY <1>2, <1>3, <1>6, <1>7, NextGoesOn DEF Session

LEMMA RangedStep ==
  ASSUME RTLSTypes, NEW m, NEW p, NEW id, Session(m, p, id), NEW a \in Anchors, Ranged(a), OwnRange
  PROVE Ordered' /\ OwnRange'
<1>1. pc[a] = "confirming" /\ radio[a] = "sent" /\ round' = round /\ KeptReports
  BY DEF Ranged, UNCHANGEDbyAnchor, KeptReports
<1>2. /\ m \in Nat /\ m <= N /\ N \in Nat /\ N >= 2 /\ p \in Nat /\ p >= 1 /\ (p = 1 \/ p <= m)
  BY NIsNat DEF Session, Numbers
<1>3. a = m /\ m >= 1 /\ (m = 1 \/ m > p) /\ inbox[a] = Final(a, id) /\ pollReceived[a] = {id} /\ id \in Ids
  <2>1. ~(a = m + 1 /\ m < N)
    <3>1. ~AllAsleep(m) \/ ~(a = m + 1 /\ m < N)
      BY <1>1 DEF AllAsleep, Listening
    <3>2. ASSUME a = m + 1, m < N, NEW t \in Tags, Awake(t, m, id) PROVE FALSE
      <4>1. ~(m = 0 /\ Asking(t))
        BY <1>1, <3>2 DEF Asking, Rest, Listening
      <4>2. ~Polled(t, a, id) /\ ~Closing(t, a, id)
        BY <1>1 DEF Polled, Closing, Listening
      <4>3. ~After(t, m)
        BY <1>1, <3>2 DEF After, Rest
      <4> QED BY <3>2, <4>1, <4>2, <4>3 DEF Awake, Stage
    <3> QED BY <3>1, <3>2 DEF Session
  <2>2. a = m /\ a \in 1..m /\ (m = 1 \/ m > p) /\ Sure(m, id)
    BY <1>1, <2>1, AwayFromRoot DEF Done, Rest
  <2> QED BY <1>2, <2>2 DEF Sure, Session, Numbers
<1>4. Accepted(a, {id})
  <2>1. pollReceived[a] \cup {inbox[a].pollSent, inbox[a].answered} = {id}
    BY <1>3 DEF Final
  <2> QED BY <2>1 DEF Ranged
<1>5. range' = [range EXCEPT ![a] = {id}] /\ pollReceived' = [pollReceived EXCEPT ![a] = NoRange] /\ out' = out
  BY <1>4 DEF Accepted, Receive
<1>6. range'[a] = {id} /\ \A b \in Anchors \ {a} : range'[b] = range[b]
  BY <1>5 DEF RTLSTypes
<1>7. OwnRange'
  BY <1>3, <1>6 DEF OwnRange
<1>8. PICK at, r : /\ Goto(a, at, r)
                   /\ (a = 1 /\ at = "loop" /\ r = "rx") \/ (a # 1 /\ at = "reporting" /\ r = "off")
  BY <1>4 DEF Accepted, Receive
<1>9. /\ \A b \in Anchors \ {a} : KeptAnchor(b)
      /\ \A u \in Tags : Kept(u)
      /\ pc'[a] = at /\ radio'[a] = r
  BY <1>5, <1>8, AnchorKeeps
<1>10. Done(a, p, id)'
  BY <1>2, <1>3, <1>6, <1>8, <1>9 DEF Done
<1>11. ASSUME NEW b \in 1..(m - 1) PROVE Done(b, p, id)'
  <2>1. b \in Anchors \ {a} /\ Done(b, p, id)
    BY <1>2, <1>3 DEF Anchors, Session, Chain
  <2> QED BY <1>9, <2>1 DEF Done, KeptAnchor, Kept
<1>12. Chain(m, p, id)'
  BY <1>3, <1>10, <1>11 DEF Chain, Ready
<1>13. Seen(Ahead(p), id)'
  <2>1. CASE p >= 2
    <3>1. 1 \in Anchors \ {a}
      BY <1>2, <1>3, <2>1, NodeFacts
    <3>2. Ahead(p)' = Ahead(p)
      BY <1>9, <3>1 DEF Ahead, KeptAnchor, Kept
    <3>3. PICK k : k = Ahead(p)
      OBVIOUS
    <3>4. Seen(k, id)'
      BY <1>1, <3>3 DEF Session, Seen, KeptReports
    <3> QED BY <3>2, <3>3, <3>4 DEF Seen
  <2> QED BY <1>2, <2>1 DEF Seen, Ahead
<1>14. Idle(m)'
  <2>1. \A b \in (m + 2)..N : b \in Anchors \ {a}
    BY <1>2, <1>3 DEF Anchors
  <2> QED BY <1>9, <2>1, KeptAbove DEF Session, KeptAnchor
<1>15. (AllAsleep(m) \/ \E t \in Tags : Awake(t, m, id))'
  <2>1. m < N => m + 1 \in Anchors \ {a}
    BY <1>2, <1>3 DEF Anchors
  <2> QED BY <1>1, <1>9, <2>1, OthersKept DEF Session, Numbers
<1>16. Session(m, p, id)'
  BY <1>12, <1>13, <1>14, <1>15 DEF Session, Numbers
<1> QED BY <1>7, <1>16 DEF Ordered, Session, Numbers

LEMMA ReportStep ==
  ASSUME RTLSTypes, NEW m, NEW p, NEW id, Session(m, p, id), Prompt, NEW a \in Anchors, Report(a)
  PROVE Ordered'
<1>1. /\ pc[a] = "reporting" /\ Transmit(a, RangeReport(a), "accept") /\ round' = round /\ KeptReports
      /\ pollReceived' = pollReceived /\ range' = range
  BY DEF Report, UNCHANGEDbyAnchor, KeptReports, results
<1>2. /\ m \in Nat /\ m <= N /\ N \in Nat /\ N >= 2 /\ p \in Nat /\ p >= 1 /\ (p = 1 \/ p <= m) /\ a \in Nat
  BY NIsNat, SetupOfAnchors DEF Session, Numbers
<1>3. a \in 1..m /\ Done(a, p, id)
  <2>1. ~(a = m + 1 /\ m < N)
    <3>1. ~AllAsleep(m) \/ ~(a = m + 1 /\ m < N)
      BY <1>1, SetupOfAnchors DEF AllAsleep, Listening
    <3>2. ASSUME a = m + 1, m < N, NEW t \in Tags, Awake(t, m, id) PROVE FALSE
      <4>0. Root(a) # "reporting"
        BY SetupOfAnchors
      <4>1. ~(m = 0 /\ Asking(t))
        BY <1>1, <3>2, <4>0 DEF Asking, Rest, Listening
      <4>2. ~Polled(t, a, id) /\ ~Closing(t, a, id)
        BY <1>1, <4>0 DEF Polled, Closing, Listening
      <4>3. ~After(t, m)
        BY <1>1, <3>2, <4>0 DEF After, Rest
      <4> QED BY <3>2, <4>1, <4>2, <4>3 DEF Awake, Stage
    <3> QED BY <3>1, <3>2 DEF Session
  <2> QED BY <1>1, <2>1, AwayFromRoot, SetupOfAnchors DEF Sure, Rest
<1>4. a > 1 /\ a > p /\ range[a] = {id}
  BY <1>1, <1>2, <1>3 DEF Done
<1>5. a = p + 1
  <2>1. SUFFICES ASSUME a # p + 1 PROVE FALSE
    OBVIOUS
  <2>2. PICK b : b = p + 1
    OBVIOUS
  <2>3. b \in 2..(a - 1) /\ b \in 1..(m - 1)
    BY <1>2, <1>3, <1>4, <2>1, <2>2
  <2>4. Done(b, p, id)
    BY <2>3 DEF Session, Chain
  <2>5. pc[b] # "reporting" /\ radio[b] # "tx"
    BY <2>3 DEF Report
  <2> QED BY <1>2, <2>2, <2>4, <2>5 DEF Done
<1>6. RangeReport(a) = ReportOf(a, id)
  BY <1>4 DEF RangeReport, ReportOf
<1>7. /\ \A b \in Anchors \ {a} : KeptAnchor(b)
      /\ \A u \in Tags : Kept(u)
      /\ pc'[a] = "accept" /\ radio'[a] = "tx"
  BY <1>1, AnchorKeeps DEF Transmit
<1>8. out'[a] = ReportOf(a, id)
  BY <1>1, <1>6, NodeFacts DEF Transmit, RTLSTypes
<1>9. Done(a, p, id)'
  BY <1>1, <1>4, <1>5, <1>7, <1>8 DEF Done, ReportOf
<1>10. ASSUME NEW b \in 1..m, Done(b, p, id) PROVE Done(b, p, id)'
  <2>1. b \in Anchors
    BY <1>2 DEF Anchors
  <2>2. CASE b # a
    BY <1>7, <1>10, <2>1, <2>2 DEF Done, KeptAnchor, Kept
  <2> QED BY <1>9, <2>2
<1>11. Ready(m, p, id)'
  <2>1. CASE m >= 1 /\ Done(m, p, id)
    BY <1>2, <1>10, <2>1 DEF Ready
  <2>2. CASE m >= 1 /\ (m = 1 \/ m > p) /\ Sure(m, id)
    <3>1. m \in Anchors \ {a}
      BY <1>1, <1>2, <2>2 DEF Anchors, Sure
    <3> QED BY <1>7, <2>2, <3>1 DEF Ready, Sure, KeptAnchor, Kept
  <2> QED BY <2>1, <2>2 DEF Session, Chain, Ready
<1>12. Chain(m, p, id)'
  <2>1. \A b \in 1..(m - 1) : b \in 1..m
    BY <1>2
  <2> QED BY <1>10, <1>11, <2>1 DEF Session, Chain
<1>13. Seen(Ahead(p), id)'
  <2>1. 1 \in Anchors \ {a}
    BY <1>4, NodeFacts
  <2>2. Ahead(p)' = Ahead(p)
    BY <1>7, <2>1 DEF Ahead, KeptAnchor, Kept
  <2>3. PICK k : k = Ahead(p)
    OBVIOUS
  <2>4. Seen(k, id)'
    BY <1>1, <2>3 DEF Session, Seen, KeptReports
  <2> QED BY <2>2, <2>3, <2>4 DEF Seen
<1>14. Idle(m)'
  <2>1. \A b \in (m + 2)..N : b \in Anchors \ {a}
    BY <1>2, <1>3 DEF Anchors
  <2> QED BY <1>7, <2>1, KeptAbove DEF Session, KeptAnchor
<1>15. (AllAsleep(m) \/ \E t \in Tags : Awake(t, m, id))'
  <2>1. m < N => m + 1 \in Anchors \ {a}
    BY <1>2, <1>3 DEF Anchors
  <2> QED BY <1>1, <1>7, <2>1, OthersKept DEF Session, Numbers
<1>16. Session(m, p, id)'
  BY <1>12, <1>13, <1>14, <1>15 DEF Session, Numbers
<1> QED BY <1>16 DEF Ordered, Session, Numbers

\* What the primary is doing when it has a frame in its loop.
LEMMA PrimaryHas ==
  ASSUME RTLSTypes, NEW m, NEW p, NEW id, Session(m, p, id), Got(1, "loop")
  PROVE \/ m = 0 /\ \E t \in Tags : /\ Awake(t, m, id) /\ pc[t] = "request" /\ radio[t] = "rx"
                                    /\ inbox[1] = ShortBlink(t)
        \/ m >= 2 /\ p >= 2 /\ Done(1, p, id) /\ inbox[1] = ReportOf(p, id)
<1>1. pc[1] = "loop" /\ radio[1] = "good" /\ 1 \in Anchors
  BY NodeFacts DEF Got
<1>2. m \in Nat /\ p \in Nat /\ (p = 1 \/ p <= m) /\ N \in Nat /\ N >= 2
  BY NIsNat DEF Session, Numbers
<1>3. CASE m = 0
  <2>1. PICK t \in Tags : Awake(t, m, id)
    BY <1>1, <1>2, <1>3 DEF Session, AllAsleep, Listening
  <2>2. ~Polled(t, 1, id) /\ ~Closing(t, 1, id) /\ ~After(t, m)
    BY <1>1, <1>3 DEF Polled, Closing, After, Listening
  <2>3. Asking(t)
    BY <1>3, <2>1, <2>2 DEF Awake, Stage
  <2> QED BY <1>1, <1>3, <2>1, <2>3 DEF Asking, Rest, Listening
<1>4. CASE m >= 1
  <2>1. Done(1, p, id)
    <3>1. 1 \in 1..m /\ ~(1 \in (m + 2)..N) /\ 1 # m + 1
      BY <1>2, <1>4
    <3> QED BY <1>1, <3>1, AwayFromRoot DEF Sure
  <2> QED BY <1>1, <1>2, <2>1 DEF Done
<1> QED BY <1>2, <1>3, <1>4

LEMMA GotBlinkStep ==
  ASSUME RTLSTypes, NEW m, NEW p, NEW id, Session(m, p, id), GotBlink
  PROVE Ordered'
<1>1. Got(1, "loop") /\ inbox[1].kind = "BLINK"
  BY DEF GotBlink
<1>2. PICK t \in Tags : /\ m = 0 /\ Awake(t, m, id) /\ pc[t] = "request" /\ radio[t] = "rx"
                        /\ inbox[1] = ShortBlink(t)
  <2>1. inbox[1] # ReportOf(p, id)
    BY <1>1 DEF ReportOf
  <2> QED BY <1>1, <2>1, PrimaryHas
<1>3. /\ Transmit(1, RangingInitiation(t), "accept") /\ round' = round /\ KeptReports
      /\ pollReceived' = pollReceived /\ range' = range
  BY <1>2 DEF GotBlink, UNCHANGEDbyAnchor, KeptReports, results, ShortBlink
<1>4. 1 \in Anchors /\ 1 \in Nodes /\ t \in Nodes /\ t # 1 /\ 1 = m + 1
  BY <1>2, NodeFacts
<1>5. /\ pc'[1] = "accept" /\ radio'[1] = "tx" /\ out'[1] = RangingInitiation(t)
      /\ pc'[t] = "request" /\ radio'[t] = "rx"
  BY <1>2, <1>3, <1>4 DEF RTLSTypes, Transmit, Goto
<1>6. Asking(t)'
  BY <1>5 DEF Asking, RangingInitiation
<1>7. Stage(t, m, id)'
  BY <1>2, <1>6 DEF Stage
<1> QED BY <1>2, <1>3, <1>4, <1>7, NextGoesOn DEF Transmit

\* What DisplayedTogether says of a step.
ShowsOne ==
  display' # display =>
    /\ display'[1] = display'[N]
    /\ missed \/ \E id \in Ids : \A a \in Anchors : display'[a] \subseteq {id}

LEMMA GotReportStep ==
  ASSUME RTLSTypes, NEW m, NEW p, NEW id, Session(m, p, id), Starts, GotReport
  PROVE Ordered' /\ Starts' /\ ShowsOne
<1>1. Got(1, "loop") /\ inbox[1].kind = "REPORT"
  BY DEF GotReport
<1>2. m >= 2 /\ p >= 2 /\ Done(1, p, id) /\ inbox[1] = ReportOf(p, id)
  <2>1. \A t \in Tags : inbox[1] # ShortBlink(t)
    BY <1>1 DEF ShortBlink
  <2> QED BY <1>1, <2>1, PrimaryHas
<1>3. /\ m \in Nat /\ m <= N /\ N \in Nat /\ N >= 2 /\ p \in Nat /\ p <= N /\ p <= m /\ id \in Ids
      /\ radio[1] = "good" /\ range[1] = {id}
  BY <1>1, <1>2, NIsNat DEF Session, Numbers, Got, Done
<1>4. Seen(p - 1, id)
  BY <1>2, <1>3 DEF Session, Ahead
<1>5. /\ Receive(1, "loop") /\ round' = round /\ pollReceived' = pollReceived /\ range' = range /\ 1 \in Anchors
      /\ missed' = missed
  BY NodeFacts DEF GotReport, UNCHANGEDbyAnchor
<1>6. /\ \A b \in Anchors \ {1} : KeptAnchor(b)
      /\ \A u \in Tags : Kept(u)
      /\ pc'[1] = "loop" /\ radio'[1] = "rx"
  BY <1>5, AnchorKeeps DEF Receive
<1>7. ASSUME ~InTurn(p) PROVE Seen(p, id)' /\ Starts' /\ ShowsOne
  <2>1. received' = {} /\ UNCHANGED <<collected, display>>
    BY <1>2, <1>7 DEF GotReport, ReportOf
  <2> QED BY <2>1 DEF Seen, Starts, ShowsOne
<1>8. ASSUME InTurn(p) PROVE Seen(p, id)' /\ Starts' /\ ShowsOne
  <2>1. /\ collected' = [collected EXCEPT ![p] = {id}]
        /\ IF p = N THEN /\ received' = {}
                         /\ display' = [b \in Anchors |-> IF b = 1 THEN range[1] ELSE collected'[b]]
           ELSE received' = received \cup {p} /\ UNCHANGED display
    BY <1>2, <1>8 DEF GotReport, ReportOf
  <2>2. p \in Anchors \ {1} /\ collected'[p] = {id} /\ \A b \in Anchors \ {1, p} : collected'[b] = collected[b]
    BY <1>2, <1>3, <2>1 DEF RTLSTypes, Anchors
  <2>3. ASSUME ~missed PROVE received \cup {p} = 2..p /\ \A b \in 2..p : collected'[b] = {id}
    <3>1. CASE p = 2
      <4>1. received = {}
        BY <1>8, <3>1 DEF InTurn, Starts
      <4> QED BY <2>2, <3>1, <4>1
    <3>2. CASE p # 2
      <4>1. p - 1 \in received /\ p - 1 >= 2
        BY <1>2, <1>3, <1>8, <3>2 DEF InTurn
      <4>2. PICK j \in 2..(p - 1) : received = 2..j /\ \A b \in 2..j : collected[b] = {id}
        BY <1>4, <2>3, <4>1 DEF Seen
      <4>3. j = p - 1
        BY <1>3, <4>1, <4>2
      <4>4. \A b \in 2..p : b = p \/ (b \in 2..(p - 1) /\ b \in Anchors \ {1, p})
        BY <1>2, <1>3 DEF Anchors
      <4>5. 2..(p - 1) \cup {p} = 2..p
        BY <1>2, <1>3
      <4> QED BY <2>2, <4>2, <4>3, <4>4, <4>5
    <3> QED BY <3>1, <3>2
  <2>4. Starts'
    <3>1. p = 2 \/ 2 \in received
      BY <1>8 DEF InTurn, Starts
    <3> QED BY <2>1, <3>1 DEF Starts
  <2>5. CASE p = N
    <3>1. received' = {} /\ display' = [b \in Anchors |-> IF b = 1 THEN range[1] ELSE collected'[b]]
      BY <2>1, <2>5
    <3>2. \A b \in Anchors : b = 1 \/ b \in 2..p
      BY <1>3, <2>5 DEF Anchors
    <3>3. ASSUME ~missed, NEW b \in Anchors PROVE display'[b] \subseteq {id}
      BY <1>3, <2>3, <3>1, <3>2, <3>3
    <3>4. display'[1] = display'[N]
      BY <1>2, <1>3, <1>5, <2>2, <2>5, <3>1
    <3>5. ShowsOne
      BY <1>3, <3>3, <3>4 DEF ShowsOne
    <3> QED BY <2>4, <3>1, <3>5 DEF Seen
  <2>6. CASE p # N
    <3>1. received' = received \cup {p} /\ display' = display /\ p < N /\ p \in 2..p
      BY <1>2, <1>3, <2>1, <2>6
    <3>2. Seen(p, id)'
      BY <1>5, <2>3, <3>1 DEF Seen
    <3> QED BY <2>4, <3>1, <3>2 DEF ShowsOne
  <2> QED BY <2>5, <2>6
<1>9. Seen(Ahead(p), id)'
  BY <1>6, <1>7, <1>8 DEF Ahead, Seen
<1>10. ASSUME NEW b \in 1..m, Done(b, p, id) PROVE Done(b, p, id)'
  <2>1. CASE b = 1
    BY <1>3, <1>5, <1>6, <2>1 DEF Done
  <2>2. CASE b # 1
    <3>1. b \in Anchors \ {1}
      BY <1>3, <2>2 DEF Anchors
    <3> QED BY <1>6, <1>10, <3>1 DEF Done, KeptAnchor, Kept
  <2> QED BY <2>1, <2>2
<1>11. Ready(m, p, id)'
  <2>1. m \in Anchors \ {1} /\ m \in 1..m
    BY <1>2, <1>3 DEF Anchors
  <2>2. KeptAnchor(m)
    BY <1>6, <2>1
  <2>3. CASE Done(m, p, id)
    BY <1>10, <2>1, <2>3 DEF Ready
  <2>4. CASE (m = 1 \/ m > p) /\ Sure(m, id)
    BY <2>2, <2>4 DEF Ready, Sure, KeptAnchor, Kept
  <2> QED BY <1>2, <2>3, <2>4 DEF Session, Chain, Ready
<1>12. Chain(m, p, id)'
  <2>1. \A b \in 1..(m - 1) : b \in 1..m
    BY <1>3
  <2> QED BY <1>10, <1>11, <2>1 DEF Session, Chain
<1>13. Idle(m)'
  <2>1. \A b \in (m + 2)..N : b \in Anchors \ {1}
    BY <1>3 DEF Anchors
  <2> QED BY <1>6, <2>1, KeptAbove DEF Session, KeptAnchor
<1>14. (AllAsleep(m) \/ \E t \in Tags : Awake(t, m, id))'
  <2>1. m < N => m + 1 \in Anchors \ {1}
    BY <1>2, <1>3 DEF Anchors
  <2> QED BY <1>5, <1>6, <2>1, OthersKept DEF Session, Numbers
<1>15. Session(m, p, id)'
  BY <1>9, <1>12, <1>13, <1>14 DEF Session, Numbers
<1>16. Ordered'
  BY <1>15 DEF Ordered, Session, Numbers
<1> QED BY <1>7, <1>8, <1>16

LEMMA NoOther ==
  ASSUME RTLSTypes, NEW m, NEW p, NEW id, Session(m, p, id)
  PROVE ~GotOther
<1> SUFFICES ASSUME GotOther PROVE FALSE
  OBVIOUS
<1>1. Got(1, "loop") /\ inbox[1].kind \notin {"BLINK", "REPORT"}
  BY DEF GotOther
<1>2. inbox[1] # ReportOf(p, id) /\ \A t \in Tags : inbox[1] # ShortBlink(t)
  BY <1>1 DEF ReportOf, ShortBlink
<1> QED BY <1>1, <1>2, PrimaryHas

----
(* The invariant *)

\* A loop is faster than a frame, a tag wakes alone, and nobody gives up before
\* the frame he waits for. Any frame may be lost.
Undisturbed == Prompt /\ Alone /\ ~Early

LEMMA RTLSInit == ASSUME Init PROVE RTLSInv
<1>1. Id("uninitialised", 0) \in Ids \cup Unknown
  BY DEF Unknown
<1>2. PICK id : id = Id("uninitialised", 0)
  OBVIOUS
<1>3. Numbers(0, 1, id)
  BY <1>1, <1>2, NIsNat DEF Numbers
<1>4. \A a \in Anchors : Rest(a)
  BY NodeFacts, SetupOfAnchors DEF Init, Rest, Root, Setup, PrimarySetup, SecondarySetup
<1>5. \A t \in Tags : Asleep(t)
  BY NodeFacts DEF Init, Asleep, Setup, TagSetup
<1>6. AllAsleep(0)
  BY <1>4, <1>5, NodeFacts DEF AllAsleep, Listening, Rest
<1>7. Idle(0)
  BY <1>4, NIsNat DEF Idle, Anchors
<1>8. Session(0, 1, id)
  BY <1>3, <1>6, <1>7 DEF Session, Chain, Ready, Seen, Ahead
<1>9. Ordered
  BY <1>3, <1>8 DEF Ordered, Numbers
<1>10. Starts /\ OwnRange
  BY DEF Init, Starts, OwnRange, NoRange
<1> QED BY <1>9, <1>10, TypesInit DEF RTLSInv

LEMMA RTLSStep == ASSUME Undisturbed, RTLSInv, [Next]_vars PROVE RTLSInv'
<1>1. RTLSTypes /\ RTLSTypes'
  BY TypesNext DEF RTLSInv
<1>2. PICK m, p, id : Session(m, p, id)
  BY DEF RTLSInv, Ordered
<1>3. Prompt /\ Alone /\ ~Early
  BY DEF Undisturbed
<1>4. Starts /\ OwnRange
  BY DEF RTLSInv
<1>5. ASSUME Ordered', range' = range, received' = received PROVE RTLSInv'
  BY <1>1, <1>4, <1>5 DEF RTLSInv, Starts, OwnRange
<1>6. CASE \E n \in Nodes : Sent(n)
  <2>1. Ordered'
    BY <1>1, <1>2, <1>3, <1>6, SentStep
  <2>2. range' = range /\ received' = received
    BY <1>6 DEF Sent, results
  <2> QED BY <1>5, <2>1, <2>2
<1>7. CASE \E t \in Tags : Blink(t)
  <2>1. Ordered'
    BY <1>1, <1>2, <1>3, <1>7, BlinkStep
  <2>2. range' = range /\ received' = received
    BY <1>7 DEF Blink, results
  <2> QED BY <1>5, <2>1, <2>2
<1>8. ASSUME NEW t \in Tags, Requested(t) \/ PollAnswered(t) \/ Finished(t) \/ TagTimeout(t) PROVE RTLSInv'
  <2>1. Ordered'
    BY <1>1, <1>2, <1>3, <1>8, RequestedStep, PollAnsweredStep, FinishedStep, TagTimeoutStep
  <2>2. range' = range /\ received' = received
    BY <1>8 DEF Requested, PollAnswered, Finished, TagTimeout, UNCHANGEDbyTag, results
  <2> QED BY <1>5, <2>1, <2>2
<1>9. ASSUME NEW a \in Anchors, GotPoll(a) \/ GotFinal(a) \/ AnchorTimeout(a) PROVE RTLSInv'
  <2>1. Ordered' /\ range' = range
    BY <1>1, <1>2, <1>3, <1>9, GotPollStep, GotFinalStep, AnchorTimeoutStep
  <2>2. received' = received
    BY <1>9 DEF GotPoll, GotFinal, AnchorTimeout
  <2> QED BY <1>5, <2>1, <2>2
<1>10. ASSUME NEW a \in Anchors, Ranged(a) PROVE RTLSInv'
  <2>1. Ordered' /\ OwnRange'
    BY <1>1, <1>2, <1>4, <1>10, RangedStep
  <2>2. received' = received
    BY <1>10 DEF Ranged
  <2> QED BY <1>1, <1>4, <2>1, <2>2 DEF RTLSInv, Starts
<1>11. ASSUME NEW a \in Anchors, Report(a) PROVE RTLSInv'
  <2>1. Ordered'
    BY <1>1, <1>2, <1>3, <1>11, ReportStep
  <2>2. range' = range /\ received' = received
    BY <1>11 DEF Report, results
  <2> QED BY <1>5, <2>1, <2>2
<1>12. CASE GotBlink
  <2>1. Ordered'
    BY <1>1, <1>2, <1>12, GotBlinkStep
  <2>2. range' = range /\ received' = received
    BY <1>12 DEF GotBlink, results
  <2> QED BY <1>5, <2>1, <2>2
<1>13. CASE GotReport
  <2>1. Ordered' /\ Starts'
    BY <1>1, <1>2, <1>4, <1>13, GotReportStep
  <2>2. range' = range
    BY <1>13 DEF GotReport
  <2> QED BY <1>1, <1>4, <2>1, <2>2 DEF RTLSInv, OwnRange
<1>14. ~GotOther
  BY <1>1, <1>2, NoOther
<1>15. CASE UNCHANGED vars
  <2>1. /\ \A n \in Nodes : Kept(n)
        /\ \A a : KeptAnchor(a) /\ Kept(a)
        /\ KeptReports /\ round' = round
    BY <1>15 DEF vars, wait, results, Kept, KeptAnchor, KeptReports
  <2>2. Chain(m, p, id)' /\ Seen(Ahead(p), id)'
    BY <1>2, <2>1, KeptBelow DEF Session
  <2>3. Idle(m)'
    BY <1>2, <2>1, KeptAbove DEF Session
  <2>4. (AllAsleep(m) \/ \E t \in Tags : Awake(t, m, id))'
    BY <1>2, <2>1, OthersKept DEF Session, Numbers
  <2>5. Session(m, p, id)'
    BY <1>2, <2>2, <2>3, <2>4 DEF Session, Numbers
  <2>6. Ordered'
    BY <1>2, <2>5 DEF Ordered, Session, Numbers
  <2> QED BY <1>5, <1>15, <2>6 DEF vars, results
<1> QED BY <1>6, <1>7, <1>8, <1>9, <1>10, <1>11, <1>12, <1>13, <1>14, <1>15, NodeFacts
     DEF Next, TagStep, AnchorStep, PrimaryStep

LEMMA RTLSInductive == ASSUME Undisturbed PROVE Spec => []RTLSInv
<1>1. Init => RTLSInv
  BY RTLSInit
<1>2. RTLSInv /\ [Next]_vars => RTLSInv'
  BY RTLSStep
<1> QED BY <1>1, <1>2, PTL DEF Spec

----
(* What it gives *)

LEMMA AtMostOne == ASSUME NEW S, NEW x, S \subseteq {x} PROVE Cardinality(S) <= 1
<1>1. S = {} \/ S = {x}
  OBVIOUS
<1>2. Cardinality({}) = 0 /\ Cardinality({x}) = 1
  BY FS_EmptySet, FS_Singleton
<1> QED BY <1>1, <1>2

\* However many frames are lost, the time stamps that an anchor computes
\* a range from are all of one exchange with one tag.
THEOREM RangesOfOneExchange == ASSUME Undisturbed PROVE Spec => []OneExchange
<1>1. ASSUME RTLSInv PROVE OneExchange
  <2>1. ASSUME NEW a \in Anchors PROVE Cardinality(range[a]) <= 1
    <3>1. \E x : range[a] \subseteq {x}
      BY <1>1 DEF RTLSInv, OwnRange
    <3> QED BY <3>1, AtMostOne
  <2> QED BY <2>1 DEF OneExchange
<1> QED BY <1>1, RTLSInductive, PTL

\* Whatever frames are lost, the primary shows its own range with one of the last
\* anchor of the same round, and all of one round unless it missed the report of anchor 2.
THEOREM ShownTogether == ASSUME Undisturbed PROVE Spec => DisplayedTogether
<1> DEFINE Shows == display' # display =>
                      /\ display'[1] = display'[N]
                      /\ missed \/ Cardinality(UNION {display'[a] : a \in Anchors}) <= 1
<1>1. ASSUME RTLSInv, [Next]_vars PROVE Shows
  <2>1. PICK m, p, id : Session(m, p, id)
    BY <1>1 DEF RTLSInv, Ordered
  <2>2. ShowsOne
    <3>1. CASE GotReport
      BY <1>1, <2>1, <3>1, GotReportStep DEF RTLSInv
    <3>2. CASE ~GotReport
      <4>1. display' = display
        BY <1>1, <3>2
        DEF Next, TagStep, AnchorStep, PrimaryStep, Sent, Blink, Requested, PollAnswered, Finished,
            TagTimeout, UNCHANGEDbyTag, GotPoll, GotFinal, Ranged, AnchorTimeout, Report, GotBlink,
            GotOther, results, vars
      <4> QED BY <4>1 DEF ShowsOne
    <3> QED BY <3>1, <3>2
  <2>3. ASSUME NEW x, \A a \in Anchors : display'[a] \subseteq {x}
        PROVE  Cardinality(UNION {display'[a] : a \in Anchors}) <= 1
    <3>1. UNION {display'[a] : a \in Anchors} \subseteq {x}
      BY <2>3
    <3> QED BY <3>1, AtMostOne
  <2> QED BY <2>2, <2>3 DEF ShowsOne
<1>2. RTLSInv /\ [Next]_vars => [Shows]_vars
  BY <1>1
<1> QED BY <1>2, RTLSInductive, PTL DEF DisplayedTogether, Spec

\* A tag that is told that it has finished has been ranged by every anchor in this round.
THEOREM FinishedMeansAll == ASSUME Undisturbed PROVE Spec => LocalizedByAll
<1>1. ASSUME RTLSInv, NEW t \in Tags, Got(t, "final"), inbox[t].kind = "FINISHED", NEW a \in Anchors
      PROVE {Now(t)} = IF pc[a] = "confirming" THEN {inbox[a].pollSent} ELSE range[a]
  <2>1. PICK m, p, id : Session(m, p, id)
    BY <1>1 DEF RTLSInv, Ordered
  <2>2. Awake(t, m, id) /\ id = Now(t)
    BY <1>1, <2>1, TheTagAwake DEF Got, Asleep, Awake
  <2>3. inbox[t] = Activity(m)
    BY <1>1, <2>2 DEF Awake, Stage, Asking, Polled, Closing, After, Got
  <2>4. m = N
    BY <1>1, <2>1, <2>3, NIsNat DEF Activity, RangingConfirm, Session, Numbers
  <2>5. a \in 1..m /\ ~(a = m + 1) /\ ~(a \in (m + 2)..N)
    BY <2>4, NIsNat DEF Anchors
  <2>6. Done(a, p, id) \/ Sure(a, id)
    BY <1>1, <2>1, <2>5, AwayFromRoot DEF RTLSInv
  <2> QED BY <2>2, <2>6 DEF Done, Sure, Final
<1>2. ASSUME RTLSInv
      PROVE \A t \in Tags : Got(t, "final") /\ pc'[t] = "asleep" /\ inbox[t].kind = "FINISHED" =>
              \A a \in Anchors : {Now(t)} = IF pc[a] = "confirming" THEN {inbox[a].pollSent} ELSE range[a]
  BY <1>1, <1>2
<1> QED BY <1>2, RTLSInductive, PTL DEF LocalizedByAll
====
