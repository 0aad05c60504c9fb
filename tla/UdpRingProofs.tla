---- MODULE UdpRingProofs ----
(* For any tags, losses and restarts: the requests of the UDP ring; for any  *)
(* anchors and ranges: the list of the outdoor display and what is drawn.    *)
EXTENDS MCUdpRing, FiniteSetTheorems, SequenceTheorems, TLAPS

(* The ring. A token is a request under way, a tag that is ranging, or a     *)
(* packet that the server takes for an answer: one that is under way, or the *)
(* one a tag sends when it is switched on. The packet that registers a tag   *)
(* is none.                                                                  *)

Coming(t) == packets[t] + (IF tag[t] = "off" THEN 1 ELSE 0) - (IF Known(t) THEN 0 ELSE 1)

Token(k, t, i) ==
  /\ t \in Tags
  /\ \/ k = "ranging" /\ tag[t] = "ranging" /\ i = 0
     \/ k = "request" /\ i \in 1..requests[t]
     \/ k = "packet" /\ i \in 1..Coming(t)

Tokens ==
  {u \in {"ranging", "request", "packet"} \X Tags \X Nat : Token(u[1], u[2], u[3])}

RingTypes ==
  /\ tag \in [Tags -> TagState]
  /\ requests \in [Tags -> Nat] /\ packets \in [Tags -> Nat]
  /\ table \in Seq(Tags) /\ restarts \in Nat

\* The first registration makes one token, each restart at most one more.
Made == restarts + (IF table = <<>> THEN 0 ELSE 1)
RingInv == RingTypes /\ IsFiniteSet(Tokens) /\ Cardinality(Tokens) <= Made

LEMMA TokensKept ==
  ASSUME IsFiniteSet(Tokens), \A k, t, i : Token(k, t, i)' => Token(k, t, i)
  PROVE  IsFiniteSet(Tokens') /\ Cardinality(Tokens') <= Cardinality(Tokens)
<1>1. Tokens' \subseteq Tokens
  BY DEF Tokens
<1>. QED BY <1>1, FS_Subset

LEMMA TokenAdded ==
  ASSUME IsFiniteSet(Tokens), NEW k, NEW t, NEW i,
         \A l, s, j : Token(l, s, j)' => Token(l, s, j) \/ <<l, s, j>> = <<k, t, i>>
  PROVE  IsFiniteSet(Tokens') /\ Cardinality(Tokens') <= Cardinality(Tokens) + 1
<1> DEFINE More == Tokens \cup {<<k, t, i>>}
<1>1. Tokens' \subseteq More
  BY DEF Tokens
<1>2. Cardinality(Tokens) \in Nat
  BY FS_CardinalityType
<1>3. /\ IsFiniteSet(More)
      /\ Cardinality(More) =
           IF <<k, t, i>> \in Tokens THEN Cardinality(Tokens) ELSE Cardinality(Tokens) + 1
  BY FS_AddElement, Zenon
<1>4. IsFiniteSet(Tokens') /\ Cardinality(Tokens') <= Cardinality(More)
  <2> HIDE DEF More
  <2>. QED BY <1>1, <1>3, FS_Subset
<1>5. Cardinality(Tokens') \in Nat /\ Cardinality(More) \in Nat
  BY <1>3, <1>4, FS_CardinalityType
<1> HIDE DEF More
<1>. QED BY <1>2, <1>3, <1>4, <1>5

LEMMA TokenMoved ==
  ASSUME IsFiniteSet(Tokens), NEW k, NEW t, NEW i, Token(k, t, i), ~Token(k, t, i)',
         NEW m, NEW r, NEW n,
         \A l, s, j : Token(l, s, j)' => Token(l, s, j) \/ <<l, s, j>> = <<m, r, n>>
  PROVE  IsFiniteSet(Tokens') /\ Cardinality(Tokens') <= Cardinality(Tokens)
<1> DEFINE Rest == Tokens \ {<<k, t, i>>}
           More == Rest \cup {<<m, r, n>>}
<1>1. Tokens' \subseteq More /\ <<k, t, i>> \in Tokens
  BY DEF Tokens, Token
<1>2. IsFiniteSet(Rest) /\ Cardinality(Rest) = Cardinality(Tokens) - 1
  BY <1>1, FS_RemoveElement
<1>3. Cardinality(Rest) \in Nat /\ Cardinality(Tokens) \in Nat
  BY <1>2, FS_CardinalityType
<1>4. /\ IsFiniteSet(More)
      /\ Cardinality(More) =
           IF <<m, r, n>> \in Rest THEN Cardinality(Rest) ELSE Cardinality(Rest) + 1
  <2> HIDE DEF Rest
  <2>. QED BY <1>2, FS_AddElement, Zenon
<1>5. IsFiniteSet(Tokens') /\ Cardinality(Tokens') <= Cardinality(More)
  <2> HIDE DEF More
  <2>. QED BY <1>1, <1>4, FS_Subset
<1>6. Cardinality(Tokens') \in Nat /\ Cardinality(More) \in Nat
  BY <1>4, <1>5, FS_CardinalityType
<1> HIDE DEF Rest, More
<1>. QED BY <1>2, <1>3, <1>4, <1>5, <1>6

\* What the server's table and the restarts allow does not fall.
LEMMA RingKept ==
  ASSUME RingInv, RingTypes', restarts' = restarts, table' = table,
         IsFiniteSet(Tokens'), Cardinality(Tokens') <= Cardinality(Tokens)
  PROVE  RingInv'
<1>1. Made' = Made
  BY DEF Made
<1>2. Cardinality(Tokens) \in Nat /\ Cardinality(Tokens') \in Nat /\ Made \in Nat
  BY FS_CardinalityType DEF RingInv, RingTypes, Made
<1>. QED BY <1>1, <1>2 DEF RingInv

LEMMA ComingInt == ASSUME RingTypes, NEW t \in Tags PROVE Coming(t) \in Int
BY DEF RingTypes, Coming

LEMMA MadeNat ==
  ASSUME RingInv, IsFiniteSet(Tokens')
  PROVE  Made \in Nat /\ Cardinality(Tokens) \in Nat /\ Cardinality(Tokens') \in Nat
BY FS_CardinalityType DEF Made, RingInv, RingTypes

LEMMA KnownSame == ASSUME table' = table PROVE \A t : Known(t)' = Known(t)
BY DEF Known

LEMMA RegisterStep ==
  ASSUME RingInv, NEW t \in Tags, Receive(t), Register(t)
  PROVE  RingInv'
<1>1. /\ packets[t] > 0 /\ packets' = [packets EXCEPT ![t] = @ - 1]
      /\ ~Known(t) /\ table' = Append(table, t)
      /\ requests' = IF table = <<>> THEN [requests EXCEPT ![t] = @ + 1] ELSE requests
      /\ UNCHANGED <<tag, restarts>>
  BY DEF Receive, Register, Request
<1>2. RingTypes'
  BY <1>1 DEF RingInv, RingTypes
<1>3. table \in Seq(Tags) /\ table' # <<>>
  BY <1>1 DEF RingInv, RingTypes
<1>4. \A s \in Tags : Known(s)' <=> Known(s) \/ s = t
  BY <1>1, <1>3 DEF Known
<1>5. \A s \in Tags : Coming(s)' = Coming(s)
  BY <1>1, <1>4 DEF Coming, RingInv, RingTypes
<1>6. CASE table # <<>>
  <2>1. \A k, s, i : Token(k, s, i)' => Token(k, s, i)
    BY <1>1, <1>5, <1>6 DEF Token
  <2>2. Made' = Made
    BY <1>1, <1>3, <1>6 DEF Made
  <2>. QED BY <1>2, <2>1, <2>2, TokensKept, MadeNat DEF RingInv
<1>7. CASE table = <<>>
  <2>1. \A l, s, j : Token(l, s, j)' =>
          Token(l, s, j) \/ <<l, s, j>> = <<"request", t, requests[t] + 1>>
    BY <1>1, <1>5, <1>7 DEF Token, RingInv, RingTypes
  <2>2. Made' = Made + 1
    BY <1>1, <1>3, <1>7 DEF Made, RingInv, RingTypes
  <2>. QED BY <1>2, <2>1, <2>2, TokenAdded, MadeNat DEF RingInv
<1>. QED BY <1>6, <1>7

LEMMA PassOnStep ==
  ASSUME RingInv, NEW t \in Tags, Receive(t), PassOn(t)
  PROVE  RingInv'
<1> DEFINE next == get_next_key(t)
<1>1. /\ packets[t] > 0 /\ packets' = [packets EXCEPT ![t] = @ - 1] /\ Known(t)
      /\ requests' = [requests EXCEPT ![next] = @ + 1]
      /\ UNCHANGED <<tag, table, restarts>>
  BY DEF Receive, PassOn, Request
<1> HIDE DEF next
<1>2. RingTypes'
  <2>1. requests' \in [Tags -> Nat] /\ packets' \in [Tags -> Nat]
    <3>1. packets[t] - 1 \in Nat
      BY <1>1 DEF RingInv, RingTypes
    <3>2. CASE next \in Tags
      BY <1>1, <3>1, <3>2 DEF RingInv, RingTypes
    <3>3. CASE next \notin Tags
      BY <1>1, <3>1, <3>3 DEF RingInv, RingTypes
    <3>. QED BY <3>2, <3>3
  <2>. QED BY <1>1, <2>1 DEF RingInv, RingTypes
<1>3. PICK n \in Int : n = Coming(t)
  BY ComingInt DEF RingInv
<1>4. \A s \in Tags : Coming(s)' = IF s = t THEN n - 1 ELSE Coming(s)
  BY <1>1, <1>3, KnownSame DEF Coming, RingInv, RingTypes
<1>5. n > 0
  BY <1>1, <1>3 DEF Coming, RingInv, RingTypes
<1>6. Token("packet", t, n) /\ ~Token("packet", t, n)'
  BY <1>3, <1>4, <1>5 DEF Token
<1>7. \A l, s, j : Token(l, s, j)' =>
         Token(l, s, j) \/ <<l, s, j>> = <<"request", next, requests[next] + 1>>
  <2>1. \A s \in Tags : requests'[s] = IF s = next THEN requests[s] + 1 ELSE requests[s]
    BY <1>1 DEF RingInv, RingTypes
  <2>2. \A s \in Tags : requests[s] \in Nat /\ Coming(s) \in Int
    BY ComingInt DEF RingInv, RingTypes
  <2>. QED BY <1>1, <1>3, <1>4, <2>1, <2>2 DEF Token
<1>8. IsFiniteSet(Tokens') /\ Cardinality(Tokens') <= Cardinality(Tokens)
  BY <1>6, <1>7, TokenMoved DEF RingInv
<1>. QED BY <1>1, <1>2, <1>8, RingKept

LEMMA TagStepRing ==
  ASSUME RingInv, NEW t \in Tags, Boot(t) \/ TakeRequest(t) \/ SendMeasurements(t)
  PROVE  RingInv'
<1>1. RingTypes' /\ UNCHANGED <<table, restarts>>
  <2>1. tag' \in [Tags -> TagState] /\ requests' \in [Tags -> Nat] /\ packets' \in [Tags -> Nat]
    <3>1. CASE Boot(t)
      BY <3>1 DEF Boot, RingInv, RingTypes, TagState
    <3>2. CASE TakeRequest(t)
      BY <3>2 DEF TakeRequest, RingInv, RingTypes, TagState
    <3>3. CASE SendMeasurements(t)
      BY <3>3 DEF SendMeasurements, RingInv, RingTypes, TagState
    <3>. QED BY <3>1, <3>2, <3>3
  <2>2. UNCHANGED <<table, restarts>>
    BY DEF Boot, TakeRequest, SendMeasurements
  <2>. QED BY <2>1, <2>2 DEF RingInv, RingTypes
<1>2. \A s \in Tags : requests[s] \in Nat /\ packets[s] \in Nat /\ Coming(s) \in Int
  BY ComingInt DEF RingInv, RingTypes
<1>3. CASE Boot(t)
  <2>1. \A s \in Tags : Coming(s)' = Coming(s)
    BY <1>1, <1>3, KnownSame DEF Boot, Coming, RingInv, RingTypes
  <2>2. \A k, s, i : Token(k, s, i)' => Token(k, s, i)
    BY <1>3, <2>1 DEF Boot, Token, RingInv, RingTypes
  <2>. QED BY <1>1, <2>2, TokensKept, RingKept DEF RingInv
<1>4. CASE TakeRequest(t)
  <2>1. \A s \in Tags : Coming(s)' = Coming(s)
    BY <1>1, <1>4, KnownSame DEF TakeRequest, Coming, RingInv, RingTypes
  <2>2. PICK n \in Nat : n = requests[t] /\ n > 0
    BY <1>2, <1>4 DEF TakeRequest
  <2>3. \A s \in Tags : requests'[s] = IF s = t THEN n - 1 ELSE requests[s]
    BY <1>4, <2>2 DEF TakeRequest, RingInv, RingTypes
  <2>4. Token("request", t, n) /\ ~Token("request", t, n)'
    BY <2>2, <2>3 DEF Token
  <2>5. \A l, s, j : Token(l, s, j)' => Token(l, s, j) \/ <<l, s, j>> = <<"ranging", t, 0>>
    BY <1>2, <1>4, <2>1, <2>2, <2>3 DEF TakeRequest, Token, RingInv, RingTypes
  <2>. QED BY <1>1, <2>4, <2>5, TokenMoved, RingKept DEF RingInv
<1>5. CASE SendMeasurements(t)
  <2>1. PICK n \in Int : n = Coming(t)
    BY <1>2
  <2>2. \A s \in Tags : Coming(s)' = IF s = t THEN n + 1 ELSE Coming(s)
    BY <1>1, <1>5, <2>1, KnownSame DEF SendMeasurements, Coming, RingInv, RingTypes
  <2>3. Token("ranging", t, 0) /\ ~Token("ranging", t, 0)'
    BY <1>5 DEF SendMeasurements, Token, RingInv, RingTypes
  <2>4. \A l, s, j : Token(l, s, j)' => Token(l, s, j) \/ <<l, s, j>> = <<"packet", t, n + 1>>
    BY <1>2, <1>5, <2>1, <2>2 DEF SendMeasurements, Token, RingInv, RingTypes
  <2>. QED BY <1>1, <2>3, <2>4, TokenMoved, RingKept DEF RingInv
<1>. QED BY <1>3, <1>4, <1>5

LEMMA WorldStepRing ==
  ASSUME RingInv, NEW t \in Tags, Restart(t) \/ Miss(t) \/ Lose(t)
  PROVE  RingInv'
<1>1. RingTypes' /\ table' = table
  <2>1. tag' \in [Tags -> TagState] /\ requests' \in [Tags -> Nat] /\ packets' \in [Tags -> Nat]
    <3>1. CASE Restart(t)
      BY <3>1 DEF Restart, RingInv, RingTypes, TagState
    <3>2. CASE Miss(t)
      BY <3>2 DEF Miss, RingInv, RingTypes
    <3>3. CASE Lose(t)
      <4>1. CASE requests[t] > 0 /\ requests' = [requests EXCEPT ![t] = @ - 1] /\ UNCHANGED packets
        BY <3>3, <4>1 DEF Lose, RingInv, RingTypes
      <4>2. CASE packets[t] > 0 /\ packets' = [packets EXCEPT ![t] = @ - 1] /\ UNCHANGED requests
        BY <3>3, <4>2 DEF Lose, RingInv, RingTypes
      <4>. QED BY <3>3, <4>1, <4>2 DEF Lose
    <3>. QED BY <3>1, <3>2, <3>3
  <2>2. table' = table /\ (restarts' = restarts \/ restarts' = restarts + 1)
    BY DEF Restart, Miss, Lose
  <2>. QED BY <2>1, <2>2 DEF RingInv, RingTypes
<1>2. \A s \in Tags : requests[s] \in Nat /\ packets[s] \in Nat /\ Coming(s) \in Int
  BY ComingInt DEF RingInv, RingTypes
<1>3. CASE Restart(t)
  <2>1. PICK n \in Int : n = Coming(t)
    BY <1>2
  <2>2. \A s \in Tags : Coming(s)' = IF s = t THEN n + 1 ELSE Coming(s)
    BY <1>1, <1>3, <2>1, KnownSame DEF Restart, Coming, RingInv, RingTypes
  <2>3. \A l, s, j : Token(l, s, j)' => Token(l, s, j) \/ <<l, s, j>> = <<"packet", t, n + 1>>
    BY <1>2, <1>3, <2>1, <2>2 DEF Restart, Token, RingInv, RingTypes
  <2>4. Made' = Made + 1
    BY <1>1, <1>3 DEF Restart, Made, RingInv, RingTypes
  <2>. QED BY <1>1, <2>3, <2>4, TokenAdded, MadeNat DEF RingInv
<1>4. CASE Miss(t) \/ Lose(t)
  <2>1. /\ UNCHANGED <<tag, restarts>>
        /\ \A s \in Tags : requests'[s] <= requests[s] /\ packets'[s] <= packets[s]
    <3>1. UNCHANGED <<tag, restarts>>
      BY <1>4 DEF Miss, Lose
    <3>2. CASE requests' = [requests EXCEPT ![t] = @ - 1] /\ UNCHANGED packets
      BY <1>2, <3>1, <3>2 DEF RingInv, RingTypes
    <3>3. CASE packets' = [packets EXCEPT ![t] = @ - 1] /\ UNCHANGED requests
      BY <1>2, <3>1, <3>3 DEF RingInv, RingTypes
    <3>. QED BY <1>4, <3>1, <3>2, <3>3 DEF Miss, Lose
  <2>2. \A s \in Tags : Coming(s)' \in Int /\ Coming(s)' <= Coming(s)
    BY <1>1, <1>2, <2>1, KnownSame DEF Coming, RingInv, RingTypes
  <2>3. \A k, s, i : Token(k, s, i)' => Token(k, s, i)
    BY <1>1, <1>2, <2>1, <2>2 DEF Token, RingTypes
  <2>. QED BY <1>1, <2>1, <2>3, TokensKept, RingKept DEF RingInv
<1>. QED BY <1>3, <1>4

LEMMA InitRing == Init => RingInv
<1>. SUFFICES ASSUME Init PROVE RingInv
  OBVIOUS
<1>1. RingTypes
  BY DEF Init, RingTypes, TagState
<1>2. Tokens = {}
  <2>1. \A t \in Tags : Coming(t) = 0
    <3>1. \A t \in Tags : ~Known(t)
      <4>1. DOMAIN table = 1..0
        BY DEF Init
      <4>. QED BY <4>1 DEF Known
    <3>2. \A t \in Tags : packets[t] = 0 /\ tag[t] = "off"
      BY DEF Init
    <3>3. \A t \in Tags : Coming(t) = 0 + 1 - 1
      BY <3>1, <3>2, Zenon DEF Coming
    <3>4. 0 + 1 - 1 = 0
      OBVIOUS
    <3>. QED BY <3>3, <3>4, Zenon
  <2>2. \A k, t, i : ~Token(k, t, i)
    BY <2>1 DEF Init, Token
  <2>. QED BY <2>2 DEF Tokens
<1>3. Made = 0
  BY DEF Init, Made
<1>. QED BY <1>1, <1>2, <1>3, FS_EmptySet DEF RingInv

LEMMA StepRing == RingInv /\ [Next]_vars => RingInv'
<1>. SUFFICES ASSUME RingInv, [Next]_vars PROVE RingInv'
  OBVIOUS
<1>1. ASSUME NEW t \in Tags, Receive(t) PROVE RingInv'
  BY <1>1, RegisterStep, PassOnStep DEF Receive
<1>2. CASE UNCHANGED vars
  <2>1. UNCHANGED <<tag, requests, packets, table, restarts>>
    BY <1>2 DEF vars
  <2>2. \A k, s, i : Token(k, s, i)' => Token(k, s, i)
    BY <2>1 DEF Token, Coming, Known
  <2>3. RingTypes'
    BY <2>1 DEF RingInv, RingTypes
  <2>. QED BY <2>1, <2>2, <2>3, TokensKept, RingKept DEF RingInv
<1>. QED BY <1>1, <1>2, TagStepRing, WorldStepRing DEF Next

LEMMA RangingCounted == ASSUME RingInv PROVE RangingBounded
<1> DEFINE ranging == {t \in Tags : tag[t] = "ranging"}
           place == [t \in ranging |-> <<"ranging", t, 0>>]
<1>1. place \in Injection(ranging, Tokens)
  <2>1. \A t \in ranging : <<"ranging", t, 0>> \in Tokens
    BY DEF Tokens, Token
  <2>. QED BY <2>1 DEF Injection, IsInjective
<1>2. IsFiniteSet(ranging) /\ Cardinality(ranging) <= Cardinality(Tokens)
  <2> HIDE DEF place, ranging
  <2>. QED BY <1>1, FS_Injection DEF RingInv
<1>3. Cardinality(ranging) \in Nat /\ Cardinality(Tokens) \in Nat
  BY <1>2, FS_CardinalityType DEF RingInv
<1>4. Cardinality(Tokens) <= Made /\ Made <= 1 + restarts /\ Made \in Nat /\ restarts \in Nat
  BY DEF RingInv, RingTypes, Made
<1>. QED BY <1>2, <1>3, <1>4 DEF RangingBounded

\* Whatever datagrams are lost and delayed and however late tags register, no more
\* tags range at a time than one and the number of restarts.
THEOREM RequestsBound == Spec => []RangingBounded
<1>1. Init => RingInv
  BY InitRing
<1>2. RingInv /\ [Next]_vars => RingInv'
  BY StepRing
<1>3. RingInv => RangingBounded
  BY RangingCounted
<1>. QED BY <1>1, <1>2, <1>3, PTL DEF Spec

----
(* The display. The table and the list grow and shrink together, and a       *)
(* message is a copy of the list.                                            *)

Link == [anchor_addr : Addresses, range : Int \X Int \X Int]
Record == [short : Addresses, eui : {0}, index : Int]
Message == [links : Seq([A : Addresses, R : Int]), whole : BOOLEAN]

DisplayTypes ==
  /\ links \in Seq(Link) /\ devices \in Seq(Record) /\ stream \in Seq(Message)
  /\ scan \in 0..Len(devices)

EachOnce(list) ==
  \A i, j \in 1..Len(list) : list[i].A = list[j].A /\ list[i].A # 0 => i = j

DisplayInv ==
  /\ DisplayTypes
  /\ \A k, l \in 1..Len(devices) : devices[k].short = devices[l].short => k = l
  /\ LinksFollowDevices
  /\ \A m \in 1..Len(stream) : EachOnce(stream[m].links)

\* A sequence without the element at a place.
LEMMA Without ==
  ASSUME NEW S, NEW s \in Seq(S), NEW i \in 1..Len(s)
  PROVE  LET d == SubSeq(s, 1, i - 1) \o SubSeq(s, i + 1, Len(s)) IN
         /\ d \in Seq(S)
         /\ Len(d) = Len(s) - 1
         /\ \A k \in 1..(Len(s) - 1) : d[k] = IF k < i THEN s[k] ELSE s[k + 1]
<1> DEFINE a == SubSeq(s, 1, i - 1)
           b == SubSeq(s, i + 1, Len(s))
<1>0. Len(s) \in Nat /\ \A k \in 1..Len(s) : s[k] \in S
  BY LenProperties, ElementOfSeq
<1>1. a \in Seq(S) /\ Len(a) = i - 1 /\ \A k \in 1..(i - 1) : a[k] = s[k]
  BY <1>0, SubSeqProperties
<1>2. b \in Seq(S) /\ Len(b) = Len(s) - i /\ \A k \in 1..(Len(s) - i) : b[k] = s[i + k]
  <2>1. /\ b \in Seq(S) /\ Len(b) = IF i + 1 <= Len(s) THEN Len(s) - (i + 1) + 1 ELSE 0
        /\ \A k \in 1..(Len(s) - (i + 1) + 1) : b[k] = s[(i + 1) + k - 1]
    BY <1>0, SubSeqProperties
  <2>. QED BY <1>0, <2>1
<1> HIDE DEF a, b
<1>3. /\ a \o b \in Seq(S) /\ Len(a \o b) = Len(a) + Len(b)
      /\ \A k \in 1..(Len(a) + Len(b)) : (a \o b)[k] = IF k <= Len(a) THEN a[k] ELSE b[k - Len(a)]
  BY <1>1, <1>2, ConcatProperties
<1>4. ASSUME NEW k \in 1..(Len(s) - 1)
      PROVE  (a \o b)[k] = IF k < i THEN s[k] ELSE s[k + 1]
  <2>1. CASE k < i
    BY <1>0, <1>1, <1>2, <1>3, <2>1
  <2>2. CASE ~(k < i)
    <3>1. (a \o b)[k] = b[k - (i - 1)] /\ k - (i - 1) \in 1..(Len(s) - i)
      BY <1>0, <1>1, <1>2, <1>3, <2>2
    <3>. QED BY <1>0, <1>2, <2>2, <3>1
  <2>. QED BY <2>1, <2>2
<1>5. Len(a \o b) = Len(s) - 1
  BY <1>0, <1>1, <1>2, <1>3
<1>. QED BY <1>3, <1>4, <1>5, Zenon DEF a, b

LEMMA InitDisplay == ASSUME Display!DisplayAssumption, Display!Init PROVE DisplayInv
<1>1. links = <<>> /\ devices = <<>> /\ stream = <<>> /\ scan = 0
  BY DEF Display!Init
<1>2. Len(links) = 0 /\ Len(devices) = 0 /\ Len(stream) = 0
  BY <1>1
<1>3. DisplayTypes
  BY <1>1, <1>2 DEF DisplayTypes
<1>. QED BY <1>2, <1>3 DEF DisplayInv, LinksFollowDevices, Display!LinksFollowDevices

\* A device and its link are put at the ends.
LEMMA NewDeviceStep ==
  ASSUME DisplayInv, NEW addr \in Addresses, Display!RangingInit(addr)
  PROVE  DisplayInv'
<1>1. CASE UNCHANGED <<devices, links, scan, stream>>
  BY <1>1 DEF DisplayInv, DisplayTypes, LinksFollowDevices, Display!LinksFollowDevices, Display!Shows
<1>2. CASE ~UNCHANGED <<devices, links, scan, stream>>
  <2> DEFINE d == [short |-> addr, eui |-> 0, index |-> Len(devices)]
             l == [anchor_addr |-> addr, range |-> <<0, 0, 0>>]
  <2>1. /\ UNCHANGED <<scan, stream>>
        /\ \A k \in 1..Len(devices) : devices[k].short # addr
        /\ devices' = Append(devices, d) /\ links' = Append(links, l)
    BY <1>2 DEF Display!RangingInit, Display!KnownShort, Display!Device, Display!Appended,
                Display!WithIndex, Display!add_link, Display!NewLink
  <2>2. links \in Seq(Link) /\ devices \in Seq(Record) /\ Len(links) \in Nat /\ Len(devices) \in Nat
    BY LenProperties DEF DisplayInv, DisplayTypes
  <2>3. d \in Record /\ l \in Link
    BY <2>2 DEF Record, Link
  <2>4. /\ devices' \in Seq(Record) /\ Len(devices') = Len(devices) + 1
        /\ \A k \in 1..Len(devices) : devices'[k].short = devices[k].short
        /\ devices'[Len(devices) + 1].short = addr
    <3> HIDE DEF d
    <3>1. /\ devices' \in Seq(Record) /\ Len(devices') = Len(devices) + 1
          /\ \A k \in 1..Len(devices) : devices'[k] = devices[k]
          /\ devices'[Len(devices) + 1] = d
      BY <2>1, <2>2, <2>3, AppendProperties
    <3>2. d.short = addr
      BY DEF d
    <3>. QED BY <3>1, <3>2
  <2>5. /\ links' \in Seq(Link) /\ Len(links') = Len(links) + 1
        /\ \A i \in 1..Len(links) : links'[i].anchor_addr = links[i].anchor_addr
        /\ links'[Len(links) + 1].anchor_addr = addr
    <3> HIDE DEF l
    <3>1. /\ links' \in Seq(Link) /\ Len(links') = Len(links) + 1
          /\ \A i \in 1..Len(links) : links'[i] = links[i]
          /\ links'[Len(links) + 1] = l
      BY <2>1, <2>2, <2>3, AppendProperties
    <3>2. l.anchor_addr = addr
      BY DEF l
    <3>. QED BY <3>1, <3>2
  <2>6. DisplayTypes'
    BY <2>1, <2>2, <2>4, <2>5 DEF DisplayInv, DisplayTypes
  <2>7. (\A k, m \in 1..Len(devices) : devices[k].short = devices[m].short => k = m)'
    BY <2>1, <2>2, <2>4 DEF DisplayInv
  <2>8. \A i \in 1..Len(links) : addr # 0 => links[i].anchor_addr # addr
    BY <2>1, <2>2 DEF DisplayInv, LinksFollowDevices, Display!LinksFollowDevices, Display!Shows
  <2>9. LinksFollowDevices'
    <3>1. \A i \in 1..(Len(links) + 1), k \in 1..(Len(devices) + 1) :
            Display!Shows(i, k)' <=> \/ i = Len(links) + 1 /\ k = Len(devices) + 1 /\ addr # 0
                                     \/ i \in 1..Len(links) /\ k \in 1..Len(devices) /\ Display!Shows(i, k)
      BY <2>1, <2>2, <2>4, <2>5, <2>8 DEF Display!Shows
    <3>2. \A k \in 1..Len(devices) :
            devices[k].short # 0 => \E i \in 1..Len(links) : Display!Shows(i, k)
      BY DEF DisplayInv, LinksFollowDevices, Display!LinksFollowDevices
    <3>3. \A i \in 1..Len(links) :
            links[i].anchor_addr # 0 => \E k \in 1..Len(devices) : Display!Shows(i, k)
      BY DEF DisplayInv, LinksFollowDevices, Display!LinksFollowDevices
    <3>4. \A i, j \in 1..Len(links), k, m \in 1..Len(devices) :
            Display!Shows(i, k) /\ Display!Shows(j, m) => (i < j <=> k < m)
      BY DEF DisplayInv, LinksFollowDevices, Display!LinksFollowDevices
    <3>5. ASSUME NEW k \in 1..(Len(devices) + 1), devices'[k].short # 0
          PROVE  \E i \in 1..(Len(links) + 1) : Display!Shows(i, k)'
      <4>1. CASE k = Len(devices) + 1
        <5>1. PICK i \in 1..(Len(links) + 1) : i = Len(links) + 1
          BY <2>2
        <5>. QED BY <2>2, <2>4, <3>1, <3>5, <4>1, <5>1
      <4>2. CASE k \in 1..Len(devices)
        <5>1. PICK i \in 1..Len(links) : Display!Shows(i, k)
          BY <2>4, <3>2, <3>5, <4>2
        <5>. QED BY <2>2, <3>1, <4>2, <5>1
      <4>. QED BY <2>2, <4>1, <4>2
    <3>6. ASSUME NEW i \in 1..(Len(links) + 1), links'[i].anchor_addr # 0
          PROVE  \E k \in 1..(Len(devices) + 1) : Display!Shows(i, k)'
      BY <2>2, <2>5, <3>1, <3>3, <3>6
    <3>7. ASSUME NEW i \in 1..(Len(links) + 1), NEW j \in 1..(Len(links) + 1),
                 NEW k \in 1..(Len(devices) + 1), NEW m \in 1..(Len(devices) + 1),
                 Display!Shows(i, k)', Display!Shows(j, m)'
          PROVE  i < j <=> k < m
      BY <2>2, <3>1, <3>4, <3>7
    <3>. QED BY <2>4, <2>5, <3>5, <3>6, <3>7, Zenon
         DEF LinksFollowDevices, Display!LinksFollowDevices
  <2>. QED BY <2>1, <2>6, <2>7, <2>9 DEF DisplayInv
<1>. QED BY <1>1, <1>2

\* A range changes no address.
LEMMA RangeStep ==
  ASSUME DisplayInv, Display!DisplayAssumption, NEW addr \in Addresses, NEW r \in Ranges,
         Display!RangeReport(addr, r)
  PROVE  DisplayInv'
<1>1. UNCHANGED <<devices, scan, stream>>
  BY DEF Display!RangeReport
<1>2. links \in Seq(Link) /\ Len(links) \in Nat /\ \A i \in 1..Len(links) : links[i] \in Link
  BY LenProperties, ElementOfSeq DEF DisplayInv, DisplayTypes
<1>3. PICK i : /\ i = Display!find_link(links, addr)
               /\ links' = IF i = 0 THEN links ELSE [links EXCEPT ![i].range = Display!Smoothed(@, r)]
  BY Zenon DEF Display!RangeReport, Display!fresh_link
<1>4. \A p \in Int \X Int \X Int : Display!Smoothed(p, r) \in Int \X Int \X Int
  <2>. SUFFICES ASSUME NEW a \in Int, NEW b \in Int, NEW c \in Int
               PROVE  Display!Smoothed(<<a, b, c>>, r) \in Int \X Int \X Int
    OBVIOUS
  <2>1. r \in Int
    BY DEF Display!DisplayAssumption
  <2>2. (r + a + b) \div 3 \in Int
    BY <2>1
  <2>. QED BY <2>2 DEF Display!Smoothed
<1>5. /\ links' \in Seq(Link) /\ Len(links') = Len(links)
      /\ \A j \in 1..Len(links) : links'[j].anchor_addr = links[j].anchor_addr
  <2>1. CASE i \in 1..Len(links) /\ i # 0
    <3> DEFINE new == [links[i] EXCEPT !.range = Display!Smoothed(@, r)]
    <3>1. new \in Link /\ new.anchor_addr = links[i].anchor_addr
      BY <1>2, <1>4, <2>1 DEF Link
    <3>2. links' = [links EXCEPT ![i] = new]
      BY <1>3, <2>1
    <3> HIDE DEF new
    <3>. QED BY <1>2, <2>1, <3>1, <3>2, ExceptSeq
  <2>2. CASE ~(i \in 1..Len(links) /\ i # 0)
    <3>1. links' = links
      BY <1>2, <1>3, <2>2, LenProperties
    <3>. QED BY <1>2, <3>1
  <2>. QED BY <2>1, <2>2
<1>6. LinksFollowDevices'
  BY <1>1, <1>5 DEF DisplayInv, LinksFollowDevices, Display!LinksFollowDevices, Display!Shows
<1>. QED BY <1>1, <1>5, <1>6 DEF DisplayInv, DisplayTypes

\* Links and devices are taken out: f and g give the places where those that stay
\* have been, and the devices that go are those whose links go.
Taken(n, d, f, g) ==
  /\ n \in Nat /\ Len(links') = n /\ d \in Nat /\ Len(devices') = d
  /\ f \in [1..n -> 1..Len(links)] /\ g \in [1..d -> 1..Len(devices)]
  /\ \A i, j \in 1..n : f[i] < f[j] <=> i < j
  /\ \A k, m \in 1..d : g[k] < g[m] <=> k < m
  /\ \A i \in 1..n : links'[i].anchor_addr = links[f[i]].anchor_addr
  /\ \A k \in 1..d : devices'[k].short = devices[g[k]].short
  /\ \A i \in 1..Len(links), k \in 1..Len(devices) : Display!Shows(i, k) =>
       ((\E j \in 1..n : f[j] = i) <=> (\E m \in 1..d : g[m] = k))

LEMMA OthersFollow ==
  ASSUME LinksFollowDevices, NEW n, NEW d, NEW f, NEW g, Taken(n, d, f, g)
  PROVE  LinksFollowDevices'
<1> USE DEF Taken
<1>1. /\ \A k \in 1..Len(devices) :
           devices[k].short # 0 => \E i \in 1..Len(links) : Display!Shows(i, k)
      /\ \A i \in 1..Len(links) :
           links[i].anchor_addr # 0 => \E k \in 1..Len(devices) : Display!Shows(i, k)
      /\ \A i, j \in 1..Len(links), k, m \in 1..Len(devices) :
           Display!Shows(i, k) /\ Display!Shows(j, m) => (i < j <=> k < m)
  BY DEF LinksFollowDevices, Display!LinksFollowDevices
<1>2. \A i \in 1..n, k \in 1..d : Display!Shows(i, k)' <=> Display!Shows(f[i], g[k])
  BY DEF Display!Shows
<1>3. ASSUME NEW k \in 1..d, devices'[k].short # 0
      PROVE  \E i \in 1..n : Display!Shows(i, k)'
  <2>1. PICK i \in 1..Len(links) : Display!Shows(i, g[k])
    BY <1>1, <1>3
  <2>2. PICK j \in 1..n : f[j] = i
    BY <2>1
  <2>. QED BY <1>2, <2>1, <2>2
<1>4. ASSUME NEW i \in 1..n, links'[i].anchor_addr # 0
      PROVE  \E k \in 1..d : Display!Shows(i, k)'
  <2>1. PICK k \in 1..Len(devices) : Display!Shows(f[i], k)
    BY <1>1, <1>4
  <2>2. PICK m \in 1..d : g[m] = k
    BY <2>1
  <2>. QED BY <1>2, <2>1, <2>2
<1>5. \A i, j \in 1..n, k, m \in 1..d :
        Display!Shows(i, k)' /\ Display!Shows(j, m)' => (i < j <=> k < m)
  BY <1>1, <1>2
<1>. QED BY <1>3, <1>4, <1>5, Zenon DEF LinksFollowDevices, Display!LinksFollowDevices

\* All places but one, in their order.
Skip(n, p) == [k \in 1..(n - 1) |-> IF k < p THEN k ELSE k + 1]

LEMMA SkipOrder ==
  ASSUME NEW n \in Nat, NEW p \in 1..n
  PROVE  /\ Skip(n, p) \in [1..(n - 1) -> 1..n]
         /\ \A k, m \in 1..(n - 1) : Skip(n, p)[k] < Skip(n, p)[m] <=> k < m
         /\ \A m \in 1..n : (\E k \in 1..(n - 1) : Skip(n, p)[k] = m) <=> m # p
<1>1. ASSUME NEW m \in 1..n, m # p
      PROVE  \E k \in 1..(n - 1) : Skip(n, p)[k] = m
  <2>1. CASE m < p
    BY <2>1 DEF Skip
  <2>2. CASE m > p
    <3>1. m - 1 \in 1..(n - 1) /\ Skip(n, p)[m - 1] = m
      BY <2>2 DEF Skip
    <3>. QED BY <3>1
  <2>. QED BY <1>1, <2>1, <2>2
<1>2. \A k \in 1..(n - 1) : Skip(n, p)[k] \in 1..n /\ Skip(n, p)[k] # p
  BY DEF Skip
<1>3. \A k, m \in 1..(n - 1) : Skip(n, p)[k] < Skip(n, p)[m] <=> k < m
  BY DEF Skip
<1>4. Skip(n, p) \in [1..(n - 1) -> 1..n]
  BY DEF Skip
<1>. QED BY <1>1, <1>2, <1>3, <1>4

\* A device and its link, if it has one, are taken out.
LEMMA CheckStep ==
  ASSUME DisplayInv, Display!CheckDevice
  PROVE  DisplayInv'
<1>1. /\ links \in Seq(Link) /\ devices \in Seq(Record) /\ Len(links) \in Nat /\ Len(devices) \in Nat
      /\ \A k \in 1..Len(devices) : devices[k] \in Record
  BY LenProperties, ElementOfSeq DEF DisplayInv, DisplayTypes
<1>2. scan \in 1..Len(devices) /\ stream' = stream
      /\ scan' = IF scan < Len(devices') THEN scan + 1 ELSE 0
  BY DEF Display!CheckDevice, DisplayInv, DisplayTypes
<1>3. CASE UNCHANGED <<devices, links>>
  <2>1. DisplayTypes' /\ Len(devices') = Len(devices)
    BY <1>1, <1>2, <1>3 DEF DisplayInv, DisplayTypes
  <2>2. LinksFollowDevices'
    BY <1>3 DEF DisplayInv, LinksFollowDevices, Display!LinksFollowDevices, Display!Shows
  <2>. QED BY <1>2, <1>3, <2>1, <2>2 DEF DisplayInv
<1>4. CASE /\ links' = Display!delete_link(links, devices[scan].short)
           /\ devices' = Display!removeNetworkDevices(devices, scan)
  <2> DEFINE addr == devices[scan].short
             d == Len(devices) - 1
             g == Skip(Len(devices), scan)
  <2>1. /\ d \in Nat /\ g \in [1..d -> 1..Len(devices)]
        /\ \A k, m \in 1..d : g[k] < g[m] <=> k < m
        /\ \A m \in 1..Len(devices) : (\E k \in 1..d : g[k] = m) <=> m # scan
    <3>1. d \in Nat
      BY <1>1, <1>2
    <3>. QED BY <1>1, <1>2, <3>1, SkipOrder, Zenon
  <2>2. /\ devices' \in Seq(Record) /\ Len(devices') = d
        /\ \A k \in 1..d : devices'[k].short = devices[g[k]].short
    <3>1. \A k \in 1..d :
            /\ k < scan => devices[k] \in Record
            /\ [devices[k + 1] EXCEPT !.index = k - 1] \in Record
            /\ [devices[k + 1] EXCEPT !.index = k - 1].short = devices[k + 1].short
      BY <1>1 DEF Record
    <3>2. devices' = [k \in 1..d |->
                        IF k < scan THEN devices[k] ELSE [devices[k + 1] EXCEPT !.index = k - 1]]
      BY <1>4 DEF Display!removeNetworkDevices, Display!WithIndex
    <3>. QED BY <2>1, <3>1, <3>2 DEF Skip
  <2> HIDE DEF addr, d, g
  <2>3. (\A k, m \in 1..Len(devices) : devices[k].short = devices[m].short => k = m)'
    <3>1. \A k, m \in 1..Len(devices) : devices[k].short = devices[m].short => k = m
      BY DEF DisplayInv
    <3>2. \A k, m \in 1..d : devices'[k].short = devices'[m].short => k = m
      BY <2>1, <2>2, <3>1
    <3>. QED BY <2>2, <3>2
  <2>4. ASSUME links' \in Seq(Link), LinksFollowDevices' PROVE DisplayInv'
    BY <1>1, <1>2, <2>2, <2>3, <2>4 DEF DisplayInv, DisplayTypes
  <2>5. CASE addr = 0
    <3>1. links' = links
      BY <1>4, <2>5 DEF addr, Display!delete_link, Display!find_link
    <3> DEFINE f == [i \in 1..Len(links) |-> i]
    <3>2. f \in [1..Len(links) -> 1..Len(links)] /\ \A i \in 1..Len(links) : f[i] = i
      OBVIOUS
    <3>3. \A i \in 1..Len(links) : ~Display!Shows(i, scan)
      BY <2>5 DEF addr, Display!Shows
    <3> HIDE DEF f
    <3>4. LinksFollowDevices'
      <4>1. \A i \in 1..Len(links), k \in 1..Len(devices) : Display!Shows(i, k) =>
              ((\E j \in 1..Len(links) : f[j] = i) <=> (\E m \in 1..d : g[m] = k))
        BY <2>1, <3>2, <3>3
      <4>2. /\ LinksFollowDevices /\ Len(links') = Len(links)
            /\ \A i, j \in 1..Len(links) : f[i] < f[j] <=> i < j
            /\ \A i \in 1..Len(links) : links'[i].anchor_addr = links[f[i]].anchor_addr
        BY <3>1, <3>2 DEF DisplayInv
      <4>3. Taken(Len(links), d, f, g)
        BY <1>1, <2>1, <2>2, <3>2, <4>1, <4>2, Zenon DEF Taken
      <4>. QED BY <4>2, <4>3, OthersFollow, Zenon
    <3>. QED BY <1>1, <2>4, <3>1, <3>4
  <2>6. CASE addr # 0
    <3>1. PICK p \in 1..Len(links) : Display!Shows(p, scan)
      BY <1>2, <2>6 DEF addr, DisplayInv, LinksFollowDevices, Display!LinksFollowDevices
    <3>2. \A i, j \in 1..Len(links), k, m \in 1..Len(devices) :
            Display!Shows(i, k) /\ Display!Shows(j, m) => (i < j <=> k < m)
      BY DEF DisplayInv, LinksFollowDevices, Display!LinksFollowDevices
    <3>3. \A i \in 1..Len(links) : links[i].anchor_addr = addr <=> i = p
      <4>1. links[p].anchor_addr = addr
        BY <3>1 DEF addr, Display!Shows
      <4>2. ASSUME NEW i \in 1..Len(links), links[i].anchor_addr = addr PROVE i = p
        <5>1. Display!Shows(i, scan)
          BY <2>6, <4>2 DEF addr, Display!Shows
        <5>. QED BY <1>1, <1>2, <3>1, <3>2, <5>1
      <4>. QED BY <4>1, <4>2
    <3>4. Display!find_link(links, addr) = p
      <4> DEFINE P(i) == /\ links[i].anchor_addr = addr
                         /\ \A j \in 1..(i - 1) : links[j].anchor_addr # addr
      <4>1. P(p) /\ \A i \in 1..Len(links) : P(i) => i = p
        BY <1>1, <3>3
      <4>2. Display!find_link(links, addr) = CHOOSE i \in 1..Len(links) : P(i)
        BY <2>6, <3>3, Zenon DEF Display!find_link
      <4> HIDE DEF P
      <4>. QED BY <4>1, <4>2, Zenon
    <3> DEFINE n == Len(links) - 1
               f == Skip(Len(links), p)
    <3>5. /\ n \in Nat /\ f \in [1..n -> 1..Len(links)]
          /\ \A i, j \in 1..n : f[i] < f[j] <=> i < j
          /\ \A j \in 1..Len(links) : (\E i \in 1..n : f[i] = j) <=> j # p
      <4>1. n \in Nat
        BY <1>1
      <4>. QED BY <1>1, <4>1, SkipOrder, Zenon
    <3>6. /\ links' \in Seq(Link) /\ Len(links') = n
          /\ \A i \in 1..n : links'[i] = links[f[i]]
      <4>1. links' = SubSeq(links, 1, p - 1) \o SubSeq(links, p + 1, Len(links))
        <5>1. p # 0
          BY <1>1
        <5>. QED BY <1>4, <3>4, <5>1, Zenon DEF addr, Display!delete_link
      <4>. QED BY <1>1, <4>1, Without DEF Skip
    <3>7. \A i \in 1..Len(links), k \in 1..Len(devices) : Display!Shows(i, k) => (i # p <=> k # scan)
      BY <1>1, <1>2, <3>1, <3>2
    <3> HIDE DEF n, f
    <3>8. LinksFollowDevices'
      <4>1. \A i \in 1..Len(links), k \in 1..Len(devices) : Display!Shows(i, k) =>
              ((\E j \in 1..n : f[j] = i) <=> (\E m \in 1..d : g[m] = k))
        BY <2>1, <3>5, <3>7
      <4>2. /\ LinksFollowDevices
            /\ \A i \in 1..n : links'[i].anchor_addr = links[f[i]].anchor_addr
        BY <3>6 DEF DisplayInv
      <4>3. Taken(n, d, f, g)
        BY <2>1, <2>2, <3>5, <3>6, <4>1, <4>2, Zenon DEF Taken
      <4>. QED BY <4>2, <4>3, OthersFollow, Zenon
    <3>. QED BY <2>4, <3>6, <3>8
  <2>. QED BY <2>5, <2>6
<1>. QED BY <1>3, <1>4 DEF Display!CheckDevice

\* No address but 0 comes twice in a message, as no two devices share one.
LEMMA PublishStep ==
  ASSUME DisplayInv, Display!Publish
  PROVE  DisplayInv'
<1> DEFINE list == Display!make_link_json(links)
           message == [links |-> list, whole |-> TRUE]
<1>1. /\ links \in Seq(Link) /\ Len(links) \in Nat /\ stream \in Seq(Message)
      /\ \A i \in 1..Len(links) : links[i] \in Link
  BY LenProperties, ElementOfSeq DEF DisplayInv, DisplayTypes
<1>2. UNCHANGED <<devices, links, scan>> /\ stream' = Append(stream, message)
  BY DEF Display!Publish, Display!tagVars
<1>3. /\ list \in Seq([A : Addresses, R : Int]) /\ Len(list) = Len(links)
      /\ \A i \in 1..Len(links) : list[i].A = links[i].anchor_addr
  <2>1. list = [i \in 1..Len(links) |-> [A |-> links[i].anchor_addr, R |-> links[i].range[1]]]
    BY DEF Display!make_link_json
  <2>2. \A i \in 1..Len(links) :
          [A |-> links[i].anchor_addr, R |-> links[i].range[1]] \in [A : Addresses, R : Int]
    BY <1>1 DEF Link
  <2> HIDE DEF list
  <2>. QED BY <1>1, <2>1, <2>2
<1>4. EachOnce(list)
  <2>1. ASSUME NEW i \in 1..Len(links), NEW j \in 1..Len(links),
               links[i].anchor_addr = links[j].anchor_addr, links[i].anchor_addr # 0
        PROVE  i = j
    <3>1. PICK k \in 1..Len(devices) : Display!Shows(i, k)
      BY <2>1 DEF DisplayInv, LinksFollowDevices, Display!LinksFollowDevices
    <3>2. Display!Shows(j, k)
      BY <2>1, <3>1 DEF Display!Shows
    <3>3. i < j <=> k < k
      BY <3>1, <3>2 DEF DisplayInv, LinksFollowDevices, Display!LinksFollowDevices
    <3>4. j < i <=> k < k
      BY <3>1, <3>2 DEF DisplayInv, LinksFollowDevices, Display!LinksFollowDevices
    <3>. QED BY <1>1, <3>3, <3>4
  <2> HIDE DEF list
  <2>. QED BY <1>3, <2>1 DEF EachOnce
<1>5. message \in Message /\ message.links = list
  BY <1>3 DEF Message
<1>6. stream' \in Seq(Message) /\ \A m \in 1..Len(stream') : EachOnce(stream'[m].links)
  <2> HIDE DEF message, list
  <2>1. /\ Len(stream) \in Nat /\ stream' \in Seq(Message) /\ Len(stream') = Len(stream) + 1
        /\ \A m \in 1..Len(stream) : stream'[m] = stream[m]
        /\ stream'[Len(stream) + 1] = message
    BY <1>1, <1>2, <1>5, LenProperties, AppendProperties
  <2>2. \A m \in 1..Len(stream) : EachOnce(stream[m].links)
    BY DEF DisplayInv
  <2>. QED BY <1>4, <1>5, <2>1, <2>2
<1>7. LinksFollowDevices'
  BY <1>2 DEF DisplayInv, LinksFollowDevices, Display!LinksFollowDevices, Display!Shows
<1>. QED BY <1>2, <1>6, <1>7 DEF DisplayInv, DisplayTypes

\* What is left of the stream are messages as they were sent.
LEMMA ReadStep ==
  ASSUME DisplayInv, Display!ReadData
  PROVE  DisplayInv'
<1>1. UNCHANGED <<devices, links, scan>>
  BY DEF Display!ReadData, Display!tagVars
<1>2. PICK n \in 0..Len(stream), cut \in BOOLEAN :
        (cut => n < Len(stream)) /\ stream' = Display!ReadTo(n, cut)
  BY DEF Display!ReadData
<1> DEFINE rest == SubSeq(stream, n + 1, Len(stream))
<1>3. /\ stream \in Seq(Message) /\ Len(stream) \in Nat
      /\ \A m \in 1..Len(stream) : stream[m] \in Message
  BY LenProperties, ElementOfSeq DEF DisplayInv, DisplayTypes
<1>4. /\ rest \in Seq(Message) /\ Len(rest) = Len(stream) - n
      /\ \A m \in 1..(Len(stream) - n) : rest[m] = stream[n + m]
  <2>1. /\ rest \in Seq(Message)
        /\ Len(rest) = IF n + 1 <= Len(stream) THEN Len(stream) - (n + 1) + 1 ELSE 0
        /\ \A m \in 1..(Len(stream) - (n + 1) + 1) : rest[m] = stream[(n + 1) + m - 1]
    BY <1>3, SubSeqProperties
  <2> HIDE DEF rest
  <2>. QED BY <1>3, <2>1
<1>5. /\ stream' \in Seq(Message) /\ Len(stream') = Len(rest)
      /\ \A m \in 1..Len(rest) : stream'[m].links = rest[m].links
  <2>1. CASE cut
    <3> DEFINE part == [rest[1] EXCEPT !.whole = FALSE]
    <3>1. stream' = [rest EXCEPT ![1].whole = FALSE]
      BY <1>2, <2>1, Zenon DEF Display!ReadTo
    <3>2. 1 \in 1..Len(rest)
      <4> HIDE DEF rest
      <4>. QED BY <1>2, <1>3, <1>4, <2>1
    <3>3. stream' = [rest EXCEPT ![1] = part]
      <4> HIDE DEF rest
      <4>. QED BY <3>1
    <3>4. part \in Message /\ part.links = rest[1].links
      <4>1. rest[1] \in Message
        BY <1>4, <3>2, ElementOfSeq
      <4> HIDE DEF rest
      <4>. QED BY <4>1 DEF Message
    <3> HIDE DEF part, rest
    <3>. QED BY <1>4, <3>2, <3>3, <3>4, ExceptSeq
  <2>2. CASE ~cut
    <3>1. stream' = rest
      BY <1>2, <2>2 DEF Display!ReadTo
    <3>. QED BY <1>4, <3>1
  <2>. QED BY <2>1, <2>2
<1>6. \A m \in 1..Len(stream') : EachOnce(stream'[m].links)
  <2> HIDE DEF rest
  <2>1. \A m \in 1..Len(stream) : EachOnce(stream[m].links)
    BY DEF DisplayInv
  <2>2. \A m \in 1..Len(rest) : stream'[m].links = stream[n + m].links /\ n + m \in 1..Len(stream)
    BY <1>3, <1>4, <1>5
  <2>. QED BY <1>5, <2>1, <2>2
<1>7. LinksFollowDevices'
  BY <1>1 DEF DisplayInv, LinksFollowDevices, Display!LinksFollowDevices, Display!Shows
<1>. QED BY <1>1, <1>5, <1>6, <1>7 DEF DisplayInv, DisplayTypes

LEMMA StepDisplay ==
  ASSUME Display!DisplayAssumption, DisplayInv, Display!Next
  PROVE  DisplayInv'
<1>1. CASE Display!StartScan
  <2>1. UNCHANGED <<devices, links, stream>> /\ scan' = 1 /\ devices # <<>>
    BY <1>1 DEF Display!StartScan
  <2>2. 1 \in 0..Len(devices)
    BY <2>1, EmptySeq, LenProperties DEF DisplayInv, DisplayTypes
  <2>3. LinksFollowDevices'
    BY <2>1 DEF DisplayInv, LinksFollowDevices, Display!LinksFollowDevices, Display!Shows
  <2>. QED BY <2>1, <2>2, <2>3 DEF DisplayInv, DisplayTypes
<1>2. CASE Display!Disconnect
  <2>1. UNCHANGED <<devices, links, scan, stream>>
    BY <1>2 DEF Display!Disconnect, Display!tagVars
  <2>2. LinksFollowDevices'
    BY <2>1 DEF DisplayInv, LinksFollowDevices, Display!LinksFollowDevices, Display!Shows
  <2>. QED BY <2>1, <2>2 DEF DisplayInv, DisplayTypes
<1>. QED BY <1>1, <1>2, NewDeviceStep, RangeStep, CheckStep, PublishStep, ReadStep
     DEF Display!Next

LEMMA StepEach == DisplayInv /\ [RingStep \/ DisplayStep]_<<use, vars, displayVars>> => DisplayInv'
<1>. SUFFICES ASSUME DisplayInv, [RingStep \/ DisplayStep]_<<use, vars, displayVars>>
              PROVE  DisplayInv'
  OBVIOUS
<1>1. CASE DisplayStep
  BY <1>1, StepDisplay, DisplayValues DEF DisplayStep
<1>2. CASE UNCHANGED displayVars
  <2>1. UNCHANGED <<devices, links, scan, stream>>
    BY <1>2 DEF displayVars
  <2>2. LinksFollowDevices'
    BY <2>1 DEF DisplayInv, LinksFollowDevices, Display!LinksFollowDevices, Display!Shows
  <2>. QED BY <2>1, <2>2 DEF DisplayInv, DisplayTypes
<1>. QED BY <1>1, <1>2 DEF RingStep

LEMMA DisplayInvariant == EachSpec => []DisplayInv
<1>1. EachInit => DisplayInv
  BY InitDisplay, DisplayValues DEF EachInit
<1>2. DisplayInv /\ [RingStep \/ DisplayStep]_<<use, vars, displayVars>> => DisplayInv'
  BY StepEach
<1>. QED BY <1>1, <1>2, PTL DEF EachSpec

\* Whatever anchors come, range and go, the list of the display shows each of them
\* once and in the order of the table.
THEOREM ListFollows == EachSpec => []LinksFollowDevices
<1>1. DisplayInv => LinksFollowDevices
  BY DEF DisplayInv
<1>. QED BY <1>1, DisplayInvariant, PTL

LEMMA SameCardinality == \A S : Display!Cardinality(S) = Cardinality(S)
BY DEF Cardinality, Display!Cardinality

\* With two different addresses that come at most once, two entries are both.
LEMMA TwoNodes ==
  ASSUME Display!DisplayAssumption, NEW list, EachOnce(list), Display!NodeCount(list) = 2
  PROVE  \E i, j \in 1..Len(list) :
           /\ list[i].A = Anchor1 /\ list[j].A = Anchor2
           /\ \A old : Display!RangeOf(list, Anchor1, old) = list[i].R
           /\ \A old : Display!RangeOf(list, Anchor2, old) = list[j].R
<1> DEFINE E(anchor) == {i \in 1..Len(list) : list[i].A = anchor}
<1>1. Anchor1 # 0 /\ Anchor2 # 0
  BY Zenon DEF Display!DisplayAssumption
<1>2. Cardinality(E(Anchor1) \cup E(Anchor2)) = 2
  BY SameCardinality, Zenon DEF Display!NodeCount, Display!Entries
<1>3. ASSUME NEW anchor, anchor # 0, NEW i \in E(anchor) PROVE E(anchor) = {i}
  BY <1>3 DEF EachOnce
<1>4. ASSUME NEW a, NEW b, a # 0, b # 0, E(a) = {}, Cardinality(E(b)) = 2 PROVE FALSE
  <2>1. CASE E(b) = {}
    BY <1>4, <2>1, FS_EmptySet
  <2>2. ASSUME NEW i \in E(b) PROVE FALSE
    <3>1. E(b) = {i}
      BY <1>3, <1>4, <2>2, Zenon
    <3>2. Cardinality({i}) = 1
      BY FS_Singleton, Zenon
    <3> HIDE DEF E
    <3>. QED BY <1>4, <3>1, <3>2
  <2>. QED BY <2>1, <2>2
<1>5. E(Anchor1) # {}
  <2>1. E(Anchor1) = {} => E(Anchor1) \cup E(Anchor2) = E(Anchor2)
    OBVIOUS
  <2> HIDE DEF E
  <2>. QED BY <1>1, <1>2, <1>4, <2>1
<1>6. E(Anchor2) # {}
  <2>1. E(Anchor2) = {} => E(Anchor1) \cup E(Anchor2) = E(Anchor1)
    OBVIOUS
  <2> HIDE DEF E
  <2>. QED BY <1>1, <1>2, <1>4, <2>1
<1>7. ASSUME NEW anchor, anchor # 0, NEW i \in E(anchor), NEW old
      PROVE  Display!RangeOf(list, anchor, old) = list[i].R
  <2> DEFINE P(k) == list[k].A = anchor /\ \A j \in (k + 1)..Len(list) : list[j].A # anchor
  <2>1. i \in 1..Len(list) /\ list[i].A = anchor
    BY <1>7
  <2>2. \A k \in 1..Len(list) : list[k].A = anchor => k = i
    BY <1>7, <2>1 DEF EachOnce
  <2>3. P(i) /\ \A k \in 1..Len(list) : P(k) => k = i
    BY <2>1, <2>2
  <2>4. (CHOOSE k \in 1..Len(list) : P(k)) = i
    <3> HIDE DEF P
    <3>. QED BY <2>1, <2>3, Zenon
  <2>5. Display!RangeOf(list, anchor, old) = list[CHOOSE k \in 1..Len(list) : P(k)].R
    BY <2>1, Zenon DEF Display!RangeOf
  <2>. QED BY <2>4, <2>5, Zenon
<1>. QED BY <1>1, <1>5, <1>6, <1>7

LEMMA DrawnStep ==
  ASSUME DisplayInv, Display!DisplayAssumption, Display!Next, drawn' # drawn
  PROVE  LET list == stream[1].links IN
         \E i, j \in 1..Len(list) : /\ list[i].A = Anchor1 /\ list[j].A = Anchor2
                                    /\ drawn' = <<list[j].R, list[i].R>>
<1>1. Display!ReadData
  BY Zenon DEF Display!Next, Display!RangingInit, Display!RangeReport, Display!StartScan,
     Display!CheckDevice, Display!Publish, Display!Disconnect, Display!plotVars
<1>2. PICK n \in 0..Len(stream), cut \in BOOLEAN :
        LET list == Display!Parsed(n, cut)
            a1 == Display!RangeOf(list, Anchor1, a1_range)
            a2 == Display!RangeOf(list, Anchor2, a2_range)
        IN  drawn' = IF Display!NodeCount(list) = 2 /\ Display!HasPosition(a2, a1)
                     THEN <<a2, a1>> ELSE drawn
  BY <1>1, Zenon DEF Display!ReadData
<1> DEFINE list == Display!Parsed(n, cut)
<1>3. /\ Display!NodeCount(list) = 2
      /\ drawn' = <<Display!RangeOf(list, Anchor2, a2_range), Display!RangeOf(list, Anchor1, a1_range)>>
  BY <1>2, Zenon
<1>4. list = stream[1].links /\ n = 1
  <2>1. CASE n = 1 /\ ~cut /\ stream[1].whole
    BY <2>1, Zenon DEF Display!Parsed
  <2>2. CASE ~(n = 1 /\ ~cut /\ stream[1].whole)
    <3>1. list = <<>>
      BY <2>2, Zenon DEF Display!Parsed
    <3>2. Display!Entries(<<>>, Anchor1) \cup Display!Entries(<<>>, Anchor2) = {}
      <4>1. 1..Len(<<>>) = {}
        OBVIOUS
      <4>. QED BY <4>1, Zenon DEF Display!Entries
    <3>3. Display!NodeCount(list) = 0
      BY <3>1, <3>2, FS_EmptySet, SameCardinality, Zenon DEF Display!NodeCount
    <3> HIDE DEF list
    <3>. QED BY <1>3, <3>3
  <2>. QED BY <2>1, <2>2
<1>5. EachOnce(list)
  <2>1. 1 \in 1..Len(stream)
    BY <1>4, LenProperties DEF DisplayInv, DisplayTypes
  <2>2. EachOnce(stream[1].links)
    BY <2>1, Zenon DEF DisplayInv
  <2>. QED BY <1>4, <2>2, Zenon
<1> HIDE DEF list
<1>6. PICK i \in 1..Len(list), j \in 1..Len(list) :
        /\ list[i].A = Anchor1 /\ list[j].A = Anchor2
        /\ \A old : Display!RangeOf(list, Anchor1, old) = list[i].R
        /\ \A old : Display!RangeOf(list, Anchor2, old) = list[j].R
  BY <1>3, <1>5, TwoNodes, Zenon
<1>7. drawn' = <<list[j].R, list[i].R>>
  BY <1>3, <1>6
<1>. QED BY <1>4, <1>6, <1>7, Zenon

\* A position is drawn from the two ranges of one message, however the stream was cut
\* and whatever ranges earlier messages had.
THEOREM PositionsFromOneMessage == EachSpec => DrawnFromOneMessage
<1> DEFINE Drawn == LET list == stream[1].links IN
                    \E i, j \in 1..Len(list) : /\ list[i].A = Anchor1 /\ list[j].A = Anchor2
                                               /\ drawn' = <<list[j].R, list[i].R>>
<1>1. DisplayInv /\ [RingStep \/ DisplayStep]_<<use, vars, displayVars>> => (drawn' # drawn => Drawn)
  <2>. SUFFICES ASSUME DisplayInv, [RingStep \/ DisplayStep]_<<use, vars, displayVars>>,
                       drawn' # drawn
                PROVE  Drawn
    OBVIOUS
  <2>1. Display!Next
    BY DEF RingStep, DisplayStep, displayVars
  <2>. QED BY <2>1, DrawnStep, DisplayValues
<1>2. DisplayInv /\ [RingStep \/ DisplayStep]_<<use, vars, displayVars>> =>
        [drawn' # drawn => Drawn]_Display!vars
  BY <1>1
<1>. QED BY <1>2, DisplayInvariant, PTL
     DEF EachSpec, DrawnFromOneMessage, Display!DrawnFromOneMessage
====
