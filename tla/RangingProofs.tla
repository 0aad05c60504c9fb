---------------------------- MODULE RangingProofs ----------------------------
(***************************************************************************)
(* For any set of tags and anchors, every interleaving and any number of   *)
(* faults: the variables of Ranging keep their types and the tables of     *)
(* devices stay consistent.  For one tag, any number of anchors and the    *)
(* timing of the delays: the device the tag lists last is always ranged on *)
(* matching timestamps, and all devices are while there was no more than   *)
(* one fault, unless that was the loss of a POLL_ACK.                      *)
(***************************************************************************)
EXTENDS RangingProperties, TLAPS, SequenceTheorems, WellFoundedInduction

(***************************************************************************)
(* What the operations of DeviceTable return, for tables of any length.    *)
(***************************************************************************)

\* A set of device records in which the index can be set.
DeviceSet(D) ==
  \A d \in D : \A k \in Nat :
    LET e == WithIndex(d, k)
    IN  e \in D /\ e.index = k /\ e.short = d.short /\ e.eui = d.eui

Consistent(table) == ShortAddressesDistinct(table) /\ IndexIsPlace(table)

\* A nonempty set of natural numbers has a least element.
LEMMA LeastNat ==
  ASSUME NEW S \in SUBSET Nat, S # {}
  PROVE  \E m \in S : \A k \in S : m <= k
<1> DEFINE R == {p \in Nat \X Nat : p[1] < p[2]}
<1>1. IsWellFoundedOn(R, Nat)
  BY NatLessThanWellFounded, Zenon DEF OpToRel
<1>2. \E x \in S : \A y \in S : ~(<<y, x>> \in R)
  <2>. HIDE DEF R
  <2>. QED BY <1>1, WFMin, Zenon
<1>3. PICK x \in S : \A y \in S : ~(<<y, x>> \in R)
  BY <1>2
<1>4. ASSUME NEW y \in S PROVE x <= y
  <2>1. <<y, x>> \in Nat \X Nat /\ <<y, x>>[1] = y /\ <<y, x>>[2] = x
    OBVIOUS
  <2>2. ~(y < x)
    BY <1>3, <2>1, Zenon
  <2>. QED BY <2>2
<1>. QED BY <1>4

\* searchDistantDevice returns a place of the address, or 0 where there is none.
LEMMA SearchResult ==
  ASSUME NEW D, NEW table \in Seq(D), NEW short
  PROVE  LET i == searchDistantDevice(table, short)
         IN  /\ i \in 0..Len(table)
             /\ i # 0 => table[i].short = short
             /\ i = 0 => \A j \in 1..Len(table) : table[j].short # short
<1> DEFINE S == {j \in 1..Len(table) : table[j].short = short}
<1>1. Len(table) \in Nat
  BY LenProperties
<1>2. CASE S = {}
  BY <1>1, <1>2 DEF searchDistantDevice
<1>3. CASE S # {}
  <2>1. S \in SUBSET Nat
    BY <1>1
  <2>2. PICK m \in S : \A k \in S : m <= k
    BY <1>3, <2>1, LeastNat
  <2>3. \A j \in 1..(m - 1) : table[j].short # short
    BY <1>1, <2>2
  <2>4. \E i \in 1..Len(table) :
          table[i].short = short /\ \A j \in 1..(i - 1) : table[j].short # short
    BY <2>2, <2>3
  <2>5. searchDistantDevice(table, short) =
          CHOOSE i \in 1..Len(table) :
            table[i].short = short /\ \A j \in 1..(i - 1) : table[j].short # short
    BY <1>3 DEF searchDistantDevice
  <2>. QED BY <1>1, <2>4, <2>5
<1>. QED BY <1>2, <1>3

\* A removal leaves one device less, each with the addresses of a device of the
\* old table.
LEMMA RemovedTable ==
  ASSUME NEW D, DeviceSet(D), NEW table \in Seq(D), NEW i \in 1..Len(table)
  PROVE  LET new == removeNetworkDevices(table, i)
         IN  /\ new \in Seq(D)
             /\ Len(new) = Len(table) - 1
             /\ \A k \in 1..Len(new) :
                  /\ k < i => new[k] = table[k]
                  /\ k >= i => /\ new[k].short = table[k + 1].short
                               /\ new[k].index = k - 1
<1> DEFINE n == Len(table) - 1
           new == removeNetworkDevices(table, i)
<1>1. Len(table) \in Nat /\ n \in Nat /\ \A k \in 1..Len(table) : table[k] \in D
  BY LenProperties, ElementOfSeq
<1>2. \A k \in 1..n : LET e == WithIndex(table[k + 1], k - 1)
                     IN  /\ e \in D /\ e.index = k - 1
                         /\ e.short = table[k + 1].short
  <2>. SUFFICES ASSUME NEW k \in 1..n
                PROVE  LET e == WithIndex(table[k + 1], k - 1)
                       IN  /\ e \in D /\ e.index = k - 1
                           /\ e.short = table[k + 1].short
    OBVIOUS
  <2>1. table[k + 1] \in D /\ k - 1 \in Nat
    BY <1>1
  <2>. QED BY <2>1 DEF DeviceSet
<1>3. \A k \in 1..n : new[k] = IF k < i THEN table[k] ELSE WithIndex(table[k + 1], k - 1)
  BY DEF removeNetworkDevices
<1>4. new \in [1..n -> D]
  BY <1>1, <1>2 DEF removeNetworkDevices
<1>5. new \in Seq(D) /\ Len(new) = n
  BY <1>1, <1>4, IsASeq, LenProperties
<1>. QED BY <1>1, <1>2, <1>3, <1>5

\* A removal keeps a table consistent.
LEMMA RemovedConsistent ==
  ASSUME NEW D, DeviceSet(D), NEW table \in Seq(D), NEW i \in 1..Len(table),
         Consistent(table)
  PROVE  Consistent(removeNetworkDevices(table, i))
<1> DEFINE new == removeNetworkDevices(table, i)
<1>1. /\ Len(table) \in Nat
      /\ Len(new) = Len(table) - 1
      /\ \A k \in 1..Len(new) :
           /\ k < i => new[k] = table[k]
           /\ k >= i => new[k].short = table[k + 1].short /\ new[k].index = k - 1
  BY RemovedTable, LenProperties
<1>. HIDE DEF new
<1>2. IndexIsPlace(new)
  BY <1>1 DEF IndexIsPlace, Consistent
<1>3. ASSUME NEW j \in 1..Len(new), NEW k \in 1..Len(new), new[j].short = new[k].short
      PROVE  j = k
  <2> DEFINE old(m) == IF m < i THEN m ELSE m + 1
  <2>1. ASSUME NEW m \in 1..Len(new)
        PROVE  old(m) \in 1..Len(table) /\ new[m].short = table[old(m)].short
    <3>1. CASE m < i
      BY <1>1, <3>1
    <3>2. CASE ~(m < i)
      <4>1. new[m].short = table[m + 1].short
        BY <1>1, <3>2
      <4>. QED BY <1>1, <3>2, <4>1
    <3>. QED BY <3>1, <3>2
  <2>2. old(j) = old(k)
    <3>. HIDE DEF old
    <3>. QED BY <1>3, <2>1 DEF Consistent, ShortAddressesDistinct
  <2>. QED BY <1>1, <2>2
<1>. QED BY <1>2, <1>3 DEF Consistent, ShortAddressesDistinct, new

\* Entering a device whose short address is new keeps a table consistent.
LEMMA AppendedConsistent ==
  ASSUME NEW D, DeviceSet(D), NEW table \in Seq(D), NEW d \in D,
         ~KnownShort(table, d), Consistent(table)
  PROVE  /\ Appended(table, d) \in Seq(D)
         /\ Consistent(Appended(table, d))
<1> DEFINE e == WithIndex(d, Len(table))
           new == Append(table, e)
<1>1. Len(table) \in Nat
  BY LenProperties
<1>2. e \in D /\ e.index = Len(table) /\ e.short = d.short
  BY <1>1 DEF DeviceSet
<1>. HIDE DEF e
<1>3. /\ new \in Seq(D) /\ Len(new) = Len(table) + 1
      /\ \A k \in 1..Len(table) : new[k] = table[k]
      /\ new[Len(table) + 1] = e
  BY <1>2, AppendProperties
<1>. HIDE DEF new
<1>4. IndexIsPlace(new)
  BY <1>1, <1>2, <1>3 DEF Consistent, IndexIsPlace
<1>5. ShortAddressesDistinct(new)
  BY <1>1, <1>2, <1>3 DEF Consistent, ShortAddressesDistinct, KnownShort
<1>. QED BY <1>3, <1>4, <1>5 DEF Appended, Consistent, new, e

\* Entering a device keeps the type of a table.
LEMMA AppendedType ==
  ASSUME NEW D, DeviceSet(D), NEW table \in Seq(D), NEW d \in D
  PROVE  Appended(table, d) \in Seq(D)
<1>1. WithIndex(d, Len(table)) \in D
  BY LenProperties DEF DeviceSet
<1>. QED BY <1>1, AppendProperties DEF Appended

\* Changing devices without their addresses and index keeps a table consistent.
LEMMA UpdatedConsistent ==
  ASSUME NEW D, NEW table \in Seq(D), NEW new \in Seq(D),
         Len(new) = Len(table),
         \A k \in 1..Len(table) :
           new[k].short = table[k].short /\ new[k].index = table[k].index,
         Consistent(table)
  PROVE  Consistent(new)
BY DEF Consistent, ShortAddressesDistinct, IndexIsPlace

(***************************************************************************)
(* The nodes of Ranging.                                                   *)
(***************************************************************************)

\* A device whose two addresses are those of one node: what anchors compare
\* (both addresses) and what they search by (the short one) then agree.
PairedDevice == {d \in Device : d.eui = d.short}

\* The receive buffer holds a frame when _receivedAck is set, it and the shared
\* buffer when a received frame is handled.
BuffersFilled ==
  \A n \in Node : /\ receivedAck[n] => rx[n] # None
                  /\ pc[n] = "handle" => data[n] # None /\ rx[n] # None

\* The inductive invariant.
IInv ==
  /\ TypeOK
  /\ TablesConsistent
  /\ dev \in [Node -> Seq(PairedDevice)]
  /\ BuffersFilled
------------------------------------------------------------------------------
\* Setting the index of a device leaves it a device.
LEMMA PairedDeviceSet == DeviceSet(PairedDevice)
BY DEF DeviceSet, PairedDevice, Device, WithIndex

LEMMA DeviceSetDevice == DeviceSet(Device)
BY DEF DeviceSet, Device, WithIndex

\* One place of a table is given a device with the same addresses and index.
LEMMA SetDevice ==
  ASSUME NEW table \in Seq(PairedDevice), Consistent(table),
         NEW i \in 1..Len(table), NEW d \in Device,
         d.short = table[i].short, d.eui = table[i].eui, d.index = table[i].index
  PROVE  LET new == [table EXCEPT ![i] = d]
         IN  new \in Seq(PairedDevice) /\ Consistent(new)
<1> DEFINE new == [table EXCEPT ![i] = d]
<1>1. table[i] \in PairedDevice /\ d \in PairedDevice
  BY ElementOfSeq DEF PairedDevice
<1>2. /\ new \in Seq(PairedDevice) /\ Len(new) = Len(table)
      /\ \A k \in 1..Len(table) : new[k] = IF k = i THEN d ELSE table[k]
  BY <1>1, ExceptSeq
<1>. HIDE DEF new
<1>3. Consistent(new)
  BY <1>2, UpdatedConsistent
<1>. QED BY <1>2, <1>3 DEF new

\* Every place of a table is given a device with the same addresses and index.
LEMMA MapDevices ==
  ASSUME NEW table \in Seq(PairedDevice), Consistent(table), NEW new,
         new \in [1..Len(table) -> Device],
         \A k \in 1..Len(table) : /\ new[k].short = table[k].short
                                  /\ new[k].eui = table[k].eui
                                  /\ new[k].index = table[k].index
  PROVE  new \in Seq(PairedDevice) /\ Len(new) = Len(table) /\ Consistent(new)
<1>1. Len(table) \in Nat /\ \A k \in 1..Len(table) : table[k] \in PairedDevice
  BY LenProperties, ElementOfSeq
<1>2. new \in [1..Len(table) -> PairedDevice]
  BY <1>1 DEF PairedDevice
<1>3. new \in Seq(PairedDevice) /\ Len(new) = Len(table)
  BY <1>1, <1>2, IsASeq, LenProperties
<1>4. Consistent(new)
  BY <1>3, UpdatedConsistent
<1>. QED BY <1>3, <1>4

LEMMA MkFrame ==
  ASSUME NEW type \in MessageType, NEW src \in Node, NEW tag \in Node,
         NEW r \in 0..MaxRound, NEW due \in Nat, NEW list \in Seq(Entry),
         NEW range \in MaybeDistance
  PROVE  Mk(type, src, tag, r, due, list, range) \in Frame
BY DEF Mk, Frame, Stamp

\* No frame is None: a set of frames and None tells them apart.
LEMMA FrameFacts ==
  ASSUME NEW f \in MaybeFrame, f # None
  PROVE  /\ f \in Frame /\ f.id \in Stamp /\ Type(f) \in MessageType
         /\ f.id.src \in Node /\ f.id.tag \in Node /\ f.id.round \in 0..MaxRound
         /\ f.due \in Nat /\ f.list \in Seq(Entry) /\ f.range \in MaybeDistance
BY DEF MaybeFrame, Frame, Stamp, Type

\* The lists POLL and RANGE carry are lists of entries.
LEMMA ListTypes ==
  ASSUME NEW table \in Seq(Device)
  PROVE  PollList(table) \in Seq(Entry) /\ RangeList(table) \in Seq(Entry)
<1>1. Len(table) \in Nat /\ \A k \in 1..Len(table) : table[k] \in Device
  BY LenProperties, ElementOfSeq
<1>2. PollList(table) \in [1..Len(table) -> Entry]
  BY <1>1 DEF PollList, Entry, Device, MaybeStamp
<1>3. RangeList(table) \in [1..Len(table) -> Entry]
  BY <1>1 DEF RangeList, Entry, Device
<1>. QED BY <1>1, <1>2, <1>3, IsASeq

\* What the invariant says of one node, at hand where a step is examined.
LEMMA AtNode ==
  ASSUME IInv, NEW n \in Node
  PROVE  /\ dev[n] \in Seq(PairedDevice) /\ dev[n] \in Seq(Device)
         /\ Len(dev[n]) \in Nat /\ Consistent(dev[n])
         /\ \A k \in 1..Len(dev[n]) : dev[n][k] \in Device /\ dev[n][k] \in PairedDevice
<1>1. dev[n] \in Seq(PairedDevice) /\ dev[n] \in Seq(Device) /\ Consistent(dev[n])
  BY DEF IInv, TypeOK, TablesConsistent, Consistent
<1>. QED BY <1>1, LenProperties, ElementOfSeq

\* The table of one node is replaced by a consistent one.
LEMMA SetTable ==
  ASSUME IInv, NEW n \in Node, NEW table \in Seq(PairedDevice), Consistent(table),
         dev' = [dev EXCEPT ![n] = table]
  PROVE  /\ dev' \in [Node -> Seq(PairedDevice)] /\ dev' \in [Node -> Seq(Device)]
         /\ TablesConsistent'
<1>1. Seq(PairedDevice) \subseteq Seq(Device)
  <2>1. PairedDevice \subseteq Device
    BY DEF PairedDevice
  <2>. QED BY <2>1
<1>. QED BY <1>1, Zenon DEF IInv, TypeOK, TablesConsistent, Consistent
------------------------------------------------------------------------------
THEOREM InitIInv == Init => IInv
<1>. SUFFICES ASSUME Init PROVE IInv
  OBVIOUS
<1>1. TypeOK
  <2>1. dev \in [Node -> Seq(Device)]
    BY DEF Init
  <2>2. /\ blinkCount \in [Tags -> Nat] /\ blinkLimit \in [Tags -> Nat]
        /\ round \in [Tags -> 0..MaxRound] /\ faults \in 0..MaxFaults
    BY BoundsAssumption DEF Init
  <2>3. pc \in [Node -> Control] /\ scan \in [Node -> Nat \ {0}] /\ reply \in [Node -> Nat]
    BY DEF Init, Control
  <2>4. /\ data \in [Node -> MaybeFrame] /\ tx \in [Node -> MaybeFrame]
        /\ rx \in [Node -> MaybeFrame] /\ lastTx \in [Node -> MaybeStamp]
        /\ lastSent \in [Node -> Node \cup {None, Broadcast}]
        /\ expected \in [Node -> MessageType]
    BY DEF Init, MaybeFrame, MaybeStamp, MessageType
  <2>. QED BY <2>1, <2>2, <2>3, <2>4 DEF Init, TypeOK
<1>2. TablesConsistent
  BY DEF Init, TablesConsistent, ShortAddressesDistinct, IndexIsPlace
<1>3. dev \in [Node -> Seq(PairedDevice)]
  BY DEF Init
<1>4. BuffersFilled
  BY DEF Init, BuffersFilled
<1>. QED BY <1>1, <1>2, <1>3, <1>4 DEF IInv

\* A step that leaves the tables alone.
LEMMA SameTables ==
  ASSUME IInv, UNCHANGED dev
  PROVE  TablesConsistent' /\ dev' \in [Node -> Seq(PairedDevice)]
BY DEF IInv, TablesConsistent

\* The steps of loop() that leave the tables alone.
LEMMA PlainLoopSteps ==
  ASSUME IInv, NEW n \in Node,
         PassHead(n) \/ NotSent(n) \/ SentUnexpected(n) \/ NotReceived(n)
           \/ GetData(n) \/ UnknownSource(n)
  PROVE  IInv'
<1> USE DEF loopVars, timerVars, chipVars, flagVars, worldVars, Goto
<1>1. UNCHANGED dev
  BY DEF PassHead, NotSent, SentUnexpected, NotReceived, GetData, UnknownSource
<1>2. CASE PassHead(n) \/ NotSent(n) \/ SentUnexpected(n) \/ NotReceived(n)
             \/ UnknownSource(n)
  <2>1. /\ UNCHANGED <<loopVars, timerVars, chipVars, receivedAck, worldVars>>
        /\ sentAck' \in [Node -> BOOLEAN]
        /\ \E label \in Control \ {"handle"} : pc' = [pc EXCEPT ![n] = label]
    BY <1>2 DEF PassHead, NotSent, SentUnexpected, NotReceived, UnknownSource,
                IInv, TypeOK, Control
  <2>2. TypeOK' /\ BuffersFilled'
    BY <2>1 DEF IInv, TypeOK, BuffersFilled
  <2>. QED BY <1>1, <2>2, SameTables DEF IInv
<1>3. CASE GetData(n)
  <2>1. rx[n] \in MaybeFrame /\ rx[n] # None
    BY <1>3 DEF GetData, IInv, TypeOK, BuffersFilled
  <2>2. TypeOK'
    BY <1>3, <2>1 DEF GetData, IInv, TypeOK, Control
  <2>3. BuffersFilled'
    BY <1>3, <2>1 DEF GetData, IInv, TypeOK, BuffersFilled
  <2>. QED BY <1>1, <2>2, <2>3, SameTables DEF IInv
<1>. QED BY <1>2, <1>3

LEMMA ResetStep == ASSUME IInv, NEW a \in Anchors, ResetInactive(a) PROVE IInv'
<1> USE DEF timerVars, flagVars, worldVars, Goto
<1>1. a \in Node
  BY DEF Node
<1>2. TypeOK'
  BY <1>1 DEF ResetInactive, IInv, TypeOK, Control, MessageType, MaybeFrame
<1>3. BuffersFilled'
  BY <1>1 DEF ResetInactive, IInv, TypeOK, BuffersFilled
<1>4. UNCHANGED dev
  BY DEF ResetInactive
<1>. QED BY <1>2, <1>3, <1>4, SameTables DEF IInv
------------------------------------------------------------------------------
\* The counter of timerTick keeps its type.
LEMMA CountTickType ==
  ASSUME IInv, NEW t \in Tags, CountTick(t)
  PROVE  blinkCount' \in [Tags -> Nat] /\ blinkLimit' \in [Tags -> Nat]
BY BoundsAssumption DEF CountTick, IInv, TypeOK

\* Ageing keeps a table consistent.
LEMMA AgedTable ==
  ASSUME NEW table \in Seq(PairedDevice), Consistent(table)
  PROVE  Aged(table) \in Seq(PairedDevice) /\ Consistent(Aged(table))
<1>1. \A d \in Device : /\ Older(d) \in Device
                        /\ Older(d).short = d.short /\ Older(d).eui = d.eui
                        /\ Older(d).index = d.index
  BY BoundsAssumption DEF Older, Device, Age
<1>2. \A k \in 1..Len(table) : table[k] \in Device
  BY ElementOfSeq DEF PairedDevice
<1>3. /\ Aged(table) \in [1..Len(table) -> Device]
      /\ \A k \in 1..Len(table) : Aged(table)[k] = Older(table[k])
  BY <1>1, <1>2, Zenon DEF Aged
<1>4. \A k \in 1..Len(table) :
        /\ Aged(table)[k].short = table[k].short
        /\ Aged(table)[k].eui = table[k].eui
        /\ Aged(table)[k].index = table[k].index
  BY <1>1, <1>2, <1>3
<1>. QED BY <1>3, <1>4, MapDevices

LEMMA NextRoundType ==
  ASSUME IInv, NEW t \in Tags
  PROVE  NextRound(t) \in 0..MaxRound /\ round[t] \in 0..MaxRound
BY BoundsAssumption DEF NextRound, IInv, TypeOK

\* A step of one node that ends the handling of a frame, if any, and leaves it a
\* consistent table.
LEMMA NodeStep ==
  ASSUME IInv, NEW n \in Node,
         NEW table \in Seq(PairedDevice), Consistent(table),
         NEW label \in Control \ {"handle"},
         dev' = [dev EXCEPT ![n] = table], pc' = [pc EXCEPT ![n] = label],
         data' \in [Node -> MaybeFrame], tx' \in [Node -> MaybeFrame],
         \A m \in Node \ {n} : data'[m] = data[m],
         scan' \in [Node -> Nat \ {0}], sentAck' \in [Node -> BOOLEAN],
         expected' \in [Node -> MessageType], failed' \in [Node -> BOOLEAN],
         lastSent' \in [Node -> Node \cup {None, Broadcast}],
         reply' \in [Node -> Nat],
         blinkCount' \in [Tags -> Nat], blinkLimit' \in [Tags -> Nat],
         round' \in [Tags -> 0..MaxRound],
         UNCHANGED <<receivedAck, rx, lastTx, worldVars>>
  PROVE  IInv'
<1>1. /\ dev' \in [Node -> Seq(PairedDevice)] /\ dev' \in [Node -> Seq(Device)]
      /\ TablesConsistent'
  BY SetTable
<1>2. pc' \in [Node -> Control]
  BY DEF IInv, TypeOK
<1>3. TypeOK'
  BY <1>1, <1>2 DEF IInv, TypeOK, worldVars
<1>4. BuffersFilled'
  BY DEF IInv, TypeOK, BuffersFilled
<1>. QED BY <1>1, <1>3, <1>4 DEF IInv

\* transmit keeps the types of the buffers it fills.
LEMMA TransmitType ==
  ASSUME IInv, NEW n \in Node, NEW f \in Frame, transmit(n, f)
  PROVE  /\ data' \in [Node -> MaybeFrame] /\ tx' \in [Node -> MaybeFrame]
         /\ \A m \in Node \ {n} : data'[m] = data[m]
         /\ UNCHANGED <<rx, lastTx>>
BY DEF IInv, TypeOK, transmit, MaybeFrame

LEMMA TickPollStep == ASSUME IInv, NEW t \in Tags, TickPoll(t) PROVE IInv'
<1> DEFINE f == Mk("POLL", t, t, NextRound(t), 0, PollList(dev[t]), None)
<1>1. t \in Node
  BY DEF Node
<1>2. f \in Frame
  BY <1>1, AtNode, ListTypes, MkFrame, NextRoundType DEF MessageType, MaybeDistance
<1>3. Aged(dev[t]) \in Seq(PairedDevice) /\ Consistent(Aged(dev[t]))
  BY <1>1, AtNode, AgedTable
<1>4. /\ dev' = [dev EXCEPT ![t] = Aged(dev[t])]
      /\ pc' = [pc EXCEPT ![t] = "sent"]
      /\ CountTick(t) /\ transmit(t, f)
      /\ expected' = [expected EXCEPT ![t] = "POLL_ACK"]
      /\ round' = [round EXCEPT ![t] = NextRound(t)]
      /\ lastSent' = [lastSent EXCEPT ![t] = Broadcast]
      /\ UNCHANGED <<scan, failed, reply, sentAck, receivedAck, worldVars>>
  BY DEF TickPoll, Goto, flagVars
<1>. HIDE DEF f
<1>5. /\ data' \in [Node -> MaybeFrame] /\ tx' \in [Node -> MaybeFrame]
      /\ \A m \in Node \ {t} : data'[m] = data[m]
      /\ UNCHANGED <<rx, lastTx>>
  BY <1>1, <1>2, <1>4, TransmitType
<1>6. /\ scan' \in [Node -> Nat \ {0}] /\ sentAck' \in [Node -> BOOLEAN]
      /\ expected' \in [Node -> MessageType] /\ failed' \in [Node -> BOOLEAN]
      /\ lastSent' \in [Node -> Node \cup {None, Broadcast}]
      /\ reply' \in [Node -> Nat] /\ round' \in [Tags -> 0..MaxRound]
  BY <1>1, <1>4, NextRoundType DEF IInv, TypeOK, MessageType
<1>7. blinkCount' \in [Tags -> Nat] /\ blinkLimit' \in [Tags -> Nat]
  BY <1>4, CountTickType
<1>. QED BY <1>1, <1>3, <1>4, <1>5, <1>6, <1>7, NodeStep DEF Control

LEMMA TickBlinkStep == ASSUME IInv, NEW t \in Tags, TickBlink(t) PROVE IInv'
<1> DEFINE f == Mk("BLINK", t, t, round[t], 0, <<>>, None)
<1>1. t \in Node
  BY DEF Node
<1>2. f \in Frame
  <2>1. <<>> \in Seq(Entry) /\ None \in MaybeDistance /\ "BLINK" \in MessageType
    BY DEF MaybeDistance, MessageType
  <2>. QED BY <1>1, <2>1, MkFrame, NextRoundType
<1>3. Aged(dev[t]) \in Seq(PairedDevice) /\ Consistent(Aged(dev[t]))
  BY <1>1, AtNode, AgedTable
<1>4. /\ dev' = [dev EXCEPT ![t] = Aged(dev[t])]
      /\ pc' = [pc EXCEPT ![t] = "inactive"]
      /\ CountTick(t) /\ transmit(t, f)
      /\ scan' = [scan EXCEPT ![t] = 1]
      /\ UNCHANGED <<expected, failed, lastSent, reply, round, sentAck, receivedAck,
                     worldVars>>
  BY DEF TickBlink, Goto, flagVars
<1>. HIDE DEF f
<1>5. /\ data' \in [Node -> MaybeFrame] /\ tx' \in [Node -> MaybeFrame]
      /\ \A m \in Node \ {t} : data'[m] = data[m]
      /\ UNCHANGED <<rx, lastTx>>
  BY <1>1, <1>2, <1>4, TransmitType
<1>6. /\ scan' \in [Node -> Nat \ {0}] /\ sentAck' \in [Node -> BOOLEAN]
      /\ expected' \in [Node -> MessageType] /\ failed' \in [Node -> BOOLEAN]
      /\ lastSent' \in [Node -> Node \cup {None, Broadcast}]
      /\ reply' \in [Node -> Nat] /\ round' \in [Tags -> 0..MaxRound]
  <2>1. scan' \in [Node -> Nat \ {0}]
    <3>1. scan \in [Node -> Nat \ {0}] /\ 1 \in Nat \ {0}
      BY DEF IInv, TypeOK
    <3>. QED BY <1>1, <1>4, <3>1
  <2>. QED BY <1>4, <2>1 DEF IInv, TypeOK
<1>7. blinkCount' \in [Tags -> Nat] /\ blinkLimit' \in [Tags -> Nat]
  BY <1>4, CountTickType
<1>. QED BY <1>1, <1>3, <1>4, <1>5, <1>6, <1>7, NodeStep DEF Control

LEMMA TickIdleStep == ASSUME IInv, NEW t \in Tags, TickIdle(t) PROVE IInv'
<1>1. blinkCount' \in [Tags -> Nat] /\ blinkLimit' \in [Tags -> Nat]
  BY CountTickType DEF TickIdle
<1>2. /\ UNCHANGED <<loopVars, round, chipVars, flagVars, worldVars>>
      /\ pc' = [pc EXCEPT ![t] = "sent"]
  BY DEF TickIdle, Goto
<1>3. TypeOK' /\ BuffersFilled' /\ UNCHANGED dev
  BY <1>1, <1>2 DEF IInv, TypeOK, BuffersFilled, Control, loopVars, chipVars, flagVars,
                    worldVars
<1>. QED BY <1>3, SameTables DEF IInv

\* checkForInactiveDevices removes devices of consistent tables only.
LEMMA CheckInactiveStep == ASSUME IInv, NEW t \in Tags, CheckInactive(t) PROVE IInv'
<1>1. t \in Node /\ scan[t] \in 1..Len(dev[t])
  BY AtNode DEF Node, CheckInactive, IInv, TypeOK
<1>2. /\ removeNetworkDevices(dev[t], scan[t]) \in Seq(PairedDevice)
      /\ Consistent(removeNetworkDevices(dev[t], scan[t]))
  <2>1. dev[t] \in Seq(PairedDevice) /\ Consistent(dev[t])
    BY <1>1, AtNode
  <2>. QED BY <1>1, <2>1, PairedDeviceSet, RemovedTable, RemovedConsistent
<1>3. PICK table \in Seq(PairedDevice) :
        Consistent(table) /\ dev' = [dev EXCEPT ![t] = table]
  <2>1. \/ dev' = [dev EXCEPT ![t] = dev[t]]
        \/ dev' = [dev EXCEPT ![t] = removeNetworkDevices(dev[t], scan[t])]
    BY DEF CheckInactive
  <2>. QED BY <1>1, <1>2, <2>1, AtNode
<1>4. /\ dev' \in [Node -> Seq(PairedDevice)] /\ dev' \in [Node -> Seq(Device)]
      /\ TablesConsistent'
  BY <1>1, <1>3, SetTable
<1>5. /\ scan' \in [Node -> Nat \ {0}]
      /\ UNCHANGED <<pc, data, expected, failed, lastSent, reply, timerVars, chipVars,
                     flagVars, worldVars>>
  BY <1>1 DEF CheckInactive, IInv, TypeOK
<1>6. TypeOK' /\ BuffersFilled'
  BY <1>4, <1>5 DEF IInv, TypeOK, BuffersFilled, timerVars, chipVars, flagVars, worldVars
<1>. QED BY <1>4, <1>6 DEF IInv

LEMMA CheckDoneStep == ASSUME IInv, NEW t \in Tags, CheckDone(t) PROVE IInv'
<1>1. /\ UNCHANGED <<data, expected, failed, lastSent, reply, dev, timerVars, chipVars,
                     flagVars, worldVars>>
      /\ pc' = [pc EXCEPT ![t] = "sent"] /\ scan' = [scan EXCEPT ![t] = 1]
  BY DEF CheckDone, Goto
<1>2. pc' \in [Node -> Control] /\ scan' \in [Node -> Nat \ {0}]
  <2>1. scan \in [Node -> Nat \ {0}] /\ 1 \in Nat \ {0} /\ t \in Node
    BY DEF IInv, TypeOK, Node
  <2>2. scan' \in [Node -> Nat \ {0}]
    BY <1>1, <2>1
  <2>. QED BY <1>1, <2>2 DEF IInv, TypeOK, Control
<1>3. TypeOK' /\ BuffersFilled'
  BY <1>1, <1>2 DEF IInv, TypeOK, BuffersFilled, timerVars, chipVars, flagVars,
                    worldVars
<1>. QED BY <1>1, <1>3, SameTables DEF IInv
------------------------------------------------------------------------------
\* The same device: another record with the same addresses and index.
SameDevice(e, d) ==
  e \in Device /\ e.short = d.short /\ e.eui = d.eui /\ e.index = d.index

\* noteActivity, the timestamps and the range of a device can be set.
LEMMA DeviceFields ==
  ASSUME NEW d \in Device, NEW s \in MaybeStamp, NEW r \in MaybeDistance
  PROVE  /\ SameDevice(Noted(d), d)
         /\ SameDevice([d EXCEPT !.range = r], d)
         /\ SameDevice([d EXCEPT !.timePollSent = s], d)
         /\ SameDevice([d EXCEPT !.timePollReceived = s], d)
         /\ SameDevice([d EXCEPT !.timePollAckSent = s], d)
         /\ SameDevice([d EXCEPT !.timePollAckReceived = s], d)
         /\ SameDevice([d EXCEPT !.timeRangeSent = s], d)
         /\ SameDevice([d EXCEPT !.timeRangeReceived = s], d)
BY BoundsAssumption DEF SameDevice, Device, Noted, Age

\* The device a received frame comes from is at a place of the table.
LEMMA DistantPlace ==
  ASSUME IInv, NEW n \in Node
  PROVE  /\ Distant(n) \in 0..Len(dev[n])
         /\ Distant(n) # 0 => /\ Distant(n) \in 1..Len(dev[n])
                              /\ dev[n][Distant(n)] \in Device
<1>1. dev[n] \in Seq(Device) /\ Len(dev[n]) \in Nat
      /\ \A k \in 1..Len(dev[n]) : dev[n][k] \in Device
  BY AtNode
<1>2. searchDistantDevice(dev[n], Source(data[n])) \in 0..Len(dev[n])
  BY <1>1, SearchResult
<1>. QED BY <1>1, <1>2 DEF Distant

\* A frame that is handled is a frame, and its sender a node.
LEMMA HandledFrame ==
  ASSUME IInv, NEW n \in Node, At(n, "handle")
  PROVE  /\ data[n] \in Frame /\ Type(data[n]) \in MessageType
         /\ data[n].id.src \in Node /\ data[n].id.tag \in Node
         /\ data[n].id.round \in 0..MaxRound
         /\ data[n].list \in Seq(Entry) /\ data[n].range \in MaybeDistance
         /\ Type(data[n]) \notin {"BLINK", "RANGING_INIT"} => Source(data[n]) \in Node
<1>1. data[n] \in MaybeFrame /\ data[n] # None
  BY DEF IInv, TypeOK, BuffersFilled, At
<1>. QED BY <1>1, FrameFacts DEF Source

\* The table in which one device is changed but for its addresses and index.
LEMMA SetDistant ==
  ASSUME IInv, NEW n \in Node, NEW i \in 1..Len(dev[n]), NEW d,
         SameDevice(d, dev[n][i])
  PROVE  [dev[n] EXCEPT ![i] = d] \in Seq(PairedDevice)
         /\ Consistent([dev[n] EXCEPT ![i] = d])
BY AtNode, SetDevice DEF SameDevice
------------------------------------------------------------------------------
\* The transmit timestamp is stored for devices of the table, if for any.
LEMMA HandleSentStep == ASSUME IInv, NEW n \in Node, HandleSent(n) PROVE IInv'
<1> DEFINE table == [i \in 1..Len(dev[n]) |->
                       IF i \in SentTo(n) THEN StoreSentTime(n, dev[n][i]) ELSE dev[n][i]]
<1>1. lastTx[n] \in MaybeStamp
  BY DEF IInv, TypeOK
<1>2. \A d \in Device : SameDevice(StoreSentTime(n, d), d) /\ SameDevice(d, d)
  <2>. SUFFICES ASSUME NEW d \in Device
                PROVE  SameDevice(StoreSentTime(n, d), d) /\ SameDevice(d, d)
    OBVIOUS
  <2>1. SameDevice(d, d)
    BY DEF SameDevice
  <2>2. /\ SameDevice([d EXCEPT !.timePollAckSent = lastTx[n]], d)
        /\ SameDevice([d EXCEPT !.timePollSent = lastTx[n]], d)
        /\ SameDevice([d EXCEPT !.timeRangeSent = lastTx[n]], d)
    BY <1>1, DeviceFields DEF MaybeDistance
  <2>3. StoreSentTime(n, d) \in {d, [d EXCEPT !.timePollAckSent = lastTx[n]],
                                 [d EXCEPT !.timePollSent = lastTx[n]],
                                 [d EXCEPT !.timeRangeSent = lastTx[n]]}
    BY DEF StoreSentTime
  <2>. QED BY <2>1, <2>2, <2>3
<1>3. \A k \in 1..Len(dev[n]) : SameDevice(table[k], dev[n][k])
  BY <1>2, AtNode
<1>4. table \in Seq(PairedDevice) /\ Consistent(table)
  <2>1. table \in [1..Len(dev[n]) -> Device]
    BY <1>3 DEF SameDevice
  <2>. HIDE DEF table
  <2>. QED BY <1>3, <2>1, AtNode, MapDevices DEF SameDevice
<1>5. /\ dev' = [dev EXCEPT ![n] = table]
      /\ sentAck' = [sentAck EXCEPT ![n] = FALSE]
      /\ pc' = [pc EXCEPT ![n] = "received"]
      /\ UNCHANGED <<scan, data, expected, failed, lastSent, reply, timerVars, chipVars,
                     receivedAck, worldVars>>
  BY DEF HandleSent, Goto
<1>. HIDE DEF table
<1>6. /\ data' \in [Node -> MaybeFrame] /\ tx' \in [Node -> MaybeFrame]
      /\ scan' \in [Node -> Nat \ {0}] /\ sentAck' \in [Node -> BOOLEAN]
      /\ expected' \in [Node -> MessageType] /\ failed' \in [Node -> BOOLEAN]
      /\ lastSent' \in [Node -> Node \cup {None, Broadcast}]
      /\ reply' \in [Node -> Nat] /\ round' \in [Tags -> 0..MaxRound]
      /\ blinkCount' \in [Tags -> Nat] /\ blinkLimit' \in [Tags -> Nat]
  BY <1>5 DEF IInv, TypeOK, timerVars, chipVars
<1>7. UNCHANGED <<data, receivedAck, rx, lastTx, worldVars>>
  BY <1>5 DEF chipVars
<1>. QED BY <1>4, <1>5, <1>6, <1>7, NodeStep DEF Control

\* What a handler of a received frame leaves alone.
LEMMA UnsentTypes ==
  ASSUME IInv, UNCHANGED <<scan, reply, sentAck, timerVars>>
  PROVE  /\ scan' \in [Node -> Nat \ {0}] /\ reply' \in [Node -> Nat]
         /\ sentAck' \in [Node -> BOOLEAN]
         /\ blinkCount' \in [Tags -> Nat] /\ blinkLimit' \in [Tags -> Nat]
         /\ round' \in [Tags -> 0..MaxRound]
BY DEF IInv, TypeOK, timerVars

\* A BLINK enters the tag unless both its addresses are in the table.
LEMMA AnchorBlinkStep == ASSUME IInv, NEW a \in Anchors, AnchorBlink(a) PROVE IInv'
<1> DEFINE t == data[a].id.src
           d == NewDevice(t, 0)
           f == Mk("RANGING_INIT", a, t, data[a].id.round, 0, <<>>, None)
           table == IF KnownBoth(dev[a], d) THEN dev[a] ELSE Appended(dev[a], d)
<1>1. a \in Node /\ t \in Node /\ data[a].id.round \in 0..MaxRound
  BY HandledFrame DEF Node, AnchorBlink, Handling
<1>2. f \in Frame
  <2>1. <<>> \in Seq(Entry) /\ None \in MaybeDistance /\ "RANGING_INIT" \in MessageType
    BY DEF MaybeDistance, MessageType
  <2>. QED BY <1>1, <2>1, MkFrame
<1>3. d \in PairedDevice /\ d.short = d.eui
  BY <1>1, BoundsAssumption
  DEF NewDevice, PairedDevice, Device, Age, MaybeDistance, MaybeStamp
<1>. HIDE DEF d, f
<1>4. table \in Seq(PairedDevice) /\ Consistent(table)
  <2>1. dev[a] \in Seq(PairedDevice) /\ Consistent(dev[a])
        /\ \A k \in 1..Len(dev[a]) : dev[a][k] \in PairedDevice
    BY <1>1, AtNode
  <2>2. CASE KnownBoth(dev[a], d)
    BY <2>1, <2>2
  <2>3. CASE ~KnownBoth(dev[a], d)
    <3>1. ~KnownShort(dev[a], d)
      BY <1>3, <2>1, <2>3 DEF KnownShort, KnownBoth, PairedDevice
    <3>. QED BY <1>3, <2>1, <2>3, <3>1, PairedDeviceSet, AppendedConsistent
  <2>. QED BY <2>2, <2>3
<1>5. /\ dev' = [dev EXCEPT ![a] = table] /\ transmit(a, f)
      /\ lastSent' = [lastSent EXCEPT ![a] = t]
      /\ expected' = [expected EXCEPT ![a] = "POLL"]
      /\ pc' = [pc EXCEPT ![a] = "top"]
      /\ UNCHANGED <<scan, failed, reply, timerVars, sentAck, receivedAck, worldVars>>
  BY DEF AnchorBlink, Goto, flagVars, d, f
<1>. HIDE DEF t, table
<1>6. /\ data' \in [Node -> MaybeFrame] /\ tx' \in [Node -> MaybeFrame]
      /\ \A m \in Node \ {a} : data'[m] = data[m]
      /\ UNCHANGED <<rx, lastTx>>
  BY <1>1, <1>2, <1>5, TransmitType
<1>7. /\ expected' \in [Node -> MessageType] /\ failed' \in [Node -> BOOLEAN]
      /\ lastSent' \in [Node -> Node \cup {None, Broadcast}]
  BY <1>1, <1>5 DEF IInv, TypeOK, MessageType
<1>. QED BY <1>1, <1>4, <1>5, <1>6, <1>7, UnsentTypes, NodeStep DEF Control

\* A RANGING_INIT enters the anchor unless its short address is in the table.
LEMMA TagRangingInitStep == ASSUME IInv, NEW t \in Tags, TagRangingInit(t) PROVE IInv'
<1>1. t \in Node /\ data[t].id.src \in Node
  BY HandledFrame DEF Node, TagRangingInit, Handling
<1>2. PICK age \in Age :
        dev' = [dev EXCEPT ![t] = IF KnownShort(dev[t], NewDevice(data[t].id.src, age))
                                  THEN dev[t]
                                  ELSE Appended(dev[t], NewDevice(data[t].id.src, age))]
  BY DEF TagRangingInit
<1> DEFINE d == NewDevice(data[t].id.src, age)
           table == IF KnownShort(dev[t], d) THEN dev[t] ELSE Appended(dev[t], d)
<1>3. d \in PairedDevice
  BY <1>1, BoundsAssumption
  DEF NewDevice, PairedDevice, Device, MaybeDistance, MaybeStamp
<1>. HIDE DEF d
<1>4. table \in Seq(PairedDevice) /\ Consistent(table)
  BY <1>1, <1>3, AtNode, PairedDeviceSet, AppendedConsistent
<1>5. /\ dev' = [dev EXCEPT ![t] = table] /\ pc' = [pc EXCEPT ![t] = "top"]
      /\ UNCHANGED <<scan, data, expected, failed, lastSent, reply, timerVars, chipVars,
                     sentAck, receivedAck, worldVars>>
  BY <1>2 DEF TagRangingInit, Goto, flagVars, d
<1>. HIDE DEF table
<1>6. /\ data' \in [Node -> MaybeFrame] /\ tx' \in [Node -> MaybeFrame]
      /\ expected' \in [Node -> MessageType] /\ failed' \in [Node -> BOOLEAN]
      /\ lastSent' \in [Node -> Node \cup {None, Broadcast}]
      /\ UNCHANGED <<data, rx, lastTx>>
  BY <1>5 DEF IInv, TypeOK, chipVars
<1>. QED BY <1>1, <1>4, <1>5, <1>6, UnsentTypes, NodeStep DEF Control
------------------------------------------------------------------------------
\* A received frame has a time of arrival that is a flight.
LEMMA Arrival ==
  ASSUME IInv, NEW n \in Node, At(n, "handle")
  PROVE  rx[n].id \in MaybeStamp
<1>1. rx[n] \in MaybeFrame /\ rx[n] # None
  BY DEF IInv, TypeOK, BuffersFilled, At
<1>. QED BY <1>1, FrameFacts DEF MaybeStamp

\* The frames of two-way ranging name their sender.
LEMMA SourceNode ==
  ASSUME IInv, NEW n \in Node, NEW type \in {"POLL", "POLL_ACK", "RANGE", "RANGE_REPORT"},
         Handling(n, type)
  PROVE  Source(data[n]) \in Node
BY HandledFrame DEF Handling

\* A listed anchor finds its entry.
LEMMA ListedPlace ==
  ASSUME NEW list \in Seq(Entry), NEW n, Listed(list, n)
  PROVE  PlaceOf(list, n) \in 1..Len(list) /\ list[PlaceOf(list, n)] \in Entry
<1>1. LET i == searchDistantDevice(list, n)
      IN  /\ i \in 0..Len(list)
          /\ i = 0 => \A j \in 1..Len(list) : list[j].short # n
  BY SearchResult
<1>2. PlaceOf(list, n) \in 1..Len(list)
  BY <1>1, LenProperties DEF PlaceOf, Listed
<1>. QED BY <1>2, ElementOfSeq

LEMMA AnchorPollStep == ASSUME IInv, NEW a \in Anchors, AnchorPoll(a) PROVE IInv'
<1> DEFINE delay == 2 * PlaceOf(data[a].list, a) - 1
           t == Source(data[a])
           i == Distant(a)
           f == Mk("POLL_ACK", a, t, data[a].id.round, delay, <<>>, None)
           d == [Noted(dev[a][i]) EXCEPT !.timePollReceived = rx[a].id]
           table == [dev[a] EXCEPT ![i] = d]
<1>1. a \in Node /\ At(a, "handle") /\ Handling(a, "POLL")
  BY DEF Node, AnchorPoll, Handling
<1>2. /\ t \in Node /\ data[a].id.round \in 0..MaxRound /\ rx[a].id \in MaybeStamp
      /\ data[a].list \in Seq(Entry)
  BY <1>1, SourceNode, HandledFrame, Arrival
<1>3. delay \in Nat
  <2>1. PlaceOf(data[a].list, a) \in 1..Len(data[a].list)
    BY <1>2, ListedPlace DEF AnchorPoll
  <2>. QED BY <1>2, <2>1, LenProperties
<1>4. f \in Frame
  <2>1. <<>> \in Seq(Entry) /\ None \in MaybeDistance /\ "POLL_ACK" \in MessageType
    BY DEF MaybeDistance, MessageType
  <2>. HIDE DEF t, delay
  <2>. QED BY <1>1, <1>2, <1>3, <2>1, MkFrame
<1>5. i \in 1..Len(dev[a]) /\ dev[a][i] \in Device
  BY <1>1, DistantPlace DEF AnchorPoll
<1>6. SameDevice(d, dev[a][i])
  <2>1. SameDevice(Noted(dev[a][i]), dev[a][i])
    BY <1>2, <1>5, DeviceFields DEF MaybeDistance
  <2>2. SameDevice(d, Noted(dev[a][i]))
    BY <1>2, <2>1, DeviceFields DEF SameDevice, MaybeDistance
  <2>. QED BY <2>1, <2>2 DEF SameDevice
<1>7. table \in Seq(PairedDevice) /\ Consistent(table)
  <2>. HIDE DEF d, i
  <2>. QED BY <1>1, <1>5, <1>6, SetDistant
<1>8. /\ dev' = [dev EXCEPT ![a] = table] /\ transmit(a, f)
      /\ lastSent' = [lastSent EXCEPT ![a] = t]
      /\ reply' = [reply EXCEPT ![a] = delay]
      /\ failed' = [failed EXCEPT ![a] = FALSE]
      /\ expected' = [expected EXCEPT ![a] = "RANGE"]
      /\ pc' = [pc EXCEPT ![a] = "top"]
      /\ UNCHANGED <<scan, timerVars, sentAck, receivedAck, worldVars>>
  BY DEF AnchorPoll, Goto, flagVars
<1>. HIDE DEF t, table, delay, f, i, d
<1>9. /\ data' \in [Node -> MaybeFrame] /\ tx' \in [Node -> MaybeFrame]
      /\ \A m \in Node \ {a} : data'[m] = data[m]
      /\ UNCHANGED <<rx, lastTx>>
  BY <1>1, <1>4, <1>8, TransmitType
<1>10. /\ expected' \in [Node -> MessageType] /\ failed' \in [Node -> BOOLEAN]
       /\ lastSent' \in [Node -> Node \cup {None, Broadcast}]
       /\ scan' \in [Node -> Nat \ {0}] /\ reply' \in [Node -> Nat]
       /\ sentAck' \in [Node -> BOOLEAN]
       /\ blinkCount' \in [Tags -> Nat] /\ blinkLimit' \in [Tags -> Nat]
       /\ round' \in [Tags -> 0..MaxRound]
  BY <1>1, <1>2, <1>3, <1>8 DEF IInv, TypeOK, MessageType, timerVars
<1>. QED BY <1>1, <1>7, <1>8, <1>9, <1>10, NodeStep DEF Control

\* The handlers that change no table and send nothing.
LEMMA UnhandledSteps ==
  ASSUME IInv, NEW n \in Node,
         (n \in Anchors /\ AnchorNotListed(n)) \/ (n \in Tags /\ TagUnexpected(n))
  PROVE  IInv'
<1>1. /\ expected' \in [Node -> MessageType] /\ failed' \in [Node -> BOOLEAN]
      /\ pc' = [pc EXCEPT ![n] = "top"]
      /\ UNCHANGED <<scan, data, lastSent, reply, dev, timerVars, chipVars, flagVars,
                     worldVars>>
  <2>1. CASE n \in Anchors /\ AnchorNotListed(n)
    BY <2>1 DEF AnchorNotListed, Goto, IInv, TypeOK
  <2>2. CASE n \in Tags /\ TagUnexpected(n)
    BY <2>2 DEF TagUnexpected, Goto, IInv, TypeOK, MessageType
  <2>. QED BY <2>1, <2>2
<1>2. TypeOK' /\ BuffersFilled'
  BY <1>1 DEF IInv, TypeOK, BuffersFilled, Control, timerVars, chipVars, flagVars,
              worldVars
<1>. QED BY <1>1, <1>2, SameTables DEF IInv

LEMMA AnchorRangeStep == ASSUME IInv, NEW a \in Anchors, AnchorRange(a) PROVE IInv'
<1> DEFINE e == data[a].list[PlaceOf(data[a].list, a)]
           t == Source(data[a])
           i == Distant(a)
           d == [dev[a][i] EXCEPT !.timeRangeReceived = rx[a].id,
                   !.timePollSent = e.timePollSent,
                   !.timePollAckReceived = e.timePollAckReceived,
                   !.timeRangeSent = e.timeRangeSent]
           range == computeRangeAsymmetric(t, d)
           f == Mk("RANGE_REPORT", a, t, data[a].id.round, reply[a], <<>>, range)
           table == [dev[a] EXCEPT ![i] = [d EXCEPT !.range = range]]
<1>1. a \in Node /\ At(a, "handle") /\ Handling(a, "RANGE")
  BY DEF Node, AnchorRange, Handling
<1>2. /\ t \in Node /\ data[a].id.round \in 0..MaxRound /\ rx[a].id \in MaybeStamp
      /\ data[a].list \in Seq(Entry)
  BY <1>1, SourceNode, HandledFrame, Arrival
<1>3. e \in Entry
  BY <1>2, ListedPlace DEF AnchorRange
<1>4. range \in MaybeDistance
  <2>. HIDE DEF t, d
  <2>. QED BY <1>2 DEF computeRangeAsymmetric, MaybeDistance, Distance
<1>5. f \in Frame
  <2>1. <<>> \in Seq(Entry) /\ "RANGE_REPORT" \in MessageType /\ reply[a] \in Nat
    BY <1>1 DEF MessageType, IInv, TypeOK
  <2>. HIDE DEF t, range
  <2>. QED BY <1>1, <1>2, <1>4, <2>1, MkFrame
<1>6. i \in 1..Len(dev[a]) /\ dev[a][i] \in Device
  BY <1>1, DistantPlace DEF AnchorRange
<1>7. SameDevice([d EXCEPT !.range = range], dev[a][i])
  <2>1. SameDevice(d, dev[a][i])
    <3>. HIDE DEF e, i
    <3>. QED BY <1>2, <1>3, <1>6 DEF SameDevice, Device, Entry
  <2>2. SameDevice([d EXCEPT !.range = range], d)
    <3>. HIDE DEF d, range
    <3>. QED BY <1>4, <2>1, DeviceFields DEF SameDevice, MaybeStamp
  <2>. QED BY <2>1, <2>2 DEF SameDevice
<1>8. table \in Seq(PairedDevice) /\ Consistent(table)
  <2>. HIDE DEF d, i, range
  <2>. QED BY <1>1, <1>6, <1>7, SetDistant
<1>9. /\ dev' = [dev EXCEPT ![a] = table] /\ transmit(a, f)
      /\ lastSent' = [lastSent EXCEPT ![a] = t]
      /\ expected' = [expected EXCEPT ![a] = "POLL"]
      /\ pc' = [pc EXCEPT ![a] = "top"]
      /\ UNCHANGED <<scan, failed, reply, timerVars, sentAck, receivedAck, worldVars>>
  BY DEF AnchorRange, Goto, flagVars
<1>. HIDE DEF t, table, f, i, d, e, range
<1>10. /\ data' \in [Node -> MaybeFrame] /\ tx' \in [Node -> MaybeFrame]
       /\ \A m \in Node \ {a} : data'[m] = data[m]
       /\ UNCHANGED <<rx, lastTx>>
  BY <1>1, <1>5, <1>9, TransmitType
<1>11. /\ expected' \in [Node -> MessageType] /\ failed' \in [Node -> BOOLEAN]
       /\ lastSent' \in [Node -> Node \cup {None, Broadcast}]
  BY <1>1, <1>2, <1>9 DEF IInv, TypeOK, MessageType
<1>. QED BY <1>1, <1>8, <1>9, <1>10, <1>11, UnsentTypes, NodeStep DEF Control

LEMMA AnchorRangeFailedStep ==
  ASSUME IInv, NEW a \in Anchors, AnchorRangeFailed(a) PROVE IInv'
<1> DEFINE t == Source(data[a])
           i == Distant(a)
           d == [dev[a][i] EXCEPT !.timeRangeReceived = rx[a].id]
           f == Mk("RANGE_FAILED", a, t, data[a].id.round, 0, <<>>, None)
           table == [dev[a] EXCEPT ![i] = d]
<1>1. a \in Node /\ At(a, "handle") /\ Handling(a, "RANGE")
  BY DEF Node, AnchorRangeFailed, Handling
<1>2. t \in Node /\ data[a].id.round \in 0..MaxRound /\ rx[a].id \in MaybeStamp
  BY <1>1, SourceNode, HandledFrame, Arrival
<1>3. f \in Frame
  <2>1. <<>> \in Seq(Entry) /\ None \in MaybeDistance /\ "RANGE_FAILED" \in MessageType
    BY DEF MaybeDistance, MessageType
  <2>. HIDE DEF t
  <2>. QED BY <1>1, <1>2, <2>1, MkFrame
<1>4. i \in 1..Len(dev[a]) /\ dev[a][i] \in Device
  BY <1>1, DistantPlace DEF AnchorRangeFailed
<1>5. table \in Seq(PairedDevice) /\ Consistent(table)
  <2>1. SameDevice(d, dev[a][i])
    BY <1>2, <1>4, DeviceFields DEF MaybeDistance
  <2>. HIDE DEF d, i
  <2>. QED BY <1>1, <1>4, <2>1, SetDistant
<1>6. /\ dev' = [dev EXCEPT ![a] = table] /\ transmit(a, f)
      /\ lastSent' = [lastSent EXCEPT ![a] = t]
      /\ failed' = [failed EXCEPT ![a] = TRUE]
      /\ expected' = [expected EXCEPT ![a] = "POLL"]
      /\ pc' = [pc EXCEPT ![a] = "top"]
      /\ UNCHANGED <<scan, reply, timerVars, sentAck, receivedAck, worldVars>>
  BY DEF AnchorRangeFailed, Goto, flagVars
<1>. HIDE DEF t, table, f, i, d
<1>7. /\ data' \in [Node -> MaybeFrame] /\ tx' \in [Node -> MaybeFrame]
      /\ \A m \in Node \ {a} : data'[m] = data[m]
      /\ UNCHANGED <<rx, lastTx>>
  BY <1>1, <1>3, <1>6, TransmitType
<1>8. /\ expected' \in [Node -> MessageType] /\ failed' \in [Node -> BOOLEAN]
      /\ lastSent' \in [Node -> Node \cup {None, Broadcast}]
  BY <1>1, <1>2, <1>6 DEF IInv, TypeOK, MessageType
<1>. QED BY <1>1, <1>5, <1>6, <1>7, <1>8, UnsentTypes, NodeStep DEF Control

\* The table of a tag after a POLL_ACK, and after transmitRange as well.
LEMMA AckTables ==
  ASSUME IInv, NEW t \in Tags, Handling(t, "POLL_ACK"), Distant(t) # 0
  PROVE  /\ WithAck(t) \in Seq(PairedDevice) /\ Consistent(WithAck(t))
         /\ WithRangeSent(t) \in Seq(PairedDevice) /\ Consistent(WithRangeSent(t))
<1> DEFINE i == Distant(t)
           d == [Noted(dev[t][i]) EXCEPT !.timePollAckReceived = rx[t].id]
<1>1. t \in Node /\ rx[t].id \in MaybeStamp /\ RangeStamp(t) \in MaybeStamp
  BY Arrival, NextRoundType DEF Node, Handling, RangeStamp, MaybeStamp, Stamp, MessageType
<1>2. i \in 1..Len(dev[t]) /\ dev[t][i] \in Device
  BY <1>1, DistantPlace
<1>3. SameDevice(d, dev[t][i])
  <2>1. SameDevice(Noted(dev[t][i]), dev[t][i])
    BY <1>1, <1>2, DeviceFields DEF MaybeDistance
  <2>2. SameDevice(d, Noted(dev[t][i]))
    BY <1>1, <2>1, DeviceFields DEF SameDevice, MaybeDistance
  <2>. QED BY <2>1, <2>2 DEF SameDevice
<1>4. /\ WithAck(t) = [dev[t] EXCEPT ![i] = d]
      /\ WithAck(t) \in Seq(PairedDevice) /\ Consistent(WithAck(t))
  <2>1. WithAck(t) = [dev[t] EXCEPT ![i] = d]
    BY DEF WithAck
  <2>. HIDE DEF d, i
  <2>. QED BY <1>1, <1>2, <1>3, <2>1, SetDistant
<1>5. Len(WithAck(t)) = Len(dev[t])
  <2>. HIDE DEF d, i
  <2>. QED BY <1>1, <1>4, AtNode
<1>6. \A k \in 1..Len(dev[t]) : WithAck(t)[k] \in Device
  BY <1>4, <1>5, ElementOfSeq DEF PairedDevice
<1>7. \A k \in 1..Len(dev[t]) : SameDevice(WithRangeSent(t)[k], WithAck(t)[k])
  BY <1>1, <1>6, DeviceFields DEF WithRangeSent, MaybeDistance
<1>8. WithRangeSent(t) \in [1..Len(WithAck(t)) -> Device]
  BY <1>5, <1>7 DEF WithRangeSent, SameDevice
<1>9. WithRangeSent(t) \in Seq(PairedDevice) /\ Consistent(WithRangeSent(t))
  BY <1>4, <1>5, <1>7, <1>8, MapDevices DEF SameDevice
<1>. QED BY <1>4, <1>9

LEMMA TagPollAckStep == ASSUME IInv, NEW t \in Tags, TagPollAck(t) PROVE IInv'
<1>1. t \in Node /\ WithAck(t) \in Seq(PairedDevice) /\ Consistent(WithAck(t))
  BY AckTables DEF Node, TagPollAck
<1>2. /\ dev' = [dev EXCEPT ![t] = WithAck(t)] /\ pc' = [pc EXCEPT ![t] = "top"]
      /\ UNCHANGED <<scan, data, expected, failed, lastSent, reply, timerVars, chipVars,
                     sentAck, receivedAck, worldVars>>
  BY DEF TagPollAck, Goto, flagVars
<1>3. /\ data' \in [Node -> MaybeFrame] /\ tx' \in [Node -> MaybeFrame]
      /\ expected' \in [Node -> MessageType] /\ failed' \in [Node -> BOOLEAN]
      /\ lastSent' \in [Node -> Node \cup {None, Broadcast}]
      /\ UNCHANGED <<data, rx, lastTx>>
  BY <1>2 DEF IInv, TypeOK, chipVars
<1>. QED BY <1>1, <1>2, <1>3, UnsentTypes, NodeStep DEF Control

LEMMA TagLastPollAckStep == ASSUME IInv, NEW t \in Tags, TagLastPollAck(t) PROVE IInv'
<1> DEFINE f == Mk("RANGE", t, t, round[t], 1, RangeList(WithRangeSent(t)), None)
<1>1. /\ t \in Node
      /\ WithRangeSent(t) \in Seq(PairedDevice) /\ Consistent(WithRangeSent(t))
  BY AckTables DEF Node, TagLastPollAck
<1>2. f \in Frame
  <2>1. WithRangeSent(t) \in Seq(Device)
    <3>1. PairedDevice \subseteq Device
      BY DEF PairedDevice
    <3>. QED BY <1>1, <3>1
  <2>2. RangeList(WithRangeSent(t)) \in Seq(Entry)
    BY <2>1, ListTypes
  <2>. QED BY <1>1, <2>2, MkFrame, NextRoundType DEF MessageType, MaybeDistance
<1>3. /\ dev' = [dev EXCEPT ![t] = WithRangeSent(t)] /\ transmit(t, f)
      /\ lastSent' = [lastSent EXCEPT ![t] = Broadcast]
      /\ expected' = [expected EXCEPT ![t] = "RANGE_REPORT"]
      /\ pc' = [pc EXCEPT ![t] = "top"]
      /\ UNCHANGED <<scan, failed, reply, timerVars, sentAck, receivedAck, worldVars>>
  BY DEF TagLastPollAck, Goto, flagVars
<1>. HIDE DEF f
<1>4. /\ data' \in [Node -> MaybeFrame] /\ tx' \in [Node -> MaybeFrame]
      /\ \A m \in Node \ {t} : data'[m] = data[m]
      /\ UNCHANGED <<rx, lastTx>>
  BY <1>1, <1>2, <1>3, TransmitType
<1>5. /\ expected' \in [Node -> MessageType] /\ failed' \in [Node -> BOOLEAN]
      /\ lastSent' \in [Node -> Node \cup {None, Broadcast}]
  BY <1>1, <1>3 DEF IInv, TypeOK, MessageType
<1>. QED BY <1>1, <1>3, <1>4, <1>5, UnsentTypes, NodeStep DEF Control

LEMMA TagRangeReportStep == ASSUME IInv, NEW t \in Tags, TagRangeReport(t) PROVE IInv'
<1> DEFINE i == Distant(t)
           d == [dev[t][i] EXCEPT !.range = data[t].range]
           table == [dev[t] EXCEPT ![i] = d]
<1>1. t \in Node /\ At(t, "handle")
  BY DEF Node, TagRangeReport, Handling
<1>2. data[t].range \in MaybeDistance
  BY <1>1, HandledFrame
<1>3. i \in 1..Len(dev[t]) /\ dev[t][i] \in Device
  BY <1>1, DistantPlace DEF TagRangeReport
<1>4. table \in Seq(PairedDevice) /\ Consistent(table)
  <2>1. SameDevice(d, dev[t][i])
    BY <1>2, <1>3, DeviceFields DEF MaybeStamp
  <2>. HIDE DEF d, i
  <2>. QED BY <1>1, <1>3, <2>1, SetDistant
<1>5. /\ dev' = [dev EXCEPT ![t] = table] /\ pc' = [pc EXCEPT ![t] = "top"]
      /\ UNCHANGED <<scan, data, expected, failed, lastSent, reply, timerVars, chipVars,
                     sentAck, receivedAck, worldVars>>
  BY DEF TagRangeReport, Goto, flagVars
<1>. HIDE DEF table
<1>6. /\ data' \in [Node -> MaybeFrame] /\ tx' \in [Node -> MaybeFrame]
      /\ expected' \in [Node -> MessageType] /\ failed' \in [Node -> BOOLEAN]
      /\ lastSent' \in [Node -> Node \cup {None, Broadcast}]
      /\ UNCHANGED <<data, rx, lastTx>>
  BY <1>5 DEF IInv, TypeOK, chipVars
<1>. QED BY <1>1, <1>4, <1>5, <1>6, UnsentTypes, NodeStep DEF Control
------------------------------------------------------------------------------
LEMMA TxDoneStep ==
  ASSUME IInv, NEW n \in Node, NEW R \in SUBSET Node, TxDone(n, R)
  PROVE  IInv'
<1>1. tx[n] \in Frame /\ tx[n].id \in Stamp /\ tx[n] # None
  BY FrameFacts DEF TxDone, IInv, TypeOK
<1>2. /\ tx' \in [Node -> MaybeFrame] /\ rx' \in [Node -> MaybeFrame]
      /\ lastTx' \in [Node -> MaybeStamp]
      /\ sentAck' \in [Node -> BOOLEAN] /\ receivedAck' \in [Node -> BOOLEAN]
      /\ faults' \in 0..MaxFaults /\ ackLost' \in BOOLEAN
  <2>1. faults' \in 0..MaxFaults
    BY BoundsAssumption DEF TxDone, IInv, TypeOK
  <2>2. receivedAck' \in [Node -> BOOLEAN] /\ ackLost' \in BOOLEAN
    BY Zenon DEF TxDone, IInv, TypeOK
  <2>. QED BY <1>1, <2>1, <2>2 DEF TxDone, IInv, TypeOK, MaybeFrame, MaybeStamp
<1>3. UNCHANGED <<pc, loopVars, timerVars, down>>
  BY DEF TxDone
<1>4. TypeOK'
  BY <1>2, <1>3 DEF IInv, TypeOK, loopVars, timerVars
<1>5. \A m \in Node : /\ receivedAck'[m] = (m \in R \/ receivedAck[m])
                      /\ rx'[m] = IF m \in R THEN tx[n] ELSE rx[m]
  BY DEF TxDone
<1>6. BuffersFilled'
  BY <1>1, <1>3, <1>5 DEF IInv, BuffersFilled, loopVars
<1>7. UNCHANGED dev
  BY <1>3 DEF loopVars
<1>. QED BY <1>4, <1>6, <1>7, SameTables DEF IInv

LEMMA PowerStep == ASSUME IInv, NEW n \in Node, Power(n) PROVE IInv'
<1>1. CASE PowerOff(n)
  <2>1. <<>> \in Seq(PairedDevice) /\ Consistent(<<>>)
    BY DEF Consistent, ShortAddressesDistinct, IndexIsPlace
  <2>2. /\ dev' \in [Node -> Seq(PairedDevice)] /\ dev' \in [Node -> Seq(Device)]
        /\ TablesConsistent'
    BY <1>1, <2>1, SetTable DEF PowerOff
  <2>3. /\ blinkCount' \in [Tags -> Nat] /\ blinkLimit' \in [Tags -> Nat]
        /\ faults' \in 0..MaxFaults /\ down' \subseteq Node
    BY <1>1, BoundsAssumption DEF PowerOff, IInv, TypeOK
  <2>4. /\ scan' \in [Node -> Nat \ {0}] /\ reply' \in [Node -> Nat]
    <3>1. 1 \in Nat \ {0} /\ scan \in [Node -> Nat \ {0}] /\ reply \in [Node -> Nat]
      BY DEF IInv, TypeOK
    <3>. QED BY <1>1, <3>1 DEF PowerOff
  <2>5. /\ pc' \in [Node -> Control] /\ expected' \in [Node -> MessageType]
        /\ data' \in [Node -> MaybeFrame] /\ tx' \in [Node -> MaybeFrame]
        /\ rx' \in [Node -> MaybeFrame] /\ lastTx' \in [Node -> MaybeStamp]
        /\ lastSent' \in [Node -> Node \cup {None, Broadcast}]
        /\ sentAck' \in [Node -> BOOLEAN] /\ receivedAck' \in [Node -> BOOLEAN]
        /\ failed' \in [Node -> BOOLEAN] /\ UNCHANGED <<round, ackLost>>
    BY <1>1 DEF PowerOff, IInv, TypeOK, Control, MessageType, MaybeFrame, MaybeStamp
  <2>6. TypeOK'
    BY <2>2, <2>3, <2>4, <2>5 DEF IInv, TypeOK
  <2>7. BuffersFilled'
    BY <1>1 DEF PowerOff, IInv, TypeOK, BuffersFilled
  <2>. QED BY <2>2, <2>6, <2>7 DEF IInv
<1>2. CASE PowerOn(n)
  <2>1. /\ UNCHANGED <<pc, loopVars, timerVars, chipVars, flagVars, faults, ackLost>>
        /\ down' \subseteq Node
    BY <1>2 DEF PowerOn, IInv, TypeOK
  <2>2. TypeOK' /\ BuffersFilled' /\ UNCHANGED dev
    BY <2>1 DEF IInv, TypeOK, BuffersFilled, loopVars, timerVars, chipVars, flagVars
  <2>. QED BY <2>2, SameTables DEF IInv
<1>. QED BY <1>1, <1>2 DEF Power
------------------------------------------------------------------------------
\* Every step of every interleaving keeps the inductive invariant.
THEOREM StepIInv == IInv /\ [Next]_vars => IInv'
<1>. SUFFICES ASSUME IInv, [Next]_vars PROVE IInv'
  OBVIOUS
<1>1. ASSUME NEW n \in Node, PassHead(n) \/ LoopBody(n) \/ Power(n) PROVE IInv'
  BY <1>1, PlainLoopSteps, HandleSentStep, PowerStep DEF LoopBody
<1>2. ASSUME NEW t \in Tags, Tick(t) PROVE IInv'
  BY <1>2, TickPollStep, TickBlinkStep, TickIdleStep DEF Tick
<1>3. ASSUME NEW t \in Tags, TagHandle(t) PROVE IInv'
  <2>1. CASE TagUnexpected(t)
    BY <2>1, UnhandledSteps DEF Node
  <2>. QED BY <1>3, <2>1, CheckInactiveStep, CheckDoneStep, TagRangingInitStep,
              TagPollAckStep, TagLastPollAckStep, TagRangeReportStep DEF TagHandle
<1>4. ASSUME NEW a \in Anchors, ResetInactive(a) \/ AnchorHandle(a) PROVE IInv'
  <2>1. CASE AnchorNotListed(a)
    BY <2>1, UnhandledSteps DEF Node
  <2>. QED BY <1>4, <2>1, ResetStep, AnchorBlinkStep, AnchorPollStep, AnchorRangeStep,
              AnchorRangeFailedStep DEF AnchorHandle
<1>5. ASSUME NEW n \in Node, NEW R \in SUBSET (Node \ (down \cup {n})), TxDone(n, R)
      PROVE IInv'
  <2>1. R \in SUBSET Node
    OBVIOUS
  <2>. QED BY <1>5, <2>1, TxDoneStep
<1>6. CASE UNCHANGED vars
  <2>1. TypeOK' /\ BuffersFilled' /\ UNCHANGED dev
    BY <1>6 DEF IInv, TypeOK, BuffersFilled, vars, loopVars, timerVars, chipVars,
                flagVars, worldVars
  <2>. QED BY <2>1, SameTables DEF IInv
<1>. QED BY <1>1, <1>2, <1>3, <1>4, <1>5, <1>6 DEF Next

\* The inductive invariant holds in every reachable state.
THEOREM InductiveInvariant == Spec => []IInv
<1>1. Init => IInv
  BY InitIInv
<1>2. IInv /\ [Next]_vars => IInv'
  BY StepIInv
<1>. QED BY <1>1, <1>2, PTL DEF Spec

\* loop(), the interrupt handler and the timer keep every variable in its type,
\* whatever their order: places found by searchDistantDevice are places of the
\* table, and a handler always has a received frame before it.
THEOREM TypeCorrect == Spec => []TypeOK
<1>1. IInv => TypeOK
  BY DEF IInv
<1>. QED BY <1>1, InductiveInvariant, PTL

\* addNetworkDevices and removeNetworkDevices keep the addresses of a table
\* distinct and the index of a device its place, between any other steps.
THEOREM TablesStayConsistent == Spec => []TablesConsistent
<1>1. IInv => TablesConsistent
  BY DEF IInv
<1>. QED BY <1>1, InductiveInvariant, PTL
------------------------------------------------------------------------------
\* The timely specification, which TLC checks, has steps of Next only.
LEMMA TimelyIsNext == TimelyNext => Next
<1>. SUFFICES ASSUME TimelyNext PROVE Next
  OBVIOUS
<1>1. ASSUME NEW n \in Node, TimelyLoop(n) PROVE Next
  BY <1>1 DEF TimelyLoop, TimelyPass, Next
<1>2. ASSUME NEW n \in Node, TimelyTx(n) PROVE Next
  <2>1. PICK R \in SUBSET (Listening \ {n}) : TxDone(n, R)
    BY <1>2 DEF TimelyTx
  <2>2. R \in SUBSET (Node \ (down \cup {n}))
    BY DEF Listening
  <2>. QED BY <2>1, <2>2 DEF Next
<1>3. ASSUME NEW n \in Node, Power(n) PROVE Next
  BY <1>3 DEF Next
<1>4. ASSUME NEW t \in Tags, TimelyTick(t) PROVE Next
  BY <1>4 DEF TimelyTick, Next
<1>5. ASSUME NEW a \in Anchors, TimelyReset(a) PROVE Next
  BY <1>5 DEF TimelyReset, Next
<1>. QED BY <1>1, <1>2, <1>3, <1>4, <1>5 DEF TimelyNext

\* The timing of the delays only leaves interleavings out, so what is proved of
\* every interleaving holds under it.
THEOREM TimelyImplementsSpec == TimelySpec => Spec
<1>1. [TimelyNext]_vars => [Next]_vars
  BY TimelyIsNext
<1>. QED BY <1>1, PTL DEF TimelySpec, Spec
------------------------------------------------------------------------------
(***************************************************************************)
(* The last anchor a tag lists (LastAnchorMatched), for one tag: the       *)
(* library supports one, and with several a tag's POLL_ACKs would answer   *)
(* the POLL of another.  A node has at most one frame at a time that still *)
(* has to take effect: its own, from newTransmit until handleSent is seen  *)
(* by loop(), or one it has heard, until its handler has run.              *)
(***************************************************************************)
OneTag == \E t : Tags = {t}
theTag == CHOOSE t \in Tags : TRUE

Own(n) == tx[n] # None \/ sentAck[n]
Heard(n) == receivedAck[n] \/ pc[n] = "handle"

Modes(n) ==
  /\ tx[n] # None => tx[n] = data[n] /\ ~sentAck[n] /\ ~Heard(n)
  /\ sentAck[n] => data[n] # None /\ data[n].id = lastTx[n] /\ ~Heard(n)
  /\ pc[n] = "handle" => ~receivedAck[n] /\ data[n] = rx[n]
  /\ pc[n] = "inactive" => tx[n] # None /\ Type(tx[n]) = "BLINK"

\* A frame names its sender; the tag and the anchors send different types.
Formed(f) == f.id.src = theTag <=> Type(f) \in {"POLL", "RANGE", "BLINK"}
FormedAt(n) ==
  /\ Own(n) => data[n].id.src = n /\ Formed(data[n])
  /\ Heard(n) => Formed(rx[n])

\* The tag lists anchors and the anchors list the tag.
Kinds ==
  /\ \A i \in 1..Len(dev[theTag]) : dev[theTag][i].short \in Anchors
  /\ \A a \in Anchors : \A i \in 1..Len(dev[a]) : dev[a][i].short = theTag

\* The flights of the current round.
Poll == [type |-> "POLL", src |-> theTag, tag |-> theTag, round |-> round[theTag]]
Ack(a) == [type |-> "POLL_ACK", src |-> a, tag |-> theTag, round |-> round[theTag]]

LastOf(list) == list[Len(list)]

\* A RANGE is of this round, and so are the timestamps of its last entry.
RangeOfRound(f) ==
  /\ f.id = RangeStamp(theTag)
  /\ f.list # <<>> /\ ShortAddressesDistinct(f.list)
  /\ LastOf(f.list).short \in Anchors
  /\ LastOf(f.list).timePollSent = Poll
  /\ LastOf(f.list).timePollAckReceived = Ack(LastOf(f.list).short)
  /\ LastOf(f.list).timeRangeSent = f.id

Greetings == {"BLINK", "RANGING_INIT"}

OfRound(f) ==
  /\ Type(f) \notin Greetings
  /\ Type(f) = "POLL" => f.id = Poll
  /\ Type(f) = "POLL_ACK" => f.id = Ack(f.id.src)
  /\ Type(f) = "RANGE" => RangeOfRound(f)

\* The tag has stored when it sent this round's POLL, or is about to.
Timed == \A i \in 1..Len(dev[theTag]) : dev[theTag][i].timePollSent = Poll
Timing == /\ Own(theTag) /\ Type(data[theTag]) = "POLL"
          /\ lastSent[theTag] = Broadcast

\* The same for the two timestamps of an anchor, if it still knows the tag.
PollTimed(a) == \A i \in 1..Len(dev[a]) : dev[a][i].timePollReceived = Poll
AckTimed(a) == \A i \in 1..Len(dev[a]) : dev[a][i].timePollAckSent = Ack(a)
Answering(a) == Own(a) /\ Type(data[a]) = "POLL_ACK"
Answered(a) == (Answering(a) /\ sentAck[a]) \/ (PollTimed(a) /\ AckTimed(a))

\* Either every frame under way is a BLINK or an answer to one ...
Greeting ==
  \A n \in Node : /\ Own(n) => Type(data[n]) \in Greetings
                  /\ Heard(n) => Type(rx[n]) \in Greetings

\* ... or every one belongs to the current round of polling: a POLL_ACK is on
\* its way only from an anchor that has stored the arrival of the POLL, and has
\* reached the tag only from an anchor that has stored its departure, too.
Rests(n) ==
  /\ Own(n) => OfRound(data[n])
  /\ Heard(n) => OfRound(rx[n])
  /\ Own(n) /\ Type(data[n]) = "RANGE" => Answered(LastOf(data[n].list).short)
  /\ Heard(n) /\ Type(rx[n]) = "RANGE" => Answered(LastOf(rx[n].list).short)
Polling ==
  /\ \A n \in Node : Rests(n)
  /\ Timed \/ Timing
  /\ \A a \in Anchors : Answering(a) => lastSent[a] = theTag /\ PollTimed(a)
  /\ Heard(theTag) /\ Type(rx[theTag]) = "POLL_ACK" => Answered(rx[theTag].id.src)

RoundInv ==
  /\ IInv
  /\ \A n \in Node : Modes(n) /\ FormedAt(n)
  /\ Kinds
  /\ Greeting \/ Polling
------------------------------------------------------------------------------
LEMMA TagFacts ==
  ASSUME OneTag
  PROVE  /\ Tags = {theTag} /\ theTag \in Tags /\ theTag \in Node /\ theTag \notin Anchors
         /\ Node = {theTag} \cup Anchors
BY NodesAssumption DEF OneTag, theTag, Node

LEMMA InitRoundInv == ASSUME OneTag, Init PROVE RoundInv
<1>1. IInv
  BY InitIInv
<1>2. \A n \in Node : ~Own(n) /\ ~Heard(n) /\ pc[n] = "top" /\ dev[n] = <<>>
  BY DEF Init, Own, Heard
<1>3. \A n \in Node : Modes(n) /\ FormedAt(n)
  BY <1>2 DEF Modes, FormedAt, Own, Heard
<1>4. Kinds
  BY <1>2, TagFacts DEF Kinds
<1>5. Greeting
  BY <1>2 DEF Greeting
<1>. QED BY <1>1, <1>3, <1>4, <1>5 DEF RoundInv

\* A step of one node leaves the others alone.
Beside(n) ==
  \A m \in Node \ {n} :
    UNCHANGED <<pc[m], data[m], tx[m], rx[m], lastTx[m], sentAck[m], receivedAck[m],
                lastSent[m], dev[m]>>

LEMMA LoopBeside ==
  ASSUME IInv, NEW n \in Node, PassHead(n) \/ LoopBody(n)
  PROVE  Beside(n) /\ UNCHANGED round
<1> USE DEF loopVars, timerVars, chipVars, flagVars, worldVars, Goto, Beside, IInv, TypeOK
<1>1. CASE PassHead(n)
  BY <1>1 DEF PassHead
<1>2. CASE NotSent(n)
  BY <1>2 DEF NotSent
<1>3. CASE SentUnexpected(n)
  BY <1>3 DEF SentUnexpected
<1>4. CASE HandleSent(n)
  BY <1>4 DEF HandleSent
<1>5. CASE NotReceived(n)
  BY <1>5 DEF NotReceived
<1>6. CASE GetData(n)
  BY <1>6 DEF GetData
<1>7. CASE UnknownSource(n)
  BY <1>7 DEF UnknownSource
<1>. QED BY <1>1, <1>2, <1>3, <1>4, <1>5, <1>6, <1>7 DEF LoopBody

LEMMA HandleBeside ==
  ASSUME IInv, NEW n \in Node, (n \in Tags /\ TagHandle(n)) \/ (n \in Anchors /\ AnchorHandle(n))
  PROVE  Beside(n) /\ UNCHANGED round
<1> USE DEF timerVars, chipVars, flagVars, worldVars, Goto, Beside, IInv, TypeOK,
            transmit
<1>1. CASE n \in Tags /\ TagHandle(n)
  <2>1. CASE CheckInactive(n)
    BY <2>1 DEF CheckInactive
  <2>2. CASE CheckDone(n)
    BY <2>2 DEF CheckDone
  <2>3. CASE TagRangingInit(n)
    BY <2>3 DEF TagRangingInit
  <2>4. CASE TagUnexpected(n)
    BY <2>4 DEF TagUnexpected
  <2>5. CASE TagPollAck(n)
    BY <2>5 DEF TagPollAck
  <2>6. CASE TagLastPollAck(n)
    BY <2>6 DEF TagLastPollAck
  <2>7. CASE TagRangeReport(n)
    BY <2>7 DEF TagRangeReport
  <2>. QED BY <1>1, <2>1, <2>2, <2>3, <2>4, <2>5, <2>6, <2>7 DEF TagHandle
<1>2. CASE n \in Anchors /\ AnchorHandle(n)
  <2>1. CASE AnchorBlink(n)
    BY <2>1 DEF AnchorBlink
  <2>2. CASE AnchorPoll(n)
    BY <2>2 DEF AnchorPoll
  <2>3. CASE AnchorNotListed(n)
    BY <2>3 DEF AnchorNotListed
  <2>4. CASE AnchorRange(n)
    BY <2>4 DEF AnchorRange
  <2>5. CASE AnchorRangeFailed(n)
    BY <2>5 DEF AnchorRangeFailed
  <2>. QED BY <1>2, <2>1, <2>2, <2>3, <2>4, <2>5 DEF AnchorHandle
<1>. QED BY <1>1, <1>2
------------------------------------------------------------------------------
LEMMA BesideKeeps ==
  ASSUME NEW n \in Node, Beside(n), NEW m \in Node \ {n}, Modes(m), FormedAt(m)
  PROVE  Modes(m)' /\ FormedAt(m)'
BY DEF Beside, Modes, FormedAt, Own, Heard, Formed, Type

\* A step that starts nothing at node n: its frames stay or have taken effect.
Settles(n) ==
  /\ UNCHANGED <<data[n], tx[n], rx[n], lastTx[n], receivedAck[n], lastSent[n]>>
  /\ sentAck'[n] => sentAck[n]
  /\ pc'[n] \in {"handle", "inactive"} => pc'[n] = pc[n]

LEMMA SettlesKeeps ==
  ASSUME NEW n \in Node, Settles(n), Modes(n), FormedAt(n)
  PROVE  Modes(n)' /\ FormedAt(n)'
BY DEF Settles, Modes, FormedAt, Own, Heard, Formed, Type

LEMMA LoopSettles ==
  ASSUME IInv, NEW n \in Node,
         PassHead(n) \/ NotSent(n) \/ SentUnexpected(n) \/ HandleSent(n)
           \/ NotReceived(n) \/ UnknownSource(n)
  PROVE  Settles(n)
<1> USE DEF loopVars, timerVars, chipVars, flagVars, Goto, Settles, IInv, TypeOK
<1>1. CASE PassHead(n)
  BY <1>1 DEF PassHead
<1>2. CASE NotSent(n)
  BY <1>2 DEF NotSent
<1>3. CASE SentUnexpected(n)
  BY <1>3 DEF SentUnexpected
<1>4. CASE HandleSent(n)
  BY <1>4 DEF HandleSent
<1>5. CASE NotReceived(n)
  BY <1>5 DEF NotReceived
<1>6. CASE UnknownSource(n)
  BY <1>6 DEF UnknownSource
<1>. QED BY <1>1, <1>2, <1>3, <1>4, <1>5, <1>6

LEMMA TagSettles ==
  ASSUME IInv, NEW n \in Tags,
         CheckInactive(n) \/ CheckDone(n) \/ TagRangingInit(n) \/ TagUnexpected(n)
           \/ TagPollAck(n) \/ TagRangeReport(n)
  PROVE  n \in Node /\ Settles(n)
<1> USE DEF timerVars, chipVars, flagVars, Goto, Settles, IInv, TypeOK, Node
<1>1. CASE CheckInactive(n)
  BY <1>1 DEF CheckInactive
<1>2. CASE CheckDone(n)
  BY <1>2 DEF CheckDone
<1>3. CASE TagRangingInit(n)
  BY <1>3 DEF TagRangingInit
<1>4. CASE TagUnexpected(n)
  BY <1>4 DEF TagUnexpected
<1>5. CASE TagPollAck(n)
  BY <1>5 DEF TagPollAck
<1>6. CASE TagRangeReport(n)
  BY <1>6 DEF TagRangeReport
<1>. QED BY <1>1, <1>2, <1>3, <1>4, <1>5, <1>6

LEMMA AnchorSettles ==
  ASSUME IInv, NEW a \in Anchors, AnchorNotListed(a)
  PROVE  a \in Node /\ Settles(a)
BY DEF AnchorNotListed, timerVars, chipVars, flagVars, Goto, Settles, IInv, TypeOK, Node

\* A handler that sends frame f.
Sends(n, f) ==
  /\ At(n, "handle") /\ transmit(n, f)
  /\ pc' = [pc EXCEPT ![n] = "top"] /\ UNCHANGED <<sentAck, receivedAck>>

LEMMA SendsKeeps ==
  ASSUME IInv, NEW n \in Node, NEW f, Sends(n, f), Modes(n), f.id.src = n, Formed(f)
  PROVE  /\ Modes(n)' /\ FormedAt(n)' /\ data'[n] = f
         /\ Own(n)' => ~Own(n) /\ Heard(n) /\ rx[n] = data[n]
         /\ ~Heard(n)'
BY DEF Sends, transmit, At, IInv, TypeOK, Modes, FormedAt, Own, Heard, Formed, Type

LEMMA GetDataKeeps ==
  ASSUME IInv, NEW n \in Node, GetData(n), Modes(n), FormedAt(n)
  PROVE  /\ Modes(n)' /\ FormedAt(n)'
         /\ ~Own(n)' /\ ~Own(n) /\ Heard(n) /\ UNCHANGED rx
<1>1. /\ receivedAck[n] /\ data'[n] = rx[n] /\ pc'[n] = "handle" /\ ~receivedAck'[n]
      /\ UNCHANGED <<tx, rx, lastTx, sentAck>>
  BY DEF GetData, chipVars, Goto, IInv, TypeOK
<1>. QED BY <1>1 DEF Modes, FormedAt, Own, Heard, Formed, Type
------------------------------------------------------------------------------
\* What a node that has begun to send needs for its new frame.
Begun(m) ==
  /\ OfRound(data[m])
  /\ Type(data[m]) = "RANGE" => Answered(LastOf(data[m].list).short)
  /\ Type(data[m]) = "POLL_ACK" => lastSent[m] = theTag /\ PollTimed(m)

LEMMA StillGreeting ==
  ASSUME Greeting,
         \A m \in Node : Own(m)' => \/ Own(m) /\ data'[m] = data[m]
                                    \/ Type(data'[m]) \in Greetings,
         \A m \in Node : Heard(m)' => \/ Heard(m) /\ rx'[m] = rx[m]
                                      \/ Type(rx'[m]) \in Greetings
  PROVE  Greeting'
BY DEF Greeting, Type

LEMMA SameRoundFacts ==
  ASSUME UNCHANGED round
  PROVE  Poll' = Poll /\ (\A a : Ack(a)' = Ack(a)) /\ (\A f : OfRound(f)' <=> OfRound(f))
BY DEF Poll, Ack, OfRound, RangeOfRound, RangeStamp, Type, LastOf

LEMMA StillPolling ==
  ASSUME OneTag, RoundInv, Polling, UNCHANGED round,
         \A m \in Node : Own(m)' => \/ /\ Own(m)
                                       /\ UNCHANGED <<data[m], lastSent[m]>>
                                    \/ Begun(m)',
         \A m \in Node : Heard(m)' => Heard(m) /\ rx'[m] = rx[m],
         \A a \in Anchors : /\ PollTimed(a) => PollTimed(a)'
                            /\ Answered(a) => Answered(a)',
         (Timed \/ Timing)'
  PROVE  Polling'
<1>1. \A f : OfRound(f)' <=> OfRound(f)
  BY SameRoundFacts
<1>2. \A f : OfRound(f) /\ Type(f) = "RANGE" => LastOf(f.list).short \in Anchors
  BY DEF OfRound, RangeOfRound
<1>3. ASSUME NEW m \in Node PROVE Rests(m)'
  <2>1. Rests(m)
    BY DEF Polling
  <2>2. Own(m)' => /\ OfRound(data[m])'
                   /\ Type(data'[m]) = "RANGE" => Answered(LastOf(data[m].list).short)'
    <3>1. CASE Own(m) /\ UNCHANGED <<data[m], lastSent[m]>>
      <4>1. OfRound(data[m])'
        BY <1>1, <2>1, <3>1 DEF Rests
      <4>2. ASSUME Type(data'[m]) = "RANGE"
            PROVE  Answered(LastOf(data[m].list).short)'
        <5>1. Answered(LastOf(data[m].list).short) /\ LastOf(data[m].list).short \in Anchors
          BY <1>2, <2>1, <3>1, <4>2 DEF Rests, Type
        <5>2. LastOf(data'[m].list).short = LastOf(data[m].list).short
          BY <3>1
        <5>. QED BY <5>1, <5>2
      <4>. QED BY <4>1, <4>2
    <3>2. CASE Begun(m)'
      BY <3>2 DEF Begun, Type
    <3>. QED BY <3>1, <3>2
  <2>3. Heard(m)' => /\ OfRound(rx[m])'
                     /\ Type(rx'[m]) = "RANGE" => Answered(LastOf(rx[m].list).short)'
    <3>. SUFFICES ASSUME Heard(m)'
                  PROVE  /\ OfRound(rx[m])'
                         /\ Type(rx'[m]) = "RANGE" => Answered(LastOf(rx[m].list).short)'
      OBVIOUS
    <3>1. Heard(m) /\ rx'[m] = rx[m]
      OBVIOUS
    <3>2. OfRound(rx[m])'
      BY <1>1, <2>1, <3>1 DEF Rests
    <3>3. ASSUME Type(rx'[m]) = "RANGE"
          PROVE  Answered(LastOf(rx[m].list).short)'
      <4>1. Answered(LastOf(rx[m].list).short) /\ LastOf(rx[m].list).short \in Anchors
        BY <1>2, <2>1, <3>1, <3>3 DEF Rests, Type
      <4>2. LastOf(rx'[m].list).short = LastOf(rx[m].list).short
        BY <3>1
      <4>. QED BY <4>1, <4>2
    <3>. QED BY <3>2, <3>3
  <2>. QED BY <2>2, <2>3 DEF Rests, Type
<1>4. ASSUME NEW a \in Anchors, Answering(a)'
      PROVE  (lastSent[a] = theTag)' /\ PollTimed(a)'
  <2>1. a \in Node
    BY DEF Node
  <2>2. CASE Own(a) /\ UNCHANGED <<data[a], lastSent[a]>>
    BY <1>4, <2>1, <2>2 DEF Polling, Answering, Type
  <2>3. CASE Begun(a)'
    BY <1>4, <2>3 DEF Begun, Answering, Type
  <2>. QED BY <1>4, <2>1, <2>2, <2>3 DEF Answering
<1>5. ASSUME Heard(theTag)', Type(rx'[theTag]) = "POLL_ACK"
      PROVE  Answered(rx[theTag].id.src)'
  <2>1. Heard(theTag) /\ rx'[theTag] = rx[theTag]
    BY <1>5, TagFacts
  <2>2. Answered(rx[theTag].id.src)
    BY <1>5, <2>1 DEF Polling, Type
  <2>3. rx[theTag].id.src \in Anchors
    <3>1. rx[theTag] # None /\ rx[theTag] \in MaybeFrame
      BY <2>1, TagFacts DEF RoundInv, IInv, TypeOK, BuffersFilled, Heard
    <3>2. rx[theTag].id.src \in Node /\ rx[theTag].id.src # theTag
      BY <1>5, <2>1, <3>1, FrameFacts, TagFacts DEF RoundInv, FormedAt, Formed, Type
    <3>. QED BY <3>2, TagFacts
  <2>. QED BY <2>1, <2>2, <2>3
<1>. QED BY <1>3, <1>4, <1>5 DEF Polling, Type
------------------------------------------------------------------------------
\* The table of node n keeps its addresses and the timestamps of POLL and of
\* the sending of POLL_ACK.
SameTimes(n) ==
  /\ Len(dev'[n]) = Len(dev[n])
  /\ \A i \in 1..Len(dev[n]) :
       /\ dev'[n][i].short = dev[n][i].short
       /\ dev'[n][i].timePollSent = dev[n][i].timePollSent
       /\ dev'[n][i].timePollReceived = dev[n][i].timePollReceived
       /\ dev'[n][i].timePollAckSent = dev[n][i].timePollAckSent

LEMMA TimesKept ==
  ASSUME OneTag, NEW n \in Node, Beside(n), SameTimes(n), UNCHANGED round
  PROVE  /\ Kinds => Kinds'
         /\ Timed => Timed'
         /\ \A a \in Anchors : /\ PollTimed(a) => PollTimed(a)'
                               /\ AckTimed(a) => AckTimed(a)'
<1>1. \A m \in Node : /\ Len(dev'[m]) = Len(dev[m])
                      /\ \A i \in 1..Len(dev[m]) :
                           /\ dev'[m][i].short = dev[m][i].short
                           /\ dev'[m][i].timePollSent = dev[m][i].timePollSent
                           /\ dev'[m][i].timePollReceived = dev[m][i].timePollReceived
                           /\ dev'[m][i].timePollAckSent = dev[m][i].timePollAckSent
  BY DEF Beside, SameTimes
<1>2. Poll' = Poll /\ \A a : Ack(a)' = Ack(a)
  BY SameRoundFacts
<1>3. theTag \in Node /\ Anchors \subseteq Node
  BY TagFacts
<1>4. Kinds => Kinds'
  BY <1>1, <1>3 DEF Kinds
<1>5. Timed => Timed'
  BY <1>1, <1>2, <1>3 DEF Timed
<1>6. \A a \in Anchors : PollTimed(a) => PollTimed(a)'
  BY <1>1, <1>2, <1>3 DEF PollTimed
<1>7. \A a \in Anchors : AckTimed(a) => AckTimed(a)'
  BY <1>1, <1>2, <1>3 DEF AckTimed
<1>. QED BY <1>4, <1>5, <1>6, <1>7

\* While a frame of polling is under way, no greeting is.
LEMMA WhichTalk ==
  ASSUME RoundInv, NEW n \in Node
  PROVE  /\ Own(n) /\ Type(data[n]) \notin Greetings => Polling
         /\ Own(n) /\ Type(data[n]) \in Greetings => Greeting
         /\ Heard(n) /\ Type(rx[n]) \notin Greetings => Polling
         /\ Heard(n) /\ Type(rx[n]) \in Greetings => Greeting
BY DEF RoundInv, Greeting, Polling, Rests, OfRound

\* A step that only ends the handling of something.
LEMMA QuietStep ==
  ASSUME OneTag, RoundInv, NEW n \in Node, Beside(n), Settles(n), SameTimes(n),
         UNCHANGED round,
         sentAck'[n] = sentAck[n] \/ Type(data[n]) \notin SentTypes
  PROVE  Kinds' /\ (Greeting \/ Polling)'
<1>1. /\ \A m \in Node : Own(m)' => Own(m) /\ UNCHANGED <<data[m], lastSent[m]>>
      /\ \A m \in Node : Heard(m)' => Heard(m) /\ rx'[m] = rx[m]
  BY DEF Beside, Settles, Own, Heard
<1>2. Kinds'
  BY TimesKept DEF RoundInv
<1>3. CASE Greeting
  BY <1>1, <1>2, <1>3, StillGreeting
<1>4. CASE Polling
  <2>1. ASSUME NEW a \in Anchors, Answered(a) PROVE Answered(a)'
    <3>1. a \in Node
      BY DEF Node
    <3>2. CASE PollTimed(a) /\ AckTimed(a)
      BY <3>2, TimesKept DEF Answered
    <3>3. CASE Answering(a) /\ sentAck[a]
      <4>1. sentAck'[a] /\ data'[a] = data[a]
        BY <3>1, <3>3 DEF Beside, Settles, Answering, SentTypes
      <4>. QED BY <3>3, <4>1 DEF Answered, Answering, Own, Type
    <3>. QED BY <2>1, <3>2, <3>3 DEF Answered
  <2>2. (Timed \/ Timing)'
    <3>1. CASE Timed
      BY <3>1, TimesKept
    <3>2. CASE Timing
      <4>1. theTag \in Node
        BY TagFacts
      <4>2. Own(theTag)' /\ UNCHANGED <<data[theTag], lastSent[theTag]>>
        BY <3>2, <4>1 DEF Timing, Own, Beside, Settles, SentTypes
      <4>. QED BY <3>2, <4>2 DEF Timing, Type
    <3>. QED BY <1>4, <3>1, <3>2 DEF Polling
  <2>3. Polling'
    BY <1>1, <1>4, <2>1, <2>2, TimesKept, StillPolling
  <2>. QED BY <1>2, <2>3
<1>. QED BY <1>3, <1>4 DEF RoundInv

LEMMA PlainQuiet ==
  ASSUME OneTag, RoundInv, NEW n \in Node,
         PassHead(n) \/ NotSent(n) \/ SentUnexpected(n) \/ NotReceived(n)
           \/ UnknownSource(n)
  PROVE  Kinds' /\ (Greeting \/ Polling)'
<1>1. IInv
  BY DEF RoundInv
<1>2. Beside(n) /\ UNCHANGED round /\ Settles(n)
  BY <1>1, LoopBeside, LoopSettles DEF LoopBody
<1>3. UNCHANGED dev
  BY DEF loopVars, PassHead, NotSent, SentUnexpected, NotReceived, UnknownSource
<1>4. SameTimes(n)
  BY <1>3 DEF SameTimes
<1>5. sentAck'[n] = sentAck[n] \/ Type(data[n]) \notin SentTypes
  BY DEF flagVars, PassHead, NotSent, SentUnexpected, NotReceived, UnknownSource
<1>. QED BY <1>2, <1>4, <1>5, QuietStep

LEMMA UnhandledQuiet ==
  ASSUME OneTag, RoundInv, NEW n \in Node,
         (n \in Tags /\ (CheckDone(n) \/ TagUnexpected(n)))
           \/ (n \in Anchors /\ AnchorNotListed(n))
  PROVE  Kinds' /\ (Greeting \/ Polling)'
<1>1. IInv
  BY DEF RoundInv
<1>2. Beside(n) /\ UNCHANGED round /\ Settles(n)
  BY <1>1, HandleBeside, TagSettles, AnchorSettles DEF TagHandle, AnchorHandle
<1>3. UNCHANGED <<dev, sentAck>>
  BY DEF loopVars, flagVars, CheckDone, TagUnexpected, AnchorNotListed
<1>4. SameTimes(n)
  BY <1>3 DEF SameTimes
<1>. QED BY <1>2, <1>3, <1>4, QuietStep

\* The device a POLL_ACK or a RANGE_REPORT comes from keeps its other fields.
LEMMA TagTimes ==
  ASSUME IInv, NEW t \in Tags, TagPollAck(t) \/ TagRangeReport(t)
  PROVE  SameTimes(t)
<1> DEFINE i == Distant(t)
<1>1. t \in Node /\ i \in 1..Len(dev[t]) /\ dev[t][i] \in Device /\ dev[t] \in Seq(Device)
  BY DistantPlace, AtNode DEF Node, TagPollAck, TagRangeReport
<1>2. PICK d : /\ dev'[t] = [dev[t] EXCEPT ![i] = d]
               /\ d.short = dev[t][i].short
               /\ d.timePollSent = dev[t][i].timePollSent
               /\ d.timePollReceived = dev[t][i].timePollReceived
               /\ d.timePollAckSent = dev[t][i].timePollAckSent
  <2>1. CASE TagPollAck(t)
    <3>1. dev'[t] = [dev[t] EXCEPT ![i] = [Noted(dev[t][i]) EXCEPT !.timePollAckReceived = rx[t].id]]
      BY <1>1, <2>1 DEF TagPollAck, WithAck, IInv, TypeOK
    <3>. QED BY <1>1, <3>1 DEF Noted, Device
  <2>2. CASE TagRangeReport(t)
    <3>1. dev'[t] = [dev[t] EXCEPT ![i] = [dev[t][i] EXCEPT !.range = data[t].range]]
      BY <1>1, <2>2 DEF TagRangeReport, IInv, TypeOK
    <3>. QED BY <1>1, <3>1 DEF Device
  <2>. QED BY <2>1, <2>2
<1>. HIDE DEF i
<1>3. Len(dev'[t]) = Len(dev[t]) /\ \A k \in 1..Len(dev[t]) :
        dev'[t][k] = IF k = i THEN d ELSE dev[t][k]
  BY <1>1, <1>2
<1>. QED BY <1>2, <1>3 DEF SameTimes

LEMMA TagQuiet ==
  ASSUME OneTag, RoundInv, NEW n \in Node, n \in Tags, TagPollAck(n) \/ TagRangeReport(n)
  PROVE  Kinds' /\ (Greeting \/ Polling)'
<1>1. IInv
  BY DEF RoundInv
<1>2. Beside(n) /\ UNCHANGED round /\ Settles(n)
  BY <1>1, HandleBeside, TagSettles DEF TagHandle
<1>3. SameTimes(n) /\ sentAck' = sentAck
  BY <1>1, TagTimes DEF TagPollAck, TagRangeReport, flagVars
<1>. QED BY <1>2, <1>3, QuietStep
------------------------------------------------------------------------------
\* An anchor knows one device at most: the tag.
LEMMA OneDevice ==
  ASSUME OneTag, RoundInv, NEW a \in Anchors,
         NEW i \in 1..Len(dev[a]), NEW j \in 1..Len(dev[a])
  PROVE  i = j /\ dev[a][i].short = theTag
BY DEF RoundInv, Kinds, IInv, TablesConsistent, ShortAddressesDistinct, Node

\* Storing the time a frame was sent leaves the addresses and all but one
\* timestamp alone.
LEMMA SentTable ==
  ASSUME IInv, NEW n \in Node, HandleSent(n)
  PROVE  /\ Len(dev'[n]) = Len(dev[n])
         /\ \A i \in 1..Len(dev[n]) :
              /\ dev'[n][i] = IF i \in SentTo(n) THEN StoreSentTime(n, dev[n][i]) ELSE dev[n][i]
              /\ dev[n][i] \in Device
<1>1. Len(dev[n]) \in Nat /\ \A i \in 1..Len(dev[n]) : dev[n][i] \in Device
  BY AtNode
<1>2. dev'[n] = [i \in 1..Len(dev[n]) |->
                   IF i \in SentTo(n) THEN StoreSentTime(n, dev[n][i]) ELSE dev[n][i]]
  BY DEF HandleSent, IInv, TypeOK
<1>3. Len(dev'[n]) = Len(dev[n])
  <2>. DEFINE e(i) == IF i \in SentTo(n) THEN StoreSentTime(n, dev[n][i]) ELSE dev[n][i]
  <2>1. dev'[n] = [i \in 1..Len(dev[n]) |-> e(i)]
    BY <1>2
  <2>. HIDE DEF e
  <2>2. dev'[n] \in Seq(UNION {{e(i)} : i \in 1..Len(dev[n])})
    BY <1>1, <2>1, IsASeq
  <2>. QED BY <1>1, <2>1, <2>2, LenProperties
<1>. QED BY <1>1, <1>2, <1>3

\* Noting when a frame was sent leaves the rest of a device alone.
LEMMA SentKeeps ==
  ASSUME IInv, NEW n \in Node, HandleSent(n)
  PROVE  \A i \in 1..Len(dev[n]) :
           /\ dev'[n][i].short = dev[n][i].short
           /\ dev'[n][i].range = dev[n][i].range
           /\ dev'[n][i].timePollAckReceived = dev[n][i].timePollAckReceived
<1>1. \A d \in Device :
        /\ StoreSentTime(n, d).short = d.short
        /\ StoreSentTime(n, d).range = d.range
        /\ StoreSentTime(n, d).timePollAckReceived = d.timePollAckReceived
  BY DEF StoreSentTime, Device
<1>. QED BY <1>1, SentTable

\* The tag sees its POLL sent, the last anchor its POLL_ACK.
LEMMA HandleSentTalk ==
  ASSUME OneTag, RoundInv, NEW n \in Node, HandleSent(n)
  PROVE  Kinds' /\ (Greeting \/ Polling)'
<1>1. IInv /\ theTag \in Node /\ Modes(n) /\ FormedAt(n) /\ lastTx[n] = data[n].id
      /\ Own(n) /\ sentAck[n]
  BY TagFacts DEF RoundInv, Modes, Own, HandleSent
<1>2. Beside(n) /\ UNCHANGED round /\ Settles(n)
  BY <1>1, LoopBeside, LoopSettles DEF LoopBody
<1>3. Poll' = Poll /\ \A a : Ack(a)' = Ack(a)
  BY <1>2, SameRoundFacts
<1>4. Polling
  BY <1>1, WhichTalk DEF HandleSent, SentTypes, Greetings
<1>5. /\ \A m \in Node : Own(m)' => Own(m) /\ UNCHANGED <<data[m], lastSent[m]>>
      /\ \A m \in Node : Heard(m)' => Heard(m) /\ rx'[m] = rx[m]
  BY <1>2 DEF Beside, Settles, Own, Heard
<1>6. OfRound(data[n])
  BY <1>1, <1>4 DEF Polling, Rests
<1>7. CASE n \in Tags
  <2>1. n = theTag /\ n \notin Anchors
    BY <1>7, TagFacts
  <2>2. \A i \in 1..Len(dev[n]) :
          dev'[n][i] \in {dev[n][i], [dev[n][i] EXCEPT !.timePollSent = lastTx[n]],
                          [dev[n][i] EXCEPT !.timeRangeSent = lastTx[n]]}
    BY <1>1, <2>1, SentTable DEF StoreSentTime
  <2>3. \A i \in 1..Len(dev[n]) : dev'[n][i].short = dev[n][i].short
    BY <1>1, <2>2, SentTable DEF Device
  <2>4. Kinds'
    <3>1. \A a \in Anchors : dev'[a] = dev[a]
      BY <1>2, <2>1 DEF Beside, Node
    <3>. QED BY <1>1, <2>1, <2>3, <3>1, SentTable DEF Kinds, RoundInv
  <2>5. Timed'
    <3>1. CASE Type(data[n]) = "POLL" /\ lastSent[n] = Broadcast
      <4>1. lastTx[n] = Poll
        BY <1>1, <1>6, <3>1 DEF OfRound
      <4>2. \A i \in 1..Len(dev[n]) : dev'[n][i] = [dev[n][i] EXCEPT !.timePollSent = Poll]
        BY <1>1, <2>1, <3>1, <4>1, SentTable DEF SentTo, StoreSentTime
      <4>3. \A i \in 1..Len(dev[n]) : dev'[n][i].timePollSent = Poll
        <5>. SUFFICES ASSUME NEW i \in 1..Len(dev[n]) PROVE dev'[n][i].timePollSent = Poll
          OBVIOUS
        <5>1. dev[n][i] \in Device
          BY <1>1, SentTable
        <5>. QED BY <4>2, <5>1 DEF Device
      <4>. QED BY <1>1, <1>3, <2>1, <4>3, SentTable DEF Timed
    <3>2. CASE ~(Type(data[n]) = "POLL" /\ lastSent[n] = Broadcast)
      <4>1. Timed
        BY <1>4, <2>1, <3>2 DEF Polling, Timing
      <4>2. \A i \in 1..Len(dev[n]) : dev'[n][i].timePollSent = Poll
        <5>. SUFFICES ASSUME NEW i \in 1..Len(dev[n]) PROVE dev'[n][i].timePollSent = Poll
          OBVIOUS
        <5>1. dev[n][i].timePollSent = Poll /\ dev[n][i] \in Device
          BY <1>1, <2>1, <4>1, SentTable DEF Timed
        <5>2. CASE Type(data[n]) = "POLL"
          <6>1. lastTx[n] = Poll
            BY <1>1, <1>6, <5>2 DEF OfRound
          <6>. QED BY <2>2, <5>1, <6>1 DEF Device
        <5>3. CASE Type(data[n]) # "POLL"
          <6>1. dev'[n][i] \in {dev[n][i], [dev[n][i] EXCEPT !.timeRangeSent = lastTx[n]]}
            BY <1>1, <2>1, <5>3, SentTable DEF StoreSentTime
          <6>. QED BY <5>1, <6>1 DEF Device
        <5>. QED BY <5>2, <5>3
      <4>. QED BY <1>1, <1>3, <2>1, <4>2, SentTable DEF Timed
    <3>. QED BY <3>1, <3>2
  <2>6. \A a \in Anchors : /\ PollTimed(a) => PollTimed(a)'
                           /\ Answered(a) => Answered(a)'
    <3>1. \A a \in Anchors : UNCHANGED <<dev[a], data[a], tx[a], sentAck[a]>>
      BY <1>2, <2>1 DEF Beside, Node
    <3>. QED BY <1>3, <3>1 DEF PollTimed, AckTimed, Answered, Answering, Own, Type
  <2>7. Polling'
    BY <1>2, <1>4, <1>5, <2>5, <2>6, StillPolling
  <2>. QED BY <2>4, <2>7
<1>8. CASE n \in Anchors
  <2>1. n # theTag
    BY <1>8, TagFacts
  <2>2. \A i \in 1..Len(dev[n]) :
          dev'[n][i] \in {dev[n][i], [dev[n][i] EXCEPT !.timePollAckSent = lastTx[n]]}
    BY <1>1, <1>8, SentTable DEF StoreSentTime
  <2>3. \A i \in 1..Len(dev[n]) :
          /\ dev'[n][i].short = dev[n][i].short
          /\ dev'[n][i].timePollReceived = dev[n][i].timePollReceived
    BY <1>1, <2>2, SentTable DEF Device
  <2>4. \A m \in Node \ {n} : UNCHANGED <<dev[m], data[m], tx[m], sentAck[m], lastSent[m]>>
    BY <1>2 DEF Beside
  <2>5. Kinds'
    BY <1>1, <1>8, <2>1, <2>3, <2>4, SentTable DEF Kinds, RoundInv, Node
  <2>6. \A a \in Anchors : PollTimed(a) => PollTimed(a)'
    BY <1>1, <1>3, <2>3, <2>4, SentTable DEF PollTimed, Node
  <2>7. ASSUME NEW a \in Anchors, Answered(a) PROVE Answered(a)'
    <3>1. CASE a # n
      BY <1>3, <2>4, <2>7, <3>1 DEF PollTimed, AckTimed, Answered, Answering, Own, Type, Node
    <3>2. CASE a = n /\ Type(data[n]) = "POLL_ACK"
      <4>1. lastSent[n] = theTag /\ PollTimed(n)
        BY <1>1, <1>4, <1>8, <3>2 DEF Polling, Answering
      <4>2. lastTx[n] = Ack(n)
        BY <1>1, <1>6, <3>2 DEF OfRound, FormedAt
      <4>3. \A i \in 1..Len(dev[n]) : i \in SentTo(n)
        <5>. SUFFICES ASSUME NEW i \in 1..Len(dev[n]) PROVE i \in SentTo(n)
          OBVIOUS
        <5>1. dev[n] \in Seq(Device) /\ dev[n][i].short = theTag
          BY <1>1, <1>8, AtNode, OneDevice
        <5>2. searchDistantDevice(dev[n], theTag) \in 1..Len(dev[n])
          BY <5>1, SearchResult
        <5>3. searchDistantDevice(dev[n], theTag) = i
          BY <1>8, <5>2, OneDevice
        <5>4. theTag # Broadcast
          BY <1>1, NodesAssumption
        <5>. QED BY <4>1, <5>3, <5>4 DEF SentTo
      <4>4. \A i \in 1..Len(dev[n]) : dev'[n][i].timePollAckSent = Ack(n)
        <5>1. \A i \in 1..Len(dev[n]) : dev'[n][i] = [dev[n][i] EXCEPT !.timePollAckSent = Ack(n)]
          BY <1>1, <1>8, <3>2, <4>2, <4>3, SentTable DEF StoreSentTime
        <5>. SUFFICES ASSUME NEW i \in 1..Len(dev[n]) PROVE dev'[n][i].timePollAckSent = Ack(n)
          OBVIOUS
        <5>2. dev[n][i] \in Device
          BY <1>1, SentTable
        <5>. QED BY <5>1, <5>2 DEF Device
      <4>5. AckTimed(n)'
        BY <1>1, <1>3, <4>4, SentTable DEF AckTimed
      <4>. QED BY <1>8, <2>6, <3>2, <4>1, <4>5 DEF Answered
    <3>3. CASE a = n /\ Type(data[n]) # "POLL_ACK"
      <4>1. \A i \in 1..Len(dev[n]) : dev'[n][i] = dev[n][i]
        BY <1>1, <1>8, <3>3, SentTable DEF StoreSentTime
      <4>2. PollTimed(n) /\ AckTimed(n)
        BY <2>7, <3>3 DEF Answered, Answering
      <4>. QED BY <1>1, <1>3, <3>3, <4>1, <4>2, SentTable DEF PollTimed, AckTimed, Answered
    <3>. QED BY <3>1, <3>2, <3>3
  <2>8. (Timed \/ Timing)'
    <3>1. UNCHANGED <<dev[theTag], data[theTag], tx[theTag], sentAck[theTag], lastSent[theTag]>>
      BY <1>1, <2>1, <2>4
    <3>. QED BY <1>3, <1>4, <3>1 DEF Polling, Timed, Timing, Own, Type
  <2>9. Polling'
    BY <1>2, <1>4, <1>5, <2>6, <2>7, <2>8, StillPolling
  <2>. QED BY <2>5, <2>9
<1>. QED BY <1>7, <1>8 DEF Node
------------------------------------------------------------------------------
LEMMA GetDataTalk ==
  ASSUME OneTag, RoundInv, NEW n \in Node, GetData(n)
  PROVE  Kinds' /\ (Greeting \/ Polling)'
<1>1. IInv /\ Modes(n) /\ FormedAt(n)
  BY DEF RoundInv
<1>2. Beside(n) /\ UNCHANGED <<round, dev, rx>> /\ ~Own(n)' /\ ~Own(n) /\ Heard(n)
  BY <1>1, LoopBeside, GetDataKeeps DEF LoopBody, GetData
<1>3. /\ \A m \in Node : Own(m)' => Own(m) /\ UNCHANGED <<data[m], lastSent[m]>>
      /\ \A m \in Node : Heard(m)' => Heard(m) /\ rx'[m] = rx[m]
  BY <1>2 DEF Beside, Own, Heard
<1>4. Kinds'
  BY <1>2 DEF RoundInv, Kinds
<1>5. CASE Greeting
  BY <1>3, <1>4, <1>5, StillGreeting
<1>6. CASE Polling
  <2>1. Poll' = Poll /\ \A a : Ack(a)' = Ack(a)
    BY <1>2, SameRoundFacts
  <2>2. /\ \A a \in Anchors : PollTimed(a) => PollTimed(a)'
        /\ \A a \in Anchors : AckTimed(a) => AckTimed(a)'
        /\ Timed => Timed'
    BY <1>2, <2>1 DEF PollTimed, AckTimed, Timed
  <2>3. \A m \in Node : Own(m) => Own(m)' /\ UNCHANGED <<data[m], lastSent[m], sentAck[m]>>
    BY <1>2 DEF Beside, Own
  <2>4. \A a \in Anchors : Answered(a) => Answered(a)'
    BY <2>2, <2>3 DEF Answered, Answering, Type, Node
  <2>5. (Timed \/ Timing)'
    BY <1>6, <2>2, <2>3, TagFacts DEF Polling, Timing, Type
  <2>6. Polling'
    BY <1>2, <1>3, <1>6, <2>2, <2>4, <2>5, StillPolling
  <2>. QED BY <1>4, <2>6
<1>. QED BY <1>5, <1>6 DEF RoundInv

\* Devices leave the tag's table while its BLINK is on the way.
LEMMA CheckInactiveTalk ==
  ASSUME OneTag, RoundInv, NEW t \in Tags, CheckInactive(t)
  PROVE  Kinds' /\ (Greeting \/ Polling)'
<1>1. IInv /\ t = theTag /\ t \in Node /\ Modes(t)
  BY TagFacts DEF RoundInv
<1>2. Beside(t) /\ Settles(t) /\ scan[t] \in 1..Len(dev[t])
  <2>1. Beside(t) /\ Settles(t)
    BY <1>1, HandleBeside, TagSettles DEF TagHandle
  <2>2. scan[t] \in 1..Len(dev[t])
    BY <1>1, AtNode DEF CheckInactive, IInv, TypeOK
  <2>. QED BY <2>1, <2>2
<1>3. Greeting
  <2>1. Own(t) /\ Type(data[t]) \in Greetings
    BY <1>1 DEF CheckInactive, At, Modes, Own, Greetings
  <2>. QED BY <1>1, <2>1, WhichTalk
<1>4. Greeting'
  <2>1. /\ \A m \in Node : Own(m)' => Own(m) /\ data'[m] = data[m]
        /\ \A m \in Node : Heard(m)' => Heard(m) /\ rx'[m] = rx[m]
    BY <1>2 DEF Beside, Settles, Own, Heard
  <2>. QED BY <1>3, <2>1, StillGreeting
<1>5. \A i \in 1..Len(dev'[t]) : dev'[t][i].short \in Anchors
  <2> DEFINE new == removeNetworkDevices(dev[t], scan[t])
  <2>1. \A i \in 1..Len(dev[t]) : dev[t][i].short \in Anchors
    BY <1>1 DEF RoundInv, Kinds
  <2>2. /\ Len(dev[t]) \in Nat /\ Len(new) = Len(dev[t]) - 1
        /\ \A k \in 1..Len(new) : /\ k < scan[t] => new[k] = dev[t][k]
                                  /\ k >= scan[t] => new[k].short = dev[t][k + 1].short
    BY <1>1, <1>2, AtNode, PairedDeviceSet, RemovedTable
  <2>3. dev'[t] \in {dev[t], new}
    BY <1>1 DEF CheckInactive, IInv, TypeOK
  <2>. HIDE DEF new
  <2>4. \A k \in 1..Len(new) : new[k].short \in Anchors
    <3>. SUFFICES ASSUME NEW k \in 1..Len(new) PROVE new[k].short \in Anchors
      OBVIOUS
    <3>1. CASE k < scan[t]
      BY <2>1, <2>2, <3>1
    <3>2. CASE k >= scan[t]
      BY <2>1, <2>2, <3>2
    <3>. QED BY <1>2, <2>2, <3>1, <3>2
  <2>. QED BY <2>1, <2>3, <2>4
<1>6. \A a \in Anchors : dev'[a] = dev[a]
  BY <1>1, <1>2, TagFacts DEF Beside
<1>7. Kinds'
  BY <1>1, <1>5, <1>6 DEF Kinds, RoundInv
<1>. QED BY <1>4, <1>7

\* What a handler has before it is the frame the node has heard.
LEMMA HandledHeard ==
  ASSUME RoundInv, NEW n \in Node, At(n, "handle")
  PROVE  /\ IInv /\ Heard(n) /\ data[n] = rx[n] /\ ~Own(n) /\ ~sentAck[n]
         /\ Formed(data[n]) /\ data[n] \in Frame /\ data[n].id.src \in Node
         /\ Type(data[n]) \in Greetings => Greeting
         /\ Type(data[n]) \notin Greetings => Polling /\ OfRound(data[n])
<1>1. IInv /\ Heard(n) /\ data[n] = rx[n] /\ ~Own(n) /\ ~sentAck[n] /\ Formed(data[n])
  BY DEF RoundInv, Modes, FormedAt, At, Heard, Own
<1>2. data[n] \in Frame /\ data[n].id.src \in Node
  BY <1>1, HandledFrame
<1>3. Type(data[n]) \notin Greetings => Polling /\ OfRound(data[n])
  BY <1>1, WhichTalk DEF Polling, Rests
<1>. QED BY <1>1, <1>2, <1>3, WhichTalk

\* A RANGING_INIT enters an anchor.
LEMMA TagRangingInitTalk ==
  ASSUME OneTag, RoundInv, NEW t \in Tags, TagRangingInit(t)
  PROVE  Kinds' /\ (Greeting \/ Polling)'
<1>1. t = theTag /\ t \in Node /\ IInv /\ Greeting /\ data[t].id.src \in Anchors
  <2>1. t = theTag /\ t \in Node
    BY TagFacts
  <2>2. IInv /\ Greeting /\ Formed(data[t]) /\ data[t].id.src \in Node
    BY <2>1, HandledHeard DEF TagRangingInit, Handling, Greetings
  <2>3. data[t].id.src # theTag
    BY <2>2 DEF TagRangingInit, Handling, Formed
  <2>. QED BY <2>1, <2>2, <2>3, TagFacts
<1>2. Beside(t) /\ Settles(t)
  BY <1>1, HandleBeside, TagSettles DEF TagHandle
<1>3. Greeting'
  <2>1. /\ \A m \in Node : Own(m)' => Own(m) /\ data'[m] = data[m]
        /\ \A m \in Node : Heard(m)' => Heard(m) /\ rx'[m] = rx[m]
    BY <1>2 DEF Beside, Settles, Own, Heard
  <2>. QED BY <1>1, <2>1, StillGreeting
<1>4. \A i \in 1..Len(dev'[t]) : dev'[t][i].short \in Anchors
  <2>1. PICK age \in Age : dev'[t] \in {dev[t], Appended(dev[t], NewDevice(data[t].id.src, age))}
    BY <1>1 DEF TagRangingInit, IInv, TypeOK
  <2> DEFINE d == WithIndex(NewDevice(data[t].id.src, age), Len(dev[t]))
  <2>2. d.short \in Anchors
    BY <1>1 DEF NewDevice, WithIndex
  <2>. HIDE DEF d
  <2>3. dev'[t] \in {dev[t], Append(dev[t], d)}
    BY <2>1 DEF d, Appended
  <2>4. \A i \in 1..Len(dev[t]) : dev[t][i].short \in Anchors
    BY <1>1 DEF RoundInv, Kinds
  <2>. QED BY <1>1, <2>2, <2>3, <2>4, AtNode
<1>5. \A a \in Anchors : dev'[a] = dev[a]
  BY <1>1, <1>2, TagFacts DEF Beside
<1>6. Kinds'
  BY <1>1, <1>4, <1>5 DEF Kinds, RoundInv
<1>. QED BY <1>3, <1>6
------------------------------------------------------------------------------
\* A BLINK is answered by a RANGING_INIT and enters the tag.
LEMMA AnchorBlinkTalk ==
  ASSUME OneTag, RoundInv, NEW a \in Anchors, AnchorBlink(a)
  PROVE  (Modes(a) /\ FormedAt(a))' /\ Kinds' /\ (Greeting \/ Polling)'
<1> DEFINE t == data[a].id.src
           f == Mk("RANGING_INIT", a, t, data[a].id.round, 0, <<>>, None)
           d == WithIndex(NewDevice(t, 0), Len(dev[a]))
<1>1. /\ a \in Node /\ IInv /\ Greeting /\ t = theTag /\ Modes(a) /\ a # theTag
      /\ At(a, "handle")
  <2>1. a \in Node /\ a # theTag
    BY TagFacts
  <2>2. IInv /\ Greeting /\ Formed(data[a]) /\ Modes(a) /\ At(a, "handle")
    BY <2>1, HandledHeard DEF AnchorBlink, Handling, Greetings, RoundInv
  <2>3. t = theTag
    BY <2>2 DEF AnchorBlink, Handling, Formed
  <2>. QED BY <2>1, <2>2, <2>3
<1>2. Sends(a, f) /\ Beside(a)
  BY <1>1, HandleBeside DEF AnchorHandle, AnchorBlink, Sends, Goto, flagVars
<1>3. f.id.src = a /\ Formed(f) /\ Type(f) \in Greetings
  <2>1. f.id.src = a /\ Type(f) = "RANGING_INIT"
    BY DEF Mk, Type
  <2>. HIDE DEF f
  <2>. QED BY <1>1, <2>1 DEF Formed, Greetings
<1>4. d.short = theTag
  BY <1>1 DEF NewDevice, WithIndex
<1>5. dev'[a] \in {dev[a], Append(dev[a], d)}
  BY <1>1 DEF AnchorBlink, Appended, IInv, TypeOK
<1>. HIDE DEF f, d
<1>6. (Modes(a) /\ FormedAt(a))' /\ data'[a] = f /\ ~Heard(a)'
  BY <1>1, <1>2, <1>3, SendsKeeps
<1>7. Greeting'
  <2>1. /\ \A m \in Node : Own(m)' => \/ Own(m) /\ data'[m] = data[m]
                                      \/ Type(data'[m]) \in Greetings
        /\ \A m \in Node : Heard(m)' => Heard(m) /\ rx'[m] = rx[m]
    BY <1>2, <1>3, <1>6 DEF Beside, Own, Heard
  <2>. QED BY <1>1, <2>1, StillGreeting
<1>8. \A i \in 1..Len(dev'[a]) : dev'[a][i].short = theTag
  <2>1. \A i \in 1..Len(dev[a]) : dev[a][i].short = theTag
    BY DEF RoundInv, Kinds
  <2>. QED BY <1>1, <1>4, <1>5, <2>1, AtNode
<1>9. \A m \in Node \ {a} : dev'[m] = dev[m]
  BY <1>2 DEF Beside
<1>10. Kinds'
  BY <1>1, <1>8, <1>9, TagFacts DEF Kinds, RoundInv
<1>. QED BY <1>6, <1>7, <1>10

\* The tag a listed anchor answers is the one device it knows.
LEMMA AnchorDevice ==
  ASSUME OneTag, RoundInv, NEW a \in Anchors, At(a, "handle"), Distant(a) # 0
  PROVE  /\ a \in Node /\ a # theTag
         /\ Source(data[a]) = theTag /\ Distant(a) = 1 /\ Len(dev[a]) = 1
         /\ dev[a][1].short = theTag /\ dev[a][1] \in Device
<1>1. a \in Node /\ a # theTag /\ IInv
  BY TagFacts DEF RoundInv
<1>2. dev[a] \in Seq(Device) /\ Len(dev[a]) \in Nat
  BY <1>1, AtNode
<1>3. Distant(a) \in 1..Len(dev[a]) /\ dev[a][Distant(a)] \in Device
  BY <1>1, DistantPlace
<1>4. dev[a][Distant(a)].short = Source(data[a])
  BY <1>2, SearchResult DEF Distant
<1>5. Len(dev[a]) = 1 /\ Distant(a) = 1
  <2>1. 1 \in 1..Len(dev[a]) /\ Len(dev[a]) \in 1..Len(dev[a])
    BY <1>2, <1>3
  <2>2. 1 = Len(dev[a])
    BY <2>1, OneDevice
  <2>. QED BY <1>3, <2>2
<1>6. dev[a][Distant(a)].short = theTag
  BY <1>3, OneDevice
<1>. QED BY <1>1, <1>3, <1>4, <1>5, <1>6

\* An anchor that sends a frame of polling.
LEMMA AnchorSends ==
  ASSUME OneTag, RoundInv, NEW a \in Anchors, NEW f, Sends(a, f), Beside(a),
         UNCHANGED round, lastSent'[a] = theTag,
         Type(f) \in {"POLL_ACK", "RANGE_REPORT", "RANGE_FAILED"},
         Polling, f.id.src = a, OfRound(f),
         Len(dev'[a]) = Len(dev[a]),
         \A i \in 1..Len(dev[a]) : /\ dev'[a][i].short = theTag
                                   /\ dev'[a][i].timePollAckSent = dev[a][i].timePollAckSent,
         PollTimed(a) => PollTimed(a)',
         Type(f) = "POLL_ACK" => PollTimed(a)'
  PROVE  (Modes(a) /\ FormedAt(a))' /\ Kinds' /\ (Greeting \/ Polling)'
<1>1. a \in Node /\ a # theTag /\ IInv /\ Modes(a) /\ ~sentAck[a]
  BY TagFacts, HandledHeard DEF RoundInv, Sends
<1>2. Formed(f)
  BY <1>1 DEF Formed
<1>3. (Modes(a) /\ FormedAt(a))' /\ data'[a] = f /\ ~Heard(a)'
  BY <1>1, <1>2, SendsKeeps
<1>4. \A m \in Node \ {a} : UNCHANGED <<dev[m], data[m], tx[m], sentAck[m], lastSent[m]>>
  BY DEF Beside
<1>5. Poll' = Poll /\ (\A b : Ack(b)' = Ack(b)) /\ OfRound(f)'
  BY SameRoundFacts
<1>6. Kinds'
  BY <1>1, <1>4, TagFacts DEF Kinds, RoundInv
<1>7. Begun(a)'
  BY <1>3, <1>5 DEF Begun, Type
<1>8. /\ \A m \in Node : Own(m)' => \/ Own(m) /\ UNCHANGED <<data[m], lastSent[m]>>
                                    \/ Begun(m)'
      /\ \A m \in Node : Heard(m)' => Heard(m) /\ rx'[m] = rx[m]
  <2>1. ASSUME NEW m \in Node \ {a}
        PROVE  /\ Own(m)' => Own(m) /\ UNCHANGED <<data[m], lastSent[m]>>
               /\ Heard(m)' => Heard(m) /\ rx'[m] = rx[m]
    BY DEF Beside, Own, Heard
  <2>. QED BY <1>3, <1>7, <2>1
<1>9. \A b \in Anchors : /\ PollTimed(b) => PollTimed(b)'
                         /\ AckTimed(b) => AckTimed(b)'
  BY <1>4, <1>5, TagFacts DEF PollTimed, AckTimed
<1>10. \A b \in Anchors : Answered(b) => Answered(b)'
  <2>1. \A b \in Anchors \ {a} : Answering(b) /\ sentAck[b] => (Answering(b) /\ sentAck[b])'
    BY <1>4, TagFacts DEF Answering, Own, Type
  <2>. QED BY <1>1, <1>9, <2>1 DEF Answered
<1>11. (Timed \/ Timing)'
  <2>1. UNCHANGED <<dev[theTag], data[theTag], tx[theTag], sentAck[theTag], lastSent[theTag]>>
    BY <1>1, <1>4, TagFacts
  <2>. QED BY <1>5, <2>1 DEF Polling, Timed, Timing, Own, Type
<1>12. Polling'
  BY <1>8, <1>9, <1>10, <1>11, StillPolling
<1>. QED BY <1>3, <1>6, <1>12
------------------------------------------------------------------------------
\* A POLL is answered by a POLL_ACK, its arrival stored.
LEMMA AnchorPollTalk ==
  ASSUME OneTag, RoundInv, NEW a \in Anchors, AnchorPoll(a)
  PROVE  (Modes(a) /\ FormedAt(a))' /\ Kinds' /\ (Greeting \/ Polling)'
<1> DEFINE delay == 2 * PlaceOf(data[a].list, a) - 1
           f == Mk("POLL_ACK", a, Source(data[a]), data[a].id.round, delay, <<>>, None)
           d == [Noted(dev[a][1]) EXCEPT !.timePollReceived = rx[a].id]
<1>1. At(a, "handle") /\ Type(data[a]) = "POLL" /\ Distant(a) # 0
  BY DEF AnchorPoll, Handling
<1>2. /\ a \in Node /\ a # theTag /\ Source(data[a]) = theTag /\ Distant(a) = 1
      /\ Len(dev[a]) = 1 /\ dev[a][1].short = theTag /\ dev[a][1] \in Device
  BY <1>1, AnchorDevice
<1>3. IInv /\ Polling /\ data[a] = rx[a] /\ data[a].id = Poll
  BY <1>1, <1>2, HandledHeard DEF Greetings, OfRound
<1>4. Sends(a, f) /\ Beside(a) /\ UNCHANGED round
  BY <1>2, <1>3, HandleBeside DEF AnchorHandle, AnchorPoll, Sends, Handling, Goto, flagVars
<1>5. dev'[a] = [dev[a] EXCEPT ![1] = d] /\ lastSent'[a] = theTag
  BY <1>2, <1>3 DEF AnchorPoll, IInv, TypeOK
<1>6. /\ d.short = theTag /\ d.timePollReceived = Poll
      /\ d.timePollAckSent = dev[a][1].timePollAckSent
  BY <1>2, <1>3 DEF Noted, Device
<1>7. f.id = Ack(a) /\ Type(f) = "POLL_ACK"
  BY <1>2, <1>3 DEF Mk, Ack, Poll, Type
<1>. HIDE DEF f, d
<1>8. Len(dev'[a]) = 1 /\ dev'[a][1] = d
  BY <1>2, <1>5
<1>9. PollTimed(a)'
  <2>1. Poll' = Poll
    BY <1>4, SameRoundFacts
  <2>. QED BY <1>6, <1>8, <2>1 DEF PollTimed
<1>10. OfRound(f) /\ f.id.src = a
  BY <1>7 DEF OfRound, Ack, Greetings
<1>11. \A i \in 1..Len(dev[a]) : /\ dev'[a][i].short = theTag
                                 /\ dev'[a][i].timePollAckSent = dev[a][i].timePollAckSent
  BY <1>2, <1>6, <1>8
<1>. QED BY <1>2, <1>3, <1>4, <1>5, <1>7, <1>8, <1>9, <1>10, <1>11, AnchorSends

\* A RANGE is answered by a RANGE_REPORT or a RANGE_FAILED.
LEMMA AnchorRangeTalk ==
  ASSUME OneTag, RoundInv, NEW a \in Anchors, AnchorRange(a) \/ AnchorRangeFailed(a)
  PROVE  (Modes(a) /\ FormedAt(a))' /\ Kinds' /\ (Greeting \/ Polling)'
<1>1. At(a, "handle") /\ Type(data[a]) = "RANGE" /\ Distant(a) # 0
  BY DEF AnchorRange, AnchorRangeFailed, Handling
<1>2. /\ a \in Node /\ a # theTag /\ Source(data[a]) = theTag /\ Distant(a) = 1
      /\ Len(dev[a]) = 1 /\ dev[a][1].short = theTag /\ dev[a][1] \in Device
  BY <1>1, AnchorDevice
<1>3. IInv /\ Polling
  BY <1>1, <1>2, HandledHeard DEF Greetings
<1>4. Beside(a) /\ UNCHANGED round
  BY <1>2, <1>3, HandleBeside DEF AnchorHandle
<1>5. PICK f : /\ Sends(a, f) /\ f.id.src = a
               /\ Type(f) \in {"RANGE_REPORT", "RANGE_FAILED"}
  <2>1. CASE AnchorRange(a)
    BY <2>1 DEF AnchorRange, Sends, Handling, Goto, flagVars, Mk, Type
  <2>2. CASE AnchorRangeFailed(a)
    BY <2>2 DEF AnchorRangeFailed, Sends, Handling, Goto, flagVars, Mk, Type
  <2>. QED BY <2>1, <2>2
<1>6. PICK d : /\ dev'[a] = [dev[a] EXCEPT ![1] = d] /\ d.short = theTag
               /\ d.timePollReceived = dev[a][1].timePollReceived
               /\ d.timePollAckSent = dev[a][1].timePollAckSent
  <2>1. CASE AnchorRange(a)
    <3> DEFINE e == data[a].list[PlaceOf(data[a].list, a)]
               g == [dev[a][1] EXCEPT !.timeRangeReceived = rx[a].id,
                       !.timePollSent = e.timePollSent,
                       !.timePollAckReceived = e.timePollAckReceived,
                       !.timeRangeSent = e.timeRangeSent]
               d == [g EXCEPT !.range = computeRangeAsymmetric(Source(data[a]), g)]
    <3>1. dev' = [dev EXCEPT ![a][1] = d]
      BY <1>2, <2>1 DEF AnchorRange
    <3>2. /\ d.short = theTag /\ d.timePollReceived = dev[a][1].timePollReceived
          /\ d.timePollAckSent = dev[a][1].timePollAckSent
      BY <1>2 DEF Device
    <3>. HIDE DEF d
    <3>3. dev'[a] = [dev[a] EXCEPT ![1] = d]
      BY <1>2, <1>3, <3>1 DEF IInv, TypeOK
    <3>. QED BY <3>2, <3>3
  <2>2. CASE AnchorRangeFailed(a)
    <3>1. dev'[a] = [dev[a] EXCEPT ![1] = [dev[a][1] EXCEPT !.timeRangeReceived = rx[a].id]]
      BY <1>2, <1>3, <2>2 DEF AnchorRangeFailed, IInv, TypeOK
    <3>. QED BY <1>2, <3>1 DEF Device
  <2>. QED BY <2>1, <2>2
<1>7. lastSent'[a] = theTag
  BY <1>2, <1>3 DEF AnchorRange, AnchorRangeFailed, IInv, TypeOK
<1>8. Len(dev'[a]) = 1 /\ dev'[a][1] = d
  BY <1>2, <1>6
<1>9. PollTimed(a) => PollTimed(a)'
  <2>1. Poll' = Poll
    BY <1>4, SameRoundFacts
  <2>. QED BY <1>2, <1>6, <1>8, <2>1 DEF PollTimed
<1>10. OfRound(f)
  BY <1>5 DEF OfRound, Greetings
<1>11. \A i \in 1..Len(dev[a]) : /\ dev'[a][i].short = theTag
                                 /\ dev'[a][i].timePollAckSent = dev[a][i].timePollAckSent
  BY <1>2, <1>6, <1>8
<1>. QED BY <1>2, <1>3, <1>4, <1>5, <1>7, <1>8, <1>9, <1>10, <1>11, AnchorSends
------------------------------------------------------------------------------
\* What the tag has of the round when the POLL_ACK of its last device is there,
\* and the RANGE it sends.
LEMMA LastAck ==
  ASSUME OneTag, RoundInv, NEW t \in Tags, TagLastPollAck(t)
  PROVE  /\ t = theTag /\ Answered(data[t].id.src) /\ SameTimes(t)
         /\ OfRound(Mk("RANGE", t, t, round[t], 1, RangeList(WithRangeSent(t)), None))
         /\ LastOf(RangeList(WithRangeSent(t))).short = data[t].id.src
         /\ LET list == RangeList(WithRangeSent(t))
            IN  /\ Len(list) = Len(dev[t])
                /\ \A k \in 1..Len(dev[t]) :
                     /\ list[k].short = dev[t][k].short
                     /\ list[k].timePollSent = Poll
                     /\ list[k].timePollAckReceived =
                          IF k = Len(dev[t]) THEN rx[t].id ELSE dev[t][k].timePollAckReceived
                     /\ list[k].timeRangeSent = RangeStamp(t)
<1> DEFINE i == Distant(t)
           a == data[t].id.src
           d == [Noted(dev[t][i]) EXCEPT !.timePollAckReceived = rx[t].id]
           W == WithRangeSent(t)
<1>1. t = theTag /\ t \in Node /\ At(t, "handle") /\ Type(data[t]) = "POLL_ACK" /\ i # 0
  BY TagFacts DEF TagLastPollAck, Handling
<1>2. /\ IInv /\ Polling /\ data[t] = rx[t] /\ Heard(t) /\ ~Own(t) /\ a \in Node
      /\ data[t].id = Ack(a) /\ Formed(data[t])
  BY <1>1, HandledHeard DEF Greetings, OfRound
<1>3. a \in Anchors /\ Source(data[t]) = a
  BY <1>1, <1>2, TagFacts DEF Formed, Source
<1>4. Answered(a) /\ Timed
  BY <1>1, <1>2 DEF Polling, Timing
<1>5. /\ dev[t] \in Seq(Device) /\ Len(dev[t]) \in Nat /\ i \in 1..Len(dev[t])
      /\ \A k \in 1..Len(dev[t]) : dev[t][k] \in Device
  BY <1>1, <1>2, AtNode, DistantPlace
<1>6. dev[t][i].short = a
  BY <1>1, <1>3, <1>5, SearchResult DEF Distant
<1>7. i = Len(dev[t])
  BY <1>1, <1>2, <1>5 DEF TagLastPollAck, LastDevice, IInv, TablesConsistent, IndexIsPlace
<1>. HIDE DEF i, a
<1>8. /\ d.short = dev[t][i].short /\ d.timePollSent = dev[t][i].timePollSent
      /\ d.timePollReceived = dev[t][i].timePollReceived
      /\ d.timePollAckSent = dev[t][i].timePollAckSent
      /\ d.timePollAckReceived = Ack(a)
  BY <1>1, <1>2, <1>5 DEF Noted, Device
<1>9. WithAck(t) = [dev[t] EXCEPT ![i] = d]
  BY DEF WithAck, i
<1>10. \A k \in 1..Len(dev[t]) : WithAck(t)[k] = IF k = i THEN d ELSE dev[t][k]
  <2>. HIDE DEF d
  <2>. QED BY <1>5, <1>9
<1>11. \A k \in 1..Len(dev[t]) : WithAck(t)[k] \in Device
  <2>1. WithAck(t) \in Seq(PairedDevice) /\ DOMAIN WithAck(t) = DOMAIN dev[t]
    BY <1>1, <1>2, <1>9, AckTables DEF TagLastPollAck
  <2>2. DOMAIN WithAck(t) = 1..Len(dev[t]) /\ \A k \in DOMAIN WithAck(t) : WithAck(t)[k] \in PairedDevice
    BY <1>5, <2>1, ElementOfSeq, LenProperties
  <2>. QED BY <2>2 DEF PairedDevice
<1>12. /\ Len(W) = Len(dev[t])
       /\ \A k \in 1..Len(dev[t]) :
            W[k] = [WithAck(t)[k] EXCEPT !.timeRangeSent = RangeStamp(t)]
  <2>1. \A k \in 1..Len(dev[t]) :
          W[k] = [WithAck(t)[k] EXCEPT !.timeRangeSent = RangeStamp(t)]
    BY DEF WithRangeSent
  <2>2. W \in Seq(PairedDevice) /\ W \in [1..Len(dev[t]) -> PairedDevice]
    <3>1. W \in Seq(PairedDevice)
      BY <1>1, <1>2, AckTables DEF TagLastPollAck
    <3>2. DOMAIN W = 1..Len(dev[t]) /\ W = [k \in DOMAIN W |-> W[k]]
      BY DEF WithRangeSent
    <3>. HIDE DEF W
    <3>. QED BY <3>1, <3>2, ElementOfSeq, LenProperties
  <2>. HIDE DEF W
  <2>. QED BY <1>5, <2>1, <2>2, LenProperties
<1>. HIDE DEF W, d
<1>13. \A k \in 1..Len(dev[t]) :
         /\ W[k].short = dev[t][k].short /\ W[k].timePollSent = dev[t][k].timePollSent
         /\ W[k].timePollReceived = dev[t][k].timePollReceived
         /\ W[k].timePollAckSent = dev[t][k].timePollAckSent
         /\ W[k].timePollAckReceived = WithAck(t)[k].timePollAckReceived
         /\ W[k].timeRangeSent = RangeStamp(t)
  <2>. SUFFICES ASSUME NEW k \in 1..Len(dev[t])
                PROVE  /\ W[k].short = dev[t][k].short
                       /\ W[k].timePollSent = dev[t][k].timePollSent
                       /\ W[k].timePollReceived = dev[t][k].timePollReceived
                       /\ W[k].timePollAckSent = dev[t][k].timePollAckSent
                       /\ W[k].timePollAckReceived = WithAck(t)[k].timePollAckReceived
                       /\ W[k].timeRangeSent = RangeStamp(t)
    OBVIOUS
  <2> DEFINE e == WithAck(t)[k]
  <2>1. e \in Device /\ W[k] = [e EXCEPT !.timeRangeSent = RangeStamp(t)]
    BY <1>11, <1>12
  <2>2. e = IF k = i THEN d ELSE dev[t][k]
    BY <1>10
  <2>. HIDE DEF e
  <2>3. /\ W[k].short = e.short /\ W[k].timePollSent = e.timePollSent
        /\ W[k].timePollReceived = e.timePollReceived
        /\ W[k].timePollAckSent = e.timePollAckSent
        /\ W[k].timePollAckReceived = e.timePollAckReceived
        /\ W[k].timeRangeSent = RangeStamp(t)
    BY <2>1 DEF Device
  <2>4. /\ e.short = dev[t][k].short /\ e.timePollSent = dev[t][k].timePollSent
        /\ e.timePollReceived = dev[t][k].timePollReceived
        /\ e.timePollAckSent = dev[t][k].timePollAckSent
    BY <1>8, <2>2
  <2>. QED BY <2>3, <2>4 DEF e
<1>14. SameTimes(t)
  <2>1. dev'[t] = W
    BY <1>1, <1>2 DEF TagLastPollAck, W, IInv, TypeOK
  <2>. QED BY <1>12, <1>13, <2>1 DEF SameTimes
<1> DEFINE L == RangeList(W)
<1>15. /\ Len(L) = Len(dev[t])
       /\ \A k \in 1..Len(dev[t]) :
            /\ L[k].short = W[k].short /\ L[k].timePollSent = W[k].timePollSent
            /\ L[k].timePollAckReceived = W[k].timePollAckReceived
            /\ L[k].timeRangeSent = W[k].timeRangeSent
  <2>1. L \in Seq(Entry)
    <3>1. W \in Seq(PairedDevice)
      BY <1>1, <1>2, AckTables DEF TagLastPollAck, W
    <3>2. W \in Seq(Device)
      BY <3>1 DEF PairedDevice
    <3>. QED BY <3>2, ListTypes
  <2>2. DOMAIN L = 1..Len(dev[t])
    BY <1>12 DEF RangeList
  <2>3. \A k \in 1..Len(dev[t]) :
          /\ L[k].short = W[k].short /\ L[k].timePollSent = W[k].timePollSent
          /\ L[k].timePollAckReceived = W[k].timePollAckReceived
          /\ L[k].timeRangeSent = W[k].timeRangeSent
    BY <1>12 DEF RangeList
  <2>. HIDE DEF L
  <2>4. Len(L) = Len(dev[t])
    BY <1>5, <2>1, <2>2, LenProperties
  <2>. QED BY <2>3, <2>4
<1>. HIDE DEF L
<1>16. /\ LastOf(L).short = a /\ LastOf(L).timePollSent = Poll
       /\ LastOf(L).timePollAckReceived = Ack(a)
       /\ LastOf(L).timeRangeSent = RangeStamp(t)
  BY <1>1, <1>4, <1>5, <1>6, <1>7, <1>8, <1>10, <1>13, <1>15 DEF LastOf, Timed
<1>17. ShortAddressesDistinct(L) /\ L # <<>>
  <2>1. ShortAddressesDistinct(dev[t])
    BY <1>1, <1>2 DEF IInv, TablesConsistent
  <2>2. \A k \in 1..Len(dev[t]) : L[k].short = dev[t][k].short
    BY <1>13, <1>15
  <2>3. Len(L) = Len(dev[t])
    BY <1>15
  <2>. QED BY <1>5, <2>1, <2>2, <2>3 DEF ShortAddressesDistinct
<1>18. OfRound(Mk("RANGE", t, t, round[t], 1, L, None))
  <2> DEFINE f == Mk("RANGE", t, t, round[t], 1, L, None)
  <2>1. f.id = RangeStamp(t) /\ Type(f) = "RANGE" /\ f.list = L
    BY DEF Mk, Type, RangeStamp
  <2>. HIDE DEF f
  <2>2. RangeOfRound(f)
    BY <1>1, <1>3, <1>16, <1>17, <2>1 DEF RangeOfRound
  <2>3. OfRound(f)
    BY <2>1, <2>2 DEF OfRound, Greetings
  <2>. QED BY <2>3 DEF f
<1>19. \A k \in 1..Len(dev[t]) :
         /\ L[k].short = dev[t][k].short /\ L[k].timePollSent = Poll
         /\ L[k].timePollAckReceived =
              IF k = Len(dev[t]) THEN rx[t].id ELSE dev[t][k].timePollAckReceived
         /\ L[k].timeRangeSent = RangeStamp(t)
  <2>1. \A k \in 1..Len(dev[t]) : W[k].timePollSent = Poll
    BY <1>1, <1>4, <1>13 DEF Timed
  <2>2. d.timePollAckReceived = rx[t].id
    BY <1>2, <1>8
  <2>3. \A k \in 1..Len(dev[t]) :
          WithAck(t)[k].timePollAckReceived =
            IF k = Len(dev[t]) THEN rx[t].id ELSE dev[t][k].timePollAckReceived
    BY <1>7, <1>10, <2>2
  <2>. QED BY <1>13, <1>15, <2>1, <2>3
<1>. QED BY <1>1, <1>4, <1>14, <1>15, <1>16, <1>18, <1>19 DEF L, W, a

\* The POLL_ACK of the last device is answered by a RANGE of this round.
LEMMA TagLastPollAckTalk ==
  ASSUME OneTag, RoundInv, NEW t \in Tags, TagLastPollAck(t)
  PROVE  (Modes(t) /\ FormedAt(t))' /\ Kinds' /\ (Greeting \/ Polling)'
<1> DEFINE f == Mk("RANGE", t, t, round[t], 1, RangeList(WithRangeSent(t)), None)
<1>1. /\ t = theTag /\ t \in Node /\ At(t, "handle") /\ Type(data[t]) = "POLL_ACK"
      /\ t \notin Anchors
  BY TagFacts DEF TagLastPollAck, Handling
<1>2. IInv /\ Polling /\ ~Own(t) /\ ~sentAck[t] /\ Modes(t) /\ data[t].id.src \in Anchors
  <2>1. IInv /\ Polling /\ ~Own(t) /\ ~sentAck[t] /\ Formed(data[t]) /\ data[t].id.src \in Node
    BY <1>1, HandledHeard DEF Greetings
  <2>2. data[t].id.src # theTag
    BY <1>1, <2>1 DEF Formed
  <2>. QED BY <1>1, <2>1, <2>2, TagFacts DEF RoundInv
<1>3. Sends(t, f) /\ Beside(t) /\ UNCHANGED round /\ SameTimes(t)
  <2>1. Sends(t, f)
    BY <1>1 DEF TagLastPollAck, Sends, Goto, flagVars
  <2>. QED BY <1>1, <1>2, <2>1, HandleBeside, LastAck DEF TagHandle
<1>4. f.id.src = t /\ Type(f) = "RANGE" /\ f.list = RangeList(WithRangeSent(t))
  BY DEF Mk, Type
<1>5. OfRound(f) /\ Answered(data[t].id.src) /\ LastOf(f.list).short = data[t].id.src
  BY <1>4, LastAck
<1>. HIDE DEF f
<1>6. (Modes(t) /\ FormedAt(t))' /\ data'[t] = f /\ ~Heard(t)'
  BY <1>1, <1>2, <1>3, <1>4, SendsKeeps DEF Formed
<1>7. Kinds' /\ \A a \in Anchors : /\ PollTimed(a) => PollTimed(a)'
                                   /\ AckTimed(a) => AckTimed(a)'
  BY <1>1, <1>3, TimesKept DEF RoundInv
<1>8. Timed'
  BY <1>1, <1>2, <1>3, TimesKept DEF Polling, Timing
<1>9. \A a \in Anchors : Answered(a) => Answered(a)'
  <2>1. \A a \in Anchors : UNCHANGED <<data[a], tx[a], sentAck[a]>>
    BY <1>1, <1>3, TagFacts DEF Beside
  <2>. QED BY <1>7, <2>1 DEF Answered, Answering, Own, Type
<1>10. Begun(t)'
  <2>1. OfRound(data[t])'
    BY <1>3, <1>5, <1>6, SameRoundFacts
  <2>2. Answered(LastOf(data[t].list).short)'
    <3>1. LastOf(data'[t].list).short = data[t].id.src
      BY <1>5, <1>6
    <3>. QED BY <1>2, <1>5, <1>9, <3>1
  <2>. QED BY <1>4, <1>6, <2>1, <2>2 DEF Begun, Type
<1>11. /\ \A m \in Node : Own(m)' => \/ Own(m) /\ UNCHANGED <<data[m], lastSent[m]>>
                                     \/ Begun(m)'
       /\ \A m \in Node : Heard(m)' => Heard(m) /\ rx'[m] = rx[m]
  <2>1. ASSUME NEW m \in Node \ {t}
        PROVE  /\ Own(m)' => Own(m) /\ UNCHANGED <<data[m], lastSent[m]>>
               /\ Heard(m)' => Heard(m) /\ rx'[m] = rx[m]
    BY <1>3 DEF Beside, Own, Heard
  <2>. QED BY <1>6, <1>10, <2>1
<1>12. Polling'
  BY <1>2, <1>3, <1>7, <1>8, <1>9, <1>11, StillPolling
<1>. QED BY <1>6, <1>7, <1>12
------------------------------------------------------------------------------
\* The steps of the air, the timer and the reset, taken when all nodes wait.

\* Nothing is under way when the air is quiet.
LEMMA QuietAir ==
  ASSUME Quiet, NEW n \in Node
  PROVE  ~Own(n) /\ ~Heard(n) /\ ~sentAck[n] /\ ~receivedAck[n] /\ pc[n] = "top"
BY DEF Quiet, AllIdle, Idle, Own, Heard

\* A step of a quiet node m other than n.
LEMMA BesideQuiet ==
  ASSUME Quiet, NEW n \in Node, Beside(n)
  PROVE  \A m \in Node \ {n} : ~Own(m)' /\ ~Heard(m)'
BY QuietAir DEF Beside, Own, Heard

LEMMA TickBeside ==
  ASSUME IInv, NEW n \in Node, (n \in Tags /\ Tick(n)) \/ ResetInactive(n)
  PROVE  Beside(n)
<1> USE DEF loopVars, chipVars, flagVars, worldVars, timerVars, Goto, Beside, IInv, TypeOK,
            transmit
<1>1. CASE TickPoll(n)
  BY <1>1 DEF TickPoll
<1>2. CASE TickBlink(n)
  BY <1>2 DEF TickBlink
<1>3. CASE TickIdle(n)
  BY <1>3 DEF TickIdle
<1>4. CASE ResetInactive(n)
  BY <1>4 DEF ResetInactive
<1>. QED BY <1>1, <1>2, <1>3, <1>4 DEF Tick

\* Ageing leaves addresses and timestamps alone.
LEMMA AgedTimes ==
  ASSUME IInv, NEW t \in Tags, dev' = [dev EXCEPT ![t] = Aged(dev[t])]
  PROVE  SameTimes(t)
<1>1. t \in Node /\ dev[t] \in Seq(Device) /\ Len(dev[t]) \in Nat
      /\ Consistent(dev[t]) /\ dev[t] \in Seq(PairedDevice)
      /\ \A k \in 1..Len(dev[t]) : dev[t][k] \in Device
  BY AtNode DEF Node
<1>2. dev'[t] = Aged(dev[t])
  BY <1>1 DEF IInv, TypeOK
<1>3. Aged(dev[t]) \in Seq(PairedDevice) /\ DOMAIN Aged(dev[t]) = 1..Len(dev[t])
  BY <1>1, AgedTable DEF Aged
<1>4. Len(Aged(dev[t])) = Len(dev[t])
  BY <1>1, <1>3, LenProperties
<1>5. \A k \in 1..Len(dev[t]) : Aged(dev[t])[k] = Older(dev[t][k])
  BY DEF Aged
<1>6. \A d \in Device : /\ Older(d).short = d.short
                        /\ Older(d).timePollSent = d.timePollSent
                        /\ Older(d).timePollReceived = d.timePollReceived
                        /\ Older(d).timePollAckSent = d.timePollAckSent
  BY DEF Older, Device
<1>. QED BY <1>1, <1>2, <1>4, <1>5, <1>6 DEF SameTimes

\* A tick in a quiet moment begins a round of polling or a greeting.
LEMMA TickTalk ==
  ASSUME OneTag, RoundInv, NEW t \in Tags, TimelyTick(t)
  PROVE  (\A n \in Node : Modes(n) /\ FormedAt(n))' /\ Kinds' /\ (Greeting \/ Polling)'
<1>1. t = theTag /\ t \in Node /\ IInv /\ Quiet /\ Tick(t)
  BY TagFacts DEF RoundInv, TimelyTick
<1>2. Beside(t)
  BY <1>1, TickBeside
<1>3. \A m \in Node \ {t} : ~Own(m)' /\ ~Heard(m)'
  BY <1>1, <1>2, BesideQuiet
<1>4. \A m \in Node \ {t} : Modes(m)' /\ FormedAt(m)'
  BY <1>1, <1>2, BesideKeeps DEF RoundInv
<1>5. ~sentAck[t] /\ ~receivedAck[t] /\ pc[t] = "top" /\ ~Own(t)
  BY <1>1, QuietAir
<1>6. Kinds'
  <2>1. SameTimes(t) \/ UNCHANGED dev
    BY <1>1, AgedTimes DEF Tick, TickPoll, TickBlink, TickIdle, loopVars
  <2>2. \A m \in Node : /\ Len(dev'[m]) = Len(dev[m])
                        /\ \A i \in 1..Len(dev[m]) : dev'[m][i].short = dev[m][i].short
    BY <1>2, <2>1 DEF SameTimes, Beside
  <2>. QED BY <2>2, TagFacts DEF Kinds, RoundInv
<1>7. CASE TickPoll(t)
  <2> DEFINE f == Mk("POLL", t, t, NextRound(t), 0, PollList(dev[t]), None)
  <2>1. /\ data'[t] = f /\ tx'[t] = f /\ pc'[t] = "sent" /\ lastSent'[t] = Broadcast
        /\ ~sentAck'[t] /\ ~receivedAck'[t] /\ round'[t] = NextRound(t)
    BY <1>1, <1>5, <1>7 DEF TickPoll, transmit, Goto, flagVars, IInv, TypeOK
  <2>2. f # None
    <3>1. PollList(dev[t]) \in Seq(Entry) /\ NextRound(t) \in 0..MaxRound
      BY <1>1, AtNode, ListTypes, NextRoundType
    <3>2. f \in Frame
      BY <1>1, <3>1, MkFrame DEF MessageType, MaybeDistance
    <3>. QED BY <3>2, NoneAssumption
  <2>3. f.id = [type |-> "POLL", src |-> t, tag |-> t, round |-> NextRound(t)] /\ Type(f) = "POLL"
    BY DEF Mk, Type
  <2>. HIDE DEF f
  <2>4. Own(t)' /\ ~Heard(t)' /\ data'[t].id = Poll' /\ Type(data'[t]) = "POLL"
    BY <1>1, <2>1, <2>2, <2>3 DEF Own, Heard, Poll
  <2>5. Modes(t)' /\ FormedAt(t)'
    BY <1>1, <2>1, <2>3, <2>4 DEF Modes, FormedAt, Formed, Heard, Type
  <2>6. Rests(t)' /\ \A m \in Node \ {t} : Rests(m)'
    BY <1>3, <2>4 DEF Rests, OfRound, Greetings, Type
  <2>7. Timing'
    BY <1>1, <2>1, <2>4 DEF Timing, Type
  <2>8. \A a \in Anchors : ~Answering(a)'
    BY <1>1, <1>3, TagFacts DEF Answering
  <2>9. Polling'
    BY <1>1, <2>4, <2>6, <2>7, <2>8 DEF Polling
  <2>. QED BY <1>4, <1>6, <2>5, <2>9
<1>8. CASE TickBlink(t)
  <2> DEFINE f == Mk("BLINK", t, t, round[t], 0, <<>>, None)
  <2>1. /\ data'[t] = f /\ tx'[t] = f /\ pc'[t] = "inactive"
        /\ ~sentAck'[t] /\ ~receivedAck'[t]
    BY <1>1, <1>5, <1>8 DEF TickBlink, transmit, Goto, flagVars, IInv, TypeOK
  <2>2. f # None
    <3>1. <<>> \in Seq(Entry) /\ None \in MaybeDistance /\ "BLINK" \in MessageType
      BY DEF MaybeDistance, MessageType
    <3>2. f \in Frame
      BY <1>1, <3>1, MkFrame, NextRoundType
    <3>. QED BY <3>2, NoneAssumption
  <2>3. f.id.src = t /\ Type(f) = "BLINK"
    BY DEF Mk, Type
  <2>. HIDE DEF f
  <2>4. Modes(t)' /\ FormedAt(t)'
    BY <1>1, <2>1, <2>2, <2>3 DEF Modes, FormedAt, Formed, Own, Heard, Type
  <2>5. Greeting'
    BY <1>3, <2>1, <2>3 DEF Greeting, Greetings, Heard, Type
  <2>. QED BY <1>4, <1>6, <2>4, <2>5
<1>9. CASE TickIdle(t)
  <2>1. UNCHANGED <<data[t], tx[t], rx[t], lastTx[t], sentAck[t], receivedAck[t]>>
        /\ pc'[t] = "sent"
    BY <1>1, <1>9 DEF TickIdle, loopVars, chipVars, flagVars, Goto, IInv, TypeOK
  <2>2. ~Own(t)' /\ ~Heard(t)' /\ Modes(t)' /\ FormedAt(t)'
    BY <1>5, <2>1 DEF Own, Heard, Modes, FormedAt
  <2>3. Greeting'
    BY <1>3, <2>2 DEF Greeting
  <2>. QED BY <1>4, <1>6, <2>2, <2>3
<1>. QED BY <1>1, <1>7, <1>8, <1>9 DEF Tick

LEMMA ResetTalk ==
  ASSUME OneTag, RoundInv, NEW a \in Anchors, TimelyReset(a)
  PROVE  (\A n \in Node : Modes(n) /\ FormedAt(n))' /\ Kinds' /\ (Greeting \/ Polling)'
<1>1. a \in Node /\ IInv /\ Quiet /\ ResetInactive(a)
  BY DEF RoundInv, TimelyReset, Node
<1>2. Beside(a) /\ UNCHANGED dev
  BY <1>1, TickBeside DEF ResetInactive
<1>3. \A m \in Node \ {a} : ~Own(m)' /\ ~Heard(m)'
  BY <1>1, <1>2, BesideQuiet
<1>4. \A m \in Node \ {a} : Modes(m)' /\ FormedAt(m)'
  BY <1>1, <1>2, BesideKeeps DEF RoundInv
<1>5. tx'[a] = None /\ ~sentAck'[a] /\ ~receivedAck'[a] /\ pc'[a] = "sent"
  BY <1>1, QuietAir DEF ResetInactive, flagVars, Goto, IInv, TypeOK
<1>6. ~Own(a)' /\ ~Heard(a)' /\ Modes(a)' /\ FormedAt(a)'
  BY <1>5 DEF Own, Heard, Modes, FormedAt
<1>7. Greeting'
  BY <1>3, <1>6 DEF Greeting
<1>8. Kinds'
  BY <1>2 DEF Kinds, RoundInv
<1>. QED BY <1>4, <1>6, <1>7, <1>8

\* The invariant speaks of these variables only.
LEMMA SameTalk ==
  ASSUME OneTag, RoundInv,
         UNCHANGED <<pc, data, lastSent, dev, round, tx, rx, lastTx, sentAck, receivedAck>>
  PROVE  (\A m \in Node : Modes(m) /\ FormedAt(m))' /\ Kinds' /\ (Greeting \/ Polling)'
<1> USE DEF Own, Heard, Type
<1>1. (\A m \in Node : Modes(m) /\ FormedAt(m))'
  BY DEF RoundInv, Modes, FormedAt, Formed
<1>2. Kinds'
  BY DEF RoundInv, Kinds
<1>3. Greeting => Greeting'
  BY DEF Greeting
<1>4. ASSUME Polling PROVE Polling'
  <2>1. Poll' = Poll /\ \A a : Ack(a)' = Ack(a)
    BY SameRoundFacts
  <2>2. \A m \in Node : (Own(m)' <=> Own(m)) /\ (Heard(m)' <=> Heard(m))
    OBVIOUS
  <2>3. \A a \in Anchors : /\ PollTimed(a) => PollTimed(a)'
                           /\ Answered(a) => Answered(a)'
    BY <2>1 DEF PollTimed, AckTimed, Answered, Answering
  <2>4. (Timed \/ Timing)'
    BY <1>4, <2>1 DEF Polling, Timed, Timing
  <2>. HIDE DEF Own, Heard
  <2>. QED BY <1>4, <2>2, <2>3, <2>4, StillPolling
<1>. QED BY <1>1, <1>2, <1>3, <1>4 DEF RoundInv

\* A frame takes effect at its sender and at every node R it reaches.
LEMMA TxTalk ==
  ASSUME OneTag, RoundInv, NEW n \in Node, TimelyTx(n)
  PROVE  (\A m \in Node : Modes(m) /\ FormedAt(m))' /\ Kinds' /\ (Greeting \/ Polling)'
<1>1. PICK R \in SUBSET (Listening \ {n}) : TxDone(n, R)
  BY DEF TimelyTx
<1>2. /\ tx[n] # None /\ IInv /\ n \notin R /\ R \subseteq Node /\ \A m \in R : tx[m] = None
      /\ \A m \in Node : ~sentAck[m] /\ ~receivedAck[m] /\ pc[m] = "top"
  BY DEF TimelyTx, AllIdle, Idle, Listening, RoundInv
<1>3. /\ Own(n) /\ data[n] = tx[n] /\ data[n].id.src = n /\ Formed(data[n])
      /\ \A m \in Node : ~Heard(m)
  BY <1>2 DEF RoundInv, Modes, FormedAt, Own, Heard
<1>4. /\ UNCHANGED <<pc, dev, data, lastSent, round>>
      /\ \A m \in Node : /\ sentAck'[m] <=> m = n
                         /\ receivedAck'[m] <=> m \in R
                         /\ rx'[m] = IF m \in R THEN data[n] ELSE rx[m]
                         /\ tx'[m] = IF m \in R \cup {n} THEN None ELSE tx[m]
                         /\ lastTx'[m] = IF m = n THEN data[n].id ELSE lastTx[m]
  <2>1. UNCHANGED <<pc, dev, data, lastSent, round>>
    BY <1>1 DEF TxDone, loopVars, timerVars
  <2>2. \A m \in Node : sentAck'[m] <=> m = n
    BY <1>1, <1>2 DEF TxDone, IInv, TypeOK
  <2>3. \A m \in Node : receivedAck'[m] <=> m \in R
    BY <1>1, <1>2 DEF TxDone
  <2>4. \A m \in Node : /\ rx'[m] = IF m \in R THEN data[n] ELSE rx[m]
                        /\ tx'[m] = IF m \in R \cup {n} THEN None ELSE tx[m]
                        /\ lastTx'[m] = IF m = n THEN data[n].id ELSE lastTx[m]
    BY <1>1, <1>2, <1>3 DEF TxDone, IInv, TypeOK
  <2>. QED BY <2>1, <2>2, <2>3, <2>4
<1>5. \A m \in Node : /\ Own(m)' <=> Own(m)
                      /\ Heard(m)' <=> m \in R
  BY <1>2, <1>3, <1>4 DEF Own, Heard
<1>6. ASSUME NEW m \in Node PROVE Modes(m)' /\ FormedAt(m)'
  <2>1. Modes(m) /\ FormedAt(m)
    BY DEF RoundInv
  <2>2. FormedAt(m)'
    BY <1>3, <1>4, <1>5, <2>1 DEF FormedAt, Formed, Type
  <2>3. pc'[m] = "top"
    BY <1>2, <1>4
  <2>4. tx'[m] # None => tx'[m] = data'[m] /\ ~sentAck'[m] /\ ~Heard(m)'
    <3>1. CASE m \in R \cup {n}
      BY <1>4, <3>1
    <3>2. CASE m \notin R \cup {n}
      BY <1>2, <1>4, <1>5, <2>1, <3>2 DEF Modes
    <3>. QED BY <3>1, <3>2
  <2>5. sentAck'[m] => data'[m] # None /\ data'[m].id = lastTx'[m] /\ ~Heard(m)'
    BY <1>2, <1>3, <1>4, <1>5
  <2>. QED BY <2>2, <2>3, <2>4, <2>5 DEF Modes
<1>7. Kinds'
  BY <1>4 DEF Kinds, RoundInv
<1>8. CASE Greeting
  <2>1. Type(data[n]) \in Greetings
    BY <1>3, <1>8 DEF Greeting
  <2>2. /\ \A m \in Node : Own(m)' => Own(m) /\ data'[m] = data[m]
        /\ \A m \in Node : Heard(m)' => Type(rx'[m]) \in Greetings
    BY <1>4, <1>5, <2>1
  <2>3. Greeting'
    BY <1>8, <2>2, StillGreeting
  <2>. QED BY <1>6, <1>7, <2>3
<1>9. CASE Polling
  <2>1. Poll' = Poll /\ (\A b : Ack(b)' = Ack(b)) /\ \A f : OfRound(f)' <=> OfRound(f)
    BY <1>4, SameRoundFacts
  <2>2. \A a \in Anchors : /\ PollTimed(a) <=> PollTimed(a)'
                           /\ AckTimed(a) <=> AckTimed(a)'
    BY <1>4, <2>1 DEF PollTimed, AckTimed
  <2>3. \A a \in Anchors : Answering(a)' <=> Answering(a)
    BY <1>4, <1>5 DEF Answering, Type, Node
  <2>4. \A a \in Anchors : Answered(a) => Answered(a)'
    BY <1>2, <2>2 DEF Answered, Node
  <2>5. \A f : OfRound(f) /\ Type(f) = "RANGE" => LastOf(f.list).short \in Anchors
    BY DEF OfRound, RangeOfRound
  <2>6. \A m \in Node : /\ Own(m) => OfRound(data[m])
                        /\ Own(m) /\ Type(data[m]) = "RANGE" => Answered(LastOf(data[m].list).short)
    BY <1>9 DEF Polling, Rests
  <2>7. \A m \in Node : Own(m) => /\ OfRound(data[m])'
                                  /\ Type(data[m]) = "RANGE" => Answered(LastOf(data[m].list).short)'
    <3>. SUFFICES ASSUME NEW m \in Node, Own(m)
                  PROVE  /\ OfRound(data[m])'
                         /\ Type(data[m]) = "RANGE" => Answered(LastOf(data[m].list).short)'
      OBVIOUS
    <3>1. OfRound(data[m])'
      BY <1>4, <2>1, <2>6
    <3>2. ASSUME Type(data[m]) = "RANGE" PROVE Answered(LastOf(data[m].list).short)'
      <4>1. Answered(LastOf(data[m].list).short) /\ LastOf(data[m].list).short \in Anchors
        BY <2>5, <2>6, <3>2
      <4>2. LastOf(data'[m].list).short = LastOf(data[m].list).short
        BY <1>4
      <4>. QED BY <2>4, <4>1, <4>2
    <3>. QED BY <3>1, <3>2
  <2>8. \A m \in Node : Rests(m)'
    <3>. SUFFICES ASSUME NEW m \in Node PROVE Rests(m)'
      OBVIOUS
    <3>1. Own(m)' => /\ OfRound(data[m])'
                     /\ Type(data'[m]) = "RANGE" => Answered(LastOf(data[m].list).short)'
      BY <1>4, <1>5, <2>7
    <3>2. Heard(m)' => /\ OfRound(rx[m])'
                       /\ Type(rx'[m]) = "RANGE" => Answered(LastOf(rx[m].list).short)'
      <4>. SUFFICES ASSUME Heard(m)'
                    PROVE  /\ OfRound(rx[m])'
                           /\ Type(rx'[m]) = "RANGE" => Answered(LastOf(rx[m].list).short)'
        OBVIOUS
      <4>1. rx'[m] = data'[n] /\ data'[n] = data[n]
        BY <1>4, <1>5
      <4>. QED BY <1>3, <2>7, <4>1
    <3>. QED BY <3>1, <3>2 DEF Rests, Type
  <2>9. (Timed \/ Timing)'
    BY <1>4, <1>5, <1>9, <2>1, TagFacts DEF Polling, Timed, Timing, Type
  <2>10. \A a \in Anchors : Answering(a)' => lastSent'[a] = theTag /\ PollTimed(a)'
    BY <1>4, <1>9, <2>2, <2>3 DEF Polling
  <2>11. ASSUME Heard(theTag)', Type(rx'[theTag]) = "POLL_ACK"
         PROVE  Answered(rx[theTag].id.src)'
    <3>1. rx'[theTag] = data[n]
      BY <1>4, <1>5, <2>11, TagFacts
    <3>2. n \in Anchors /\ Type(data[n]) = "POLL_ACK"
      BY <1>3, <2>11, <3>1, TagFacts DEF Formed, Type
    <3>3. Answering(n)' /\ sentAck'[n] /\ rx'[theTag].id.src = n
      BY <1>3, <1>4, <2>3, <3>1, <3>2 DEF Answering
    <3>. QED BY <3>3 DEF Answered
  <2>12. Polling'
    BY <2>8, <2>9, <2>10, <2>11 DEF Polling, Type
  <2>. QED BY <1>6, <1>7, <2>12
<1>. QED BY <1>6, <1>7, <1>8, <1>9 DEF RoundInv

\* A node that loses power loses its frames and its table.
LEMMA PowerTalk ==
  ASSUME OneTag, RoundInv, NEW n \in Node, Power(n)
  PROVE  (\A m \in Node : Modes(m) /\ FormedAt(m))' /\ Kinds' /\ (Greeting \/ Polling)'
<1>1. IInv
  BY DEF RoundInv
<1>2. CASE PowerOff(n)
  <2>1. Beside(n) /\ UNCHANGED round
    BY <1>1, <1>2 DEF PowerOff, Beside, IInv, TypeOK
  <2>2. ~Own(n)' /\ ~Heard(n)' /\ pc'[n] = "top" /\ dev'[n] = <<>>
    BY <1>1, <1>2 DEF PowerOff, Own, Heard, IInv, TypeOK
  <2>3. \A m \in Node : Modes(m)' /\ FormedAt(m)'
    <3>1. Modes(n)' /\ FormedAt(n)'
      BY <2>2 DEF Modes, FormedAt, Own, Heard
    <3>. QED BY <2>1, <3>1, BesideKeeps DEF RoundInv
  <2>4. /\ \A m \in Node : Own(m)' => Own(m) /\ UNCHANGED <<data[m], lastSent[m]>>
        /\ \A m \in Node : Heard(m)' => Heard(m) /\ rx'[m] = rx[m]
    BY <2>1, <2>2 DEF Beside, Own, Heard
  <2>5. \A m \in Node \ {n} :
          UNCHANGED <<dev[m], data[m], tx[m], sentAck[m], lastSent[m]>>
    BY <2>1 DEF Beside
  <2>6. Kinds'
    BY <2>2, <2>5, TagFacts DEF Kinds, RoundInv
  <2>7. CASE Greeting
    BY <2>3, <2>4, <2>6, <2>7, StillGreeting
  <2>8. CASE Polling
    <3>1. Poll' = Poll /\ \A a : Ack(a)' = Ack(a)
      BY <2>1, SameRoundFacts
    <3>2. \A a \in Anchors : /\ PollTimed(a) => PollTimed(a)'
                             /\ AckTimed(a) => AckTimed(a)'
      BY <2>2, <2>5, <3>1, TagFacts DEF PollTimed, AckTimed
    <3>3. ASSUME NEW a \in Anchors, Answered(a) PROVE Answered(a)'
      <4>1. CASE a = n
        BY <2>2, <4>1 DEF Answered, PollTimed, AckTimed
      <4>2. CASE a # n
        BY <2>5, <3>2, <3>3, <4>2, TagFacts DEF Answered, Answering, Own, Type
      <4>. QED BY <4>1, <4>2
    <3>4. (Timed \/ Timing)'
      <4>1. CASE theTag = n
        BY <2>2, <4>1 DEF Timed
      <4>2. CASE theTag # n
        BY <2>5, <2>8, <3>1, <4>2, TagFacts DEF Polling, Timed, Timing, Own, Type
      <4>. QED BY <4>1, <4>2
    <3>5. Polling'
      BY <2>1, <2>4, <2>8, <3>2, <3>3, <3>4, StillPolling
    <3>. QED BY <2>3, <2>6, <3>5
  <2>. QED BY <2>7, <2>8 DEF RoundInv
<1>3. CASE PowerOn(n)
  <2>1. UNCHANGED <<pc, data, lastSent, dev, round, tx, rx, lastTx, sentAck, receivedAck>>
    BY <1>3 DEF PowerOn, loopVars, timerVars, chipVars, flagVars
  <2>2. (\A m \in Node : Modes(m) /\ FormedAt(m))' /\ Kinds' /\ (Greeting \/ Polling)'
    BY <2>1, SameTalk
  <2>. QED BY <2>2
<1>. QED BY <1>2, <1>3 DEF Power
------------------------------------------------------------------------------
\* Every step the timing of the delays allows keeps the invariant.
LEMMA LoopRoundInv ==
  ASSUME OneTag, RoundInv, NEW n \in Node, TimelyLoop(n)
  PROVE  (\A m \in Node : Modes(m) /\ FormedAt(m))' /\ Kinds' /\ (Greeting \/ Polling)'
<1>1. IInv /\ Modes(n) /\ FormedAt(n)
  BY DEF RoundInv
<1>2. Beside(n)
  BY <1>1, LoopBeside, HandleBeside DEF TimelyLoop, TimelyPass
<1>3. \A m \in Node \ {n} : Modes(m)' /\ FormedAt(m)'
  BY <1>2, BesideKeeps DEF RoundInv
<1>4. (Modes(n) /\ FormedAt(n))' /\ Kinds' /\ (Greeting \/ Polling)'
  <2>1. CASE \/ PassHead(n) \/ NotSent(n) \/ SentUnexpected(n) \/ NotReceived(n)
             \/ UnknownSource(n)
    BY <1>1, <2>1, LoopSettles, SettlesKeeps, PlainQuiet
  <2>2. CASE HandleSent(n)
    BY <1>1, <2>2, LoopSettles, SettlesKeeps, HandleSentTalk
  <2>3. CASE GetData(n)
    BY <1>1, <2>3, GetDataKeeps, GetDataTalk
  <2>4. CASE n \in Tags /\ TagHandle(n)
    <3>1. CASE CheckDone(n) \/ TagUnexpected(n)
      BY <1>1, <2>4, <3>1, TagSettles, SettlesKeeps, UnhandledQuiet
    <3>2. CASE CheckInactive(n)
      BY <1>1, <2>4, <3>2, TagSettles, SettlesKeeps, CheckInactiveTalk
    <3>3. CASE TagRangingInit(n)
      BY <1>1, <2>4, <3>3, TagSettles, SettlesKeeps, TagRangingInitTalk
    <3>4. CASE TagPollAck(n) \/ TagRangeReport(n)
      BY <1>1, <2>4, <3>4, TagSettles, SettlesKeeps, TagQuiet
    <3>5. CASE TagLastPollAck(n)
      BY <2>4, <3>5, TagLastPollAckTalk
    <3>. QED BY <2>4, <3>1, <3>2, <3>3, <3>4, <3>5 DEF TagHandle
  <2>5. CASE n \in Anchors /\ AnchorHandle(n)
    <3>1. CASE AnchorNotListed(n)
      BY <1>1, <2>5, <3>1, AnchorSettles, SettlesKeeps, UnhandledQuiet
    <3>2. CASE AnchorBlink(n)
      BY <2>5, <3>2, AnchorBlinkTalk
    <3>3. CASE AnchorPoll(n)
      BY <2>5, <3>3, AnchorPollTalk
    <3>4. CASE AnchorRange(n) \/ AnchorRangeFailed(n)
      BY <2>5, <3>4, AnchorRangeTalk
    <3>. QED BY <2>5, <3>1, <3>2, <3>3, <3>4 DEF AnchorHandle
  <2>. QED BY <2>1, <2>2, <2>3, <2>4, <2>5 DEF TimelyLoop, TimelyPass, LoopBody
<1>. QED BY <1>3, <1>4

THEOREM StepRoundInv == OneTag /\ RoundInv /\ [TimelyNext]_vars => RoundInv'
<1>. SUFFICES ASSUME OneTag, RoundInv, [TimelyNext]_vars PROVE RoundInv'
  OBVIOUS
<1>1. IInv'
  BY TimelyIsNext, StepIInv DEF RoundInv
<1>2. (\A m \in Node : Modes(m) /\ FormedAt(m))' /\ Kinds' /\ (Greeting \/ Polling)'
  <2>1. CASE UNCHANGED vars
    <3>1. UNCHANGED <<pc, data, lastSent, dev, round, tx, rx, lastTx, sentAck, receivedAck>>
      BY <2>1 DEF vars, loopVars, timerVars, chipVars, flagVars
    <3>. QED BY <3>1, SameTalk
  <2>2. ASSUME NEW n \in Node, TimelyLoop(n) \/ TimelyTx(n) \/ Power(n)
        PROVE  (\A m \in Node : Modes(m) /\ FormedAt(m))' /\ Kinds' /\ (Greeting \/ Polling)'
    BY <2>2, LoopRoundInv, TxTalk, PowerTalk
  <2>3. ASSUME NEW t \in Tags, TimelyTick(t)
        PROVE  (\A m \in Node : Modes(m) /\ FormedAt(m))' /\ Kinds' /\ (Greeting \/ Polling)'
    BY <2>3, TickTalk
  <2>4. ASSUME NEW a \in Anchors, TimelyReset(a)
        PROVE  (\A m \in Node : Modes(m) /\ FormedAt(m))' /\ Kinds' /\ (Greeting \/ Polling)'
    BY <2>4, ResetTalk
  <2>. QED BY <2>1, <2>2, <2>3, <2>4 DEF TimelyNext
<1>. QED BY <1>1, <1>2 DEF RoundInv

\* The range an anchor computes from the last entry of a RANGE of this round.
LEMMA LastRangeMatched ==
  ASSUME OneTag, RoundInv, NEW a \in Anchors, AnchorRange(a),
         data[a].list[Len(data[a].list)].short = a
  PROVE  tx'[a].range.matched
<1> DEFINE list == data[a].list
           e == list[PlaceOf(list, a)]
           d == [dev[a][1] EXCEPT !.timeRangeReceived = rx[a].id,
                   !.timePollSent = e.timePollSent,
                   !.timePollAckReceived = e.timePollAckReceived,
                   !.timeRangeSent = e.timeRangeSent]
<1>1. At(a, "handle") /\ Type(data[a]) = "RANGE" /\ Distant(a) # 0 /\ Listed(list, a)
  BY DEF AnchorRange, Handling
<1>2. a \in Node /\ Distant(a) = 1 /\ Len(dev[a]) = 1 /\ dev[a][1] \in Device
  BY <1>1, AnchorDevice
<1>3. /\ IInv /\ Polling /\ data[a] = rx[a] /\ RangeOfRound(data[a]) /\ ~sentAck[a]
      /\ Heard(a) /\ data[a] \in Frame
  BY <1>1, <1>2, HandledHeard DEF Greetings, OfRound
<1>4. PollTimed(a) /\ AckTimed(a)
  <2>1. Answered(LastOf(rx[a].list).short)
    BY <1>1, <1>2, <1>3 DEF Polling, Rests
  <2>. QED BY <1>3, <2>1 DEF Answered, LastOf
<1>5. PlaceOf(list, a) = Len(list)
  <2>1. list \in Seq(Entry) /\ PlaceOf(list, a) \in 1..Len(list) /\ Len(list) \in Nat
    BY <1>1, <1>3, ListedPlace, LenProperties DEF Frame
  <2>2. list[PlaceOf(list, a)].short = a
    BY <2>1, SearchResult DEF PlaceOf
  <2>. QED BY <1>3, <2>1, <2>2 DEF RangeOfRound, ShortAddressesDistinct
<1>6. /\ e.timePollSent = Poll /\ e.timePollAckReceived = Ack(a)
      /\ e.timeRangeSent = data[a].id
  BY <1>3, <1>5 DEF RangeOfRound, LastOf
<1>7. /\ d.timePollSent = Poll /\ d.timePollReceived = Poll
      /\ d.timePollAckSent = Ack(a) /\ d.timePollAckReceived = Ack(a)
      /\ d.timeRangeSent = data[a].id /\ d.timeRangeReceived = data[a].id
  <2>1. dev[a][1].timePollReceived = Poll /\ dev[a][1].timePollAckSent = Ack(a)
    BY <1>2, <1>4 DEF PollTimed, AckTimed
  <2>. HIDE DEF e
  <2>. QED BY <1>2, <1>3, <1>6, <2>1 DEF Device
<1>8. Poll # None /\ Ack(a) # None /\ data[a].id # None
  <2>1. round[theTag] \in 0..MaxRound
    BY <1>3, TagFacts DEF IInv, TypeOK
  <2>2. Poll \in Stamp /\ Ack(a) \in Stamp /\ data[a].id \in Stamp
    BY <1>2, <1>3, <2>1, TagFacts DEF Poll, Ack, Stamp, MessageType, Frame
  <2>. QED BY <2>2, NoneAssumption
<1>9. tx'[a].range = computeRangeAsymmetric(Source(data[a]), d)
  BY <1>2, <1>3 DEF AnchorRange, transmit, Mk, IInv, TypeOK
<1>. HIDE DEF d
<1>. QED BY <1>7, <1>8, <1>9 DEF computeRangeAsymmetric

\* With one tag, the device it lists last is ranged on matching timestamps in
\* every execution the delays allow, for any number of anchors, lost frames and
\* restarts: TLC checks it for three anchors and one fault.
THEOREM LastAnchorAlwaysMatched ==
  ASSUME OneTag
  PROVE  TimelySpec => LastAnchorMatched
<1>1. Init => RoundInv
  BY InitRoundInv
<1>2. RoundInv /\ [TimelyNext]_vars => RoundInv'
  BY StepRoundInv
<1>3. RoundInv =>
        [\A a \in Anchors :
           AnchorRange(a) /\ data[a].list[Len(data[a].list)].short = a
             => tx'[a].range.matched]_vars
  BY LastRangeMatched
<1>. QED BY <1>1, <1>2, <1>3, PTL DEF TimelySpec, LastAnchorMatched
------------------------------------------------------------------------------
(***************************************************************************)
(* Why one fault is harmless.  A range is computed from what a RANGE says  *)
(* of the three flights, by an anchor that expects it and has not failed.  *)
(* While nothing has gone wrong an anchor expects RANGE only from its POLL *)
(* to its RANGE, so an anchor that misses a POLL expects nothing when the  *)
(* RANGE of that round comes, and one that misses a RANGE gets a POLL      *)
(* before the next one.  And the POLL_ACKs leave in the order of the list: *)
(* when the last one has come the tag has all that were sent.              *)
(***************************************************************************)

\* At most one fault has happened, and it is not the loss of a POLL_ACK.
Harmless == faults <= 1 /\ ~ackLost

\* An anchor that would compute a range.
Expects(a) == expected[a] = "RANGE" /\ ~failed[a]
\* Between two rounds no anchor does so, while nothing has gone wrong.
Clean(a) == faults = 0 => expected[a] # "RANGE"

\* The ways of one node's POLL and POLL_ACK.
PollHeard(a) == Heard(a) /\ Type(rx[a]) = "POLL"
AckToSend(a) == tx[a] # None /\ Type(tx[a]) = "POLL_ACK"
AckHeard(a) == Heard(theTag) /\ rx[theTag].id = Ack(a)
AckNoted(a) ==
  \A i \in 1..Len(dev[theTag]) :
    dev[theTag][i].short = a => dev[theTag][i].timePollAckReceived = Ack(a)

\* An anchor that would compute a range has a POLL_ACK of this round, somewhere.
Asked(a) ==
  Expects(a) => \/ PollHeard(a) \/ AckToSend(a)
                \/ Answered(a) /\ (AckNoted(a) \/ AckHeard(a))

LastListed == LastOf(dev[theTag]).short
SameAddresses(list) ==
  /\ Len(list) = Len(dev[theTag])
  /\ \A i \in 1..Len(list) : list[i].short = dev[theTag][i].short

\* Frames under way are of the given types.
Carry(types) ==
  \A n \in Node : /\ Own(n) => Type(data[n]) \in types
                  /\ Heard(n) => Type(rx[n]) \in types

Calls == {"POLL", "POLL_ACK"}

PollToSend ==
  /\ SameAddresses(tx[theTag].list)
  /\ \A a \in Anchors : ~Own(a) /\ ~Heard(a) /\ Clean(a)
PollSent ==
  /\ \A a \in Anchors : Asked(a)
  /\ AckHeard(LastListed) => \A a \in Anchors : tx[a] = None /\ ~PollHeard(a)
  /\ faults = 0 => PollHeard(LastListed) \/ AckToSend(LastListed) \/ AckHeard(LastListed)

\* From the POLL to the last POLL_ACK: every anchor that expects RANGE has been
\* asked, the POLL_ACKs wait for the delays of their places, and while nothing
\* has gone wrong the one of the last device is still to come.
Asking ==
  /\ dev[theTag] # <<>> /\ expected[theTag] = "POLL_ACK"
  /\ Carry(Calls)
  /\ \A a \in Anchors :
       /\ PollHeard(a) => SameAddresses(rx[a].list)
       /\ tx[a] # None => \E i \in 1..Len(dev[theTag]) :
                            dev[theTag][i].short = a /\ tx[a].due = 2 * i - 1
       /\ Clean(a) \/ Listed(dev[theTag], a)
  /\ IF tx[theTag] # None THEN PollToSend ELSE PollSent

\* What a RANGE tells an anchor that computes a range of it.
Told(a, f) ==
  Expects(a) =>
    \A i \in 1..Len(f.list) :
      f.list[i].short = a => /\ Answered(a)
                             /\ f.list[i].timePollSent = Poll
                             /\ f.list[i].timePollAckReceived = Ack(a)
                             /\ f.list[i].timeRangeSent = f.id
RangeHeard(a) == Heard(a) /\ Type(rx[a]) = "RANGE"

\* From the RANGE to the last report: RANGE tells every anchor that still
\* expects it the truth, and while nothing has gone wrong lists every such one.
Telling ==
  /\ \A n \in Node : /\ tx[n] # None => Type(tx[n]) \in {"RANGE", "RANGE_REPORT", "RANGE_FAILED"}
                     /\ Heard(n) => Type(rx[n]) \notin Greetings \cup {"POLL"}
  /\ Heard(theTag) => Type(rx[theTag]) # "POLL_ACK"
  /\ tx[theTag] # None => \A a \in Anchors : tx[a] = None /\ ~RangeHeard(a) /\ Told(a, tx[theTag])
  /\ \A a \in Anchors :
       /\ RangeHeard(a) => Told(a, rx[a])
       /\ \/ Clean(a)
          \/ tx[theTag] # None /\ Listed(tx[theTag].list, a)
          \/ RangeHeard(a) /\ Listed(rx[a].list, a)

\* The tag has lost power before its RANGE.
Aborted == dev[theTag] = <<>> /\ faults # 0 /\ Carry(Calls)

\* Between the rounds, when devices come and go.
Greeted == Greeting /\ \A a \in Anchors : Clean(a)

\* A range that is what OneFaultHarmless asks for, and all of them.
Proper(range) == range # None => range.matched /\ range.tag = theTag
Matched ==
  \A n \in Node : /\ \A i \in 1..Len(dev[n]) : Proper(dev[n][i].range)
                  /\ Own(n) => Proper(data[n].range)
                  /\ Heard(n) => Proper(rx[n].range)

\* Whatever has gone wrong, an anchor that answers has a device and power; while
\* nothing has, all nodes have power and the tag's devices know the tag.
Knows ==
  /\ \A a \in Anchors : Own(a) \/ expected[a] = "RANGE" => dev[a] # <<>> /\ a \notin down
  /\ Heard(theTag) => rx[theTag].id.src \in Anchors
  /\ faults = 0 => /\ down = {}
                   /\ \A i \in 1..Len(dev[theTag]) : dev[dev[theTag][i].short] # <<>>
                   /\ Heard(theTag) => dev[rx[theTag].id.src] # <<>>

\* The inductive invariant: a round is in one of four phases.
Good == Matched /\ (Greeted \/ Asking \/ Telling \/ Aborted)

FaultInv ==
  /\ RoundInv
  /\ Knows
  /\ Harmless => Good
------------------------------------------------------------------------------
\* The device the tag lists last, while it lists any.
LEMMA LastIsListed ==
  ASSUME OneTag, RoundInv, dev[theTag] # <<>>
  PROVE  /\ LastListed \in Anchors /\ LastListed = dev[theTag][Len(dev[theTag])].short
         /\ Len(dev[theTag]) \in 1..Len(dev[theTag]) /\ Listed(dev[theTag], LastListed)
<1>1. theTag \in Node /\ IInv
  BY TagFacts DEF RoundInv
<1>2. dev[theTag] \in Seq(Device) /\ Len(dev[theTag]) \in Nat
  BY <1>1, AtNode
<1>3. Len(dev[theTag]) \in 1..Len(dev[theTag])
  BY <1>2, EmptySeq
<1>. QED BY <1>3 DEF RoundInv, Kinds, LastListed, LastOf, Listed

\* Steps that change nothing the invariant speaks of.
LEMMA SameGood ==
  ASSUME OneTag, RoundInv, Knows,
         UNCHANGED <<data, expected, failed, dev, tx, rx, sentAck, round, faults, ackLost>>,
         \A m \in Node : Heard(m)' <=> Heard(m), down' \subseteq down
  PROVE  Knows' /\ (Harmless' => Harmless) /\ (Good => Good')
<1>1. theTag \in Node /\ Anchors \subseteq Node
  BY TagFacts
<1>2. \A m \in Node : Own(m)' <=> Own(m)
  BY DEF Own
<1>3. Poll' = Poll /\ \A a : Ack(a)' = Ack(a)
  BY SameRoundFacts
<1>. HIDE DEF Own, Heard
<1>4. Knows'
  BY <1>1, <1>2 DEF Knows
<1>5. Matched => Matched'
  BY <1>2 DEF Matched, Proper
<1>6. \A a \in Anchors : /\ Expects(a)' <=> Expects(a)
                         /\ Clean(a)' <=> Clean(a)
                         /\ PollHeard(a)' <=> PollHeard(a)
                         /\ RangeHeard(a)' <=> RangeHeard(a)
                         /\ AckToSend(a)' <=> AckToSend(a)
                         /\ Answered(a)' <=> Answered(a)
  BY <1>1, <1>2, <1>3 DEF Expects, Clean, PollHeard, RangeHeard, AckToSend, Answered, Answering,
     PollTimed, AckTimed, Type
<1>7. \A a : (AckHeard(a)' <=> AckHeard(a)) /\ (AckNoted(a)' <=> AckNoted(a))
  BY <1>1, <1>3 DEF AckHeard, AckNoted
<1>8. \A a \in Anchors : Asked(a)' <=> Asked(a)
  BY <1>6, <1>7 DEF Asked
<1>9. /\ \A f : \A a \in Anchors : Told(a, f)' <=> Told(a, f)
      /\ \A types : Carry(types)' <=> Carry(types)
  BY <1>2, <1>3, <1>6 DEF Told, Carry, Type
<1>10. Greeted => Greeted'
  BY <1>2, <1>6 DEF Greeted, Greeting, Type
<1>11. Aborted => Aborted'
  BY <1>9 DEF Aborted
<1>12. ASSUME Asking PROVE Asking'
  <2>1. LastListed' = LastListed /\ LastListed \in Anchors
    BY <1>12, LastIsListed DEF LastListed, LastOf, Asking
  <2>2. \A list : SameAddresses(list)' <=> SameAddresses(list)
    BY DEF SameAddresses
  <2>3. PollToSend => PollToSend'
    BY <1>1, <1>2, <1>6, <2>2 DEF PollToSend
  <2>4. PollSent => PollSent'
    BY <1>6, <1>7, <1>8, <2>1 DEF PollSent
  <2>5. (IF tx[theTag] # None THEN PollToSend ELSE PollSent)'
    BY <1>12, <2>3, <2>4 DEF Asking
  <2>. QED BY <1>6, <1>9, <1>12, <2>2, <2>5 DEF Asking, Listed
<1>13. Telling => Telling'
  BY <1>1, <1>6, <1>9 DEF Telling, Type, Listed
<1>. QED BY <1>4, <1>5, <1>10, <1>11, <1>12, <1>13 DEF Good, Harmless

\* Nothing has been sent at first.
LEMMA InitGood == ASSUME OneTag, Init PROVE FaultInv
<1>1. RoundInv /\ theTag \in Node /\ Anchors \subseteq Node
  BY InitRoundInv, TagFacts
<1>2. \A n \in Node : ~Own(n) /\ ~Heard(n) /\ dev[n] = <<>> /\ expected[n] = "POLL"
  BY DEF Init, Own, Heard
<1>3. Knows
  BY <1>1, <1>2 DEF Knows, Init
<1>4. Matched
  BY <1>2 DEF Matched
<1>5. Greeted
  BY <1>1, <1>2 DEF Greeted, Greeting, Clean
<1>. QED BY <1>1, <1>3, <1>4, <1>5 DEF FaultInv, Good

\* A pass that finds nothing to do.
Waits(n) == PassHead(n) \/ NotSent(n) \/ NotReceived(n)
\* Such a pass changes nothing the invariant speaks of.
LEMMA WaitsGood ==
  ASSUME OneTag, FaultInv, NEW n \in Node, Waits(n)
  PROVE  Knows' /\ (Harmless' => Good')
<1>1. UNCHANGED <<data, expected, failed, dev, tx, rx, sentAck, round, faults, ackLost>>
      /\ UNCHANGED <<receivedAck, down>> /\ pc[n] # "handle" /\ pc'[n] # "handle"
      /\ \A m \in Node \ {n} : pc'[m] = pc[m]
  BY DEF Waits, PassHead, NotSent, NotReceived, Goto, At, loopVars, timerVars, chipVars,
     flagVars, worldVars, FaultInv, RoundInv, IInv, TypeOK
<1>2. \A m \in Node : Heard(m)' <=> Heard(m)
  BY <1>1 DEF Heard
<1>. QED BY <1>1, <1>2, SameGood DEF FaultInv
------------------------------------------------------------------------------
\* What a step of one node's loop() leaves alone.
Elsewhere(n) ==
  /\ Beside(n) /\ UNCHANGED <<round, down, faults, ackLost>>
  /\ \A m \in Node \ {n} : UNCHANGED <<expected[m], failed[m]>>

\* loop() of one node changes that node, and loses nothing.
LEMMA LoopElsewhere ==
  ASSUME OneTag, RoundInv, NEW n \in Node, TimelyLoop(n)
  PROVE  Elsewhere(n)
<1>1. IInv /\ Beside(n) /\ UNCHANGED round
  BY LoopBeside, HandleBeside DEF RoundInv, TimelyLoop, TimelyPass
<1> USE DEF loopVars, worldVars, Elsewhere, IInv, TypeOK
<1>2. CASE PassHead(n) \/ LoopBody(n)
  BY <1>1, <1>2 DEF LoopBody, PassHead, NotSent, SentUnexpected, HandleSent, NotReceived,
     GetData, UnknownSource
<1>3. CASE n \in Tags /\ TagHandle(n)
  BY <1>1, <1>3 DEF TagHandle, CheckInactive, CheckDone, TagRangingInit, TagUnexpected,
     TagPollAck, TagLastPollAck, TagRangeReport
<1>4. CASE n \in Anchors /\ AnchorHandle(n)
  BY <1>1, <1>4 DEF AnchorHandle, AnchorBlink, AnchorPoll, AnchorNotListed, AnchorRange,
     AnchorRangeFailed
<1>. QED BY <1>2, <1>3, <1>4 DEF TimelyLoop, TimelyPass

\* A step after which the node's frames are the ones it had, or fewer.
Fades(n) ==
  /\ tx'[n] = tx[n]
  /\ Own(n)' => Own(n) /\ data'[n] = data[n]
  /\ Heard(n)' => Heard(n) /\ rx'[n] = rx[n]

\* A node that ends the handling of something begins nothing.
LEMMA SettlesFades == ASSUME NEW n \in Node, Settles(n) PROVE Fades(n)
BY DEF Settles, Fades, Own, Heard

\* A node that reads a frame has heard it and has none of its own.
LEMMA GetDataFades ==
  ASSUME RoundInv, NEW n \in Node, GetData(n)
  PROVE  /\ Fades(n) /\ ~Own(n) /\ ~Own(n)' /\ Heard(n)
         /\ Heard(n)' /\ UNCHANGED <<dev, rx, tx, expected, failed>>
<1>1. ~Own(n)' /\ ~Own(n) /\ Heard(n) /\ UNCHANGED rx
  BY GetDataKeeps DEF RoundInv
<1>2. UNCHANGED <<dev, rx, tx, expected, failed>> /\ pc'[n] = "handle"
  BY DEF GetData, chipVars, Goto, RoundInv, IInv, TypeOK
<1>. QED BY <1>1, <1>2 DEF Fades, Heard

\* What an anchor has stored of its POLL_ACK it keeps until the next POLL.
LEMMA AnsweredKept ==
  ASSUME OneTag, RoundInv, NEW n \in Node, Elsewhere(n), NEW a \in Anchors, Answered(a),
         a = n => LoopBody(a) \/ AnchorNotListed(a)
  PROVE  Answered(a)'
<1>1. a \in Node /\ IInv /\ Modes(a) /\ FormedAt(a) /\ a # theTag
  BY TagFacts DEF RoundInv
<1>2. Poll' = Poll /\ \A b : Ack(b)' = Ack(b)
  BY SameRoundFacts DEF Elsewhere
<1>3. CASE a # n
  BY <1>1, <1>2, <1>3 DEF Elsewhere, Beside, Answered, Answering, PollTimed, AckTimed, Own, Type
<1>4. CASE a = n /\ UNCHANGED <<dev[a], data[a], tx[a], sentAck[a]>>
  BY <1>2, <1>4 DEF Answered, Answering, PollTimed, AckTimed, Own, Type
<1>5. CASE a = n /\ (NotSent(a) \/ NotReceived(a) \/ UnknownSource(a) \/ AnchorNotListed(a))
  BY <1>4, <1>5 DEF NotSent, NotReceived, UnknownSource, AnchorNotListed, loopVars, chipVars,
     flagVars
<1>6. CASE a = n /\ SentUnexpected(a)
  <2>1. ~Answering(a) /\ UNCHANGED dev
    BY <1>6 DEF SentUnexpected, Answering, SentTypes, loopVars
  <2>. QED BY <1>2, <2>1 DEF Answered, PollTimed, AckTimed
<1>7. CASE a = n /\ GetData(a)
  <2>1. ~Answering(a) /\ UNCHANGED dev
    BY <1>1, <1>7, GetDataFades DEF Answering
  <2>. QED BY <1>2, <2>1 DEF Answered, PollTimed, AckTimed
<1>8. CASE a = n /\ HandleSent(a)
  <2>1. Own(a) /\ sentAck[a] /\ lastTx[a] = data[a].id /\ data[a].id.src = a
    BY <1>1, <1>8 DEF HandleSent, Modes, FormedAt, Own
  <2>2. /\ Len(dev'[a]) = Len(dev[a])
        /\ \A i \in 1..Len(dev[a]) :
             /\ dev'[a][i] = IF i \in SentTo(a) THEN StoreSentTime(a, dev[a][i]) ELSE dev[a][i]
             /\ dev[a][i] \in Device
    BY <1>1, <1>8, SentTable
  <2>3. CASE Type(data[a]) = "POLL_ACK"
    <3>1. Polling /\ OfRound(data[a])
      BY <1>1, <2>1, <2>3, WhichTalk DEF Polling, Rests, Greetings
    <3>2. lastSent[a] = theTag /\ PollTimed(a) /\ lastTx[a] = Ack(a)
      BY <2>1, <2>3, <3>1 DEF Polling, Answering, OfRound
    <3>3. \A i \in 1..Len(dev[a]) : i \in SentTo(a)
      <4>. SUFFICES ASSUME NEW i \in 1..Len(dev[a]) PROVE i \in SentTo(a)
        OBVIOUS
      <4>1. dev[a] \in Seq(Device) /\ dev[a][i].short = theTag
        BY <1>1, AtNode, OneDevice
      <4>2. searchDistantDevice(dev[a], theTag) \in 1..Len(dev[a])
        BY <4>1, SearchResult
      <4>3. searchDistantDevice(dev[a], theTag) = i
        BY <4>2, OneDevice
      <4>. QED BY <3>2, <4>3, TagFacts, NodesAssumption DEF SentTo
    <3>4. \A i \in 1..Len(dev[a]) : dev'[a][i] = [dev[a][i] EXCEPT !.timePollAckSent = Ack(a)]
      BY <2>2, <2>3, <3>2, <3>3 DEF StoreSentTime
    <3>5. \A i \in 1..Len(dev[a]) : /\ dev'[a][i].timePollAckSent = Ack(a)
                                    /\ dev'[a][i].timePollReceived = dev[a][i].timePollReceived
      BY <2>2, <3>4 DEF Device
    <3>. QED BY <1>2, <2>2, <3>2, <3>5 DEF Answered, PollTimed, AckTimed
  <2>4. CASE Type(data[a]) # "POLL_ACK"
    <3>1. \A i \in 1..Len(dev[a]) : dev'[a][i] = dev[a][i]
      BY <2>2, <2>4 DEF StoreSentTime
    <3>2. PollTimed(a) /\ AckTimed(a)
      BY <2>4 DEF Answered, Answering
    <3>. QED BY <1>2, <2>2, <3>1, <3>2 DEF Answered, PollTimed, AckTimed
  <2>. QED BY <2>3, <2>4
<1>. QED BY <1>3, <1>5, <1>6, <1>7, <1>8 DEF LoopBody
------------------------------------------------------------------------------
\* An anchor that has sent something, or expects a RANGE, knows the tag.
LEMMA AnchorKnows ==
  ASSUME OneTag, RoundInv, Knows, NEW a \in Anchors,
         TimelyPass(a) \/ LoopBody(a) \/ AnchorHandle(a)
  PROVE  /\ a \notin down
         /\ dev[a] # <<>> => dev'[a] # <<>>
         /\ Own(a)' \/ expected'[a] = "RANGE" => dev'[a] # <<>>
<1>1. a \in Node /\ IInv /\ dev[a] \in Seq(Device) /\ Len(dev[a]) \in Nat
  BY TagFacts, AtNode DEF RoundInv
<1>2. Own(a) \/ expected[a] = "RANGE" => dev[a] # <<>>
  BY DEF Knows
<1>3. CASE \/ PassHead(a) \/ NotSent(a) \/ SentUnexpected(a) \/ NotReceived(a)
           \/ UnknownSource(a) \/ AnchorNotListed(a)
  <2>1. Settles(a) /\ UNCHANGED <<dev, expected>> /\ a \notin down
    BY <1>1, <1>3, LoopSettles, AnchorSettles DEF PassHead, NotSent, SentUnexpected, NotReceived,
       UnknownSource, AnchorNotListed, loopVars, At, Handling
  <2>. QED BY <1>1, <1>2, <2>1, SettlesFades DEF Fades
<1>4. CASE GetData(a)
  BY <1>1, <1>2, <1>4, GetDataFades DEF Fades, GetData, At
<1>5. CASE HandleSent(a)
  <2>1. Settles(a) /\ UNCHANGED expected /\ a \notin down /\ Len(dev'[a]) = Len(dev[a])
    BY <1>1, <1>5, LoopSettles, SentTable DEF HandleSent, At
  <2>2. dev[a] # <<>> => dev'[a] # <<>>
    BY <1>1, <2>1, EmptySeq
  <2>. QED BY <1>1, <1>2, <2>1, <2>2, SettlesFades DEF Fades
<1>6. CASE AnchorBlink(a)
  <2>1. dev'[a] # <<>>
    <3> DEFINE d == NewDevice(data[a].id.src, 0)
               e == WithIndex(d, Len(dev[a]))
    <3>1. dev'[a] = IF KnownBoth(dev[a], d) THEN dev[a] ELSE Append(dev[a], e)
      BY <1>1, <1>6 DEF AnchorBlink, Appended, IInv, TypeOK
    <3>2. KnownBoth(dev[a], d) => dev[a] # <<>>
      BY DEF KnownBoth
    <3>. HIDE DEF d, e
    <3>3. dev[a] \in Seq(Device \cup {e}) /\ e \in Device \cup {e}
      BY <1>1
    <3>4. Append(dev[a], e) # <<>>
      BY <3>3, AppendProperties
    <3>. QED BY <3>1, <3>2, <3>4
  <2>. QED BY <1>6, <2>1 DEF AnchorBlink, Handling, At
<1>7. CASE AnchorPoll(a) \/ AnchorRange(a) \/ AnchorRangeFailed(a)
  <2>1. At(a, "handle") /\ Distant(a) # 0
    BY <1>7 DEF AnchorPoll, AnchorRange, AnchorRangeFailed, Handling
  <2>2. Distant(a) = 1 /\ Len(dev[a]) = 1
    BY <2>1, AnchorDevice
  <2>3. PICK d : dev' = [dev EXCEPT ![a] = [dev[a] EXCEPT ![1] = d]]
    BY <1>7, <2>2 DEF AnchorPoll, AnchorRange, AnchorRangeFailed
  <2>4. dev'[a] = [dev[a] EXCEPT ![1] = d]
    BY <1>1, <2>3 DEF IInv, TypeOK
  <2>5. Len(dev'[a]) = 1
    BY <1>1, <2>2, <2>4
  <2>. QED BY <2>1, <2>5, EmptySeq DEF At
<1>. QED BY <1>3, <1>4, <1>5, <1>6, <1>7 DEF TimelyPass, LoopBody, AnchorHandle

\* The tag's table: no address is new but that of a RANGING_INIT.
OldAddresses(t) ==
  \A i \in 1..Len(dev'[t]) :
    \/ \E j \in 1..Len(dev[t]) : dev[t][j].short = dev'[t][i].short
    \/ Heard(t) /\ dev'[t][i].short = rx[t].id.src

\* A table with the addresses it had has no new ones.
LEMMA SameAreOld ==
  ASSUME NEW t, SameTimes(t) \/ dev'[t] = dev[t]
  PROVE  OldAddresses(t)
BY DEF SameTimes, OldAddresses

\* A tag enters only a device whose RANGING_INIT it has heard.
LEMMA TagKnows ==
  ASSUME OneTag, RoundInv, NEW t \in Tags, TimelyPass(t) \/ LoopBody(t) \/ TagHandle(t)
  PROVE  OldAddresses(t) /\ (Heard(t)' => Heard(t) /\ rx'[t] = rx[t])
<1>1. t = theTag /\ t \in Node /\ IInv /\ dev[t] \in Seq(Device) /\ Len(dev[t]) \in Nat
  BY TagFacts, AtNode DEF RoundInv
<1>2. CASE \/ PassHead(t) \/ NotSent(t) \/ SentUnexpected(t) \/ NotReceived(t)
           \/ UnknownSource(t) \/ CheckDone(t) \/ TagUnexpected(t)
  <2>1. Settles(t) /\ UNCHANGED dev
    BY <1>1, <1>2, LoopSettles, TagSettles DEF PassHead, NotSent, SentUnexpected, NotReceived,
       UnknownSource, CheckDone, TagUnexpected, loopVars
  <2>. QED BY <1>1, <2>1, SettlesFades, SameAreOld DEF Fades
<1>3. CASE GetData(t)
  BY <1>1, <1>3, GetDataFades, SameAreOld
<1>4. CASE HandleSent(t)
  <2>1. Settles(t) /\ Len(dev'[t]) = Len(dev[t])
    BY <1>1, <1>4, LoopSettles, SentTable
  <2>2. \A i \in 1..Len(dev[t]) : dev'[t][i].short = dev[t][i].short
    BY <1>1, <1>4, SentKeeps
  <2>. QED BY <1>1, <2>1, <2>2, SettlesFades DEF Fades, OldAddresses
<1>5. CASE CheckInactive(t)
  <2> DEFINE new == removeNetworkDevices(dev[t], scan[t])
  <2>1. Settles(t) /\ scan[t] \in 1..Len(dev[t])
    <3>1. scan[t] \in 1..Len(dev[t])
      BY <1>1, <1>5 DEF CheckInactive, IInv, TypeOK
    <3>. QED BY <1>1, <1>5, <3>1, TagSettles
  <2>2. /\ Len(new) = Len(dev[t]) - 1
        /\ \A k \in 1..Len(new) : /\ k < scan[t] => new[k] = dev[t][k]
                                  /\ k >= scan[t] => new[k].short = dev[t][k + 1].short
    BY <1>1, <2>1, AtNode, PairedDeviceSet, RemovedTable
  <2>3. dev'[t] \in {dev[t], new}
    BY <1>1, <1>5 DEF CheckInactive, IInv, TypeOK
  <2>. HIDE DEF new
  <2>4. \A k \in 1..Len(new) : \E j \in 1..Len(dev[t]) : dev[t][j].short = new[k].short
    <3>. SUFFICES ASSUME NEW k \in 1..Len(new)
                  PROVE  \E j \in 1..Len(dev[t]) : dev[t][j].short = new[k].short
      OBVIOUS
    <3>1. k \in 1..Len(dev[t]) /\ k + 1 \in 1..Len(dev[t])
      BY <1>1, <2>2
    <3>2. CASE k < scan[t]
      BY <2>2, <3>1, <3>2
    <3>3. CASE k >= scan[t]
      BY <2>2, <3>1, <3>3
    <3>. QED BY <1>1, <2>1, <2>2, <3>2, <3>3
  <2>. QED BY <1>1, <2>1, <2>3, <2>4, SettlesFades DEF Fades, OldAddresses
<1>6. CASE TagRangingInit(t)
  <2>1. Settles(t) /\ At(t, "handle")
    BY <1>1, <1>6, TagSettles DEF TagRangingInit, Handling
  <2>2. Heard(t) /\ data[t] = rx[t]
    BY <1>1, <2>1, HandledHeard
  <2>3. PICK age \in Age : dev'[t] \in {dev[t], Appended(dev[t], NewDevice(data[t].id.src, age))}
    BY <1>1, <1>6 DEF TagRangingInit, IInv, TypeOK
  <2> DEFINE d == WithIndex(NewDevice(data[t].id.src, age), Len(dev[t]))
  <2>4. d.short = rx[t].id.src
    BY <2>2 DEF NewDevice, WithIndex
  <2>. HIDE DEF d
  <2>5. dev'[t] \in {dev[t], Append(dev[t], d)}
    BY <2>3 DEF d, Appended
  <2>. QED BY <1>1, <2>1, <2>2, <2>4, <2>5, SettlesFades DEF Fades, OldAddresses
<1>7. CASE TagPollAck(t) \/ TagRangeReport(t)
  BY <1>1, <1>7, TagSettles, TagTimes, SettlesFades, SameAreOld DEF Fades
<1>8. CASE TagLastPollAck(t)
  <2>1. SameTimes(t)
    BY <1>8, LastAck
  <2>2. ~Heard(t)'
    <3>1. ~receivedAck[t] /\ pc'[t] = "top" /\ UNCHANGED receivedAck
      BY <1>1, <1>8 DEF RoundInv, Modes, TagLastPollAck, Handling, At, Goto, flagVars, IInv, TypeOK
    <3>. QED BY <3>1 DEF Heard
  <2>. QED BY <2>1, <2>2, SameAreOld
<1>. QED BY <1>2, <1>3, <1>4, <1>5, <1>6, <1>7, <1>8 DEF TimelyPass, LoopBody, TagHandle

\* loop() keeps what the nodes know of each other.
LEMMA LoopKnows ==
  ASSUME OneTag, RoundInv, Knows, NEW n \in Node, TimelyLoop(n)
  PROVE  Knows'
<1>1. Elsewhere(n) /\ theTag \in Node /\ theTag \notin Anchors /\ Anchors \subseteq Node
      /\ Node = Tags \cup Anchors /\ Tags = {theTag}
  BY LoopElsewhere, TagFacts DEF Node
<1>2. \A i \in 1..Len(dev[theTag]) : dev[theTag][i].short \in Anchors
  BY DEF RoundInv, Kinds
<1>3. CASE n = theTag
  <2>1. OldAddresses(n) /\ (Heard(n)' => Heard(n) /\ rx'[n] = rx[n])
    BY <1>1, <1>3, TagKnows DEF TimelyLoop
  <2>2. \A a \in Anchors : (Own(a)' <=> Own(a)) /\ UNCHANGED <<dev[a], expected[a]>>
    BY <1>1, <1>3 DEF Elsewhere, Beside, Own
  <2>3. ASSUME faults' = 0, NEW i \in 1..Len(dev'[n]) PROVE dev'[dev'[n][i].short] # <<>>
    <3>1. CASE \E j \in 1..Len(dev[n]) : dev[n][j].short = dev'[n][i].short
      BY <1>1, <1>2, <1>3, <2>2, <2>3, <3>1 DEF Elsewhere, Knows
    <3>2. CASE Heard(n) /\ dev'[n][i].short = rx[n].id.src
      BY <1>1, <1>3, <2>2, <2>3, <3>2 DEF Elsewhere, Knows
    <3>. QED BY <2>1, <3>1, <3>2 DEF OldAddresses
  <2>4. Heard(n)' => /\ rx'[n].id.src \in Anchors
                     /\ faults' = 0 => dev'[rx'[n].id.src] # <<>>
    BY <1>1, <1>3, <2>1, <2>2 DEF Elsewhere, Knows
  <2>. QED BY <1>1, <1>3, <2>2, <2>3, <2>4 DEF Elsewhere, Knows
<1>4. CASE n \in Anchors
  <2>1. /\ n \notin down /\ (dev[n] # <<>> => dev'[n] # <<>>)
        /\ Own(n)' \/ expected'[n] = "RANGE" => dev'[n] # <<>>
    BY <1>1, <1>4, AnchorKnows DEF TimelyLoop
  <2>2. \A m \in Node \ {n} : /\ Own(m)' <=> Own(m)
                              /\ Heard(m)' <=> Heard(m)
                              /\ UNCHANGED <<dev[m], expected[m], rx[m]>>
    BY <1>1 DEF Elsewhere, Beside, Own, Heard
  <2>3. \A a \in Anchors : /\ dev[a] # <<>> => dev'[a] # <<>>
                           /\ Own(a)' \/ expected'[a] = "RANGE" => dev'[a] # <<>> /\ a \notin down
    BY <1>1, <2>1, <2>2 DEF Knows
  <2>4. (Heard(theTag)' <=> Heard(theTag)) /\ UNCHANGED <<dev[theTag], rx[theTag]>>
        /\ UNCHANGED <<down, faults>>
    BY <1>1, <1>4, <2>2 DEF Elsewhere
  <2>. QED BY <1>2, <2>3, <2>4 DEF Knows
<1>. QED BY <1>1, <1>3, <1>4
------------------------------------------------------------------------------
\* Ranges: the ones in the tables and the ones on their way.
ProperTable(table) == \A i \in 1..Len(table) : Proper(table[i].range)

\* Only the table and the frames of the node that moves can change.
LEMMA StillMatched ==
  ASSUME Matched, NEW n \in Node, Beside(n), ProperTable(dev'[n]),
         Own(n)' => Proper(data'[n].range), Heard(n)' => Proper(rx'[n].range)
  PROVE  Matched'
<1>1. \A m \in Node \ {n} : UNCHANGED <<dev[m], data[m], rx[m]>>
                            /\ (Own(m)' <=> Own(m)) /\ (Heard(m)' <=> Heard(m))
  BY DEF Beside, Own, Heard
<1>2. \A r : Proper(r)' <=> Proper(r)
  BY DEF Proper
<1>. QED BY <1>1, <1>2 DEF Matched, ProperTable

\* Without a new frame only the table matters.
LEMMA FadesMatched ==
  ASSUME Matched, NEW n \in Node, Beside(n), ProperTable(dev'[n]), Fades(n)
  PROVE  Matched'
BY StillMatched DEF Fades, Matched

\* One device of a table is given another range, or none is.
LEMMA SetProper ==
  ASSUME NEW table \in Seq(Device), ProperTable(table), NEW i \in 1..Len(table), NEW d,
         Proper(d.range)
  PROVE  ProperTable([table EXCEPT ![i] = d])
<1>1. Len([table EXCEPT ![i] = d]) = Len(table)
  OBVIOUS
<1>2. \A k \in 1..Len(table) : [table EXCEPT ![i] = d][k] = IF k = i THEN d ELSE table[k]
  OBVIOUS
<1>. QED BY <1>1, <1>2 DEF ProperTable

\* A new device has no range yet.
LEMMA AppendProper ==
  ASSUME NEW table \in Seq(Device), ProperTable(table), NEW n, NEW age
  PROVE  ProperTable(Appended(table, NewDevice(n, age)))
<1> DEFINE e == WithIndex(NewDevice(n, age), Len(table))
<1>1. Proper(e.range)
  BY DEF NewDevice, WithIndex, Proper
<1>. HIDE DEF e
<1>2. table \in Seq(Device \cup {e}) /\ e \in Device \cup {e} /\ Len(table) \in Nat
  BY LenProperties
<1>3. /\ Len(Append(table, e)) = Len(table) + 1 /\ Append(table, e)[Len(table) + 1] = e
      /\ \A k \in 1..Len(table) : Append(table, e)[k] = table[k]
  BY <1>2, AppendProperties
<1>. QED BY <1>1, <1>2, <1>3 DEF ProperTable, Appended, e

\* A removal moves devices with their ranges.
LEMMA RemoveProper ==
  ASSUME NEW table \in Seq(PairedDevice), ProperTable(table), NEW i \in 1..Len(table)
  PROVE  ProperTable(removeNetworkDevices(table, i))
<1> DEFINE new == removeNetworkDevices(table, i)
<1>1. Len(table) \in Nat /\ Len(new) = Len(table) - 1
      /\ \A k \in 1..Len(table) : table[k] \in Device
  BY PairedDeviceSet, RemovedTable, LenProperties, ElementOfSeq DEF PairedDevice
<1>2. \A k \in 1..(Len(table) - 1) :
        new[k] = IF k < i THEN table[k] ELSE WithIndex(table[k + 1], k - 1)
  BY DEF removeNetworkDevices
<1>3. \A d \in Device : \A k : WithIndex(d, k).range = d.range
  BY DEF WithIndex, Device
<1>. HIDE DEF new
<1>4. \A k \in 1..Len(new) : new[k].range \in {table[k].range, table[k + 1].range}
                             /\ k \in 1..Len(table) /\ k + 1 \in 1..Len(table)
  <2>. SUFFICES ASSUME NEW k \in 1..Len(new)
                PROVE  new[k].range \in {table[k].range, table[k + 1].range}
                       /\ k \in 1..Len(table) /\ k + 1 \in 1..Len(table)
    OBVIOUS
  <2>1. k \in 1..Len(table) /\ k + 1 \in 1..Len(table) /\ k \in 1..(Len(table) - 1)
    BY <1>1
  <2>. QED BY <1>1, <1>2, <1>3, <2>1
<1>. QED BY <1>4 DEF ProperTable, new

\* Noting when a frame was sent leaves the ranges alone.
LEMMA SentProper ==
  ASSUME IInv, NEW n \in Node, HandleSent(n), ProperTable(dev[n])
  PROVE  ProperTable(dev'[n])
<1>1. Len(dev'[n]) = Len(dev[n])
      /\ \A i \in 1..Len(dev[n]) : dev'[n][i].range = dev[n][i].range
  BY SentTable, SentKeeps
<1>. QED BY <1>1 DEF ProperTable

\* So does the POLL_ACK of the last device.
LEMMA LastAckProper ==
  ASSUME IInv, NEW t \in Tags, t \in Node, TagLastPollAck(t), ProperTable(dev[t])
  PROVE  ProperTable(dev'[t])
<1> DEFINE W == WithRangeSent(t)
<1>1. /\ dev[t] \in Seq(Device) /\ Distant(t) \in 1..Len(dev[t]) /\ dev[t][Distant(t)] \in Device
      /\ Len(dev[t]) \in Nat
  BY AtNode, DistantPlace DEF TagLastPollAck, Handling
<1> DEFINE d == [Noted(dev[t][Distant(t)]) EXCEPT !.timePollAckReceived = rx[t].id]
<1>2. d.range = dev[t][Distant(t)].range
  BY <1>1 DEF Noted, Device
<1>3. WithAck(t) = [dev[t] EXCEPT ![Distant(t)] = d]
  BY DEF WithAck
<1>4. ProperTable(WithAck(t)) /\ Len(WithAck(t)) = Len(dev[t])
  <2>. HIDE DEF d
  <2>1. Proper(d.range)
    BY <1>1, <1>2 DEF ProperTable
  <2>. QED BY <1>1, <1>3, <2>1, SetProper
<1>5. W \in Seq(PairedDevice) /\ WithAck(t) \in Seq(PairedDevice)
  BY AckTables DEF TagLastPollAck, Handling
<1>6. DOMAIN W = 1..Len(dev[t]) /\ \A k \in 1..Len(dev[t]) :
        W[k] = [WithAck(t)[k] EXCEPT !.timeRangeSent = RangeStamp(t)]
  BY DEF WithRangeSent
<1>7. \A k \in 1..Len(dev[t]) : WithAck(t)[k] \in Device
  BY <1>4, <1>5, ElementOfSeq DEF PairedDevice
<1>8. dev'[t] = W
  BY DEF TagLastPollAck, IInv, TypeOK
<1>. HIDE DEF W
<1>9. Len(W) = Len(dev[t])
  BY <1>1, <1>5, <1>6, LenProperties
<1>10. \A k \in 1..Len(dev[t]) : W[k].range = WithAck(t)[k].range
  BY <1>6, <1>7 DEF Device
<1>. QED BY <1>4, <1>8, <1>9, <1>10 DEF ProperTable
\* While a RANGE is handled, the air carries nothing of the asking.
LEMMA RangeIsTelling ==
  ASSUME RoundInv, Good, NEW n \in Node, At(n, "handle"),
         Type(data[n]) \notin Greetings \cup Calls
  PROVE  Telling
<1>1. Heard(n) /\ data[n] = rx[n]
  BY HandledHeard
<1>. QED BY <1>1 DEF Good, Greeted, Greeting, Asking, Aborted, Carry

\* The range an anchor computes is of the one tag and from matching timestamps.
LEMMA AnchorRangeProper ==
  ASSUME OneTag, RoundInv, Good, NEW a \in Anchors, AnchorRange(a)
  PROVE  ProperTable(dev'[a]) /\ Proper(tx'[a].range) /\ data'[a] = tx'[a]
<1> DEFINE list == data[a].list
           e == list[PlaceOf(list, a)]
           d == [dev[a][1] EXCEPT !.timeRangeReceived = rx[a].id,
                   !.timePollSent = e.timePollSent,
                   !.timePollAckReceived = e.timePollAckReceived,
                   !.timeRangeSent = e.timeRangeSent]
           range == computeRangeAsymmetric(theTag, d)
<1>1. /\ At(a, "handle") /\ Type(data[a]) = "RANGE" /\ Distant(a) # 0 /\ Listed(list, a)
      /\ Expects(a)
  BY DEF AnchorRange, Handling, Expects
<1>2. a \in Node /\ Distant(a) = 1 /\ Len(dev[a]) = 1 /\ dev[a][1] \in Device
      /\ Source(data[a]) = theTag
  BY <1>1, AnchorDevice
<1>3. IInv /\ data[a] = rx[a] /\ ~sentAck[a] /\ Heard(a) /\ data[a] \in Frame
  BY <1>1, <1>2, HandledHeard
<1>4. PlaceOf(list, a) \in 1..Len(list) /\ e.short = a
  <2>1. list \in Seq(Entry) /\ PlaceOf(list, a) \in 1..Len(list)
    BY <1>1, <1>3, ListedPlace DEF Frame
  <2>. QED BY <2>1, SearchResult DEF PlaceOf
<1>5. /\ Answered(a) /\ e.timePollSent = Poll /\ e.timePollAckReceived = Ack(a)
      /\ e.timeRangeSent = data[a].id
  <2>1. Telling
    BY <1>1, <1>2, RangeIsTelling DEF Greetings, Calls
  <2>2. Told(a, data[a])
    BY <1>1, <1>3, <2>1 DEF Telling, RangeHeard
  <2>. QED BY <1>1, <1>4, <2>2 DEF Told
<1>6. dev[a][1].timePollReceived = Poll /\ dev[a][1].timePollAckSent = Ack(a)
  BY <1>2, <1>3, <1>5 DEF Answered, PollTimed, AckTimed
<1>7. /\ d.timePollSent = Poll /\ d.timePollReceived = Poll
      /\ d.timePollAckSent = Ack(a) /\ d.timePollAckReceived = Ack(a)
      /\ d.timeRangeSent = data[a].id /\ d.timeRangeReceived = data[a].id
  <2>. HIDE DEF e
  <2>. QED BY <1>2, <1>3, <1>5, <1>6 DEF Device
<1>8. Poll # None /\ Ack(a) # None /\ data[a].id # None
  <2>1. round[theTag] \in 0..MaxRound
    BY <1>3, TagFacts DEF IInv, TypeOK
  <2>2. Poll \in Stamp /\ Ack(a) \in Stamp /\ data[a].id \in Stamp
    BY <1>2, <1>3, <2>1, TagFacts DEF Poll, Ack, Stamp, MessageType, Frame
  <2>. QED BY <2>2, NoneAssumption
<1>9. Proper(range)
  <2>. HIDE DEF d
  <2>. QED BY <1>7, <1>8 DEF computeRangeAsymmetric, Proper
<1>10. tx'[a].range = range /\ data'[a] = tx'[a]
  BY <1>2, <1>3 DEF AnchorRange, transmit, Mk, IInv, TypeOK
<1>11. dev'[a] = [dev[a] EXCEPT ![1] = [d EXCEPT !.range = range]]
  <2>1. dev' = [dev EXCEPT ![a][1] = [d EXCEPT !.range = range]]
    BY <1>2 DEF AnchorRange
  <2>. HIDE DEF d, range
  <2>. QED BY <1>2, <1>3, <2>1 DEF IInv, TypeOK
<1>12. [d EXCEPT !.range = range].range = range
  BY <1>2 DEF Device
<1>. HIDE DEF d, range
<1>13. dev'[a] # <<>> /\ Len(dev'[a]) = 1 /\ dev'[a][1] = [d EXCEPT !.range = range]
  BY <1>2, <1>11
<1>14. ProperTable(dev'[a])
  <2>1. dev'[a][1].range = range
    BY <1>12, <1>13
  <2>2. 1..Len(dev'[a]) = {1}
    BY <1>13
  <2>. QED BY <1>9, <2>1, <2>2, Zenon DEF ProperTable
<1>. QED BY <1>9, <1>10, <1>14

\* What an anchor handles leaves it proper ranges only.
LEMMA AnchorMatched ==
  ASSUME OneTag, RoundInv, Good, NEW a \in Anchors, AnchorHandle(a)
  PROVE  Matched'
<1>1. a \in Node /\ IInv /\ Matched /\ dev[a] \in Seq(Device) /\ ProperTable(dev[a])
  BY TagFacts, AtNode DEF RoundInv, Good, Matched, ProperTable
<1>2. Beside(a)
  BY <1>1, HandleBeside
<1>3. CASE AnchorNotListed(a)
  BY <1>1, <1>2, <1>3, AnchorSettles, SettlesFades, FadesMatched DEF AnchorNotListed
<1>4. ASSUME ~AnchorNotListed(a) PROVE ~Heard(a)'
  BY <1>1, <1>4 DEF AnchorHandle, AnchorBlink, AnchorPoll, AnchorRange, AnchorRangeFailed,
     Handling, At, Goto, flagVars, RoundInv, Modes, Heard, IInv, TypeOK
<1>5. CASE AnchorBlink(a)
  <2>1. dev'[a] \in {dev[a], Appended(dev[a], NewDevice(data[a].id.src, 0))}
    BY <1>1, <1>5 DEF AnchorBlink, IInv, TypeOK
  <2>2. data'[a].range = None
    BY <1>1, <1>5 DEF AnchorBlink, transmit, Mk, IInv, TypeOK
  <2>. QED BY <1>1, <1>2, <1>3, <1>4, <2>1, <2>2, AppendProper, StillMatched DEF Proper
<1>6. CASE AnchorPoll(a) \/ AnchorRangeFailed(a)
  <2>1. data'[a].range = None
    BY <1>1, <1>6 DEF AnchorPoll, AnchorRangeFailed, transmit, Mk, IInv, TypeOK
  <2>2. Distant(a) \in 1..Len(dev[a]) /\ dev[a][Distant(a)] \in Device
    BY <1>1, <1>6, DistantPlace DEF AnchorPoll, AnchorRangeFailed
  <2>3. PICK d : dev'[a] = [dev[a] EXCEPT ![Distant(a)] = d] /\ d.range = dev[a][Distant(a)].range
    <3>1. CASE AnchorPoll(a)
      <4> DEFINE d == [Noted(dev[a][Distant(a)]) EXCEPT !.timePollReceived = rx[a].id]
      <4>1. dev'[a] = [dev[a] EXCEPT ![Distant(a)] = d]
        BY <1>1, <3>1 DEF AnchorPoll, IInv, TypeOK
      <4>2. d.range = dev[a][Distant(a)].range
        BY <2>2 DEF Noted, Device
      <4>. QED BY <4>1, <4>2
    <3>2. CASE AnchorRangeFailed(a)
      <4> DEFINE d == [dev[a][Distant(a)] EXCEPT !.timeRangeReceived = rx[a].id]
      <4>1. dev'[a] = [dev[a] EXCEPT ![Distant(a)] = d]
        BY <1>1, <3>2 DEF AnchorRangeFailed, IInv, TypeOK
      <4>2. d.range = dev[a][Distant(a)].range
        BY <2>2 DEF Device
      <4>. QED BY <4>1, <4>2
    <3>. QED BY <1>6, <3>1, <3>2
  <2>4. Proper(d.range)
    BY <1>1, <2>2, <2>3 DEF ProperTable
  <2>5. ProperTable(dev'[a])
    BY <1>1, <2>2, <2>3, <2>4, SetProper
  <2>. QED BY <1>1, <1>2, <1>3, <1>4, <2>1, <2>5, StillMatched DEF Proper
<1>7. CASE AnchorRange(a)
  BY <1>1, <1>2, <1>3, <1>4, <1>7, AnchorRangeProper, StillMatched
<1>. QED BY <1>3, <1>5, <1>6, <1>7 DEF AnchorHandle

\* What a tag handles leaves it proper ranges only.
LEMMA TagMatched ==
  ASSUME OneTag, RoundInv, Good, NEW t \in Tags, TagHandle(t)
  PROVE  Matched'
<1>1. t \in Node /\ IInv /\ Matched /\ dev[t] \in Seq(Device) /\ ProperTable(dev[t])
  BY TagFacts, AtNode DEF RoundInv, Good, Matched, ProperTable
<1>2. Beside(t)
  BY <1>1, HandleBeside
<1>3. ASSUME ~TagLastPollAck(t) PROVE Fades(t)
  BY <1>1, <1>3, TagSettles, SettlesFades DEF TagHandle
<1>4. CASE CheckDone(t) \/ TagUnexpected(t)
  BY <1>1, <1>2, <1>4, TagSettles, SettlesFades, FadesMatched DEF CheckDone, TagUnexpected
<1>5. CASE CheckInactive(t)
  <2>1. scan[t] \in 1..Len(dev[t])
    BY <1>1, <1>5, AtNode DEF CheckInactive, IInv, TypeOK
  <2>2. dev'[t] \in {dev[t], removeNetworkDevices(dev[t], scan[t])}
    BY <1>1, <1>5 DEF CheckInactive, IInv, TypeOK
  <2>3. dev[t] \in Seq(PairedDevice)
    BY <1>1, AtNode
  <2>4. ProperTable(dev'[t])
    BY <1>1, <2>1, <2>2, <2>3, RemoveProper
  <2>. QED BY <1>1, <1>2, <1>5, <2>4, TagSettles, SettlesFades, FadesMatched
<1>6. CASE TagRangingInit(t)
  <2>1. PICK age \in Age : dev'[t] \in {dev[t], Appended(dev[t], NewDevice(data[t].id.src, age))}
    BY <1>1, <1>6 DEF TagRangingInit, IInv, TypeOK
  <2>2. ProperTable(dev'[t])
    BY <1>1, <2>1, AppendProper
  <2>. QED BY <1>1, <1>2, <1>6, <2>2, TagSettles, SettlesFades, FadesMatched
<1>7. CASE TagPollAck(t) \/ TagRangeReport(t)
  <2>1. Distant(t) \in 1..Len(dev[t]) /\ dev[t][Distant(t)] \in Device
    BY <1>1, <1>7, DistantPlace DEF TagPollAck, TagRangeReport
  <2>2. PICK d : dev'[t] = [dev[t] EXCEPT ![Distant(t)] = d] /\ Proper(d.range)
    <3>1. CASE TagPollAck(t)
      <4> DEFINE d == [Noted(dev[t][Distant(t)]) EXCEPT !.timePollAckReceived = rx[t].id]
      <4>1. dev'[t] = [dev[t] EXCEPT ![Distant(t)] = d]
        BY <1>1, <3>1 DEF TagPollAck, WithAck, IInv, TypeOK
      <4>2. d.range = dev[t][Distant(t)].range
        BY <2>1 DEF Noted, Device
      <4>. HIDE DEF d
      <4>3. Proper(d.range)
        BY <1>1, <2>1, <4>2 DEF ProperTable
      <4>. QED BY <4>1, <4>3
    <3>2. CASE TagRangeReport(t)
      <4> DEFINE d == [dev[t][Distant(t)] EXCEPT !.range = data[t].range]
      <4>1. dev'[t] = [dev[t] EXCEPT ![Distant(t)] = d]
        BY <1>1, <3>2 DEF TagRangeReport, IInv, TypeOK
      <4>2. d.range = data[t].range
        BY <2>1 DEF Device
      <4>3. Heard(t) /\ data[t] = rx[t]
        BY <1>1, <3>2, HandledHeard DEF TagRangeReport, Handling
      <4>. HIDE DEF d
      <4>4. Proper(d.range)
        BY <1>1, <4>2, <4>3 DEF Matched
      <4>. QED BY <4>1, <4>4
    <3>. QED BY <1>7, <3>1, <3>2
  <2>3. ProperTable(dev'[t])
    BY <1>1, <2>1, <2>2, SetProper
  <2>. QED BY <1>1, <1>2, <1>7, <2>3, TagSettles, SettlesFades, FadesMatched
<1>8. CASE TagLastPollAck(t)
  <2>1. ProperTable(dev'[t])
    BY <1>1, <1>8, LastAckProper
  <2>2. data'[t].range = None /\ ~Heard(t)'
    <3>1. data'[t].range = None
      BY <1>1, <1>8 DEF TagLastPollAck, transmit, Mk, IInv, TypeOK
    <3>2. ~receivedAck[t] /\ pc'[t] = "top" /\ UNCHANGED receivedAck
      BY <1>1, <1>8 DEF RoundInv, Modes, TagLastPollAck, Handling, At, Goto, flagVars, IInv, TypeOK
    <3>. QED BY <3>1, <3>2 DEF Heard
  <2>. QED BY <1>1, <1>2, <2>1, <2>2, StillMatched DEF Proper
<1>. QED BY <1>4, <1>5, <1>6, <1>7, <1>8 DEF TagHandle

\* No step of loop() stores or sends a range that does not match.
LEMMA LoopMatched ==
  ASSUME OneTag, RoundInv, Good, NEW n \in Node, TimelyLoop(n)
  PROVE  Matched'
<1>1. IInv /\ Matched /\ ProperTable(dev[n])
  BY DEF RoundInv, Good, Matched, ProperTable
<1>2. CASE PassHead(n) \/ LoopBody(n)
  <2>1. Beside(n)
    BY <1>1, <1>2, LoopBeside
  <2>2. Fades(n)
    BY <1>1, <1>2, LoopSettles, SettlesFades, GetDataFades DEF LoopBody
  <2>3. ProperTable(dev'[n])
    <3>1. CASE HandleSent(n)
      BY <1>1, <3>1, SentProper
    <3>2. CASE ~HandleSent(n)
      <4>1. UNCHANGED dev
        BY <1>2, <3>2 DEF LoopBody, PassHead, NotSent, SentUnexpected, NotReceived, GetData,
           UnknownSource, loopVars
      <4>2. \A r : Proper(r)' <=> Proper(r)
        BY DEF Proper
      <4>. QED BY <1>1, <4>1
    <3>. QED BY <3>1, <3>2
  <2>. QED BY <1>1, <2>1, <2>2, <2>3, FadesMatched
<1>. QED BY <1>2, AnchorMatched, TagMatched DEF TimelyLoop, TimelyPass
------------------------------------------------------------------------------
\* What one node's loop() leaves of the others.
LEMMA OthersSame ==
  ASSUME OneTag, NEW n \in Node, Elsewhere(n)
  PROVE  /\ Poll' = Poll /\ \A a : Ack(a)' = Ack(a)
         /\ \A m \in Node \ {n} :
              /\ (Own(m)' <=> Own(m)) /\ (Heard(m)' <=> Heard(m))
              /\ UNCHANGED <<data[m], rx[m], tx[m], dev[m], expected[m], failed[m]>>
         /\ \A a \in Anchors \ {n} :
              /\ (Expects(a)' <=> Expects(a)) /\ (Clean(a)' <=> Clean(a))
              /\ (PollHeard(a)' <=> PollHeard(a)) /\ (RangeHeard(a)' <=> RangeHeard(a))
              /\ (AckToSend(a)' <=> AckToSend(a))
         /\ n # theTag => /\ \A a : (AckHeard(a)' <=> AckHeard(a)) /\ (AckNoted(a)' <=> AckNoted(a))
                          /\ LastListed' = LastListed
                          /\ \A list : SameAddresses(list)' <=> SameAddresses(list)
<1>1. Poll' = Poll /\ \A a : Ack(a)' = Ack(a)
  BY SameRoundFacts DEF Elsewhere
<1>2. \A m \in Node \ {n} :
        /\ (Own(m)' <=> Own(m)) /\ (Heard(m)' <=> Heard(m))
        /\ UNCHANGED <<data[m], rx[m], tx[m], dev[m], expected[m], failed[m]>>
  BY DEF Elsewhere, Beside, Own, Heard
<1>3. \A a \in Anchors \ {n} :
        /\ (Expects(a)' <=> Expects(a)) /\ (Clean(a)' <=> Clean(a))
        /\ (PollHeard(a)' <=> PollHeard(a)) /\ (RangeHeard(a)' <=> RangeHeard(a))
        /\ (AckToSend(a)' <=> AckToSend(a))
  BY <1>2, TagFacts DEF Elsewhere, Expects, Clean, PollHeard, RangeHeard, AckToSend, Type
<1>4. n # theTag => /\ \A a : (AckHeard(a)' <=> AckHeard(a)) /\ (AckNoted(a)' <=> AckNoted(a))
                    /\ LastListed' = LastListed
                    /\ \A list : SameAddresses(list)' <=> SameAddresses(list)
  BY <1>1, <1>2, TagFacts DEF AckHeard, AckNoted, LastListed, LastOf, SameAddresses
<1>. QED BY <1>1, <1>2, <1>3, <1>4

\* Frames that fade are of no new type.
LEMMA StillCarry ==
  ASSUME NEW types, Carry(types), NEW n \in Node, Beside(n), Fades(n)
  PROVE  Carry(types)'
BY DEF Carry, Beside, Fades, Own, Heard, Type

\* The frames a node handles, in each phase.
LEMMA PhaseTypes ==
  ASSUME RoundInv, NEW n \in Node, TimelyLoop(n)
  PROVE  /\ pc[n] = "handle" => Heard(n) /\ data[n] = rx[n]
         /\ sentAck[n] => Own(n)
         /\ pc[n] = "inactive" => Own(n) /\ Type(data[n]) = "BLINK"
BY DEF RoundInv, Modes, Own, Heard

\* A greeting goes on undisturbed.
LEMMA GreetedLoop ==
  ASSUME OneTag, RoundInv, Greeted, NEW n \in Node, TimelyLoop(n)
  PROVE  Greeted'
<1>1. Elsewhere(n) /\ IInv /\ Beside(n)
  BY LoopElsewhere DEF RoundInv, Elsewhere
<1>2. At(n, "handle") => Type(data[n]) \in Greetings
  BY PhaseTypes DEF At, Greeted, Greeting
<1>3. CASE AnchorBlink(n) /\ n \in Anchors
  <2>1. Greeting'
    <3>1. data'[n].id.type = "RANGING_INIT" /\ expected'[n] = "POLL"
      BY <1>1, <1>3 DEF AnchorBlink, transmit, Mk, IInv, TypeOK
    <3>2. ~Heard(n)'
      BY <1>1, <1>3 DEF AnchorBlink, Handling, At, Goto, flagVars, RoundInv, Modes, Heard,
         IInv, TypeOK
    <3>. QED BY <1>1, <3>1, <3>2, OthersSame DEF Greeting, Greeted, Greetings, Type
  <2>2. expected'[n] = "POLL"
    BY <1>1, <1>3 DEF AnchorBlink, IInv, TypeOK
  <2>3. \A a \in Anchors : Clean(a)'
    BY <1>1, <2>2, OthersSame DEF Clean, Greeted
  <2>. QED BY <2>1, <2>3 DEF Greeted
<1>4. CASE ~(AnchorBlink(n) /\ n \in Anchors)
  <2>1. \/ PassHead(n) \/ LoopBody(n)
        \/ n \in Anchors /\ AnchorNotListed(n)
        \/ n \in Tags /\ (CheckInactive(n) \/ CheckDone(n) \/ TagRangingInit(n) \/ TagUnexpected(n))
    BY <1>2, <1>4 DEF TimelyLoop, TimelyPass, AnchorHandle, TagHandle, AnchorPoll, AnchorRange,
       AnchorRangeFailed, TagPollAck, TagLastPollAck, TagRangeReport, Handling, Greetings
  <2>2. Fades(n)
    BY <1>1, <2>1, LoopSettles, TagSettles, AnchorSettles, SettlesFades, GetDataFades DEF LoopBody
  <2>3. n \in Anchors => expected'[n] = expected[n]
    BY <2>1, TagFacts DEF LoopBody, PassHead, NotSent, SentUnexpected, HandleSent, NotReceived, GetData,
       UnknownSource, AnchorNotListed, loopVars
  <2>4. Greeting'
    BY <1>1, <2>2, StillGreeting DEF Greeted, Beside, Fades, Own, Heard
  <2>5. \A a \in Anchors : Clean(a)'
    BY <1>1, <2>3, OthersSame DEF Clean, Greeted, Elsewhere
  <2>. QED BY <2>4, <2>5 DEF Greeted
<1>. QED BY <1>3, <1>4

\* The steps of a round of polling that start nothing.
Starts(n) ==
  \/ n \in Anchors /\ (AnchorBlink(n) \/ AnchorPoll(n) \/ AnchorRange(n) \/ AnchorRangeFailed(n))
  \/ n \in Tags /\ TagLastPollAck(n)

\* Whatever does not start a frame only lets frames fade.
LEMMA LoopFades ==
  ASSUME OneTag, RoundInv, NEW n \in Node, TimelyLoop(n), ~Starts(n)
  PROVE  Fades(n)
<1>1. IInv
  BY DEF RoundInv
<1>. QED BY <1>1, LoopSettles, TagSettles, AnchorSettles, SettlesFades, GetDataFades
         DEF TimelyLoop, TimelyPass, LoopBody, AnchorHandle, TagHandle, Starts

\* What an anchor expects changes with the frames it answers, and with no other.
LEMMA ExpectsFades ==
  ASSUME OneTag, RoundInv, NEW a \in Anchors, TimelyLoop(a), ~Starts(a)
  PROVE  /\ expected'[a] = expected[a] /\ (failed[a] => failed'[a])
         /\ \/ AnchorNotListed(a)
            \/ failed'[a] = failed[a] /\ (PassHead(a) \/ LoopBody(a))
<1>1. IInv /\ a \in Node /\ a \notin Tags
  BY TagFacts DEF RoundInv
<1>2. PassHead(a) \/ LoopBody(a) \/ AnchorNotListed(a)
  BY <1>1 DEF TimelyLoop, TimelyPass, AnchorHandle, Starts
<1>3. CASE PassHead(a) \/ LoopBody(a)
  BY <1>3 DEF LoopBody, PassHead, NotSent, SentUnexpected, HandleSent, NotReceived, GetData,
     UnknownSource, loopVars
<1>4. CASE AnchorNotListed(a)
  BY <1>1, <1>4 DEF AnchorNotListed, IInv, TypeOK
<1>. QED BY <1>2, <1>3, <1>4

\* A table stays empty but for a RANGING_INIT at the tag.
LEMMA AbortedLoop ==
  ASSUME OneTag, RoundInv, IInv', Aborted, NEW n \in Node, TimelyLoop(n)
  PROVE  Aborted'
<1>1. Elsewhere(n) /\ IInv /\ Beside(n) /\ theTag \in Node
  BY LoopElsewhere, TagFacts DEF RoundInv, Elsewhere
<1>2. /\ At(n, "handle") => Type(data[n]) \in Calls
      /\ ~At(n, "inactive")
  BY PhaseTypes DEF At, Aborted, Carry, Calls
<1>3. dev[theTag] = <<>> /\ Len(dev[theTag]) = 0
  BY DEF Aborted
<1>4. CASE n \in Anchors /\ AnchorPoll(n)
  <2>1. data'[n].id.type = "POLL_ACK"
    BY <1>1, <1>4 DEF AnchorPoll, transmit, Mk, IInv, TypeOK
  <2>2. ~Heard(n)'
    BY <1>1, <1>4 DEF AnchorPoll, Handling, At, Goto, flagVars, RoundInv, Modes, Heard, IInv, TypeOK
  <2>3. Carry(Calls)'
    BY <1>1, <2>1, <2>2, OthersSame DEF Aborted, Carry, Calls, Type
  <2>4. n # theTag
    BY <1>4, TagFacts
  <2>. QED BY <1>1, <2>3, <2>4, OthersSame DEF Aborted, Elsewhere
<1>5. CASE ~(n \in Anchors /\ AnchorPoll(n))
  <2>1. n \in Tags => ~(TagPollAck(n) \/ TagLastPollAck(n) \/ TagRangeReport(n))
    <3>. SUFFICES ASSUME n \in Tags, TagPollAck(n) \/ TagLastPollAck(n) \/ TagRangeReport(n)
                  PROVE  FALSE
      OBVIOUS
    <3>1. n = theTag /\ Distant(n) # 0
      BY TagFacts DEF TagPollAck, TagLastPollAck, TagRangeReport
    <3>. QED BY <1>1, <1>3, <3>1, DistantPlace
  <2>2. ~Starts(n)
    BY <1>2, <1>5, <2>1 DEF Starts, AnchorBlink, AnchorRange, AnchorRangeFailed, Handling, Calls
  <2>3. Carry(Calls)'
    BY <1>1, <2>2, LoopFades, StillCarry DEF Aborted
  <2>4. dev'[theTag] = <<>>
    <3>1. CASE n # theTag
      BY <1>1, <1>3, <3>1, OthersSame
    <3>2. CASE n = theTag /\ HandleSent(n)
      <4>1. Len(dev'[n]) = 0 /\ dev'[n] \in Seq(Device)
        BY <1>1, <1>3, <3>2, SentTable DEF IInv, TypeOK
      <4>. QED BY <3>2, <4>1, EmptySeq
    <3>3. CASE n = theTag /\ ~HandleSent(n)
      <4>1. UNCHANGED dev
        BY <1>2, <2>1, <3>3, TagFacts DEF TimelyLoop, TimelyPass, LoopBody, PassHead, NotSent, SentUnexpected,
           NotReceived, GetData, UnknownSource, TagHandle, CheckInactive, CheckDone,
           TagRangingInit, TagUnexpected, loopVars, Handling, Calls
      <4>. QED BY <1>3, <4>1
    <3>. QED BY <3>1, <3>2, <3>3
  <2>. QED BY <1>1, <2>3, <2>4 DEF Aborted, Elsewhere
<1>. QED BY <1>4, <1>5

\* What a node has heard it keeps until its handler runs.
LEMMA HeardHandled ==
  ASSUME RoundInv, NEW n \in Node, TimelyLoop(n), Heard(n), ~Heard(n)'
  PROVE  At(n, "handle")
<1> USE DEF Heard, Goto, flagVars, At, RoundInv, IInv, TypeOK
<1>1. CASE PassHead(n) \/ NotSent(n) \/ SentUnexpected(n) \/ HandleSent(n) \/ NotReceived(n)
  BY <1>1 DEF PassHead, NotSent, SentUnexpected, HandleSent, NotReceived, Modes
<1>2. CASE GetData(n)
  BY <1>2 DEF GetData
<1>3. CASE UnknownSource(n)
  BY <1>3 DEF UnknownSource
<1>4. CASE n \in Tags /\ TagHandle(n)
  BY <1>4 DEF TagHandle, CheckInactive, CheckDone, TagRangingInit, TagUnexpected, TagPollAck,
     TagLastPollAck, TagRangeReport, Handling, Modes
<1>5. CASE n \in Anchors /\ AnchorHandle(n)
  BY <1>5 DEF AnchorHandle, AnchorBlink, AnchorPoll, AnchorNotListed, AnchorRange,
     AnchorRangeFailed, Handling
<1>. QED BY <1>1, <1>2, <1>3, <1>4, <1>5 DEF TimelyLoop, TimelyPass, LoopBody

\* An anchor that finds no device for a frame of the tag knows none.
LEMMA UnknownTag ==
  ASSUME OneTag, RoundInv, NEW a \in Anchors, At(a, "handle"), Distant(a) = 0,
         Type(data[a]) \in {"POLL", "RANGE"}
  PROVE  dev[a] = <<>>
<1>1. a \in Node /\ IInv /\ Formed(data[a]) /\ dev[a] \in Seq(Device) /\ Len(dev[a]) \in Nat
  BY TagFacts, HandledHeard, AtNode DEF RoundInv
<1>2. Source(data[a]) = theTag
  BY <1>1 DEF Formed, Source
<1>3. \A j \in 1..Len(dev[a]) : dev[a][j].short # theTag
  BY <1>1, <1>2, SearchResult DEF Distant
<1>4. Len(dev[a]) = 0
  <2>1. ~(1 \in 1..Len(dev[a]))
    BY <1>3 DEF RoundInv, Kinds
  <2>. QED BY <1>1, <2>1
<1>. QED BY <1>1, <1>4, EmptySeq

\* A RANGE still tells every anchor that would use it what belongs together.
LEMMA TellingLoop ==
  ASSUME OneTag, RoundInv, Knows, Telling, NEW n \in Node, TimelyLoop(n)
  PROVE  Telling'
<1>1. Elsewhere(n) /\ IInv /\ Beside(n) /\ theTag \in Node /\ Anchors \subseteq Node
      /\ faults' = faults
  BY LoopElsewhere, TagFacts DEF RoundInv, Elsewhere
<1>2. At(n, "handle") => /\ Heard(n) /\ data[n] = rx[n]
                         /\ Type(data[n]) \notin Greetings \cup {"POLL"}
  BY PhaseTypes DEF At, Telling
<1>3. ~At(n, "inactive")
  <2>. SUFFICES ASSUME At(n, "inactive") PROVE FALSE
    OBVIOUS
  <2>1. tx[n] # None /\ Type(tx[n]) = "BLINK"
    BY DEF RoundInv, Modes, At
  <2>. QED BY <2>1 DEF Telling
<1>4. n = theTag => ~At(n, "handle") \/ Type(data[n]) # "POLL_ACK"
  BY <1>2 DEF Telling
<1>5. \A b \in Anchors : b # n /\ Answered(b) => Answered(b)'
  BY <1>1, AnsweredKept
<1>6. CASE n \in Anchors /\ (AnchorRange(n) \/ AnchorRangeFailed(n))
  <2>1. RangeHeard(n) /\ n # theTag
    BY <1>2, <1>6, TagFacts DEF AnchorRange, AnchorRangeFailed, Handling, RangeHeard, At
  <2>2. tx[theTag] = None
    BY <1>6, <2>1 DEF Telling
  <2>3. ~Expects(n)' /\ Clean(n)'
    BY <1>1, <1>6 DEF AnchorRange, AnchorRangeFailed, IInv, TypeOK, Expects, Clean
  <2>4. tx'[n].id.type \in {"RANGE_REPORT", "RANGE_FAILED"}
    BY <1>1, <1>6 DEF AnchorRange, AnchorRangeFailed, transmit, Mk, IInv, TypeOK
  <2>5. ~Heard(n)'
    BY <1>1, <1>6 DEF AnchorRange, AnchorRangeFailed, Handling, At, Goto, flagVars, RoundInv, Modes,
       Heard, IInv, TypeOK
  <2>6. \A a \in Anchors : RangeHeard(a)' => Told(a, rx[a])'
    <3>. SUFFICES ASSUME NEW a \in Anchors, RangeHeard(a)' PROVE Told(a, rx[a])'
      OBVIOUS
    <3>1. a # n
      BY <2>5 DEF RangeHeard
    <3>2. RangeHeard(a) /\ rx'[a] = rx[a] /\ (Expects(a)' <=> Expects(a))
      BY <1>1, <3>1, OthersSame
    <3>3. Told(a, rx[a])
      BY <3>2 DEF Telling
    <3>. QED BY <1>1, <1>5, <3>1, <3>2, <3>3, OthersSame DEF Told
  <2>7. \A a \in Anchors : Clean(a)' \/ (RangeHeard(a)' /\ Listed(rx[a].list, a)')
    BY <1>1, <2>2, <2>3, OthersSame DEF Telling, Listed
  <2>8. tx'[theTag] = None /\ (Heard(theTag)' <=> Heard(theTag)) /\ rx'[theTag] = rx[theTag]
    BY <1>1, <2>1, <2>2, OthersSame
  <2>9. \A m \in Node : /\ tx'[m] # None => Type(tx'[m]) \in {"RANGE", "RANGE_REPORT", "RANGE_FAILED"}
                        /\ Heard(m)' => Type(rx'[m]) \notin Greetings \cup {"POLL"}
    BY <1>1, <2>4, <2>5, OthersSame DEF Telling, Type
  <2>. QED BY <2>6, <2>7, <2>8, <2>9 DEF Telling, Type
<1>7. CASE ~(n \in Anchors /\ (AnchorRange(n) \/ AnchorRangeFailed(n)))
  <2>1. ~Starts(n)
    BY <1>2, <1>4, <1>7, TagFacts DEF Starts, AnchorBlink, AnchorPoll, TagLastPollAck, Handling, At,
       Greetings
  <2>2. Fades(n)
    BY <2>1, LoopFades
  <2>3. n \in Anchors => expected'[n] = expected[n] /\ (Expects(n)' => Expects(n))
    BY <2>1, ExpectsFades DEF Expects
  <2>4. \A a \in Anchors : /\ Expects(a)' => Expects(a)
                           /\ Clean(a) => Clean(a)'
                           /\ RangeHeard(a)' => RangeHeard(a) /\ rx'[a] = rx[a]
    BY <1>1, <2>2, <2>3, OthersSame DEF Clean, RangeHeard, Fades, Type
  <2>5. \A a \in Anchors : Expects(a)' /\ Answered(a) => Answered(a)'
    <3>1. ASSUME n \in Anchors PROVE LoopBody(n) \/ AnchorNotListed(n) \/ PassHead(n)
      BY <2>1, <3>1, ExpectsFades
    <3>2. ASSUME n \in Anchors, PassHead(n), Answered(n) PROVE Answered(n)'
      BY <1>1, <3>2, OthersSame
         DEF PassHead, loopVars, chipVars, flagVars, Answered, Answering, PollTimed, AckTimed, Own, Type
    <3>. QED BY <1>1, <1>5, <3>1, <3>2, AnsweredKept
  <2>6. \A a \in Anchors : \A f : Told(a, f) => Told(a, f)'
    BY <1>1, <2>4, <2>5, OthersSame DEF Told
  <2>7. \A a \in Anchors : RangeHeard(a) /\ Listed(rx[a].list, a) =>
          Clean(a)' \/ (RangeHeard(a)' /\ Listed(rx[a].list, a)')
    <3>. SUFFICES ASSUME NEW a \in Anchors, RangeHeard(a), Listed(rx[a].list, a)
                  PROVE  Clean(a)' \/ (RangeHeard(a)' /\ Listed(rx[a].list, a)')
      OBVIOUS
    <3>1. CASE a # n
      BY <1>1, <3>1, OthersSame DEF Listed
    <3>2. CASE a = n /\ Heard(n)'
      BY <2>2, <3>2 DEF Fades, RangeHeard, Listed, Type
    <3>3. CASE a = n /\ ~Heard(n)'
      <4>1. At(n, "handle") /\ n \in Anchors
        BY <3>3, HeardHandled DEF RangeHeard
      <4>2. Type(data[n]) = "RANGE" /\ Listed(data[n].list, n)
        BY <1>2, <3>3, <4>1 DEF RangeHeard
      <4>3. UnknownSource(n)
        BY <2>1, <4>1, <4>2, ExpectsFades DEF AnchorNotListed, LoopBody, PassHead, NotSent,
           SentUnexpected, HandleSent, NotReceived, GetData, At
      <4>4. expected[n] # "RANGE"
        BY <4>1, <4>2, <4>3, UnknownTag DEF Knows, UnknownSource
      <4>. QED BY <2>3, <3>3, <4>1, <4>4 DEF Clean
    <3>. QED BY <3>1, <3>2, <3>3
  <2>8. \A a \in Anchors :
          \/ Clean(a)'
          \/ tx'[theTag] # None /\ Listed(tx[theTag].list, a)'
          \/ RangeHeard(a)' /\ Listed(rx[a].list, a)'
    <3>1. tx'[theTag] = tx[theTag]
      BY <1>1, <2>2, OthersSame DEF Fades
    <3>. QED BY <2>4, <2>7, <3>1 DEF Telling, Listed
  <2>9. tx'[theTag] # None => \A a \in Anchors : tx'[a] = None /\ ~RangeHeard(a)' /\ Told(a, tx[theTag])'
    <3>1. \A m \in Node : tx'[m] = tx[m]
      BY <1>1, <2>2, OthersSame DEF Fades
    <3>. SUFFICES ASSUME tx'[theTag] # None, NEW a \in Anchors
                  PROVE  tx'[a] = None /\ ~RangeHeard(a)' /\ Told(a, tx[theTag])'
      OBVIOUS
    <3>2. tx[a] = None /\ ~RangeHeard(a) /\ Told(a, tx[theTag])
      BY <1>1, <3>1 DEF Telling
    <3>. QED BY <1>1, <2>4, <2>6, <3>1, <3>2 DEF Told
  <2>10. \A a \in Anchors : RangeHeard(a)' => Told(a, rx[a])'
    <3>. SUFFICES ASSUME NEW a \in Anchors, RangeHeard(a)' PROVE Told(a, rx[a])'
      OBVIOUS
    <3>1. RangeHeard(a) /\ rx'[a] = rx[a]
      BY <2>4
    <3>2. Told(a, rx[a])
      BY <3>1 DEF Telling
    <3>. QED BY <2>6, <3>1, <3>2 DEF Told
  <2>11. \A m \in Node : /\ tx'[m] # None => Type(tx'[m]) \in {"RANGE", "RANGE_REPORT", "RANGE_FAILED"}
                         /\ Heard(m)' => Heard(m) /\ rx'[m] = rx[m]
    BY <1>1, <2>2, OthersSame DEF Fades, Telling
  <2>. QED BY <1>1, <2>8, <2>9, <2>10, <2>11 DEF Telling, Type
<1>. QED BY <1>6, <1>7

\* A node with nothing under way has nothing to do.
LEMMA IdleWaits ==
  ASSUME RoundInv, NEW n \in Node, TimelyLoop(n), ~sentAck[n], ~Heard(n), ~At(n, "inactive")
  PROVE  Waits(n)
BY DEF Waits, TimelyLoop, TimelyPass, LoopBody, TagHandle, AnchorHandle, SentUnexpected, HandleSent,
   GetData, UnknownSource, CheckInactive, CheckDone, TagRangingInit, TagUnexpected, TagPollAck,
   TagLastPollAck, TagRangeReport, AnchorBlink, AnchorPoll, AnchorNotListed, AnchorRange,
   AnchorRangeFailed, Handling, At, Heard

\* An anchor that does not answer a POLL does not expect the RANGE either.
LEMMA PollUnanswered ==
  ASSUME OneTag, RoundInv, Knows, NEW a \in Anchors, TimelyLoop(a), ~Starts(a),
         PollHeard(a), ~PollHeard(a)'
  PROVE  /\ ~Expects(a)'
         /\ dev[a] = <<>> \/ ~Listed(rx[a].list, a)
<1>1. a \in Node /\ IInv /\ Fades(a)
  BY TagFacts, LoopFades DEF RoundInv
<1>2. ~Heard(a)'
  BY <1>1 DEF PollHeard, Fades, Type
<1>3. At(a, "handle") /\ data[a] = rx[a] /\ Type(data[a]) = "POLL"
  BY <1>1, <1>2, HeardHandled, HandledHeard DEF PollHeard
<1>4. CASE AnchorNotListed(a)
  <2>1. failed'[a] = (failed[a] \/ "POLL" # expected[a]) /\ expected'[a] = expected[a]
    BY <1>1, <1>3, <1>4 DEF AnchorNotListed, IInv, TypeOK
  <2>. QED BY <1>3, <1>4, <2>1 DEF Expects, AnchorNotListed
<1>5. CASE ~AnchorNotListed(a)
  <2>1. UnknownSource(a)
    BY <1>3, <1>5, ExpectsFades DEF LoopBody, PassHead, NotSent, SentUnexpected, HandleSent,
       NotReceived, GetData, At
  <2>2. dev[a] = <<>> /\ expected'[a] = expected[a]
    BY <1>3, <2>1, UnknownTag, ExpectsFades DEF UnknownSource
  <2>. QED BY <2>2 DEF Knows, Expects
<1>. QED BY <1>4, <1>5

\* What one anchor does of the asking.
LEMMA AskingOne ==
  ASSUME OneTag, RoundInv, Knows, Asking, PollSent, NEW a \in Anchors, TimelyLoop(a)
  PROVE  /\ (Own(a)' => Type(data'[a]) \in Calls) /\ (Heard(a)' => Type(rx'[a]) \in Calls)
         /\ PollHeard(a)' => PollHeard(a) /\ rx'[a] = rx[a]
         /\ tx'[a] # None =>
              \/ tx'[a] = tx[a]
              \/ /\ ~AckHeard(LastListed)
                 /\ \E i \in 1..Len(dev[theTag]) :
                      dev[theTag][i].short = a /\ tx'[a].due = 2 * i - 1
         /\ Clean(a)' \/ Listed(dev[theTag], a)
         /\ Asked(a)'
         /\ a = LastListed /\ faults = 0 => PollHeard(a)' \/ AckToSend(a)' \/ AckHeard(a)
<1>1. /\ Elsewhere(a) /\ IInv /\ a \in Node /\ a # theTag /\ faults' = faults /\ a \notin Tags
      /\ dev'[theTag] = dev[theTag]
  BY LoopElsewhere, TagFacts, OthersSame DEF RoundInv, Elsewhere
<1>2. (\A b : (AckHeard(b)' <=> AckHeard(b)) /\ (AckNoted(b)' <=> AckNoted(b)))
      /\ Asked(a) /\ Carry(Calls) /\ (PollHeard(a) => SameAddresses(rx[a].list))
      /\ (Clean(a) \/ Listed(dev[theTag], a))
  BY <1>1, OthersSame DEF Asking, PollSent
<1>3. At(a, "handle") => Heard(a) /\ data[a] = rx[a] /\ Type(data[a]) \in Calls
  BY <1>1, <1>2, PhaseTypes DEF At, Carry
<1>4. CASE AnchorPoll(a)
  <2> DEFINE i == PlaceOf(data[a].list, a)
  <2>1. At(a, "handle") /\ Type(data[a]) = "POLL" /\ Listed(data[a].list, a) /\ PollHeard(a)
    BY <1>3, <1>4 DEF AnchorPoll, Handling, PollHeard
  <2>2. i \in 1..Len(data[a].list) /\ data[a].list[i].short = a
    <3>1. data[a].list \in Seq(Entry) /\ i \in 1..Len(data[a].list)
      BY <1>1, <2>1, HandledHeard, ListedPlace DEF Frame
    <3>. QED BY <3>1, SearchResult DEF PlaceOf
  <2>. HIDE DEF i
  <2>3. i \in 1..Len(dev[theTag]) /\ dev[theTag][i].short = a /\ Listed(dev[theTag], a)
    BY <1>2, <1>3, <2>1, <2>2 DEF SameAddresses, Listed
  <2>4. tx'[a] = data'[a] /\ tx'[a].id.type = "POLL_ACK" /\ tx'[a].due = 2 * i - 1
    BY <1>1, <1>4 DEF AnchorPoll, transmit, Mk, IInv, TypeOK, i
  <2>5. ~Heard(a)' /\ tx'[a] # None
    <3>1. ~Heard(a)'
      BY <1>1, <1>4 DEF AnchorPoll, Handling, At, Goto, flagVars, RoundInv, Modes, Heard, IInv, TypeOK
    <3>2. tx'[a] # None
      <4>1. i \in Nat /\ 2 * i - 1 \in Nat
        <5>1. Len(dev[theTag]) \in Nat
          BY <1>1, TagFacts, AtNode
        <5>. QED BY <2>3, <5>1
      <4>2. Source(data[a]) \in Node /\ data[a].id.round \in 0..MaxRound
        BY <1>1, <2>1, HandledFrame
      <4>3. <<>> \in Seq(Entry) /\ None \in MaybeDistance /\ "POLL_ACK" \in MessageType
        BY DEF MaybeDistance, MessageType
      <4>4. Mk("POLL_ACK", a, Source(data[a]), data[a].id.round, 2 * i - 1, <<>>, None) \in Frame
        BY <1>1, <4>1, <4>2, <4>3, MkFrame
      <4>5. tx'[a] = Mk("POLL_ACK", a, Source(data[a]), data[a].id.round, 2 * i - 1, <<>>, None)
        BY <1>1, <1>4 DEF AnchorPoll, transmit, IInv, TypeOK, i
      <4>. QED BY <4>4, <4>5, NoneAssumption
    <3>. QED BY <3>1, <3>2
  <2>6. ~AckHeard(LastListed)
    BY <2>1 DEF PollSent
  <2>. QED BY <2>3, <2>4, <2>5, <2>6 DEF Calls, Type, PollHeard, AckToSend, Asked
<1>5. CASE ~AnchorPoll(a)
  <2>1. ~Starts(a)
    BY <1>1, <1>3, <1>5 DEF Starts, AnchorBlink, AnchorRange, AnchorRangeFailed, Handling, Calls
  <2>2. Fades(a) /\ expected'[a] = expected[a] /\ (Expects(a)' => Expects(a))
    BY <1>1, <2>1, LoopFades, ExpectsFades DEF Expects
  <2>3. (Own(a)' => Type(data'[a]) \in Calls) /\ (Heard(a)' => Type(rx'[a]) \in Calls)
    BY <1>1, <1>2, <2>2 DEF Carry, Fades
  <2>4. (PollHeard(a)' => PollHeard(a) /\ rx'[a] = rx[a]) /\ (AckToSend(a)' <=> AckToSend(a))
    BY <2>2 DEF Fades, PollHeard, AckToSend, Type
  <2>5. Clean(a)' \/ Listed(dev[theTag], a)
    BY <1>1, <1>2, <2>2 DEF Clean
  <2>6. Answered(a) => Answered(a)'
    <3>1. CASE PassHead(a)
      BY <1>1, <3>1, OthersSame
         DEF PassHead, loopVars, chipVars, flagVars, Answered, Answering, PollTimed, AckTimed, Own, Type
    <3>. QED BY <1>1, <2>1, <3>1, ExpectsFades, AnsweredKept
  <2>7. Asked(a)'
    BY <1>2, <2>1, <2>2, <2>4, <2>6, PollUnanswered DEF Asked
  <2>8. ASSUME a = LastListed, faults = 0 PROVE PollHeard(a)' \/ AckToSend(a)' \/ AckHeard(a)
    <3>1. PollHeard(a) \/ AckToSend(a) \/ AckHeard(a)
      BY <2>8 DEF PollSent
    <3>2. ASSUME PollHeard(a) PROVE PollHeard(a)'
      <4>. SUFFICES ASSUME ~PollHeard(a)' PROVE FALSE
        OBVIOUS
      <4>1. dev[a] = <<>> \/ ~Listed(rx[a].list, a)
        BY <2>1, <3>2, PollUnanswered
      <4>2. Listed(dev[theTag], a) /\ dev[theTag] # <<>>
        BY <2>8, LastIsListed DEF Asking
      <4>3. Listed(rx[a].list, a)
        BY <1>2, <3>2, <4>2 DEF SameAddresses, Listed
      <4>4. dev[a] # <<>>
        BY <2>8, <4>2 DEF Knows, Listed
      <4>. QED BY <4>1, <4>3, <4>4
    <3>. QED BY <2>4, <3>1, <3>2
  <2>. QED BY <2>2, <2>3, <2>4, <2>5, <2>7, <2>8 DEF Fades
<1>. QED BY <1>4, <1>5

\* An anchor in the asking phase, once the POLL has left.
LEMMA AskingAnchor ==
  ASSUME OneTag, RoundInv, Knows, Asking, tx[theTag] = None, NEW a \in Anchors, TimelyLoop(a)
  PROVE  Asking'
<1>1. PollSent /\ LastListed \in Anchors
  BY LastIsListed DEF Asking
<1>2. /\ Elsewhere(a) /\ a \in Node /\ a # theTag /\ theTag \in Node /\ Anchors \subseteq Node
      /\ faults' = faults
  BY LoopElsewhere, TagFacts DEF Elsewhere
<1>3. /\ dev'[theTag] = dev[theTag] /\ tx'[theTag] = None /\ expected'[theTag] = expected[theTag]
      /\ LastListed' = LastListed
      /\ \A b : (AckHeard(b)' <=> AckHeard(b)) /\ (AckNoted(b)' <=> AckNoted(b))
      /\ \A list : SameAddresses(list)' <=> SameAddresses(list)
  BY <1>2, OthersSame
<1>4. \A b \in Anchors \ {a} : Asked(b)'
  <2>1. \A b \in Anchors \ {a} : Answered(b) => Answered(b)'
    BY <1>2, AnsweredKept
  <2>. QED BY <1>1, <1>2, <1>3, <2>1, OthersSame DEF Asked, PollSent
<1>5. Carry(Calls)'
  <2>1. (Own(a)' => Type(data'[a]) \in Calls) /\ (Heard(a)' => Type(rx'[a]) \in Calls)
    BY <1>1, AskingOne
  <2>2. \A m \in Node \ {a} : /\ Own(m)' => Type(data'[m]) \in Calls
                              /\ Heard(m)' => Type(rx'[m]) \in Calls
    BY <1>2, OthersSame DEF Asking, Carry
  <2>. QED BY <2>1, <2>2 DEF Carry, Type, Calls
<1>6. ASSUME NEW b \in Anchors
      PROVE  /\ PollHeard(b)' => PollHeard(b) /\ rx'[b] = rx[b]
             /\ tx'[b] # None =>
                  \/ tx'[b] = tx[b]
                  \/ /\ ~AckHeard(LastListed)
                     /\ \E i \in 1..Len(dev[theTag]) :
                          dev[theTag][i].short = b /\ tx'[b].due = 2 * i - 1
             /\ Clean(b)' \/ Listed(dev[theTag], b)
             /\ Asked(b)'
  <2>1. CASE b = a
    BY <1>1, <2>1, AskingOne
  <2>2. CASE b # a
    <3>1. /\ (PollHeard(b)' <=> PollHeard(b)) /\ (Clean(b)' <=> Clean(b))
          /\ rx'[b] = rx[b] /\ tx'[b] = tx[b]
      BY <1>2, <2>2, OthersSame
    <3>2. Clean(b) \/ Listed(dev[theTag], b)
      BY DEF Asking
    <3>. QED BY <1>4, <2>2, <3>1, <3>2
  <2>. QED BY <2>1, <2>2
<1>7. AckHeard(LastListed) => \A b \in Anchors : tx'[b] = None /\ ~PollHeard(b)'
  BY <1>1, <1>6 DEF PollSent
<1>8. faults = 0 => PollHeard(LastListed)' \/ AckToSend(LastListed)' \/ AckHeard(LastListed)'
  BY <1>1, <1>2, <1>3, AskingOne, OthersSame DEF PollSent
<1>9. PollSent'
  BY <1>2, <1>3, <1>6, <1>7, <1>8 DEF PollSent
<1>10. \A b \in Anchors :
         /\ PollHeard(b)' => SameAddresses(rx[b].list)'
         /\ tx'[b] # None => \E i \in 1..Len(dev[theTag]) :
                               dev[theTag][i].short = b /\ tx'[b].due = 2 * i - 1
         /\ Clean(b)' \/ Listed(dev[theTag], b)'
  BY <1>3, <1>6 DEF Asking, SameAddresses, Listed
<1>. QED BY <1>3, <1>5, <1>9, <1>10 DEF Asking

\* What the tag does of the asking: POLL_ACKs are noted, or are of no device.
LEMMA StillAsking ==
  ASSUME OneTag, RoundInv, Asking, tx[theTag] = None, Elsewhere(theTag), Fades(theTag),
         expected'[theTag] = expected[theTag], Len(dev'[theTag]) = Len(dev[theTag]),
         \A i \in 1..Len(dev[theTag]) : dev'[theTag][i].short = dev[theTag][i].short,
         \A a \in Anchors : AckNoted(a) => AckNoted(a)',
         \A a \in Anchors : AckHeard(a) => AckHeard(a)' \/ (a # LastListed /\ AckNoted(a)')
  PROVE  Asking'
<1>1. /\ PollSent /\ LastListed \in Anchors /\ theTag \in Node /\ Anchors \subseteq Node \ {theTag}
      /\ Len(dev[theTag]) \in 1..Len(dev[theTag]) /\ IInv /\ dev[theTag] # <<>>
      /\ LastListed = dev[theTag][Len(dev[theTag])].short
  BY LastIsListed, TagFacts DEF Asking, RoundInv
<1>2. \A a \in Anchors : /\ PollHeard(a)' <=> PollHeard(a)
                         /\ AckToSend(a)' <=> AckToSend(a)
                         /\ Expects(a)' <=> Expects(a)
                         /\ Clean(a)' <=> Clean(a)
                         /\ Answered(a) => Answered(a)'
                         /\ UNCHANGED <<tx[a], rx[a]>>
  BY <1>1, OthersSame, AnsweredKept
<1>3. LastListed' = LastListed /\ dev'[theTag] # <<>> /\ tx'[theTag] = None
  BY <1>1 DEF LastListed, LastOf, Fades
<1>4. \A a : AckHeard(a)' => AckHeard(a)
  BY <1>1, OthersSame DEF AckHeard, Fades
<1>5. Carry(Calls)'
  BY <1>1, StillCarry DEF Asking, Elsewhere
<1>6. \A a \in Anchors : Asked(a)'
  BY <1>1, <1>2 DEF Asked, PollSent
<1>7. faults' = 0 => PollHeard(LastListed)' \/ AckToSend(LastListed)' \/ AckHeard(LastListed)'
  <2>1. faults' = faults /\ (AckHeard(LastListed) => AckHeard(LastListed)')
    BY <1>1, <1>3 DEF Elsewhere, AckHeard
  <2>2. (PollHeard(LastListed)' <=> PollHeard(LastListed)) /\ (AckToSend(LastListed)' <=> AckToSend(LastListed))
    BY <1>1, <1>2, <1>3 DEF PollHeard, AckToSend
  <2>. QED BY <1>1, <2>1, <2>2 DEF PollSent
<1>8. AckHeard(LastListed)' => \A a \in Anchors : tx'[a] = None /\ ~PollHeard(a)'
  <2>1. AckHeard(LastListed)' => AckHeard(LastListed)
    BY <1>3, <1>4 DEF AckHeard
  <2>. QED BY <1>1, <1>2, <2>1 DEF PollSent
<1>9. PollSent'
  BY <1>3, <1>6, <1>7, <1>8 DEF PollSent
<1>10. \A a \in Anchors :
         /\ PollHeard(a)' => SameAddresses(rx[a].list)'
         /\ tx'[a] # None => \E i \in 1..Len(dev'[theTag]) :
                               dev'[theTag][i].short = a /\ tx'[a].due = 2 * i - 1
         /\ Clean(a)' \/ Listed(dev[theTag], a)'
  <2>. SUFFICES ASSUME NEW a \in Anchors
                PROVE  /\ PollHeard(a)' => SameAddresses(rx[a].list)'
                       /\ tx'[a] # None => \E i \in 1..Len(dev'[theTag]) :
                                             dev'[theTag][i].short = a /\ tx'[a].due = 2 * i - 1
                       /\ Clean(a)' \/ Listed(dev[theTag], a)'
    OBVIOUS
  <2>1. /\ PollHeard(a) => SameAddresses(rx[a].list)
        /\ tx[a] # None => \E i \in 1..Len(dev[theTag]) :
                             dev[theTag][i].short = a /\ tx[a].due = 2 * i - 1
        /\ Clean(a) \/ Listed(dev[theTag], a)
    BY DEF Asking
  <2>2. PollHeard(a)' => SameAddresses(rx[a].list)'
    BY <1>2, <2>1 DEF SameAddresses
  <2>3. tx'[a] # None => \E i \in 1..Len(dev'[theTag]) :
                           dev'[theTag][i].short = a /\ tx'[a].due = 2 * i - 1
    BY <1>2, <2>1
  <2>4. Clean(a)' \/ Listed(dev[theTag], a)'
    BY <1>2, <2>1 DEF Listed
  <2>. QED BY <2>2, <2>3, <2>4
<1>. QED BY <1>3, <1>5, <1>9, <1>10 DEF Asking

\* What the tag handles while it asks: the POLL_ACK of an anchor.
LEMMA HandledAck ==
  ASSUME OneTag, RoundInv, Knows, Asking, At(theTag, "handle")
  PROVE  /\ theTag \in Node /\ IInv /\ Heard(theTag) /\ data[theTag] = rx[theTag]
         /\ Type(data[theTag]) = "POLL_ACK" /\ Source(data[theTag]) = data[theTag].id.src
         /\ rx[theTag].id.src \in Anchors /\ rx[theTag].id = Ack(rx[theTag].id.src)
         /\ \A a : AckHeard(a) <=> a = rx[theTag].id.src
<1>1. theTag \in Node /\ IInv /\ Heard(theTag) /\ data[theTag] = rx[theTag]
      /\ Formed(data[theTag]) /\ data[theTag].id.src \in Node
  BY TagFacts, HandledHeard
<1>2. Type(data[theTag]) \in Calls
  BY <1>1 DEF Asking, Carry
<1>3. Polling /\ OfRound(data[theTag])
  BY <1>1, <1>2, TagFacts, HandledHeard DEF Calls, Greetings
<1>4. Type(data[theTag]) = "POLL_ACK"
  <2>1. data[theTag].id.src # theTag
    BY <1>1, TagFacts DEF Knows
  <2>. QED BY <1>1, <1>2, <2>1 DEF Calls, Formed
<1>5. data[theTag].id = Ack(data[theTag].id.src) /\ data[theTag].id.src \in Anchors
  BY <1>1, <1>3, <1>4, TagFacts DEF OfRound, Formed
<1>. QED BY <1>1, <1>4, <1>5 DEF Source, AckHeard, Ack

\* The RANGE of a tag that has asked: an anchor that would use it has answered,
\* and its POLL_ACK is in the table.
LEMMA AskedIsTold ==
  ASSUME OneTag, RoundInv, Knows, Asking, NEW t \in Tags, TagLastPollAck(t)
  PROVE  Telling'
<1> DEFINE i == Distant(t)
           b == rx[t].id.src
           L == RangeList(WithRangeSent(t))
           f == Mk("RANGE", t, t, round[t], 1, L, None)
<1>1. t = theTag /\ t \in Node /\ At(t, "handle") /\ i # 0 /\ LastDevice(t) /\ t \notin Anchors
      /\ Anchors \subseteq Node
  BY TagFacts DEF TagLastPollAck, Handling
<1>2. /\ IInv /\ Heard(t) /\ data[t] = rx[t] /\ Source(data[t]) = b /\ b \in Anchors
      /\ rx[t].id = Ack(b) /\ (\A a : AckHeard(a) <=> a = b) /\ ~Own(t)
  BY <1>1, HandledAck, HandledHeard
<1>3. /\ dev[t] \in Seq(Device) /\ Len(dev[t]) \in Nat /\ i \in 1..Len(dev[t])
      /\ Consistent(dev[t])
  BY <1>1, <1>2, AtNode, DistantPlace
<1>4. dev[t][Len(dev[t])].short = b /\ b = LastListed
  <2>1. dev[t][i].short = b
    BY <1>1, <1>2, <1>3, SearchResult DEF Distant
  <2>2. i = Len(dev[t])
    BY <1>1, <1>3 DEF LastDevice, Consistent, IndexIsPlace
  <2>. QED BY <1>1, <2>1, <2>2 DEF LastListed, LastOf
<1>5. PollSent /\ dev[t] # <<>> /\ Carry(Calls) /\ tx[t] = None
  BY <1>1, <1>2 DEF Asking, Own
<1>6. \A a \in Anchors : tx[a] = None /\ ~PollHeard(a)
  BY <1>2, <1>4, <1>5 DEF PollSent
<1>7. Elsewhere(t) /\ \A a \in Anchors : a # t
  BY <1>1, TagFacts, LoopElsewhere DEF TimelyLoop, TagHandle
<1>8. \A a \in Anchors : Answered(a) => Answered(a)'
  BY <1>1, <1>7, AnsweredKept
<1>9. /\ Len(L) = Len(dev[t])
      /\ \A k \in 1..Len(dev[t]) :
           /\ L[k].short = dev[t][k].short
           /\ L[k].timePollSent = Poll
           /\ L[k].timePollAckReceived =
                IF k = Len(dev[t]) THEN rx[t].id ELSE dev[t][k].timePollAckReceived
           /\ L[k].timeRangeSent = RangeStamp(t)
  BY LastAck
<1>. HIDE DEF L
<1>10. tx'[t] = f /\ ~Heard(t)'
  <2>1. tx'[t] = f
    BY <1>1, <1>2 DEF TagLastPollAck, transmit, L, IInv, TypeOK
  <2>2. ~Heard(t)'
    BY <1>1, <1>2 DEF TagLastPollAck, Handling, At, Goto, flagVars, RoundInv, Modes, Heard, IInv, TypeOK
  <2>. QED BY <2>1, <2>2
<1>11. Type(f) = "RANGE" /\ f.list = L /\ f.id = RangeStamp(t)
  BY DEF Mk, Type, RangeStamp
<1>. HIDE DEF f
<1>12. \A a \in Anchors : Told(a, tx[theTag])'
  <2>1. tx'[theTag].list = L /\ tx'[theTag].id = f.id
    BY <1>1, <1>10, <1>11
  <2>. SUFFICES ASSUME NEW a \in Anchors, Expects(a)', NEW k \in 1..Len(L), L[k].short = a
                PROVE  /\ Answered(a)' /\ L[k].timePollSent = Poll'
                       /\ L[k].timePollAckReceived = Ack(a)' /\ L[k].timeRangeSent = f.id
    BY <2>1 DEF Told
  <2>2. Expects(a) /\ Poll' = Poll /\ Ack(a)' = Ack(a)
    BY <1>1, <1>7, OthersSame
  <2>3. Answered(a) /\ (AckNoted(a) \/ a = b)
    BY <1>2, <1>5, <1>6, <2>2 DEF PollSent, Asked, AckToSend
  <2>4. L[k].timePollAckReceived = Ack(a)
    <3>1. k \in 1..Len(dev[t]) /\ dev[t][k].short = a
      BY <1>9
    <3>2. CASE k = Len(dev[t])
      BY <1>2, <1>4, <1>9, <3>1, <3>2
    <3>3. CASE k # Len(dev[t])
      <4>1. a # b
        <5>1. Len(dev[t]) \in 1..Len(dev[t])
          BY <1>3
        <5>. QED BY <1>3, <1>4, <3>1, <3>3, <5>1 DEF Consistent, ShortAddressesDistinct
      <4>2. dev[t][k].timePollAckReceived = Ack(a)
        BY <1>1, <2>3, <3>1, <4>1 DEF AckNoted
      <4>. QED BY <1>9, <3>1, <3>3, <4>2
    <3>. QED BY <3>2, <3>3
  <2>. QED BY <1>8, <1>9, <1>11, <2>2, <2>3, <2>4
<1>13. \A a \in Anchors : /\ tx'[a] = None /\ ~RangeHeard(a)'
                          /\ Clean(a)' \/ Listed(L, a)
  <2>. SUFFICES ASSUME NEW a \in Anchors
                PROVE  tx'[a] = None /\ ~RangeHeard(a)' /\ (Clean(a)' \/ Listed(L, a))
    OBVIOUS
  <2>1. tx'[a] = None
    BY <1>1, <1>6, <1>7, OthersSame
  <2>2. ~RangeHeard(a)'
    BY <1>1, <1>5, <1>7, OthersSame DEF Carry, Calls, RangeHeard
  <2>3. Clean(a)' \/ Listed(L, a)
    BY <1>1, <1>7, <1>9, OthersSame DEF Asking, Listed
  <2>. QED BY <2>1, <2>2, <2>3
<1>14. \A m \in Node : /\ tx'[m] # None => m = t
                       /\ Heard(m)' => Type(rx'[m]) = "POLL_ACK"
  <2>1. \A m \in Node : m = t \/ m \in Anchors
    BY <1>1, TagFacts
  <2>2. \A m \in Anchors : Heard(m)' => Heard(m) /\ rx'[m] = rx[m]
    BY <1>1, <1>7, OthersSame
  <2>. QED BY <1>5, <1>6, <1>10, <1>13, <2>1, <2>2 DEF Carry, Calls, PollHeard
<1>15. tx'[theTag] = f /\ ~Heard(theTag)' /\ tx'[theTag].list = L
  BY <1>1, <1>10, <1>11
<1>16. \A m \in Node : tx'[m] # None => Type(tx'[m]) = "RANGE"
  BY <1>1, <1>11, <1>14, <1>15
<1>17. tx'[theTag] # None
  <2>1. L \in Seq(Entry) /\ round[t] \in 0..MaxRound
    <3>1. WithRangeSent(t) \in Seq(PairedDevice)
      BY <1>1, <1>2, AckTables DEF TagLastPollAck
    <3>2. WithRangeSent(t) \in Seq(Device)
      BY <3>1 DEF PairedDevice
    <3>. QED BY <1>2, <3>2, ListTypes, NextRoundType DEF L
  <2>2. f \in Frame
    BY <1>1, <2>1, MkFrame DEF f, MessageType, MaybeDistance
  <2>. QED BY <1>15, <2>2, NoneAssumption
<1>. QED BY <1>12, <1>13, <1>14, <1>15, <1>16, <1>17 DEF Telling, Type, Greetings

\* The tag in the asking phase, once the POLL has left.
LEMMA AskingTag ==
  ASSUME OneTag, RoundInv, Knows, Asking, tx[theTag] = None, TimelyLoop(theTag), ~Waits(theTag)
  PROVE  Asking' \/ Telling'
<1>1. /\ theTag \in Node /\ theTag \in Tags /\ theTag \notin Anchors /\ IInv /\ Elsewhere(theTag)
      /\ dev[theTag] \in Seq(Device) /\ Len(dev[theTag]) \in Nat
      /\ \A k \in 1..Len(dev[theTag]) : dev[theTag][k] \in Device
  BY TagFacts, LoopElsewhere, AtNode DEF RoundInv
<1> DEFINE t == theTag
<1>2. ~At(t, "inactive")
  BY <1>1 DEF RoundInv, Modes, At
<1>3. At(t, "handle") => Type(data[t]) = "POLL_ACK" /\ expected[t] = "POLL_ACK"
  BY HandledAck DEF Asking
<1>4. sentAck[t] => Type(data[t]) = "POLL"
  <2>1. sentAck[t] => Own(t) /\ Type(data[t]) \in Calls /\ Formed(data[t]) /\ data[t].id.src = t
    BY <1>1 DEF Own, Asking, Carry, RoundInv, FormedAt
  <2>. QED BY <1>1, <2>1 DEF Calls, Formed
<1>5. HandleSent(t) \/ GetData(t) \/ UnknownSource(t) \/ TagPollAck(t) \/ TagLastPollAck(t)
  BY <1>1, <1>2, <1>3, <1>4 DEF TimelyLoop, TimelyPass, LoopBody, TagHandle, Waits, SentUnexpected,
     SentTypes, CheckInactive, CheckDone, TagRangingInit, TagUnexpected, TagRangeReport, Handling
<1>6. Poll' = Poll /\ \A a : Ack(a)' = Ack(a)
  BY <1>1, OthersSame
<1>7. CASE HandleSent(t)
  <2>1. Settles(t) /\ Fades(t) /\ expected'[t] = expected[t] /\ pc[t] # "handle" /\ pc'[t] # "handle"
    BY <1>1, <1>7, LoopSettles, SettlesFades DEF HandleSent, At, Goto, IInv, TypeOK
  <2>2. /\ Len(dev'[t]) = Len(dev[t])
        /\ \A k \in 1..Len(dev[t]) :
             /\ dev'[t][k].short = dev[t][k].short
             /\ dev'[t][k].timePollAckReceived = dev[t][k].timePollAckReceived
    BY <1>1, <1>7, SentTable, SentKeeps
  <2>3. \A a : AckNoted(a) => AckNoted(a)'
    BY <1>6, <2>2 DEF AckNoted
  <2>4. \A a : AckHeard(a) => AckHeard(a)'
    BY <1>6, <2>1 DEF AckHeard, Heard, Settles
  <2>. QED BY <1>1, <2>1, <2>2, <2>3, <2>4, StillAsking
<1>8. CASE GetData(t)
  <2>1. Fades(t) /\ Heard(t)' /\ UNCHANGED <<dev, rx, expected>>
    BY <1>1, <1>8, GetDataFades
  <2>2. \A a : (AckNoted(a) => AckNoted(a)') /\ (AckHeard(a) => AckHeard(a)')
    BY <1>6, <2>1 DEF AckNoted, AckHeard
  <2>. QED BY <1>1, <2>1, <2>2, StillAsking
<1>9. CASE UnknownSource(t)
  <2>1. Fades(t) /\ UNCHANGED <<dev, expected>> /\ At(t, "handle") /\ Distant(t) = 0
    BY <1>1, <1>9, LoopSettles, SettlesFades DEF UnknownSource, loopVars
  <2>2. \A k \in 1..Len(dev[t]) : dev[t][k].short # rx[t].id.src
    BY <1>1, <2>1, HandledAck, SearchResult DEF Distant
  <2>3. LastListed # rx[t].id.src
    BY <2>2, LastIsListed DEF Asking
  <2>4. \A a : AckNoted(a) => AckNoted(a)'
    BY <1>6, <2>1 DEF AckNoted
  <2>5. \A a : AckHeard(a) => a # LastListed /\ AckNoted(a)'
    BY <2>1, <2>2, <2>3, HandledAck DEF AckNoted
  <2>. QED BY <1>1, <2>1, <2>4, <2>5, StillAsking
<1>10. CASE TagPollAck(t)
  <2> DEFINE i == Distant(t)
             d == [Noted(dev[t][i]) EXCEPT !.timePollAckReceived = rx[t].id]
  <2>1. Fades(t) /\ UNCHANGED expected /\ At(t, "handle") /\ i \in 1..Len(dev[t]) /\ SameTimes(t)
    BY <1>1, <1>10, TagSettles, SettlesFades, TagTimes, DistantPlace DEF TagPollAck, Handling
  <2>2. /\ rx[t].id = Ack(rx[t].id.src) /\ \A a : AckHeard(a) <=> a = rx[t].id.src
    BY <2>1, HandledAck
  <2>3. dev[t][i].short = rx[t].id.src
    BY <1>1, <2>1, HandledAck, SearchResult DEF Distant
  <2>4. /\ Len(dev'[t]) = Len(dev[t])
        /\ \A k \in 1..Len(dev[t]) : dev'[t][k] = IF k = i THEN d ELSE dev[t][k]
    <3>1. dev'[t] = [dev[t] EXCEPT ![i] = d]
      BY <1>1, <1>10 DEF TagPollAck, WithAck, IInv, TypeOK
    <3>. HIDE DEF d, i
    <3>. QED BY <1>1, <2>1, <3>1
  <2>5. d.short = rx[t].id.src /\ d.timePollAckReceived = rx[t].id
    BY <1>1, <2>1, <2>3 DEF Noted, Device
  <2>. HIDE DEF d
  <2>6. \A a : AckNoted(a) => AckNoted(a)'
    BY <1>6, <2>2, <2>4, <2>5 DEF AckNoted
  <2>7. i # Len(dev[t])
    BY <1>1, <1>10, <2>1, AtNode DEF TagPollAck, LastDevice, Consistent, IndexIsPlace
  <2>8. LastListed # rx[t].id.src
    <3>1. Len(dev[t]) \in 1..Len(dev[t]) /\ LastListed = dev[t][Len(dev[t])].short
      BY LastIsListed DEF Asking
    <3>2. Consistent(dev[t])
      BY <1>1, AtNode
    <3>. QED BY <2>1, <2>3, <2>7, <3>1, <3>2 DEF Consistent, ShortAddressesDistinct
  <2>9. AckNoted(rx[t].id.src)'
    <3>1. \A k \in 1..Len(dev[t]) : dev'[t][k].short = rx[t].id.src => k = i
      <4>1. \A k \in 1..Len(dev[t]) : dev[t][k].short = dev'[t][k].short
        BY <2>1 DEF SameTimes
      <4>2. Consistent(dev[t])
        BY <1>1, AtNode
      <4>. QED BY <2>1, <2>3, <4>1, <4>2 DEF Consistent, ShortAddressesDistinct
    <3>2. rx'[t] = rx[t]
      BY <1>10 DEF TagPollAck, chipVars
    <3>. QED BY <1>6, <2>2, <2>4, <2>5, <3>1, <3>2 DEF AckNoted
  <2>10. \A a : AckHeard(a) => a # LastListed /\ AckNoted(a)'
    <3>1. rx'[t] = rx[t]
      BY <1>10 DEF TagPollAck, chipVars
    <3>. QED BY <2>2, <2>8, <2>9, <3>1 DEF AckNoted
  <2>. QED BY <1>1, <2>1, <2>6, <2>10, StillAsking DEF SameTimes
<1>11. CASE TagLastPollAck(t)
  BY <1>1, <1>11, AskedIsTold
<1>. QED BY <1>5, <1>7, <1>8, <1>9, <1>10, <1>11

\* The asking goes on, or ends with the RANGE.
LEMMA AskingLoop ==
  ASSUME OneTag, RoundInv, Knows, Asking, NEW n \in Node, TimelyLoop(n), ~Waits(n)
  PROVE  Asking' \/ Telling'
<1>1. n = theTag \/ n \in Anchors
  BY TagFacts
<1>2. CASE tx[theTag] # None
  <2>1. ~sentAck[n] /\ ~Heard(n)
    BY <1>1, <1>2 DEF Asking, PollToSend, RoundInv, Modes, Own
  <2>2. ~At(n, "inactive")
    <3>. SUFFICES ASSUME At(n, "inactive") PROVE FALSE
      OBVIOUS
    <3>1. Own(n) /\ Type(data[n]) = "BLINK"
      BY PhaseTypes DEF At
    <3>. QED BY <3>1 DEF Asking, Carry, Calls
  <2>. QED BY <2>1, <2>2, IdleWaits
<1>3. CASE tx[theTag] = None
  BY <1>1, <1>3, AskingAnchor, AskingTag
<1>. QED BY <1>2, <1>3

\* Every step of loop().
LEMMA LoopGood ==
  ASSUME OneTag, FaultInv, RoundInv', NEW n \in Node, TimelyLoop(n)
  PROVE  Knows' /\ (Harmless' => Good')
<1>1. RoundInv /\ Knows /\ (Harmless => Good)
  BY DEF FaultInv
<1>2. Knows'
  BY <1>1, LoopKnows
<1>3. CASE Waits(n)
  BY <1>3, WaitsGood
<1>4. CASE ~Waits(n)
  <2>. SUFFICES ASSUME Harmless' PROVE Good'
    BY <1>2
  <2>1. Good
    <3>1. Elsewhere(n)
      BY <1>1, LoopElsewhere
    <3>. QED BY <1>1, <3>1 DEF Harmless, Elsewhere
  <2>2. (Greeted \/ Asking \/ Telling \/ Aborted)'
    BY <1>1, <1>4, <2>1, GreetedLoop, AskingLoop, TellingLoop, AbortedLoop DEF Good, RoundInv
  <2>. QED BY <1>1, <2>1, <2>2, LoopMatched DEF Good
<1>. QED BY <1>3, <1>4
------------------------------------------------------------------------------
\* Frame tx[n] takes effect at n and at the nodes R it reaches.
LEMMA TxFacts ==
  ASSUME OneTag, RoundInv, NEW n \in Node, AllIdle, tx[n] # None,
         NEW R \in SUBSET (Listening \ {n}), TxDone(n, R)
  PROVE  /\ Own(n) /\ data[n] = tx[n] /\ data[n].id.src = n /\ Formed(data[n])
         /\ UNCHANGED <<dev, data, expected, failed, down>>
         /\ \A m \in Node :
              /\ ~Heard(m) /\ ~sentAck[m] /\ (sentAck'[m] <=> m = n)
              /\ rx'[m] = (IF m \in R THEN data[n] ELSE rx[m])
              /\ tx'[m] = (IF m = n THEN None ELSE tx[m])
              /\ (Own(m)' <=> Own(m)) /\ (Heard(m)' <=> m \in R)
              /\ m \in R => m # n
              /\ m \notin R /\ m # n => m \in down \/ tx[m] # None \/ faults' = faults + 1
         /\ Poll' = Poll /\ (\A a : Ack(a)' = Ack(a))
         /\ faults \in Nat /\ faults' \in {faults, faults + 1}
         /\ ~ackLost' => ~ackLost /\ (Type(data[n]) = "POLL_ACK" => data[n].id.tag \in R)
<1>1. /\ IInv /\ n \notin R /\ R \subseteq Node /\ \A m \in R : tx[m] = None
      /\ \A m \in Node : ~sentAck[m] /\ ~receivedAck[m] /\ pc[m] = "top"
  BY DEF AllIdle, Idle, Listening, RoundInv
<1>2. /\ Own(n) /\ data[n] = tx[n] /\ data[n].id.src = n /\ Formed(data[n])
      /\ \A m \in Node : ~Heard(m)
  BY <1>1 DEF RoundInv, Modes, FormedAt, Own, Heard
<1>3. UNCHANGED <<pc, dev, data, expected, failed, round, down>>
  BY DEF TxDone, loopVars, timerVars
<1>4. \A m \in Node : (sentAck'[m] <=> m = n) /\ (receivedAck'[m] <=> m \in R)
  BY <1>1 DEF TxDone, IInv, TypeOK
<1>5. \A m \in Node : /\ rx'[m] = (IF m \in R THEN data[n] ELSE rx[m])
                      /\ tx'[m] = (IF m = n THEN None ELSE tx[m])
  BY <1>1, <1>2 DEF TxDone
<1>6. \A m \in Node : (Own(m)' <=> Own(m)) /\ (Heard(m)' <=> m \in R)
  BY <1>1, <1>2, <1>3, <1>4, <1>5 DEF Own, Heard
<1>7. Poll' = Poll /\ (\A a : Ack(a)' = Ack(a))
  BY <1>3, SameRoundFacts
<1>8. faults \in Nat /\ faults' \in {faults, faults + 1}
  BY <1>1, BoundsAssumption DEF TxDone, IInv, TypeOK
<1>9. \A m \in Node : m \notin R /\ m # n => m \in down \/ tx[m] # None \/ faults' = faults + 1
  BY DEF TxDone, Listening
<1>10. ~ackLost' => ~ackLost /\ (Type(data[n]) = "POLL_ACK" => data[n].id.tag \in R)
  BY <1>2 DEF TxDone
<1>. QED BY <1>1, <1>2, <1>3, <1>4, <1>5, <1>6, <1>7, <1>8, <1>9, <1>10

\* What holds of the anchors holds of them after the frame.
LEMMA TxAnchors ==
  ASSUME OneTag, RoundInv, NEW n \in Node, AllIdle, tx[n] # None,
         NEW R \in SUBSET (Listening \ {n}), TxDone(n, R), NEW a \in Anchors
  PROVE  /\ Expects(a)' <=> Expects(a)
         /\ Clean(a) => Clean(a)'
         /\ Answered(a) => Answered(a)'
         /\ a = n /\ Type(data[n]) = "POLL_ACK" => Answered(a)'
         /\ \A b : AckNoted(b)' <=> AckNoted(b)
         /\ ~PollHeard(a) /\ ~RangeHeard(a) /\ \A b : ~AckHeard(b)
<1>1. a \in Node /\ theTag \in Node
  BY TagFacts
<1>2. /\ Expects(a)' <=> Expects(a)
      /\ Clean(a) => Clean(a)'
  BY TxFacts DEF Expects, Clean
<1>3. \A b : AckNoted(b)' <=> AckNoted(b)
  BY TxFacts DEF AckNoted
<1>4. ~PollHeard(a) /\ ~RangeHeard(a) /\ \A b : ~AckHeard(b)
  BY <1>1, TxFacts DEF PollHeard, RangeHeard, AckHeard
<1>5. Answered(a) => Answered(a)'
  BY <1>1, TxFacts DEF Answered, PollTimed, AckTimed
<1>6. a = n /\ Type(data[n]) = "POLL_ACK" => Answered(a)'
  BY <1>1, TxFacts DEF Answered, Answering, Type
<1>. QED BY <1>2, <1>3, <1>4, <1>5, <1>6

\* A frame that leaves keeps ranges, knowledge and types of frames.
LEMMA TxKnows ==
  ASSUME OneTag, RoundInv, Knows, NEW n \in Node, AllIdle, tx[n] # None,
         NEW R \in SUBSET (Listening \ {n}), TxDone(n, R)
  PROVE  Knows' /\ (Matched => Matched') /\ (Harmless' => Harmless)
         /\ \A types : Carry(types) => Carry(types)'
<1>1. theTag \in Node /\ Anchors \subseteq Node /\ (n # theTag => n \in Anchors)
  BY TagFacts
<1>2. \A a \in Anchors : Own(a)' \/ expected'[a] = "RANGE" => dev'[a] # <<>> /\ a \notin down'
  BY <1>1, TxFacts DEF Knows
<1>3. Heard(theTag)' => /\ rx'[theTag].id.src \in Anchors
                        /\ dev'[rx'[theTag].id.src] # <<>>
  BY <1>1, TxFacts DEF Knows
<1>4. faults' = 0 => faults = 0
  BY TxFacts
<1>5. faults' = 0 => /\ down' = {}
                     /\ \A i \in 1..Len(dev'[theTag]) : dev'[dev'[theTag][i].short] # <<>>
  BY <1>4, TxFacts DEF Knows
<1>6. Knows'
  BY <1>2, <1>3, <1>5 DEF Knows
<1>7. \A r : Proper(r)' <=> Proper(r)
  BY DEF Proper
<1>8. Matched => Matched'
  BY <1>7, TxFacts DEF Matched
<1>9. Harmless' => Harmless
  BY TxFacts DEF Harmless
<1>10. \A types : Carry(types) => Carry(types)'
  BY TxFacts DEF Carry, Type
<1>. QED BY <1>6, <1>8, <1>9, <1>10

\* A RANGE or a report leaves.
LEMMA TxTelling ==
  ASSUME OneTag, RoundInv, Knows, Telling, NEW n \in Node, AllIdle, tx[n] # None,
         NEW R \in SUBSET (Listening \ {n}), TxDone(n, R)
  PROVE  Telling'
<1>1. theTag \in Node /\ Anchors \subseteq Node /\ (n # theTag => n \in Anchors) /\ theTag \notin Anchors
  BY TagFacts
<1>2. Type(data[n]) \in {"RANGE", "RANGE_REPORT", "RANGE_FAILED"} /\ data[n] = tx[n]
      /\ (Type(data[n]) = "RANGE" <=> n = theTag)
  <2>1. Type(data[n]) \in {"RANGE", "RANGE_REPORT", "RANGE_FAILED"} /\ data[n] = tx[n]
        /\ data[n].id.src = n /\ Formed(data[n])
    BY TxFacts DEF Telling
  <2>. QED BY <2>1 DEF Formed
<1>3. tx[theTag] # None => n = theTag
  BY <1>1 DEF Telling
<1>4. tx'[theTag] = None
  BY <1>1, <1>3, TxFacts
<1>5. \A m \in Node : /\ tx'[m] # None => Type(tx'[m]) \in {"RANGE", "RANGE_REPORT", "RANGE_FAILED"}
                      /\ Heard(m)' => rx'[m] = data[n]
  BY TxFacts DEF Telling
<1>6. ASSUME NEW a \in Anchors, RangeHeard(a)' PROVE Told(a, rx[a])'
  <2>1. rx'[a] = tx[theTag] /\ n = theTag
    BY <1>1, <1>2, <1>5, <1>6 DEF RangeHeard
  <2>2. Told(a, tx[theTag])
    BY <2>1 DEF Telling
  <2>3. Expects(a)' => \A i \in 1..Len(rx'[a].list) :
          rx'[a].list[i].short = a => /\ Answered(a)'
                                      /\ rx'[a].list[i].timePollSent = Poll'
                                      /\ rx'[a].list[i].timePollAckReceived = Ack(a)'
                                      /\ rx'[a].list[i].timeRangeSent = rx'[a].id
    BY <2>1, <2>2, TxFacts, TxAnchors DEF Told
  <2>. QED BY <2>3 DEF Told
<1>7. ASSUME NEW a \in Anchors PROVE Clean(a)' \/ (RangeHeard(a)' /\ Listed(rx[a].list, a)')
  <2>1. CASE Clean(a)
    BY <2>1, TxAnchors
  <2>2. CASE ~Clean(a)
    <3>1. n = theTag /\ Listed(tx[theTag].list, a) /\ tx[a] = None
      BY <1>3, <2>2, TxAnchors DEF Telling
    <3>2. CASE a \in R
      <4>1. Heard(a)' /\ rx'[a] = tx[theTag]
        BY <1>1, <3>1, <3>2, TxFacts
      <4>2. Type(rx'[a]) = "RANGE"
        BY <1>2, <3>1, <4>1
      <4>. QED BY <3>1, <4>1, <4>2 DEF RangeHeard, Listed
    <3>3. CASE a \notin R
      <4>1. a \notin down
        BY <2>2 DEF Clean, Knows
      <4>2. faults' = faults + 1 /\ faults \in Nat
        BY <1>1, <3>1, <3>3, <4>1, TxFacts
      <4>3. faults' # 0
        BY <4>2
      <4>. QED BY <4>3 DEF Clean
    <3>. QED BY <3>2, <3>3
  <2>. QED BY <2>1, <2>2
<1>8. Heard(theTag)' => Type(rx'[theTag]) # "POLL_ACK"
  BY <1>1, <1>2, <1>5
<1>9. \A m \in Node : Heard(m)' => Type(rx'[m]) \notin Greetings \cup {"POLL"}
  BY <1>2, <1>5 DEF Greetings
<1>. QED BY <1>4, <1>5, <1>6, <1>7, <1>8, <1>9 DEF Telling, Type

\* The POLL leaves: an anchor that does not hear it expects nothing of it.
LEMMA TxPollSent ==
  ASSUME OneTag, RoundInv, Knows, Asking, NEW n \in Node, AllIdle, tx[n] # None,
         NEW R \in SUBSET (Listening \ {n}), TxDone(n, R), tx[theTag] # None, Harmless'
  PROVE  Asking'
<1>1. theTag \in Node /\ Anchors \subseteq Node /\ (n # theTag => n \in Anchors) /\ theTag \notin Anchors
  BY TagFacts
<1>2. /\ PollToSend /\ Carry(Calls) /\ dev[theTag] # <<>>
      /\ \A a \in Anchors : tx[a] = None /\ Clean(a)
  BY DEF Asking, PollToSend, Own
<1>3. n = theTag
  BY <1>1, <1>2
<1>4. data[n] = tx[theTag] /\ Type(data[n]) = "POLL"
  <2>1. /\ data[n] = tx[theTag] /\ data[n].id.src = n /\ Formed(data[n])
        /\ Type(data[n]) \in Calls
    BY <1>2, <1>3, TxFacts DEF Carry
  <2>. QED BY <1>3, <2>1 DEF Formed, Calls
<1>5. \A a \in Anchors : a \in R => PollHeard(a)' /\ rx'[a] = tx[theTag]
  BY <1>1, <1>4, TxFacts DEF PollHeard, Type
<1>6. ASSUME NEW a \in Anchors, a \notin R, a \notin down PROVE expected[a] # "RANGE" /\ faults' # 0
  <2>1. faults' = faults + 1 /\ faults \in Nat
    BY <1>1, <1>2, <1>3, <1>6, TxFacts
  <2>2. faults = 0
    BY <2>1 DEF Harmless
  <2>. QED BY <1>2, <2>1, <2>2 DEF Clean
<1>7. \A a \in Anchors : Asked(a)'
  <2>. SUFFICES ASSUME NEW a \in Anchors, a \notin R PROVE ~Expects(a)'
    BY <1>5 DEF Asked
  <2>1. expected[a] # "RANGE"
    BY <1>6 DEF Knows
  <2>. QED BY <2>1, TxAnchors DEF Expects
<1>8. faults' = 0 => PollHeard(LastListed)'
  <2>. SUFFICES ASSUME faults' = 0 PROVE PollHeard(LastListed)'
    OBVIOUS
  <2>1. LastListed \in Anchors /\ LastListed' = LastListed
    BY <1>1, <1>2, LastIsListed, TxFacts DEF LastListed, LastOf
  <2>2. LastListed \notin down
    BY <2>1, TxFacts DEF Knows
  <2>3. LastListed \in R
    BY <1>6, <2>1, <2>2
  <2>. QED BY <1>5, <2>1, <2>3 DEF PollHeard
<1>9. ~Heard(theTag)' /\ tx'[theTag] = None
  BY <1>1, <1>3, TxFacts
<1>10. PollSent'
  BY <1>7, <1>8, <1>9 DEF PollSent, AckHeard
<1>11. Carry(Calls)'
  BY <1>2, TxKnows
<1>12. \A a \in Anchors : /\ PollHeard(a)' => SameAddresses(rx[a].list)'
                          /\ tx'[a] = None /\ Clean(a)'
  <2>. SUFFICES ASSUME NEW a \in Anchors
                PROVE  (PollHeard(a)' => SameAddresses(rx[a].list)') /\ tx'[a] = None /\ Clean(a)'
    OBVIOUS
  <2>1. tx'[a] = None /\ Clean(a)'
    BY <1>1, <1>2, TxFacts, TxAnchors
  <2>2. ASSUME PollHeard(a)' PROVE SameAddresses(rx[a].list)'
    <3>1. rx'[a] = tx[theTag] /\ dev'[theTag] = dev[theTag]
      BY <1>1, <1>5, <2>2, TxFacts DEF PollHeard
    <3>. QED BY <1>2, <3>1 DEF PollToSend, SameAddresses
  <2>. QED BY <2>1, <2>2
<1>. QED BY <1>1, <1>2, <1>9, <1>10, <1>11, <1>12, TxFacts DEF Asking

\* A POLL_ACK leaves: it reaches the tag, and that of the last device follows
\* all others.
LEMMA TxAckSent ==
  ASSUME OneTag, RoundInv, Knows, Asking, NEW n \in Node, AllIdle, tx[n] # None, Earliest(n),
         NEW R \in SUBSET (Listening \ {n}), TxDone(n, R), tx[theTag] = None, ~ackLost'
  PROVE  Asking'
<1>1. /\ theTag \in Node /\ Anchors \subseteq Node /\ n # theTag /\ n \in Anchors /\ theTag \notin Anchors
      /\ IInv /\ dev[theTag] \in Seq(Device) /\ Len(dev[theTag]) \in Nat /\ Consistent(dev[theTag])
  BY TagFacts, AtNode DEF RoundInv
<1>2. PollSent /\ Carry(Calls) /\ dev[theTag] # <<>> /\ expected[theTag] = "POLL_ACK"
  BY DEF Asking
<1>3. /\ LastListed \in Anchors /\ LastListed = dev[theTag][Len(dev[theTag])].short
      /\ Len(dev[theTag]) \in 1..Len(dev[theTag])
  BY <1>2, LastIsListed
<1>4. /\ data[n] = tx[n] /\ data[n].id.src = n /\ Type(data[n]) = "POLL_ACK"
      /\ Own(n) /\ Type(data[n]) \notin Greetings
  <2>1. /\ data[n] = tx[n] /\ data[n].id.src = n /\ Formed(data[n]) /\ Own(n)
        /\ Type(data[n]) \in Calls
    BY <1>2, TxFacts DEF Carry
  <2>. QED BY <1>1, <2>1 DEF Formed, Calls, Greetings
<1>5. data[n].id = Ack(n) /\ theTag \in R
  <2>1. OfRound(data[n])
    BY <1>4, WhichTalk DEF Polling, Rests
  <2>2. data[n].id = Ack(n)
    BY <1>4, <2>1 DEF OfRound
  <2>3. data[n].id.tag = theTag
    BY <2>2 DEF Ack
  <2>. QED BY <1>4, <2>2, <2>3, TxFacts
<1>6. /\ AckHeard(n)' /\ rx'[theTag] = data[n] /\ tx'[theTag] = None
      /\ dev'[theTag] = dev[theTag] /\ expected'[theTag] = expected[theTag] /\ LastListed' = LastListed
  BY <1>1, <1>5, TxFacts DEF AckHeard, LastListed, LastOf
<1>7. \A a \in Anchors : ~PollHeard(a)'
  BY <1>1, <1>4, TxFacts DEF PollHeard, Type
<1>8. ASSUME NEW a \in Anchors, a # n
      PROVE  tx'[a] = tx[a] /\ (AckToSend(a)' <=> AckToSend(a))
  BY <1>1, <1>8, TxFacts DEF AckToSend, Type
<1>9. ASSUME NEW a \in Anchors PROVE Asked(a)'
  <2>1. CASE a = n
    BY <1>4, <1>6, <2>1, TxAnchors DEF Asked
  <2>2. CASE a # n
    <3>1. Asked(a)
      BY <1>2 DEF PollSent
    <3>. QED BY <1>8, <2>2, <3>1, TxAnchors DEF Asked
  <2>. QED BY <2>1, <2>2
<1>10. ASSUME AckHeard(LastListed)', NEW a \in Anchors PROVE tx'[a] = None
  <2>1. n = LastListed
    <3>1. rx'[theTag].id = Ack(LastListed)
      BY <1>6, <1>10, TxFacts DEF AckHeard
    <3>. QED BY <1>4, <1>6, <3>1 DEF Ack
  <2>. SUFFICES ASSUME a # n, tx[a] # None PROVE FALSE
    BY <1>1, <1>8, TxFacts
  <2>2. PICK i \in 1..Len(dev[theTag]) : dev[theTag][i].short = n /\ tx[n].due = 2 * i - 1
    BY <1>1 DEF Asking
  <2>3. PICK k \in 1..Len(dev[theTag]) : dev[theTag][k].short = a /\ tx[a].due = 2 * k - 1
    BY DEF Asking
  <2>4. i = Len(dev[theTag])
    BY <1>1, <1>3, <2>1, <2>2 DEF Consistent, ShortAddressesDistinct
  <2>5. k # i
    BY <2>2, <2>3
  <2>6. tx[n].due <= tx[a].due
    BY <1>1 DEF Earliest
  <2>. QED BY <1>1, <2>2, <2>3, <2>4, <2>5, <2>6
<1>11. faults' = 0 => AckToSend(LastListed)' \/ AckHeard(LastListed)'
  <2>. SUFFICES ASSUME faults' = 0 PROVE AckToSend(LastListed)' \/ AckHeard(LastListed)'
    OBVIOUS
  <2>1. faults = 0
    BY TxFacts
  <2>2. AckToSend(LastListed)
    BY <1>2, <1>3, <2>1, TxAnchors DEF PollSent
  <2>3. CASE n = LastListed
    BY <1>6, <2>3 DEF AckHeard
  <2>4. CASE n # LastListed
    BY <1>3, <1>6, <1>8, <2>2, <2>4 DEF AckToSend
  <2>. QED BY <2>3, <2>4
<1>12. PollSent'
  BY <1>7, <1>9, <1>10, <1>11 DEF PollSent
<1>13. Carry(Calls)'
  BY <1>2, TxKnows
<1>14. \A a \in Anchors :
         /\ tx'[a] # None => \E i \in 1..Len(dev[theTag]) :
                               dev[theTag][i].short = a /\ tx'[a].due = 2 * i - 1
         /\ Clean(a)' \/ Listed(dev[theTag], a)
  <2>. SUFFICES ASSUME NEW a \in Anchors
                PROVE  /\ tx'[a] # None => \E i \in 1..Len(dev[theTag]) :
                                             dev[theTag][i].short = a /\ tx'[a].due = 2 * i - 1
                       /\ Clean(a)' \/ Listed(dev[theTag], a)
    OBVIOUS
  <2>1. tx'[a] # None => tx'[a] = tx[a]
    BY <1>1, TxFacts
  <2>2. /\ tx[a] # None => \E i \in 1..Len(dev[theTag]) :
                             dev[theTag][i].short = a /\ tx[a].due = 2 * i - 1
        /\ Clean(a) \/ Listed(dev[theTag], a)
    BY DEF Asking
  <2>. QED BY <2>1, <2>2, TxAnchors
<1>15. \A a \in Anchors : Listed(dev[theTag], a)' <=> Listed(dev[theTag], a)
  BY <1>6 DEF Listed
<1>. QED BY <1>2, <1>6, <1>7, <1>12, <1>13, <1>14, <1>15 DEF Asking

\* A frame that leaves, in each phase.
LEMMA TxGood ==
  ASSUME OneTag, FaultInv, NEW n \in Node, TimelyTx(n)
  PROVE  Knows' /\ (Harmless' => Good')
<1>1. PICK R \in SUBSET (Listening \ {n}) : TxDone(n, R)
  BY DEF TimelyTx
<1>2. AllIdle /\ tx[n] # None /\ Earliest(n) /\ RoundInv /\ Knows /\ (Harmless => Good)
  BY DEF TimelyTx, FaultInv
<1>3. Knows' /\ (Matched => Matched') /\ (Harmless' => Harmless)
      /\ (Carry(Calls) => Carry(Calls)')
  BY <1>1, <1>2, TxKnows
<1>. SUFFICES ASSUME Harmless' PROVE (Greeted \/ Asking \/ Telling \/ Aborted)'
  BY <1>2, <1>3 DEF Good
<1>4. Greeted \/ Asking \/ Telling \/ Aborted
  BY <1>2, <1>3 DEF Good
<1>5. CASE Greeted
  <2>1. \A a \in Anchors : Clean(a)'
    BY <1>1, <1>2, <1>5, TxAnchors DEF Greeted
  <2>2. \A m \in Node : /\ Own(m)' => Own(m) /\ data'[m] = data[m]
                        /\ Heard(m)' => Type(rx'[m]) \in Greetings
    BY <1>1, <1>2, <1>5, TxFacts DEF Greeted, Greeting
  <2>3. Greeting'
    BY <1>5, <2>2, StillGreeting DEF Greeted
  <2>. QED BY <2>1, <2>3 DEF Greeted
<1>6. CASE Asking
  BY <1>1, <1>2, <1>6, TxPollSent, TxAckSent DEF Harmless
<1>7. CASE Telling
  BY <1>1, <1>2, <1>7, TxTelling
<1>8. CASE Aborted
  <2>1. dev'[theTag] = <<>> /\ faults' # 0
    BY <1>1, <1>2, <1>8, TxFacts DEF Aborted
  <2>. QED BY <1>3, <1>8, <2>1 DEF Aborted
<1>. QED BY <1>4, <1>5, <1>6, <1>7, <1>8
------------------------------------------------------------------------------

\* While nothing has gone wrong a round is over when the air is quiet.
LEMMA QuietClean ==
  ASSUME OneTag, RoundInv, Good, Quiet
  PROVE  \A a \in Anchors : Clean(a)
<1>1. /\ theTag \in Node /\ Anchors \subseteq Node
      /\ \A n \in Node : ~Own(n) /\ ~Heard(n) /\ tx[n] = None
  BY TagFacts, QuietAir DEF Quiet
<1>2. CASE Greeted
  BY <1>2 DEF Greeted
<1>3. CASE Asking
  <2>1. PollSent /\ dev[theTag] # <<>>
    BY <1>1, <1>3 DEF Asking
  <2>2. LastListed \in Anchors
    BY <2>1, LastIsListed
  <2>3. faults # 0
    BY <1>1, <2>1, <2>2 DEF PollSent, PollHeard, AckToSend, AckHeard
  <2>. QED BY <2>3 DEF Clean
<1>4. CASE Telling
  BY <1>1, <1>4 DEF Telling, RangeHeard
<1>5. CASE Aborted
  BY <1>5 DEF Aborted, Clean
<1>. QED BY <1>2, <1>3, <1>4, <1>5 DEF Good

\* Ageing leaves the ranges alone, too.
LEMMA AgedRanges ==
  ASSUME IInv, NEW t \in Tags, dev' = [dev EXCEPT ![t] = Aged(dev[t])]
  PROVE  \A i \in 1..Len(dev[t]) : dev'[t][i].range = dev[t][i].range
<1>1. t \in Node /\ \A k \in 1..Len(dev[t]) : dev[t][k] \in Device
  BY AtNode DEF Node
<1>2. dev'[t] = Aged(dev[t])
  BY <1>1 DEF IInv, TypeOK
<1>3. \A d \in Device : Older(d).range = d.range
  BY DEF Older, Device
<1>. QED BY <1>1, <1>2, <1>3 DEF Aged

\* What a tick or a reset leaves alone.
LEMMA QuietSteps ==
  ASSUME OneTag, RoundInv, NEW n \in Node,
         (n \in Tags /\ TimelyTick(n)) \/ (n \in Anchors /\ TimelyReset(n))
  PROVE  /\ Beside(n) /\ IInv /\ Quiet /\ ~Heard(n)'
         /\ \A m \in Node : tx[m] = None
         /\ \A m \in Node \ {n} : ~Own(m)' /\ ~Heard(m)'
         /\ \A a \in Anchors : ~Own(a)' /\ (a # n => expected'[a] = expected[a])
         /\ UNCHANGED <<failed, down, faults, ackLost>>
         /\ Own(n)' => data'[n].range = None
         /\ \A m \in Node : /\ Len(dev'[m]) = Len(dev[m])
                            /\ \A i \in 1..Len(dev[m]) : /\ dev'[m][i].short = dev[m][i].short
                                                         /\ dev'[m][i].range = dev[m][i].range
                            /\ dev[m] # <<>> => dev'[m] # <<>>
<1>1. IInv /\ Quiet /\ ((n \in Tags /\ Tick(n)) \/ (n \in Anchors /\ ResetInactive(n)))
  BY DEF RoundInv, TimelyTick, TimelyReset
<1>2. Beside(n) /\ \A m \in Node \ {n} : ~Own(m)' /\ ~Heard(m)'
  BY <1>1, TickBeside, BesideQuiet
<1>3. ~sentAck[n] /\ ~receivedAck[n] /\ \A m \in Node : tx[m] = None
  BY <1>1, QuietAir DEF Quiet
<1>4. /\ UNCHANGED <<failed, down, faults, ackLost>> /\ pc'[n] # "handle" /\ UNCHANGED receivedAck
      /\ n \in Anchors \/ (n \notin Anchors /\ \A a \in Anchors : a # n /\ expected'[a] = expected[a])
  BY <1>1, TagFacts DEF Tick, TickPoll, TickBlink, TickIdle, ResetInactive, Goto, loopVars,
     chipVars, flagVars, worldVars, transmit, IInv, TypeOK
<1>5. ~Heard(n)'
  BY <1>3, <1>4 DEF Heard
<1>6. n \in Anchors =>
        /\ UNCHANGED <<sentAck, dev>> /\ tx'[n] = None
        /\ \A a \in Anchors : a # n => expected'[a] = expected[a]
  BY <1>1, TagFacts DEF ResetInactive, flagVars, IInv, TypeOK
<1>7. \A a \in Anchors : ~Own(a)' /\ (a # n => expected'[a] = expected[a])
  BY <1>2, <1>3, <1>4, <1>6, TagFacts DEF Own
<1>8. Own(n)' => data'[n].range = None
  BY <1>1, <1>3, <1>6 DEF Own, Tick, TickPoll, TickBlink, TickIdle, transmit, Mk, loopVars,
     chipVars, flagVars, IInv, TypeOK
<1>9. UNCHANGED dev \/ (n \in Tags /\ dev' = [dev EXCEPT ![n] = Aged(dev[n])])
  BY <1>1, <1>6 DEF Tick, TickPoll, TickBlink, TickIdle, loopVars
<1>10. /\ Len(dev'[n]) = Len(dev[n])
       /\ \A i \in 1..Len(dev[n]) : /\ dev'[n][i].short = dev[n][i].short
                                    /\ dev'[n][i].range = dev[n][i].range
  BY <1>1, <1>9, AgedTimes, AgedRanges DEF SameTimes
<1>11. \A m \in Node : /\ Len(dev'[m]) = Len(dev[m])
                       /\ \A i \in 1..Len(dev[m]) : /\ dev'[m][i].short = dev[m][i].short
                                                    /\ dev'[m][i].range = dev[m][i].range
  BY <1>2, <1>10 DEF Beside
<1>12. \A m \in Node : dev[m] # <<>> => dev'[m] # <<>>
  <2>1. \A m \in Node : dev[m] \in Seq(Device)
    BY <1>1, AtNode
  <2>2. Len(<<>>) = 0 /\ \A m \in Node : dev[m] # <<>> => Len(dev[m]) # 0
    BY <2>1, EmptySeq
  <2>. QED BY <1>11, <2>2
<1>. QED BY <1>1, <1>2, <1>3, <1>4, <1>5, <1>7, <1>8, <1>11, <1>12

\* A step in a quiet moment changes no range and frees no anchor.
LEMMA QuietKnows ==
  ASSUME OneTag, RoundInv, Knows, NEW n \in Node,
         (n \in Tags /\ TimelyTick(n)) \/ (n \in Anchors /\ TimelyReset(n)),
         \A a \in Anchors : expected'[a] = "RANGE" => expected[a] = "RANGE"
  PROVE  /\ Knows' /\ (Matched => Matched') /\ (Harmless' => Harmless)
         /\ (\A a \in Anchors : Clean(a)) => \A a \in Anchors : Clean(a)'
<1>1. theTag \in Node /\ Anchors \subseteq Node /\ ~Heard(theTag)'
  BY TagFacts, QuietSteps
<1>2. Knows'
  <2>1. \A i \in 1..Len(dev[theTag]) : dev[theTag][i].short \in Node
    BY <1>1 DEF RoundInv, Kinds
  <2>. QED BY <1>1, <2>1, QuietSteps DEF Knows
<1>3. Matched => Matched'
  <2>1. \A r : Proper(r)' <=> Proper(r)
    BY DEF Proper
  <2>2. Proper(None)
    BY DEF Proper
  <2>. QED BY <2>1, <2>2, QuietSteps DEF Matched
<1>4. (\A a \in Anchors : Clean(a)) => \A a \in Anchors : Clean(a)'
  BY QuietSteps DEF Clean
<1>. QED BY <1>2, <1>3, <1>4, QuietSteps DEF Harmless

\* The POLL of a tick finds every anchor free.
LEMMA TickAsks ==
  ASSUME OneTag, RoundInv, NEW t \in Tags, TimelyTick(t), TickPoll(t),
         \A a \in Anchors : Clean(a)'
  PROVE  Asking'
<1>1. t = theTag /\ t \in Node /\ Anchors \subseteq Node /\ t \notin Anchors
  BY TagFacts
<1>2. /\ IInv /\ Beside(t) /\ ~Heard(t)' /\ dev'[t] # <<>> /\ Len(dev'[t]) = Len(dev[t])
      /\ \A i \in 1..Len(dev[t]) : dev'[t][i].short = dev[t][i].short
      /\ \A m \in Node : tx[m] = None
      /\ \A m \in Node \ {t} : ~Own(m)' /\ ~Heard(m)'
  BY <1>1, QuietSteps DEF TickPoll
<1> DEFINE f == Mk("POLL", t, t, NextRound(t), 0, PollList(dev[t]), None)
<1>3. data'[t] = f /\ tx'[t] = f /\ expected'[t] = "POLL_ACK"
  BY <1>1, <1>2 DEF TickPoll, transmit, IInv, TypeOK
<1>4. f.list = PollList(dev[t]) /\ Type(f) = "POLL"
  BY DEF Mk, Type
<1>5. f # None
  <2>1. PollList(dev[t]) \in Seq(Entry) /\ NextRound(t) \in 0..MaxRound
    BY <1>1, <1>2, AtNode, ListTypes, NextRoundType
  <2>2. f \in Frame
    BY <1>1, <2>1, MkFrame DEF MessageType, MaybeDistance
  <2>. QED BY <2>2, NoneAssumption
<1>. HIDE DEF f
<1>6. Len(f.list) = Len(dev'[theTag])
      /\ \A i \in 1..Len(f.list) : f.list[i].short = dev'[theTag][i].short
  <2>1. PollList(dev[t]) \in Seq(Entry) /\ Len(dev[t]) \in Nat
    BY <1>1, <1>2, AtNode, ListTypes
  <2>2. /\ DOMAIN PollList(dev[t]) = 1..Len(dev[t])
        /\ \A i \in 1..Len(dev[t]) : PollList(dev[t])[i].short = dev[t][i].short
    BY DEF PollList
  <2>3. Len(PollList(dev[t])) = Len(dev[t])
    BY <2>1, <2>2, LenProperties
  <2>. QED BY <1>1, <1>2, <1>4, <2>2, <2>3
<1>7. PollToSend'
  <2>1. tx'[theTag] = f
    BY <1>1, <1>3
  <2>. QED BY <1>1, <1>2, <1>6, <2>1 DEF PollToSend, SameAddresses
<1>8. \A a \in Anchors : ~PollHeard(a)' /\ tx'[a] = None
  BY <1>1, <1>2 DEF PollHeard, Beside
<1>9. Carry(Calls)'
  BY <1>1, <1>2, <1>3, <1>4 DEF Carry, Calls, Type
<1>. QED BY <1>1, <1>2, <1>3, <1>5, <1>7, <1>8, <1>9 DEF Asking

\* A tick begins a round or a greeting.
LEMMA TickGood ==
  ASSUME OneTag, FaultInv, NEW t \in Tags, TimelyTick(t)
  PROVE  Knows' /\ (Harmless' => Good')
<1>1. /\ t = theTag /\ t \in Node /\ Anchors \subseteq Node /\ t \notin Anchors
      /\ RoundInv /\ Knows /\ (Harmless => Good) /\ IInv /\ Quiet /\ Tick(t)
  BY TagFacts DEF FaultInv, RoundInv, TimelyTick
<1>2. \A a \in Anchors : expected'[a] = expected[a]
  BY <1>1, QuietSteps
<1>3. /\ Knows' /\ (Matched => Matched') /\ (Harmless' => Harmless)
      /\ (\A a \in Anchors : Clean(a)) => \A a \in Anchors : Clean(a)'
  BY <1>1, <1>2, QuietKnows
<1>. SUFFICES ASSUME Harmless' PROVE (Greeted \/ Asking \/ Telling \/ Aborted)'
  BY <1>1, <1>3 DEF Good
<1>4. \A a \in Anchors : Clean(a)'
  BY <1>1, <1>3, QuietClean
<1>5. CASE TickPoll(t)
  BY <1>1, <1>4, <1>5, TickAsks
<1>6. CASE TickBlink(t) \/ TickIdle(t)
  <2>1. Own(t)' => Type(data'[t]) \in Greetings
    <3>1. CASE TickBlink(t)
      <4>1. data'[t].id.type = "BLINK"
        BY <1>1, <3>1 DEF TickBlink, transmit, Mk, IInv, TypeOK
      <4>. QED BY <4>1 DEF Type, Greetings
    <3>2. CASE TickIdle(t)
      BY <1>1, <3>2, QuietAir DEF TickIdle, Own, loopVars, chipVars, flagVars
    <3>. QED BY <1>6, <3>1, <3>2
  <2>2. Greeting'
    BY <1>1, <2>1, QuietSteps DEF Greeting, Type
  <2>. QED BY <1>4, <2>2 DEF Greeted
<1>. QED BY <1>1, <1>5, <1>6 DEF Tick

\* A reset finds nothing going on.
LEMMA ResetGood ==
  ASSUME OneTag, FaultInv, NEW a \in Anchors, TimelyReset(a)
  PROVE  Knows' /\ (Harmless' => Good')
<1>1. /\ a \in Node /\ Anchors \subseteq Node
      /\ RoundInv /\ Knows /\ (Harmless => Good) /\ IInv /\ Quiet /\ ResetInactive(a)
  BY TagFacts DEF FaultInv, RoundInv, TimelyReset
<1>2. \A b \in Anchors : expected'[b] = "RANGE" => expected[b] = "RANGE"
  BY <1>1 DEF ResetInactive, IInv, TypeOK
<1>3. /\ Knows' /\ (Matched => Matched') /\ (Harmless' => Harmless)
      /\ (\A b \in Anchors : Clean(b)) => \A b \in Anchors : Clean(b)'
  BY <1>1, <1>2, QuietKnows
<1>. SUFFICES ASSUME Harmless' PROVE (Greeted \/ Asking \/ Telling \/ Aborted)'
  BY <1>1, <1>3 DEF Good
<1>4. \A b \in Anchors : Clean(b)'
  BY <1>1, <1>3, QuietClean
<1>5. \A m \in Node : ~Own(m)' /\ ~Heard(m)'
  BY <1>1, QuietSteps
<1>. QED BY <1>4, <1>5 DEF Greeted, Greeting
------------------------------------------------------------------------------

\* A node that loses power takes its own frames with it, and is the one fault.
LEMMA PowerOffFacts ==
  ASSUME OneTag, RoundInv, NEW n \in Node, PowerOff(n)
  PROVE  /\ Beside(n) /\ faults' # 0 /\ (Harmless' => Harmless)
         /\ down' = down \cup {n} /\ dev'[n] = <<>> /\ tx'[n] = None
         /\ ~Own(n)' /\ ~Heard(n)' /\ ~Expects(n)' /\ expected'[n] # "RANGE"
         /\ Poll' = Poll /\ \A a : Ack(a)' = Ack(a)
         /\ \A m \in Node \ {n} :
              /\ (Own(m)' <=> Own(m)) /\ (Heard(m)' <=> Heard(m)) /\ (Expects(m)' <=> Expects(m))
              /\ UNCHANGED <<data[m], rx[m], tx[m], dev[m], expected[m]>>
         /\ \A a \in Anchors : /\ Clean(a)'
                               /\ (PollHeard(a)' <=> a # n /\ PollHeard(a))
                               /\ (RangeHeard(a)' <=> a # n /\ RangeHeard(a))
                               /\ (a # n => AckToSend(a)' = AckToSend(a))
                               /\ (a # n /\ Answered(a) => Answered(a)')
<1>1. IInv /\ Anchors \subseteq Node
  BY TagFacts DEF RoundInv
<1>2. Beside(n) /\ UNCHANGED <<round, ackLost>>
  BY <1>1 DEF PowerOff, Beside, IInv, TypeOK
<1>3. faults' = faults + 1 /\ faults \in Nat /\ down' = down \cup {n}
  BY <1>1, BoundsAssumption DEF PowerOff, IInv, TypeOK
<1>4. /\ ~Own(n)' /\ ~Heard(n)' /\ dev'[n] = <<>> /\ tx'[n] = None /\ expected'[n] = "POLL"
      /\ \A m \in Node \ {n} : UNCHANGED <<expected[m], failed[m]>>
  BY <1>1 DEF PowerOff, Own, Heard, IInv, TypeOK
<1>5. Poll' = Poll /\ \A a : Ack(a)' = Ack(a)
  BY <1>2, SameRoundFacts
<1>6. \A m \in Node \ {n} :
        /\ (Own(m)' <=> Own(m)) /\ (Heard(m)' <=> Heard(m)) /\ (Expects(m)' <=> Expects(m))
        /\ UNCHANGED <<data[m], rx[m], tx[m], dev[m], expected[m], lastSent[m]>>
  BY <1>2, <1>4 DEF Beside, Own, Heard, Expects
<1>7. faults' # 0 /\ (Harmless' => Harmless) /\ \A a \in Anchors : Clean(a)'
  BY <1>2, <1>3 DEF Harmless, Clean
<1>8. ASSUME NEW a \in Anchors
      PROVE  /\ (PollHeard(a)' <=> a # n /\ PollHeard(a))
             /\ (RangeHeard(a)' <=> a # n /\ RangeHeard(a))
  BY <1>1, <1>4, <1>6 DEF PollHeard, RangeHeard, Type
<1>9. ASSUME NEW a \in Anchors, a # n
      PROVE  AckToSend(a)' = AckToSend(a) /\ (Answered(a) => Answered(a)')
  BY <1>1, <1>2, <1>5, <1>6, <1>9 DEF Beside, AckToSend, Answered, Answering, PollTimed, AckTimed, Type
<1>. QED BY <1>2, <1>3, <1>4, <1>5, <1>6, <1>7, <1>8, <1>9 DEF Expects

\* A node loses power while the tag asks.
LEMMA PowerOffAsking ==
  ASSUME OneTag, RoundInv, Asking, NEW n \in Node, PowerOff(n)
  PROVE  Asking' \/ Aborted'
<1>1. theTag \in Node /\ Anchors \subseteq Node /\ theTag \notin Anchors
  BY TagFacts
<1>2. Carry(Calls)'
  BY PowerOffFacts DEF Asking, Carry, Type
<1>3. CASE n = theTag
  BY <1>2, <1>3, PowerOffFacts DEF Aborted
<1>4. CASE n # theTag
  <2>1. /\ UNCHANGED <<dev[theTag], tx[theTag], rx[theTag], expected[theTag]>>
        /\ (Heard(theTag)' <=> Heard(theTag))
    BY <1>1, <1>4, PowerOffFacts
  <2>2. LastListed' = LastListed /\ LastListed \in Anchors
    BY <2>1, LastIsListed DEF LastListed, LastOf, Asking
  <2>3. \A list : SameAddresses(list)' <=> SameAddresses(list)
    BY <2>1 DEF SameAddresses
  <2>4. \A a : (AckHeard(a)' <=> AckHeard(a)) /\ (AckNoted(a)' <=> AckNoted(a))
    BY <2>1, PowerOffFacts DEF AckHeard, AckNoted
  <2>5. ASSUME tx[theTag] # None PROVE PollToSend'
    <3>1. \A a \in Anchors : ~Own(a)' /\ ~Heard(a)'
      BY <1>1, <2>5, PowerOffFacts DEF Asking, PollToSend
    <3>. QED BY <2>1, <2>3, <2>5, <3>1, PowerOffFacts DEF Asking, PollToSend
  <2>6. ASSUME tx[theTag] = None PROVE PollSent'
    <3>1. PollSent
      BY <2>6 DEF Asking
    <3>2. \A a \in Anchors : Asked(a)'
      <4>. SUFFICES ASSUME NEW a \in Anchors, a # n PROVE Asked(a)'
        BY PowerOffFacts DEF Asked
      <4>1. Asked(a)
        BY <3>1 DEF PollSent
      <4>. QED BY <1>1, <2>4, <4>1, PowerOffFacts DEF Asked
    <3>3. AckHeard(LastListed)' => \A a \in Anchors : tx'[a] = None /\ ~PollHeard(a)'
      BY <1>1, <2>2, <2>4, <3>1, PowerOffFacts DEF PollSent
    <3>. QED BY <3>2, <3>3, PowerOffFacts DEF PollSent
  <2>7. \A a \in Anchors :
          /\ PollHeard(a)' => SameAddresses(rx[a].list)'
          /\ tx'[a] # None => \E i \in 1..Len(dev[theTag]) :
                                dev[theTag][i].short = a /\ tx'[a].due = 2 * i - 1
    <3>. SUFFICES ASSUME NEW a \in Anchors, a # n
                  PROVE  /\ PollHeard(a)' => SameAddresses(rx[a].list)'
                         /\ tx'[a] # None => \E i \in 1..Len(dev[theTag]) :
                                               dev[theTag][i].short = a /\ tx'[a].due = 2 * i - 1
      BY PowerOffFacts
    <3>1. UNCHANGED <<rx[a], tx[a]>> /\ (PollHeard(a)' => PollHeard(a))
      BY <1>1, PowerOffFacts
    <3>. QED BY <2>1, <3>1 DEF Asking, SameAddresses
  <2>. QED BY <1>2, <2>1, <2>5, <2>6, <2>7, PowerOffFacts DEF Asking
<1>. QED BY <1>3, <1>4

\* A node loses power while the tag tells.
LEMMA PowerOffTelling ==
  ASSUME OneTag, RoundInv, Telling, NEW n \in Node, PowerOff(n)
  PROVE  Telling'
<1>1. theTag \in Node /\ Anchors \subseteq Node /\ theTag \notin Anchors
  BY TagFacts
<1>2. \A m \in Node : /\ tx'[m] # None => tx'[m] = tx[m]
                      /\ Heard(m)' => Heard(m) /\ rx'[m] = rx[m]
  BY PowerOffFacts
<1>3. \A a \in Anchors : \A f : Told(a, f) => Told(a, f)'
  BY <1>1, PowerOffFacts DEF Told
<1>. QED BY <1>1, <1>2, <1>3, PowerOffFacts DEF Telling, Type, RangeHeard

\* Losing power is the one fault, and its return changes little.
LEMMA PowerGood ==
  ASSUME OneTag, FaultInv, NEW n \in Node, Power(n)
  PROVE  Knows' /\ (Harmless' => Good')
<1>1. RoundInv /\ Knows /\ (Harmless => Good) /\ theTag \in Node /\ Anchors \subseteq Node
  BY TagFacts DEF FaultInv
<1>2. CASE PowerOff(n)
  <2>1. Knows'
    BY <1>1, <1>2, PowerOffFacts DEF Knows
  <2>2. ASSUME Harmless' PROVE Good'
    <3>1. Good
      BY <1>1, <1>2, <2>2, PowerOffFacts
    <3>2. Matched'
      <4>1. ProperTable(dev'[n])
        BY <1>1, <1>2, PowerOffFacts DEF ProperTable
      <4>. QED BY <1>1, <1>2, <3>1, <4>1, PowerOffFacts, StillMatched DEF Good
    <3>3. Greeted => Greeted'
      BY <1>1, <1>2, PowerOffFacts DEF Greeted, Greeting, Type
    <3>4. Aborted => Aborted'
      <4>1. Carry(Calls) => Carry(Calls)'
        BY <1>1, <1>2, PowerOffFacts DEF Carry, Type
      <4>. QED BY <1>1, <1>2, <4>1, PowerOffFacts DEF Aborted
    <3>. QED BY <1>1, <1>2, <3>1, <3>2, <3>3, <3>4, PowerOffAsking, PowerOffTelling DEF Good
  <2>. QED BY <2>1, <2>2
<1>3. CASE PowerOn(n)
  <2>1. UNCHANGED <<data, expected, failed, dev, tx, rx, sentAck, round, faults, ackLost, pc, receivedAck>>
        /\ down' \subseteq down
    BY <1>3 DEF PowerOn, loopVars, timerVars, chipVars, flagVars
  <2>. QED BY <1>1, <2>1, SameGood DEF Heard
<1>. QED BY <1>2, <1>3 DEF Power
------------------------------------------------------------------------------
\* Every step the timing of the delays allows keeps the invariant.
THEOREM StepFaultInv == OneTag /\ FaultInv /\ [TimelyNext]_vars => FaultInv'
<1>. SUFFICES ASSUME OneTag, FaultInv, [TimelyNext]_vars PROVE FaultInv'
  OBVIOUS
<1>1. RoundInv /\ Knows /\ (Harmless => Good) /\ RoundInv'
  BY StepRoundInv DEF FaultInv
<1>2. Knows' /\ (Harmless' => Good')
  <2>1. CASE UNCHANGED vars
    <3>1. UNCHANGED <<pc, data, expected, failed, dev, tx, rx, sentAck, receivedAck, round, down,
                      faults, ackLost>>
      BY <2>1 DEF vars, loopVars, timerVars, chipVars, flagVars, worldVars
    <3>. QED BY <1>1, <3>1, SameGood DEF Heard
  <2>2. ASSUME NEW n \in Node, TimelyLoop(n) \/ TimelyTx(n) \/ Power(n)
        PROVE  Knows' /\ (Harmless' => Good')
    BY <1>1, <2>2, LoopGood, TxGood, PowerGood
  <2>3. ASSUME NEW t \in Tags, TimelyTick(t)
        PROVE  Knows' /\ (Harmless' => Good')
    BY <2>3, TickGood
  <2>4. ASSUME NEW a \in Anchors, TimelyReset(a)
        PROVE  Knows' /\ (Harmless' => Good')
    BY <2>4, ResetGood
  <2>. QED BY <2>1, <2>2, <2>3, <2>4 DEF TimelyNext
<1>. QED BY <1>1, <1>2 DEF FaultInv

\* With one tag, any one fault but a lost POLL_ACK leaves every stored range
\* computed from timestamps that belong together and kept for its tag
\* (DW1000Ranging.cpp:514-518, the checks of _expectedMsgId and
\* _protocolFailed), in every execution the delays allow and for any number of
\* anchors and rounds: TLC checks it for three anchors.
THEOREM OneFaultAlwaysHarmless ==
  ASSUME OneTag
  PROVE  TimelySpec => []OneFaultHarmless
<1>1. Init => FaultInv
  BY InitGood
<1>2. FaultInv /\ [TimelyNext]_vars => FaultInv'
  BY StepFaultInv
<1>3. FaultInv => OneFaultHarmless
  BY TagFacts DEF FaultInv, Harmless, Good, Matched, Proper, OneFaultHarmless, RangesMatched
<1>. QED BY <1>1, <1>2, <1>3, PTL DEF TimelySpec
=============================================================================
