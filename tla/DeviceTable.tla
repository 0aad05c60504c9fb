----------------------------- MODULE DeviceTable -----------------------------
(***************************************************************************)
(* The array _networkDevices[0 .. _networkDevicesNumber-1] of              *)
(* DW1000RangingClass and the operations that read and change it.  A table *)
(* is a sequence of device records; the program's index i is position i+1. *)
(* Every record has at least                                               *)
(*   short : the two-byte short address,  eui : the eight-byte address,    *)
(*   index : the field DW1000Device::_index.                               *)
(***************************************************************************)
EXTENDS Integers, Sequences

\* The position searchDistantDevice stops at, or 0 where it returns nullptr.
searchDistantDevice(table, short) ==
  IF \E i \in 1..Len(table) : table[i].short = short
  THEN CHOOSE i \in 1..Len(table) :
         /\ table[i].short = short
         /\ \A j \in 1..(i - 1) : table[j].short # short
  ELSE 0

\* What the two overloads of addNetworkDevices look for before they append:
\* the tag's overload compares short addresses, the anchor's both addresses.
KnownShort(table, d) == \E i \in 1..Len(table) : table[i].short = d.short
KnownBoth(table, d) ==
  \E i \in 1..Len(table) : table[i].short = d.short /\ table[i].eui = d.eui

\* setIndex.
WithIndex(d, index) == [d EXCEPT !.index = index]

\* Both overloads copy the device behind the last one and set its index.
Appended(table, d) == Append(table, WithIndex(d, Len(table)))

\* Mutants of removeNetworkDevices: the devices that move keep their index; the
\* index is set one too low.
RemoveKeepsIndex(table, i) ==
  [k \in 1..(Len(table) - 1) |-> IF k < i THEN table[k] ELSE table[k + 1]]
RemoveOffByOne(table, i) ==
  [k \in 1..(Len(table) - 1) |->
     IF k < i THEN table[k] ELSE WithIndex(table[k + 1], k - 2)]

\* removeNetworkDevices(i-1): the devices behind position i move up by one and
\* their index is set again.
removeNetworkDevices(table, i) ==
  [k \in 1..(Len(table) - 1) |->
     IF k < i THEN table[k] ELSE WithIndex(table[k + 1], k - 1)]

\* No two devices of a table answer to one short address.
ShortAddressesDistinct(table) ==
  \A i, j \in 1..Len(table) : table[i].short = table[j].short => i = j

\* The index a device carries is its place in the array.
IndexIsPlace(table) == \A i \in 1..Len(table) : table[i].index = i - 1
==============================================================================
