------------------------ MODULE CircularBufferProofs ------------------------
(***************************************************************************)
(* CircularBuffer, for every capacity and set of values: it implements     *)
(* BoundedDeque.                                                           *)
(***************************************************************************)
EXTENDS CircularBuffer, TLAPS

USE CapacityAssumption, ValueAssumption DEF After, Before

\* Positions reach at most one turn beyond the array.
LEMMA ModOnce ==
    ASSUME NEW x \in Nat, x < 2 * S
    PROVE  x % S = IF x < S THEN x ELSE x - S
BY SMT

IInv == TypeOK /\ PointersAgree

\* The place of the i-th element, without %: where it is counted from head h.
Place(h, i) == IF h + (i - 1) < S THEN h + (i - 1) ELSE h + (i - 1) - S

\* Place is the program's position modulo the capacity.
LEMMA PlaceIsMod ==
    ASSUME NEW h \in 0 .. S - 1, NEW i \in 1 .. S
    PROVE  /\ (h + (i - 1)) % S = Place(h, i)
           /\ (h + i - 1) % S = Place(h, i)
<1>1. h + (i - 1) \in Nat /\ h + (i - 1) < 2 * S /\ h + (i - 1) = h + i - 1
  OBVIOUS
<1> QED BY <1>1, ModOnce DEF Place

\* Place stays in the array.
LEMMA PlaceRange ==
    ASSUME NEW h \in 0 .. S - 1, NEW i \in 1 .. S
    PROVE  Place(h, i) \in 0 .. S - 1
BY DEF Place

\* PointersAgree and items in terms of Place.
LEMMA Linear ==
    ASSUME TypeOK
    PROVE  /\ PointersAgree <=> (count > 0 => tail = Place(head, count))
           /\ items = [i \in 1 .. count |-> buffer[Place(head, i)]]
<1>1. ASSUME NEW i \in 1 .. S PROVE (head + (i - 1)) % S = Place(head, i)
  BY PlaceIsMod DEF TypeOK
<1>2. PointersAgree <=> (count > 0 => tail = Place(head, count))
  <2>1. CASE count > 0
    <3>1. (head + count - 1) % S = Place(head, count)
      BY <2>1, PlaceIsMod DEF TypeOK
    <3>2. ~isEmpty
      BY <2>1 DEF isEmpty
    <3> QED BY <2>1, <3>1, <3>2 DEF PointersAgree
  <2>2. CASE count = 0
    BY <2>2 DEF PointersAgree, isEmpty
  <2> QED BY <2>1, <2>2 DEF TypeOK
<1>3. items = [i \in 1 .. count |-> buffer[Place(head, i)]]
  <2>1. 1 .. count \subseteq 1 .. S
    BY DEF TypeOK
  <2> QED BY <1>1, <2>1 DEF items
<1> QED BY <1>2, <1>3

\* The same facts about the next state.
LEMMA LinearNext ==
    ASSUME TypeOK'
    PROVE  /\ PointersAgree' <=> (count' > 0 => tail' = Place(head', count'))
           /\ items' = [i \in 1 .. count' |-> buffer'[Place(head', i)]]
<1>1. ASSUME NEW i \in 1 .. S PROVE (head' + (i - 1)) % S = Place(head', i)
  BY PlaceIsMod DEF TypeOK
<1>2. PointersAgree' <=> (count' > 0 => tail' = Place(head', count'))
  <2>1. CASE count' > 0
    <3>1. (head' + count' - 1) % S = Place(head', count')
      <4>1. head' \in 0 .. S - 1 /\ count' \in 1 .. S
        BY <2>1 DEF TypeOK
      <4> QED BY <4>1, PlaceIsMod
    <3>2. ~isEmpty'
      BY <2>1 DEF isEmpty
    <3> QED BY <2>1, <3>1, <3>2 DEF PointersAgree
  <2>2. CASE count' = 0
    BY <2>2 DEF PointersAgree, isEmpty
  <2> QED BY <2>1, <2>2 DEF TypeOK
<1>3. items' = [i \in 1 .. count' |-> buffer'[Place(head', i)]]
  <2>1. 1 .. count' \subseteq 1 .. S
    BY DEF TypeOK
  <2> QED BY <1>1, <2>1 DEF items
<1> QED BY <1>2, <1>3

\* The invariant holds initially.
LEMMA InitIInv == Init => IInv
BY DEF Init, IInv, TypeOK, PointersAgree, isEmpty

\* Every operation keeps both pointers in the array and in agreement.
LEMMA NextIInv == IInv /\ [Next]_vars => IInv'
<1> SUFFICES ASSUME IInv, [Next]_vars PROVE IInv'
  OBVIOUS
<1>a. TypeOK /\ (count > 0 => tail = Place(head, count))
  BY Linear DEF IInv
<1>b. SUFFICES TypeOK' /\ (count' > 0 => tail' = Place(head', count'))
  BY LinearNext DEF IInv
<1> USE <1>a DEF TypeOK, Place
<1>1. ASSUME NEW v \in Value, Unshift(v)
      PROVE  TypeOK' /\ (count' > 0 => tail' = Place(head', count'))
  <2>1. /\ head' \in 0 .. S - 1 /\ tail' \in 0 .. S - 1
        /\ count' \in 0 .. S /\ got' \in Value
    BY <1>1, SMTT(30) DEF Unshift
  <2>2. buffer' \in [0 .. S - 1 -> Value]
    BY <1>1, <2>1 DEF Unshift
  <2>3. added' \in BOOLEAN
    BY <1>1, Zenon DEF Unshift
  <2>4. tail' = Place(head', count')
    <3>1. CASE count = S
      BY <1>1, <3>1 DEF Unshift
    <3>2. CASE count = 0
      BY <1>1, <3>2 DEF Unshift
    <3>3. CASE count > 0 /\ count < S
      BY <1>1, <3>3 DEF Unshift
    <3> QED BY <3>1, <3>2, <3>3
  <2> QED BY <2>1, <2>2, <2>3, <2>4, Zenon DEF TypeOK
<1>2. ASSUME NEW v \in Value, Push(v)
      PROVE  TypeOK' /\ (count' > 0 => tail' = Place(head', count'))
  <2>1. /\ head' \in 0 .. S - 1 /\ tail' \in 0 .. S - 1
        /\ count' \in 0 .. S /\ got' \in Value
    BY <1>2, SMTT(30) DEF Push
  <2>2. buffer' \in [0 .. S - 1 -> Value]
    BY <1>2, <2>1 DEF Push
  <2>3. added' \in BOOLEAN
    BY <1>2, Zenon DEF Push
  <2>4. tail' = Place(head', count')
    <3>1. CASE count = S
      BY <1>2, <3>1 DEF Push
    <3>2. CASE count = 0
      BY <1>2, <3>2 DEF Push
    <3>3. CASE count > 0 /\ count < S
      BY <1>2, <3>3 DEF Push
    <3> QED BY <3>1, <3>2, <3>3
  <2> QED BY <2>1, <2>2, <2>3, <2>4, Zenon DEF TypeOK
<1>3. CASE Shift
  BY <1>3 DEF Shift
<1>4. CASE Pop
  BY <1>4 DEF Pop
<1>5. CASE First \/ Last
  BY <1>5 DEF First, Last
<1>6. ASSUME NEW i \in 0 .. S - 1, Index(i)
      PROVE  TypeOK' /\ (count' > 0 => tail' = Place(head', count'))
  <2>1. (head + i) % S \in 0 .. S - 1
    BY ModOnce
  <2> QED BY <1>6, <2>1 DEF Index
<1>7. CASE Clear
  BY <1>7 DEF Clear
<1>8. CASE UNCHANGED vars
  BY <1>8 DEF vars
<1> QED BY <1>1, <1>2, <1>3, <1>4, <1>5, <1>6, <1>7, <1>8 DEF Next

\* The pointers never leave the array and never disagree with the count.
THEOREM Invariance == Spec => []IInv
BY InitIInv, NextIInv, PTL DEF Spec

\* The pointers never leave the array, nor the count the capacity.
THEOREM TypeCorrect == Spec => []TypeOK
<1>1. IInv => TypeOK
  BY DEF IInv
<1> QED BY <1>1, Invariance, PTL

\* head, tail and count always describe the same stretch of the ring.
THEOREM PointersCorrect == Spec => []PointersAgree
<1>1. IInv => PointersAgree
  BY DEF IInv
<1> QED BY <1>1, Invariance, PTL

\* The elements as a sequence.
LEMMA ItemsType ==
    ASSUME IInv
    PROVE  /\ items \in Seq(Value)
           /\ Len(items) = count
           /\ \A i \in 1 .. count : items[i] = buffer[Place(head, i)] /\ Place(head, i) \in 0 .. S - 1
<1>1. items = [i \in 1 .. count |-> buffer[Place(head, i)]] /\ count \in Nat
  BY Linear DEF IInv, TypeOK
<1>2. ASSUME NEW i \in 1 .. count
      PROVE  Place(head, i) \in 0 .. S - 1 /\ buffer[Place(head, i)] \in Value
  <2>1. Place(head, i) \in 0 .. S - 1
    BY DEF IInv, TypeOK, Place
  <2> QED BY <2>1 DEF IInv, TypeOK
<1> QED BY <1>1, <1>2

\* After a step the contents are still a sequence of values.
LEMMA NextItemsType ==
    ASSUME IInv'
    PROVE  items' \in Seq(Value) /\ Len(items') = count'
<1>1. items' = [i \in 1 .. count' |-> buffer'[Place(head', i)]] /\ count' \in Nat
  BY LinearNext DEF IInv, TypeOK
<1>2. ASSUME NEW i \in 1 .. count' PROVE buffer'[Place(head', i)] \in Value
  <2>1. Place(head', i) \in 0 .. S - 1
    <3>1. head' \in 0 .. S - 1 /\ count' \in 0 .. S
      BY DEF IInv, TypeOK
    <3>2. i \in 1 .. S
      BY <3>1
    <3> QED BY <3>1, <3>2, PlaceRange
  <2> QED BY <2>1 DEF IInv, TypeOK
<1> QED BY <1>1, <1>2

\* An empty ring is the empty deque.
LEMMA InitDeque == Init => Deque!Init
BY DEF Init, items, Deque!Init

\* push is Push of the deque: the write hits a free element, or the oldest one.
LEMMA PushDeque ==
    ASSUME IInv, IInv', NEW v \in Value, Push(v)
    PROVE  Deque!Push(v)
<1>1. items' = [i \in 1 .. count' |-> buffer'[Place(head', i)]]
  BY LinearNext DEF IInv
<1>2. /\ buffer \in [0 .. S - 1 -> Value] /\ head \in 0 .. S - 1 /\ tail \in 0 .. S - 1
      /\ count \in 0 .. S /\ (count > 0 => tail = Place(head, count))
  BY Linear DEF IInv, TypeOK
<1>3. tail' \in 0 .. S - 1 /\ buffer' = [buffer EXCEPT ![tail'] = v]
  BY <1>2 DEF Push
<1>4. CASE count < S
  <2>1. /\ count' = count + 1 /\ added' = TRUE /\ got' = got
        /\ head' = IF count = 0 THEN tail' ELSE head
    BY <1>2, <1>4 DEF Push
  <2>2. Place(head', count + 1) = tail'
    BY <1>2, <1>4, <2>1 DEF Push, Place
  <2>3. ASSUME NEW i \in 1 .. count PROVE buffer'[Place(head', i)] = items[i]
    <3>1. head' = head /\ Place(head, i) \in 0 .. S - 1 /\ Place(head, i) # tail'
      BY <1>2, <1>4, <2>1 DEF Push, Place
    <3> QED BY <1>2, <1>3, <3>1, ItemsType
  <2>4. items' = Append(items, v)
    BY <1>1, <1>2, <1>3, <2>1, <2>2, <2>3, ItemsType
  <2> QED BY <1>2, <1>4, <2>1, <2>4, ItemsType DEF Deque!Push
<1>5. CASE count = S
  <2>1. /\ count' = count /\ added' = FALSE /\ got' = got
        /\ head' = IF head + 1 = S THEN 0 ELSE head + 1
    BY <1>5 DEF Push
  <2>2. Place(head', count) = tail'
    BY <1>2, <1>5, <2>1 DEF Push, Place
  <2>3. ASSUME NEW i \in 1 .. count - 1 PROVE buffer'[Place(head', i)] = items[i + 1]
    <3>1. Place(head', i) = Place(head, i + 1) /\ Place(head', i) # tail'
          /\ i + 1 \in 1 .. count /\ Place(head, i + 1) \in 0 .. S - 1
      BY <1>2, <1>5, <2>1 DEF Push, Place
    <3> QED BY <1>2, <1>3, <3>1, ItemsType
  <2>4. items' = Append(Tail(items), v)
    <3>1. items # << >> /\ Tail(items) \in Seq(Value) /\ Len(Tail(items)) = count - 1
      BY <1>2, <1>5, ItemsType
    <3>2. \A i \in 1 .. count - 1 : Tail(items)[i] = items[i + 1]
      BY <1>2, <3>1, ItemsType
    <3>3. ASSUME NEW i \in 1 .. count PROVE items'[i] = Append(Tail(items), v)[i]
      <4>1. CASE i = count
        BY <1>1, <1>2, <1>3, <2>1, <2>2, <3>1, <4>1
      <4>2. CASE i < count
        <5>1. i \in 1 .. count - 1 /\ items'[i] = buffer'[Place(head', i)]
          BY <1>1, <1>2, <2>1, <4>2
        <5>2. Append(Tail(items), v)[i] = Tail(items)[i]
          BY <1>2, <3>1, <5>1
        <5>3. items'[i] = items[i + 1]
          BY <2>3, <5>1
        <5>4. Tail(items)[i] = items[i + 1]
          BY <3>2, <5>1
        <5> QED BY <5>2, <5>3, <5>4, Zenon
      <4>3. i = count \/ i < count
        BY <1>2
      <4> QED BY <4>1, <4>2, <4>3
    <3>4. Append(Tail(items), v) \in Seq(Value) /\ Len(Append(Tail(items), v)) = count
      BY <1>2, <3>1
    <3>5. items' \in Seq(Value) /\ Len(items') = count
      BY ItemsType, <1>1, <1>2, <2>1, NextItemsType
    <3> QED BY <3>3, <3>4, <3>5
  <2>5. (Len(items) < S) = FALSE
    BY <1>5, ItemsType
  <2> QED BY <2>1, <2>4, <2>5, Zenon DEF Deque!Push
<1> QED BY <1>2, <1>4, <1>5

\* unshift is Unshift of the deque.
LEMMA UnshiftDeque ==
    ASSUME IInv, IInv', NEW v \in Value, Unshift(v)
    PROVE  Deque!Unshift(v)
<1>1. items' = [i \in 1 .. count' |-> buffer'[Place(head', i)]]
  BY LinearNext DEF IInv
<1>2. /\ buffer \in [0 .. S - 1 -> Value] /\ head \in 0 .. S - 1 /\ count \in 0 .. S
  BY DEF IInv, TypeOK
<1>3. /\ head' \in 0 .. S - 1 /\ buffer' = [buffer EXCEPT ![head'] = v]
      /\ head' = IF head = 0 THEN S - 1 ELSE head - 1
  BY <1>2 DEF Unshift
<1>4. /\ count' = IF count < S THEN count + 1 ELSE S
      /\ got' = got
  BY <1>2 DEF Unshift
<1>5. ASSUME NEW i \in 1 .. count'
      PROVE  buffer'[Place(head', i)] = IF i = 1 THEN v ELSE items[i - 1]
  <2>1. CASE i = 1
    BY <1>2, <1>3, <2>1 DEF Place
  <2>2. CASE i > 1
    <3>1. /\ Place(head', i) = Place(head, i - 1) /\ Place(head', i) # head'
          /\ i - 1 \in 1 .. count /\ Place(head, i - 1) \in 0 .. S - 1
      BY <1>2, <1>3, <1>4, <2>2 DEF Place
    <3> QED BY <1>2, <1>3, <2>2, <3>1, ItemsType
  <2> QED BY <2>1, <2>2, <1>2, <1>4
<1>6. items' = [i \in 1 .. (IF Len(items) < S THEN Len(items) + 1 ELSE S) |->
                    IF i = 1 THEN v ELSE items[i - 1]]
  BY <1>1, <1>4, <1>5, ItemsType
<1>7. added' = (Len(items) < S)
  <2>1. CASE count = S
    <3>1. added' = FALSE
      BY <2>1 DEF Unshift
    <3>2. (Len(items) < S) = FALSE
      BY <2>1, ItemsType
    <3> QED BY <3>1, <3>2
  <2>2. CASE count < S
    <3>1. added' = TRUE
      BY <2>2, <1>2 DEF Unshift
    <3>2. (Len(items) < S) = TRUE
      BY <2>2, ItemsType
    <3> QED BY <3>1, <3>2
  <2> QED BY <1>2, <2>1, <2>2
<1> QED BY <1>4, <1>6, <1>7, Zenon DEF Deque!Unshift

\* shift is Shift of the deque.
LEMMA ShiftDeque == ASSUME IInv, IInv', Shift PROVE Deque!Shift
<1>1. items' = [i \in 1 .. count' |-> buffer'[Place(head', i)]]
  BY LinearNext DEF IInv
<1>2. head \in 0 .. S - 1 /\ count \in 1 .. S
  BY DEF IInv, TypeOK, Shift
<1>3. /\ head' = IF head + 1 >= S THEN 0 ELSE head + 1
      /\ buffer' = buffer /\ got' = buffer[head] /\ count' = count - 1
  BY DEF Shift
<1>4. items # << >> /\ Tail(items) \in Seq(Value) /\ Len(Tail(items)) = count - 1
      /\ \A i \in 1 .. count - 1 : Tail(items)[i] = items[i + 1]
  BY <1>2, ItemsType
<1>5. ASSUME NEW i \in 1 .. count - 1 PROVE items'[i] = Tail(items)[i]
  <2>1. Place(head', i) = Place(head, i + 1) /\ i + 1 \in 1 .. count
    BY <1>2, <1>3 DEF Place
  <2> QED BY <1>1, <1>3, <1>4, <2>1, ItemsType
<1>6. items' = Tail(items)
  BY <1>2, <1>3, <1>4, <1>5, NextItemsType
<1>7. got' = items[1]
  BY <1>2, <1>3, ItemsType DEF Place
<1>8. added' = added
  BY DEF Shift
<1> QED BY <1>4, <1>6, <1>7, <1>8, Zenon DEF Deque!Shift

\* pop is Pop of the deque: the tail is where the head and the count say.
LEMMA PopDeque == ASSUME IInv, IInv', Pop PROVE Deque!Pop
<1>1. items' = [i \in 1 .. count' |-> buffer'[Place(head', i)]]
  BY LinearNext DEF IInv
<1>2. head \in 0 .. S - 1 /\ count \in 1 .. S /\ tail = Place(head, count)
  BY Linear DEF IInv, TypeOK, Pop
<1>3. head' = head /\ buffer' = buffer /\ got' = buffer[tail] /\ count' = count - 1
  BY DEF Pop
<1>4. items # << >>
  BY <1>2, ItemsType
<1>5. items' = [i \in 1 .. Len(items) - 1 |-> items[i]]
  BY <1>1, <1>2, <1>3, ItemsType
<1>6. got' = items[Len(items)]
  BY <1>2, <1>3, ItemsType
<1>7. added' = added
  BY DEF Pop
<1> QED BY <1>4, <1>5, <1>6, <1>7, Zenon DEF Deque!Pop

\* first, last and [] read an element of the deque.
LEMMA ReadDeque ==
    ASSUME IInv, First \/ Last \/ \E i \in 0 .. S - 1 : Index(i)
    PROVE  \E i \in 1 .. Len(items) : Deque!At(i)
<1>0. Len(items) = count /\ count \in 0 .. S /\ head \in 0 .. S - 1
  BY ItemsType DEF IInv, TypeOK
<1>1. CASE First
  <2>1. 1 \in 1 .. Len(items) /\ got' = items[1]
    BY <1>0, <1>1, ItemsType DEF First, Place
  <2>2. items' = items /\ added' = added
    BY <1>1 DEF First, items
  <2> QED BY <2>1, <2>2 DEF Deque!At
<1>2. CASE Last
  <2>1. count > 0 /\ tail = Place(head, count)
    BY <1>2, Linear DEF Last, IInv
  <2>2. count \in 1 .. Len(items) /\ got' = items[count]
    BY <1>0, <1>2, <2>1, ItemsType DEF Last
  <2>3. items' = items /\ added' = added
    BY <1>2 DEF Last, items
  <2> QED BY <2>2, <2>3 DEF Deque!At
<1>3. ASSUME NEW i \in 0 .. S - 1, Index(i) PROVE \E j \in 1 .. Len(items) : Deque!At(j)
  <2>1. i + 1 \in 1 .. count /\ i + 1 \in 1 .. S /\ (i + 1) - 1 = i
    BY <1>0, <1>3 DEF Index
  <2>2. (head + i) % S = Place(head, i + 1)
    BY <1>0, <2>1, PlaceIsMod
  <2>3. got' = items[i + 1]
    BY <1>3, <2>1, <2>2, ItemsType DEF Index
  <2>4. items' = items /\ added' = added
    BY <1>3 DEF Index, items
  <2> QED BY <1>0, <2>1, <2>3, <2>4 DEF Deque!At
<1> QED BY <1>1, <1>2, <1>3

\* Every operation of the ring is the operation of the deque.
LEMMA StepDeque == IInv /\ IInv' /\ [Next]_vars => [Deque!Next]_Deque!vars
<1> SUFFICES ASSUME IInv, IInv', [Next]_vars PROVE [Deque!Next]_Deque!vars
  OBVIOUS
<1>1. CASE \E v \in Value : Unshift(v) \/ Push(v)
  BY <1>1, UnshiftDeque, PushDeque DEF Deque!Next
<1>2. CASE Shift
  BY <1>2, ShiftDeque DEF Deque!Next
<1>3. CASE Pop
  BY <1>3, PopDeque DEF Deque!Next
<1>4. CASE First \/ Last \/ \E i \in 0 .. S - 1 : Index(i)
  BY <1>4, ReadDeque DEF Deque!Next
<1>5. CASE Clear
  <2>1. items' = << >> /\ added' = added /\ got' = got
    BY <1>5 DEF Clear, items
  <2> QED BY <2>1 DEF Deque!Next, Deque!Clear
<1>6. CASE UNCHANGED vars
  BY <1>6 DEF vars, items, Deque!vars
<1> QED BY <1>1, <1>2, <1>3, <1>4, <1>5, <1>6 DEF Next

\* The ring implements the bounded deque, for every capacity.
THEOREM ImplementsDeque == Spec => DequeSpec
<1>1. Spec => Deque!Init /\ [][Deque!Next]_Deque!vars
  BY InitDeque, StepDeque, Invariance, PTL DEF Spec
<1> QED BY <1>1 DEF DequeSpec, Deque!Spec
=============================================================================
