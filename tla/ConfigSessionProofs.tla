------------------------ MODULE ConfigSessionProofs ------------------------
(***************************************************************************)
(* The settings of the devices of ConfigSession, for every set of items,   *)
(* EEPROMs, radios and typed values, and lines of any length: they are     *)
(* registers, a transmitter's radio follows them, and the tool shows them. *)
(***************************************************************************)
EXTENDS ConfigSession, TLAPS

\* A frame about a setting.
Of(f, op, i) == f.op = op /\ f.item = i

\* Such a frame is in queue q; the last of them in q says v.
Has(q, op, i) == \E n \in 1 .. Len(q) : Of(q[n], op, i)

Last(q, op, i, v) ==
    \E n \in 1 .. Len(q) : /\ Of(q[n], op, i) /\ q[n].value = v
                           /\ \A m \in n + 1 .. Len(q) : ~Of(q[m], op, i)

\* Whoever holds a, and takes over each value that q says of i, ends with b.
Ends(q, op, i, a, b) == IF Has(q, op, i) THEN Last(q, op, i, b) ELSE a = b

LEMMA HasAppend ==
    ASSUME NEW E, NEW q \in Seq(E), NEW f \in E, NEW op, NEW i
    PROVE  Has(Append(q, f), op, i) <=> Has(q, op, i) \/ Of(f, op, i)
<1> DEFINE r == Append(q, f)
<1>1. /\ Len(r) = Len(q) + 1 /\ Len(q) \in Nat
      /\ r[Len(q) + 1] = f
      /\ \A n \in 1 .. Len(q) : r[n] = q[n]
  OBVIOUS
<1> HIDE DEF r
<1>2. ASSUME Has(q, op, i) \/ Of(f, op, i) PROVE Has(r, op, i)
  BY <1>1, <1>2 DEF Has
<1>3. ASSUME Has(r, op, i) PROVE Has(q, op, i) \/ Of(f, op, i)
  BY <1>1, <1>3 DEF Has
<1> QED BY <1>2, <1>3 DEF r

LEMMA HasTail ==
    ASSUME NEW E, NEW q \in Seq(E), q # << >>, NEW op, NEW i
    PROVE  Has(q, op, i) <=> Of(Head(q), op, i) \/ Has(Tail(q), op, i)
<1> DEFINE r == Tail(q)
<1>1. /\ Len(q) = Len(r) + 1 /\ Len(r) \in Nat
      /\ Head(q) = q[1]
      /\ \A n \in 1 .. Len(r) : r[n] = q[n + 1]
  OBVIOUS
<1> HIDE DEF r
<1>2. ASSUME Has(q, op, i) PROVE Of(Head(q), op, i) \/ Has(r, op, i)
  <2>1. PICK n \in 1 .. Len(q) : Of(q[n], op, i)
    BY <1>2 DEF Has
  <2>2. ASSUME n # 1 PROVE n - 1 \in 1 .. Len(r) /\ r[n - 1] = q[n]
    BY <1>1, <2>2
  <2> QED BY <1>1, <2>1, <2>2 DEF Has
<1>3. ASSUME Of(Head(q), op, i) PROVE Has(q, op, i)
  BY <1>1, <1>3 DEF Has
<1>4. ASSUME Has(r, op, i) PROVE Has(q, op, i)
  <2>1. PICK n \in 1 .. Len(r) : Of(r[n], op, i)
    BY <1>4 DEF Has
  <2>2. n + 1 \in 1 .. Len(q) /\ Of(q[n + 1], op, i)
    BY <1>1, <2>1
  <2> QED BY <2>2 DEF Has
<1> QED BY <1>2, <1>3, <1>4 DEF r

LEMMA HasConcat ==
    ASSUME NEW E, NEW q \in Seq(E), NEW r \in Seq(E), NEW op, NEW i
    PROVE  Has(q \o r, op, i) <=> Has(q, op, i) \/ Has(r, op, i)
<1> DEFINE c == q \o r
<1>1. /\ Len(c) = Len(q) + Len(r) /\ Len(q) \in Nat /\ Len(r) \in Nat
      /\ \A n \in 1 .. Len(q) : c[n] = q[n]
      /\ \A n \in Len(q) + 1 .. Len(q) + Len(r) : c[n] = r[n - Len(q)]
  OBVIOUS
<1> HIDE DEF c
<1>2. ASSUME NEW n \in 1 .. Len(r) PROVE n + Len(q) \in 1 .. Len(c) /\ c[n + Len(q)] = r[n]
  BY <1>1
<1>3. ASSUME Has(q, op, i) \/ Has(r, op, i) PROVE Has(c, op, i)
  BY <1>1, <1>2, <1>3 DEF Has
<1>4. ASSUME Has(c, op, i) PROVE Has(q, op, i) \/ Has(r, op, i)
  <2>1. PICK n \in 1 .. Len(c) : Of(c[n], op, i)
    BY <1>4 DEF Has
  <2>2. CASE n \in 1 .. Len(q)
    BY <1>1, <2>1, <2>2 DEF Has
  <2>3. CASE n \notin 1 .. Len(q)
    <3>1. n - Len(q) \in 1 .. Len(r) /\ c[n] = r[n - Len(q)]
      BY <1>1, <2>3
    <3> QED BY <2>1, <3>1 DEF Has
  <2> QED BY <2>2, <2>3
<1> QED BY <1>3, <1>4 DEF c

\* The last word is the last frame's.
LEMMA LastAppend ==
    ASSUME NEW E, NEW q \in Seq(E), NEW f \in E, NEW op, NEW i, Of(f, op, i)
    PROVE  Last(Append(q, f), op, i, f.value)
<1> DEFINE r == Append(q, f)
<1>1. Len(r) = Len(q) + 1 /\ Len(q) \in Nat /\ r[Len(q) + 1] = f
  OBVIOUS
<1> HIDE DEF r
<1>2. Last(r, op, i, f.value)
  BY <1>1 DEF Last
<1> QED BY <1>2 DEF r

LEMMA EndsAppend ==
    ASSUME NEW E, NEW q \in Seq(E), NEW f \in E, NEW op, NEW i, NEW a, NEW b,
           Ends(q, op, i, a, b)
    PROVE  /\ Of(f, op, i) => Ends(Append(q, f), op, i, a, f.value)
           /\ ~Of(f, op, i) => Ends(Append(q, f), op, i, a, b)
<1> DEFINE r == Append(q, f)
<1>1. /\ Len(r) = Len(q) + 1 /\ Len(q) \in Nat
      /\ r[Len(q) + 1] = f
      /\ \A n \in 1 .. Len(q) : r[n] = q[n]
  OBVIOUS
<1>2. Has(r, op, i) <=> Has(q, op, i) \/ Of(f, op, i)
  BY HasAppend
<1> HIDE DEF r
<1>3. ASSUME Of(f, op, i) PROVE Last(r, op, i, f.value)
  BY <1>3, LastAppend DEF r
<1>4. ASSUME ~Of(f, op, i), Last(q, op, i, b) PROVE Last(r, op, i, b)
  <2>1. PICK n \in 1 .. Len(q) : /\ Of(q[n], op, i) /\ q[n].value = b
                                 /\ \A m \in n + 1 .. Len(q) : ~Of(q[m], op, i)
    BY <1>4 DEF Last
  <2>2. n \in 1 .. Len(r) /\ \A m \in n + 1 .. Len(r) : ~Of(r[m], op, i)
    BY <1>1, <1>4, <2>1
  <2> QED BY <1>1, <2>1, <2>2 DEF Last
<1> QED BY <1>2, <1>3, <1>4 DEF r, Ends

LEMMA EndsTail ==
    ASSUME NEW E, NEW q \in Seq(E), q # << >>, NEW op, NEW i, NEW a, NEW b,
           Ends(q, op, i, a, b)
    PROVE  /\ Of(Head(q), op, i) => Ends(Tail(q), op, i, Head(q).value, b)
           /\ ~Of(Head(q), op, i) => Ends(Tail(q), op, i, a, b)
<1> DEFINE r == Tail(q)
<1>1. /\ Len(q) = Len(r) + 1 /\ Len(r) \in Nat
      /\ Head(q) = q[1]
      /\ \A n \in 1 .. Len(r) : r[n] = q[n + 1]
  OBVIOUS
<1>2. Has(q, op, i) <=> Of(Head(q), op, i) \/ Has(r, op, i)
  BY HasTail
<1> HIDE DEF r
<1>3. CASE ~Has(q, op, i)
  BY <1>2, <1>3 DEF r, Ends
<1>4. CASE Has(q, op, i)
  <2>1. PICK n \in 1 .. Len(q) : /\ Of(q[n], op, i) /\ q[n].value = b
                                 /\ \A m \in n + 1 .. Len(q) : ~Of(q[m], op, i)
    BY <1>4 DEF Ends, Last
  <2>2. \A m \in 1 .. Len(r) : m + 1 \in n + 1 .. Len(q) => ~Of(r[m], op, i)
    BY <1>1, <2>1
  <2>3. CASE n = 1
    <3>1. ~Has(r, op, i)
      BY <1>1, <2>2, <2>3 DEF Has
    <3> QED BY <1>1, <2>1, <2>3, <3>1 DEF r, Ends
  <2>4. CASE n # 1
    <3>1. n - 1 \in 1 .. Len(r) /\ r[n - 1] = q[n]
      BY <1>1, <2>4
    <3>2. \A m \in (n - 1) + 1 .. Len(r) : ~Of(r[m], op, i)
      BY <1>1, <2>2, <3>1
    <3>3. Last(r, op, i, b) /\ Has(r, op, i)
      BY <2>1, <3>1, <3>2 DEF Last, Has
    <3> QED BY <3>3 DEF r, Ends
  <2> QED BY <2>3, <2>4
<1> QED BY <1>3, <1>4
-----------------------------------------------------------------------------
USE LineAssumption, DeviceAssumption, ToolAssumption

\* What holds between two writes of a handler.  Only the setting being handled may
\* differ between memory and EEPROM, only until it is stored; only it and those
\* that are still to be told may differ between memory and radio.
Sanitized == \A i \in Item : Sanitize(i, memory[i]) = memory[i]

Stored == \A i \in Item : memory[i] = Durable[i] \/ ("store" \in todo /\ i = handled)

RadioKnows ==
    deviceType = "TRANSMITTER" =>
        \A i \in RadioItem : radio[i] = memory[i] \/ i \in untold \/ i = handled

Handling == /\ todo = {} <=> handled = Nothing
            /\ todo # {} => untold = {} /\ telling = Nothing
            /\ "answer" \in todo => handled # "id"

SetModeShown == setMode <=> telling # Nothing

IInv == TypeOK /\ Sanitized /\ Stored /\ RadioKnows /\ Handling /\ SetModeShown
-----------------------------------------------------------------------------
\* What is sanitized is a byte and stays as it is.
LEMMA SanitizeIdempotent ==
    ASSUME NEW i, NEW v \in Byte
    PROVE  Sanitize(i, v) \in Byte /\ Sanitize(i, Sanitize(i, v)) = Sanitize(i, v)
BY DEF Sanitize, Byte

\* A setting that setup reads is sanitized.
LEMMA ReadSanitized ==
    ASSUME NEW e \in [Item -> Byte]
    PROVE  /\ [i \in Item |-> Sanitize(i, e[i])] \in [Item -> Byte]
           /\ \A i \in Item : Sanitize(i, Sanitize(i, e[i])) = Sanitize(i, e[i])
<1>1. ASSUME NEW i \in Item
      PROVE  Sanitize(i, e[i]) \in Byte /\ Sanitize(i, Sanitize(i, e[i])) = Sanitize(i, e[i])
  <2>1. e[i] \in Byte
    OBVIOUS
  <2> QED BY <2>1, SanitizeIdempotent
<1> QED BY <1>1

\* setup leaves a device of any type as it should be.
LEMMA SetupGood ==
    ASSUME NEW t \in Type, NEW e \in [Item -> Byte], radio' \in [RadioItem -> Byte],
           Setup(t, e)
    PROVE  DeviceTypeOK' /\ Sanitized' /\ Stored' /\ RadioKnows' /\ Handling' /\ SetModeShown'
<1>1. Told(t) \subseteq RadioItem /\ (t = "TRANSMITTER" => Told(t) = RadioItem)
  BY DEF Told
<1>2. DeviceTypeOK'
  BY <1>1, ReadSanitized DEF DeviceTypeOK, Setup, Silent
<1>3. Sanitized' /\ Stored'
  BY ReadSanitized DEF Sanitized, Stored, Durable, Setup
<1>4. RadioKnows' /\ Handling' /\ SetModeShown'
  BY <1>1 DEF RadioKnows, Handling, SetModeShown, Setup
<1> QED BY <1>2, <1>3, <1>4

\* IInv holds initially.
LEMMA InitIInv == Init => IInv
<1> SUFFICES ASSUME Init PROVE IInv
  OBVIOUS
<1>1. Told(deviceType) \subseteq RadioItem
      /\ (deviceType = "TRANSMITTER" => Told(deviceType) = RadioItem)
  BY DEF Told
<1>2. stored \in [Item -> Byte] /\ radio \in [RadioItem -> Byte]
  BY DEF Init, DeviceInit
<1>3. DeviceTypeOK
  BY <1>1, <1>2, ReadSanitized DEF Init, DeviceInit, DeviceTypeOK, Durable
<1>4. Sanitized /\ Stored
  BY <1>2, ReadSanitized DEF Init, DeviceInit, Sanitized, Stored, Durable
<1>5. RadioKnows /\ Handling /\ SetModeShown
  BY <1>1 DEF Init, DeviceInit, RadioKnows, Handling, SetModeShown
<1>6. LineTypeOK
  BY DEF Init, LineInit, LineTypeOK
<1>7. ToolTypeOK /\ spoiled \in BOOLEAN
  BY DEF Init, ToolInit, ToolTypeOK
<1> QED BY <1>3, <1>4, <1>5, <1>6, <1>7 DEF IInv, TypeOK
-----------------------------------------------------------------------------
DeviceInv == DeviceTypeOK /\ Sanitized /\ Stored /\ RadioKnows /\ Handling /\ SetModeShown

\* An answer fits the line, and can be said.
LEMMA AckTyped ==
    ASSUME NEW i \in Item \ {"id"}, NEW v \in Byte
    PROVE  AckOf(i, v) \in ToTool
           /\ AckOf(i, v) \in [op : {"ACK"}, item : Item \ {"id"}, value : Byte]
BY DEF AckOf, ToTool

\* Writing to the tool keeps the line's type.
LEMMA WriteTyped ==
    ASSUME LineTypeOK, NEW open, NEW f \in ToTool, Write(open, f)
    PROVE  toTool' \in Seq(ToTool)
BY DEF LineTypeOK, Write

\* Each step of configRoutine keeps the device's invariant and the line's type.
LEMMA ConfigRoutineGood ==
    ASSUME LineTypeOK, DeviceInv, NEW open, configRoutine(open)
    PROVE  DeviceInv' /\ LineTypeOK'
<1> DEFINE f == Head(toDevice)
<1>1. f \in ToDevice /\ toDevice' \in Seq(ToDevice)
  BY DEF configRoutine, LineTypeOK
<1>2. todo = {} /\ untold = {} /\ telling = Nothing /\ handled = Nothing
  BY DEF configRoutine, Idle, DeviceInv, Handling
<1> HIDE DEF f
<1>3. CASE AnswerPing(open, f)
  <2>1. PongOf(memory["id"], deviceType) \in ToTool
    BY DEF DeviceInv, DeviceTypeOK, PongOf, ToTool
  <2>2. toTool' \in Seq(ToTool)
    BY <1>3, <2>1, WriteTyped DEF AnswerPing
  <2>3. UNCHANGED <<deviceType, stored, memory, handled, todo, untold, setMode, telling, radio>>
        /\ said' = Nothing
    BY <1>3 DEF AnswerPing, deviceVars, hc12Vars, Silent
  <2>4. DeviceInv'
    BY <2>3 DEF DeviceInv, DeviceTypeOK, Sanitized, Stored, Durable, RadioKnows, Handling, SetModeShown
  <2> QED BY <1>1, <2>2, <2>4 DEF LineTypeOK
<1>4. CASE AnswerGet(open, f)
  <2>1. f.item \in Item \ {"id"}
    BY <1>4, <1>1 DEF AnswerGet, Knows, RadioItem, SlotItem
  <2>2. AckOf(f.item, memory[f.item]) \in ToTool
        /\ AckOf(f.item, memory[f.item]) \in [op : {"ACK"}, item : Item \ {"id"}, value : Byte]
    BY <2>1, AckTyped DEF DeviceInv, DeviceTypeOK
  <2>3. toTool' \in Seq(ToTool)
    BY <1>4, <2>2, WriteTyped DEF AnswerGet
  <2>4. UNCHANGED <<deviceType, stored, memory, handled, todo, untold, setMode, telling, radio>>
        /\ said' = AckOf(f.item, memory[f.item])
    BY <1>4 DEF AnswerGet, hc12Vars
  <2>5. DeviceInv'
    BY <2>2, <2>4 DEF DeviceInv, DeviceTypeOK, Sanitized, Stored, Durable, RadioKnows, Handling, SetModeShown
  <2> QED BY <1>1, <2>3, <2>5 DEF LineTypeOK
<1>5. CASE BeginSet(f)
  <2>1. f.item \in Item /\ f.value \in Byte
    BY <1>5, <1>1 DEF BeginSet, ToDevice
  <2>2. Sanitize(f.item, f.value) \in Byte
        /\ Sanitize(f.item, Sanitize(f.item, f.value)) = Sanitize(f.item, f.value)
    BY <2>1, SanitizeIdempotent
  <2>3. /\ memory' = [memory EXCEPT ![f.item] = Sanitize(f.item, f.value)]
        /\ handled' = f.item
        /\ todo' = IF f.item = "id" THEN {"store"} ELSE {"store", "answer"}
        /\ said' = Nothing
        /\ UNCHANGED <<deviceType, stored, untold, toTool, setMode, telling, radio>>
    BY <1>5 DEF BeginSet, Silent, hc12Vars
  <2>4. DeviceTypeOK'
    BY <2>1, <2>2, <2>3 DEF DeviceInv, DeviceTypeOK
  <2>5. Sanitized' /\ Stored'
    BY <1>2, <2>1, <2>2, <2>3 DEF DeviceInv, DeviceTypeOK, Sanitized, Stored, Durable
  <2>6. RadioKnows' /\ Handling' /\ SetModeShown'
    BY <1>2, <2>1, <2>3 DEF DeviceInv, DeviceTypeOK, RadioKnows, Handling, SetModeShown, RadioItem
  <2> QED BY <1>1, <2>3, <2>4, <2>5, <2>6 DEF LineTypeOK, DeviceInv
<1>6. CASE Ignore(f)
  <2>1. UNCHANGED <<deviceType, stored, memory, handled, todo, untold, setMode, telling, radio, toTool>>
        /\ said' = Nothing
    BY <1>6 DEF Ignore, deviceVars, hc12Vars, Silent
  <2>2. DeviceInv'
    BY <2>1 DEF DeviceInv, DeviceTypeOK, Sanitized, Stored, Durable, RadioKnows, Handling, SetModeShown
  <2> QED BY <1>1, <2>1, <2>2 DEF LineTypeOK
<1> QED BY <1>3, <1>4, <1>5, <1>6 DEF configRoutine, f

\* What Done leaves of a handler's writes.
LEMMA DoneGood ==
    ASSUME DeviceInv, NEW step \in {"store", "answer"}, step \in todo, Done(step)
    PROVE  /\ handled \in Item
           /\ todo' = todo \ {step}
           /\ handled' \in {handled, Nothing}
           /\ handled' = Nothing <=> todo' = {}
           /\ untold' = IF todo' = {} THEN Told(deviceType) \cap {handled} ELSE {}
           /\ untold' \subseteq RadioItem
<1>1. handled \in Item /\ handled # Nothing /\ untold = {}
  BY DEF DeviceInv, DeviceTypeOK, Handling
<1>2. CASE todo = {step}
  <2>1. todo' = todo \ {step} /\ handled' = Nothing /\ untold' = Told(deviceType) \cap {handled}
    BY <1>2 DEF Done
  <2>2. todo' = {} /\ Told(deviceType) \subseteq RadioItem
    BY <1>2, <2>1 DEF Told
  <2> QED BY <1>1, <2>1, <2>2
<1>3. CASE todo # {step}
  <2>1. todo' = todo \ {step} /\ todo' # {} /\ handled' = handled /\ untold' = untold
    BY <1>3 DEF Done
  <2> QED BY <1>1, <2>1
<1> QED BY <1>2, <1>3

\* Done keeps what is known of the radio: if the handler is through, the setting it
\* handled is one that the radio has still to be told of, or none of the radio's.
LEMMA DoneRadio ==
    ASSUME DeviceInv, NEW step \in {"store", "answer"}, step \in todo, Done(step),
           UNCHANGED <<deviceType, memory, setMode, telling, radio>>
    PROVE  RadioKnows' /\ Handling' /\ SetModeShown'
<1>1. /\ handled \in Item
      /\ todo' = todo \ {step}
      /\ handled' \in {handled, Nothing}
      /\ handled' = Nothing <=> todo' = {}
      /\ untold' = IF todo' = {} THEN Told(deviceType) \cap {handled} ELSE {}
  BY DoneGood
<1>2. todo # {} /\ untold = {} /\ telling = Nothing /\ ("answer" \in todo => handled # "id")
  BY DEF DeviceInv, Handling
<1>3. Handling' /\ SetModeShown'
  BY <1>1, <1>2 DEF Handling, SetModeShown, DeviceInv
<1>4. ASSUME deviceType = "TRANSMITTER", NEW i \in RadioItem
      PROVE  radio[i] = memory[i] \/ i \in untold' \/ i = handled'
  <2>1. radio[i] = memory[i] \/ i = handled
    BY <1>2, <1>4 DEF DeviceInv, RadioKnows
  <2>2. Told(deviceType) = RadioItem
    BY <1>4 DEF Told
  <2> QED BY <1>1, <2>1, <2>2
<1> QED BY <1>3, <1>4 DEF RadioKnows

\* Writing the EEPROM keeps the device's invariant.
LEMMA StoreGood ==
    ASSUME DeviceInv, Store
    PROVE  DeviceInv' /\ UNCHANGED lineVars
<1>1. "store" \in todo /\ Done("store") /\ said' = Nothing
      /\ stored' = [stored EXCEPT ![handled] = memory[handled]]
      /\ UNCHANGED <<deviceType, memory, setMode, telling, radio>>
  BY DEF Store, Silent, hc12Vars
<1>2. /\ handled \in Item
      /\ todo' = todo \ {"store"}
      /\ handled' \in {handled, Nothing}
      /\ untold' \subseteq RadioItem
  BY <1>1, DoneGood
<1>3. DeviceTypeOK'
  BY <1>1, <1>2 DEF DeviceInv, DeviceTypeOK
<1>4. Sanitized' /\ Stored'
  BY <1>1, <1>2 DEF DeviceInv, DeviceTypeOK, Sanitized, Stored, Durable
<1>5. RadioKnows' /\ Handling' /\ SetModeShown'
  BY <1>1, DoneRadio
<1> QED BY <1>3, <1>4, <1>5 DEF DeviceInv, Store, lineVars

\* Answering a SET keeps the device's invariant and the line's type.
LEMMA AnswerGood ==
    ASSUME DeviceInv, LineTypeOK, NEW open, Answer(open)
    PROVE  DeviceInv' /\ LineTypeOK'
<1>1. todo = {"answer"} /\ Done("answer")
      /\ Write(open, AckOf(handled, memory[handled]))
      /\ said' = AckOf(handled, memory[handled])
      /\ UNCHANGED <<deviceType, stored, memory, setMode, telling, radio, toDevice>>
  BY DEF Answer, hc12Vars
<1>2. /\ handled \in Item /\ handled # "id"
      /\ todo' = {}
      /\ handled' = Nothing
      /\ untold' \subseteq RadioItem
  BY <1>1, DoneGood DEF DeviceInv, Handling
<1>3. AckOf(handled, memory[handled]) \in ToTool
      /\ AckOf(handled, memory[handled]) \in [op : {"ACK"}, item : Item \ {"id"}, value : Byte]
  BY <1>2, AckTyped DEF DeviceInv, DeviceTypeOK
<1>4. LineTypeOK'
  BY <1>1, <1>3, WriteTyped DEF LineTypeOK
<1>5. DeviceTypeOK'
  BY <1>1, <1>2, <1>3 DEF DeviceInv, DeviceTypeOK
<1>6. Sanitized' /\ Stored'
  BY <1>1, <1>2 DEF DeviceInv, Sanitized, Stored, Durable
<1>7. RadioKnows' /\ Handling' /\ SetModeShown'
  BY <1>1, DoneRadio
<1> QED BY <1>4, <1>5, <1>6, <1>7 DEF DeviceInv

\* The three steps of a call of the radio's driver keep the device's invariant.
LEMMA RadioStepGood ==
    ASSUME DeviceInv, EnterSetMode \/ TellRadio \/ LeaveSetMode
    PROVE  DeviceInv' /\ UNCHANGED lineVars
<1>1. UNCHANGED <<deviceType, stored, memory, handled, todo>> /\ said' = Nothing
  BY DEF EnterSetMode, TellRadio, LeaveSetMode, Silent
<1>2. Sanitized' /\ Stored'
  BY <1>1 DEF DeviceInv, Sanitized, Stored, Durable
<1>3. CASE EnterSetMode
  <2>1. /\ untold # {} /\ untold \subseteq RadioItem
        /\ telling' = FirstOf(untold) /\ setMode' = TRUE
        /\ UNCHANGED <<untold, radio>>
    BY <1>3 DEF EnterSetMode, Enter, DeviceInv, DeviceTypeOK
  <2>2. FirstOf(untold) \in RadioItem
    BY <2>1 DEF FirstOf, RadioItem
  <2>3. todo = {} /\ FirstOf(untold) # Nothing
    BY <2>1, <2>2 DEF DeviceInv, Handling, RadioItem
  <2>4. DeviceTypeOK'
    BY <1>1, <2>1, <2>2 DEF DeviceInv, DeviceTypeOK
  <2>5. RadioKnows' /\ Handling' /\ SetModeShown'
    BY <1>1, <2>1, <2>3 DEF DeviceInv, RadioKnows, Handling, SetModeShown
  <2> QED BY <1>2, <1>3, <2>4, <2>5 DEF DeviceInv, EnterSetMode, lineVars
<1>4. CASE TellRadio
  <2>1. /\ telling \in untold /\ untold' = untold \ {telling}
        /\ radio' = [radio EXCEPT ![telling] = IF setMode THEN memory[telling] ELSE @]
        /\ UNCHANGED <<setMode, telling>>
    BY <1>4 DEF TellRadio, Tell
  <2>2. telling \in RadioItem /\ telling # Nothing /\ telling \in Item
    BY <2>1 DEF DeviceInv, DeviceTypeOK, RadioItem
  <2>3. setMode /\ todo = {} /\ handled = Nothing
    BY <2>1, <2>2 DEF DeviceInv, SetModeShown, Handling
  <2>4. radio' = [radio EXCEPT ![telling] = memory[telling]]
    BY <2>1, <2>3
  <2>5. DeviceTypeOK'
    BY <1>1, <2>1, <2>2, <2>4 DEF DeviceInv, DeviceTypeOK
  <2>6. RadioKnows'
    BY <1>1, <2>1, <2>2, <2>4 DEF DeviceInv, DeviceTypeOK, RadioKnows
  <2>7. Handling' /\ SetModeShown'
    BY <1>1, <2>1, <2>3 DEF DeviceInv, Handling, SetModeShown
  <2> QED BY <1>2, <1>4, <2>5, <2>6, <2>7 DEF DeviceInv, TellRadio, lineVars
<1>5. CASE LeaveSetMode
  <2>1. telling' = Nothing /\ setMode' = FALSE /\ UNCHANGED <<untold, radio>>
    BY <1>5 DEF LeaveSetMode, Leave
  <2>2. DeviceTypeOK'
    BY <1>1, <2>1 DEF DeviceInv, DeviceTypeOK
  <2>3. RadioKnows' /\ Handling' /\ SetModeShown'
    BY <1>1, <2>1 DEF DeviceInv, RadioKnows, Handling, SetModeShown
  <2> QED BY <1>2, <1>5, <2>2, <2>3 DEF DeviceInv, LeaveSetMode, lineVars
<1> QED BY <1>3, <1>4, <1>5
-----------------------------------------------------------------------------
ToolInv == ToolTypeOK /\ LineTypeOK

\* A sequence behind another.
LEMMA ConcatTyped ==
    ASSUME NEW E, NEW s \in Seq(E), NEW t \in Seq(E)
    PROVE  s \o t \in Seq(E)
OBVIOUS

\* The tool's requests are frames for a device.
LEMMA RequestTyped == ASSUME NEW i PROVE Request(i) \in Seq(ToDevice)
<1>1. ASSUME i \in Item PROVE GetFor(i) \in ToDevice
  BY <1>1 DEF GetFor, ToDevice
<1> QED BY <1>1 DEF Request

LEMMA RequestsTyped == ASSUME NEW t PROVE Requests(t) \in Seq(ToDevice)
<1>1. ASSUME NEW i PROVE Request(i) \in Seq(ToDevice)
  BY RequestTyped
<1>2. Request("channel") \o Request("power") \in Seq(ToDevice)
  BY <1>1
<1>3. Request("target1") \o Request("target2") \in Seq(ToDevice)
  BY <1>1
<1> QED BY <1>2, <1>3 DEF Requests

\* Reading a frame keeps what the tool shows in its range.
LEMMA ReadGood ==
    ASSUME ToolInv, readData
    PROVE  ToolInv'
<1> DEFINE f == Head(toTool)
<1>1. f \in ToTool /\ toTool' \in Seq(ToTool) /\ UNCHANGED isConnected
  BY DEF ToolInv, LineTypeOK, readData
<1> HIDE DEF f
<1>2. CASE ProcessPong(f)
  <2>1. f.id \in Byte /\ f.type \in Type
    BY <1>1, <1>2 DEF ProcessPong, ToTool
  <2>2. toDevice' = toDevice \/ toDevice' = toDevice \o Requests(f.type)
    BY <1>2 DEF ProcessPong
  <2>3. toDevice' \in Seq(ToDevice)
    <3>1. toDevice \in Seq(ToDevice) /\ Requests(f.type) \in Seq(ToDevice)
      BY RequestsTyped DEF ToolInv, LineTypeOK
    <3>2. toDevice \o Requests(f.type) \in Seq(ToDevice)
      BY <3>1, ConcatTyped
    <3> QED BY <2>2, <3>1, <3>2
  <2>4. shownType' = f.type /\ deviceId' \in {deviceId, f.id}
        /\ (shown' = shown \/ shown' = [shown EXCEPT !["id"] = f.id])
    BY <1>2 DEF ProcessPong
  <2> QED BY <1>1, <2>1, <2>3, <2>4 DEF ToolInv, ToolTypeOK, LineTypeOK
<1>3. CASE ProcessAck(f)
  <2>1. f.item \in Item /\ f.value \in Byte
    BY <1>1, <1>3 DEF ProcessAck, ToTool
  <2> QED BY <1>1, <1>3, <2>1 DEF ProcessAck, ToolInv, ToolTypeOK, LineTypeOK
<1> QED BY <1>2, <1>3 DEF readData, f

\* So does what the user does.
LEMMA UserGood ==
    ASSUME ToolInv,
           (\E i \in DOMAIN Typed : TypeValue(i)) \/ Connect \/ Disconnect
    PROVE  ToolInv'
<1>1. ASSUME NEW i \in DOMAIN Typed, NEW v \in Typed[i], Update(i, v) PROVE ToolInv'
  <2>1. i \in Item /\ v \in Byte
    BY <1>1
  <2>2. SetFor(i, v) \in ToDevice
    BY <2>1 DEF SetFor, ToDevice
  <2>3. toDevice' \in Seq(ToDevice)
    <3>1. toDevice \in Seq(ToDevice)
      BY DEF ToolInv, LineTypeOK
    <3>2. toDevice' = toDevice \/ toDevice' = Append(toDevice, SetFor(i, v))
      BY <1>1 DEF Update
    <3> QED BY <2>2, <3>1, <3>2
  <2> QED BY <1>1, <2>1, <2>3 DEF Update, ToolInv, ToolTypeOK, LineTypeOK
<1>2. ASSUME Connect PROVE ToolInv'
  <2>1. isConnected' = TRUE /\ UNCHANGED <<deviceId, shown, shownType, toDevice, toTool>>
    BY <1>2 DEF Connect, lineVars
  <2> QED BY <2>1 DEF ToolInv, ToolTypeOK, LineTypeOK
<1>3. ASSUME Disconnect PROVE ToolInv'
  <2>1. toTool' = << >> /\ toTool' \in Seq(ToTool)
    BY <1>3 DEF Disconnect
  <2>2. ToolTypeOK'
    BY <1>3 DEF Disconnect, ToolInv, ToolTypeOK
  <2> QED BY <1>3, <2>1, <2>2 DEF Disconnect, ToolInv, LineTypeOK
<1> QED BY <1>1, <1>2, <1>3 DEF TypeValue

\* And pinging.
LEMMA PingGood ==
    ASSUME ToolInv, serialPing
    PROVE  ToolInv'
<1>1. PingFor \in ToDevice
  BY DEF PingFor, ToDevice
<1>2. toDevice' \in Seq(ToDevice)
  <2>1. toDevice \in Seq(ToDevice) /\ toDevice' = Append(toDevice, PingFor)
    BY DEF serialPing, ToolInv, LineTypeOK
  <2> QED BY <1>1, <2>1
<1> QED BY <1>2 DEF serialPing, toolVars, ToolInv, ToolTypeOK, LineTypeOK
-----------------------------------------------------------------------------
\* The history of what was spoiled is a Boolean.
LEMMA SpoilTyped == spoiled \in BOOLEAN /\ [Next]_vars => spoiled' \in BOOLEAN
<1> SUFFICES ASSUME spoiled \in BOOLEAN, [Next]_vars PROVE spoiled' \in BOOLEAN
  OBVIOUS
<1>1. CASE OfDevice \/ Fail
  BY <1>1, Zenon DEF OfDevice, Fail, Spoil
<1>2. CASE User
  BY <1>2, Zenon DEF User, Spoil
<1>3. CASE Lose
  BY <1>3, Zenon DEF Lose, Spoil
<1>4. CASE Read
  BY <1>4, Zenon DEF Read
<1>5. CASE Ping \/ Change \/ UNCHANGED vars
  BY <1>5 DEF Ping, Change, vars
<1> QED BY <1>1, <1>2, <1>3, <1>4, <1>5 DEF Next

\* Nothing about a device depends on what was said last, or on the line.
LEMMA DeviceUnchanged ==
    ASSUME DeviceInv, UNCHANGED deviceVars, Silent \/ UNCHANGED said
    PROVE  DeviceInv'
<1>1. UNCHANGED <<deviceType, stored, memory, handled, todo, untold, setMode, telling, radio>>
  BY DEF deviceVars, hc12Vars
<1>2. said' = Nothing \/ said' = said
  BY DEF Silent
<1> QED BY <1>1, <1>2 DEF DeviceInv, DeviceTypeOK, Sanitized, Stored, Durable, RadioKnows,
                         Handling, SetModeShown

\* Each step keeps IInv.
LEMMA NextIInv == IInv /\ [Next]_vars => IInv'
<1> SUFFICES ASSUME IInv, [Next]_vars PROVE IInv'
  OBVIOUS
<1>1. DeviceInv /\ ToolInv /\ LineTypeOK /\ spoiled' \in BOOLEAN
  BY SpoilTyped DEF IInv, TypeOK, DeviceInv, ToolInv
<1>2. DeviceInv' /\ ToolInv' => IInv'
  BY <1>1 DEF IInv, TypeOK, DeviceInv, ToolInv
<1> SUFFICES DeviceInv' /\ ToolInv'
  BY <1>2
<1>3. CASE OfDevice
  <2>1. UNCHANGED <<isConnected, deviceId, shown, shownType>>
    BY <1>3 DEF OfDevice, toolVars
  <2>2. LineTypeOK' => ToolInv'
    BY <1>1, <2>1 DEF ToolInv, ToolTypeOK
  <2>3. UNCHANGED lineVars => LineTypeOK'
    BY <1>1 DEF lineVars, LineTypeOK
  <2>4. CASE configRoutine(isConnected)
    BY <1>1, <2>2, <2>4, ConfigRoutineGood
  <2>5. CASE Store
    BY <1>1, <2>2, <2>3, <2>5, StoreGood
  <2>6. CASE Answer(isConnected)
    BY <1>1, <2>2, <2>6, AnswerGood
  <2>7. CASE EnterSetMode \/ TellRadio \/ LeaveSetMode
    BY <1>1, <2>2, <2>3, <2>7, RadioStepGood
  <2> QED BY <1>3, <2>4, <2>5, <2>6, <2>7 DEF OfDevice, DeviceStep
<1>4. CASE Ping
  BY <1>1, <1>4, PingGood, DeviceUnchanged DEF Ping
<1>5. CASE Read
  BY <1>1, <1>5, ReadGood, DeviceUnchanged DEF Read
<1>6. CASE User
  BY <1>1, <1>6, UserGood, DeviceUnchanged DEF User
<1>7. CASE Lose
  <2>1. UNCHANGED <<isConnected, deviceId, shown, shownType>>
    BY <1>7 DEF Lose, toolVars
  <2>2. ASSUME LoseToDevice PROVE LineTypeOK'
    BY <1>1, <2>2 DEF LoseToDevice, LineTypeOK
  <2>3. ASSUME LoseToTool PROVE LineTypeOK'
    BY <1>1, <2>3 DEF LoseToTool, LineTypeOK
  <2>4. LineTypeOK'
    BY <1>7, <2>2, <2>3 DEF Lose
  <2> QED BY <1>1, <1>7, <2>1, <2>4, DeviceUnchanged DEF Lose, ToolInv, ToolTypeOK
<1>8. CASE Fail
  <2>1. Setup(deviceType, stored) /\ radio' = radio /\ LineTypeOK'
        /\ UNCHANGED <<isConnected, deviceId, shown, shownType>>
    BY <1>1, <1>8 DEF Fail, PowerCut, LineTypeOK, toolVars
  <2>2. DeviceInv'
    BY <1>1, <2>1, SetupGood DEF DeviceInv, DeviceTypeOK
  <2> QED BY <1>1, <2>1, <2>2 DEF ToolInv, ToolTypeOK
<1>9. CASE Change
  <2>1. /\ \E t \in Type, e \in EEPROMs : Setup(t, e)
        /\ radio' \in [RadioItem -> Byte] /\ LineTypeOK'
        /\ UNCHANGED <<isConnected, deviceId, shown, shownType>>
    BY <1>1, <1>9 DEF Change, Plug, LineTypeOK, toolVars
  <2>2. DeviceInv'
    BY <2>1, SetupGood DEF DeviceInv
  <2> QED BY <1>1, <2>1, <2>2 DEF ToolInv, ToolTypeOK
<1>10. CASE UNCHANGED vars
  <2>1. UNCHANGED <<deviceVars, said, toolVars, lineVars>>
    BY <1>10 DEF vars
  <2>2. DeviceInv'
    BY <1>1, <2>1, DeviceUnchanged
  <2> QED BY <1>1, <2>1, <2>2 DEF toolVars, lineVars, ToolInv, ToolTypeOK, LineTypeOK
<1> QED BY <1>3, <1>4, <1>5, <1>6, <1>7, <1>8, <1>9, <1>10 DEF Next

LEMMA Invariance == Spec => []IInv
<1> QED BY InitIInv, NextIInv, PTL DEF Spec

\* Every setting, id and frame of a session stays in its range.
THEOREM TypeCorrect == Spec => []TypeOK
<1>1. IInv => TypeOK
  BY DEF IInv
<1> QED BY <1>1, Invariance, PTL

\* Between handlers a transmitter's radio uses the settings that its memory and its
\* EEPROM hold, wherever the power failed before.
THEOREM RadioFollowsHolds == Spec => []RadioFollows
<1>1. IInv => RadioFollows
  <2> SUFFICES ASSUME IInv, deviceType = "TRANSMITTER", Idle PROVE
        ~setMode /\ \A i \in RadioItem : radio[i] = memory[i] /\ memory[i] = Durable[i]
    BY DEF RadioFollows
  <2>1. todo = {} /\ untold = {} /\ telling = Nothing /\ handled = Nothing
    BY DEF IInv, Idle, Handling
  <2>2. ASSUME NEW i \in RadioItem PROVE i \in Item /\ i # Nothing
    BY DEF RadioItem
  <2> QED BY <2>1, <2>2 DEF IInv, RadioKnows, Stored, SetModeShown
<1> QED BY <1>1, Invariance, PTL

\* A setting changes only when the power could fail a moment later and leave it as
\* it is; an answer never tells of a value that a power cut could undo.
THEOREM ImplementsRegister == Spec => RegisterSpec
<1> USE DEF Register!Write, Register!Answer, Register!Hush
<1>1. IInv => Durable \in [Item -> Byte] /\ \A i \in Item : Sanitize(i, Durable[i]) = Durable[i]
  BY ReadSanitized DEF IInv, TypeOK, DeviceTypeOK, Durable
<1>2. Init => Register!Init
  <2> SUFFICES ASSUME Init PROVE Register!Init
    OBVIOUS
  <2> DEFINE Legal(i) == {v \in Byte : Sanitize(i, v) = v}
  <2>1. \A i \in Item : Durable[i] \in Legal(i)
    BY <1>1, InitIInv
  <2>2. Durable \in [Item -> UNION {Legal(i) : i \in Item}]
    BY <2>1 DEF Durable
  <2>3. said = Nothing
    BY DEF Init, DeviceInit
  <2> QED BY <2>1, <2>2, <2>3 DEF Register!Init
<1>3. IInv /\ IInv' /\ [Next]_vars => [Register!Next \/ Change]_<<Durable, said>>
  <2> SUFFICES ASSUME IInv, IInv', [Next]_vars
               PROVE  [Register!Next \/ Change]_<<Durable, said>>
    OBVIOUS
  <2>1. ASSUME UNCHANGED stored PROVE UNCHANGED Durable
    BY <2>1 DEF Durable
  <2>2. ASSUME UNCHANGED stored, Silent PROVE Register!Next
    BY <2>1, <2>2 DEF Silent, Register!Next
  <2>3. ASSUME NEW i \in Item, said' = AckOf(i, memory[i]), memory[i] = Durable[i],
               UNCHANGED stored
        PROVE  Register!Next
    BY <2>1, <2>3 DEF AckOf, Register!Next
  <2>4. CASE OfDevice
    <3>1. CASE configRoutine(isConnected)
      <4> DEFINE f == Head(toDevice)
      <4>1. f \in ToDevice /\ todo = {}
        BY <3>1 DEF configRoutine, Idle, IInv, TypeOK, LineTypeOK
      <4> HIDE DEF f
      <4>2. CASE AnswerPing(isConnected, f) \/ BeginSet(f) \/ Ignore(f)
        BY <2>2, <4>2 DEF AnswerPing, BeginSet, Ignore, deviceVars
      <4>3. CASE AnswerGet(isConnected, f)
        <5>1. f.item \in Item
          BY <4>1, <4>3 DEF AnswerGet, Knows, RadioItem, SlotItem
        <5>2. memory[f.item] = Durable[f.item]
          BY <4>1, <5>1 DEF IInv, Stored
        <5> QED BY <2>3, <4>3, <5>1, <5>2 DEF AnswerGet
      <4> QED BY <3>1, <4>2, <4>3 DEF configRoutine, f
    <3>2. CASE Store
      <4>1. handled \in Item /\ "store" \in todo
        BY <3>2 DEF Store, IInv, TypeOK, DeviceTypeOK, Handling
      <4>2. stored' = [stored EXCEPT ![handled] = memory[handled]] /\ said' = Nothing
        BY <3>2 DEF Store, Silent
      <4>3. Durable' = [Durable EXCEPT ![handled] = Sanitize(handled, memory[handled])]
        BY <4>1, <4>2 DEF Durable, IInv, TypeOK, DeviceTypeOK
      <4>4. Durable'[handled] \in {v \in Byte : Sanitize(handled, v) = v}
        <5>1. memory[handled] \in Byte /\ Sanitize(handled, memory[handled]) = memory[handled]
          BY <4>1 DEF IInv, TypeOK, DeviceTypeOK, Sanitized
        <5>2. Durable'[handled] = memory[handled]
          BY <4>1, <4>3, <5>1 DEF Durable
        <5> QED BY <5>1, <5>2
      <4>5. Durable' = [Durable EXCEPT ![handled] = Durable'[handled]]
        BY <4>1, <4>3 DEF Durable
      <4> QED BY <4>1, <4>2, <4>4, <4>5 DEF Register!Next
    <3>3. CASE Answer(isConnected)
      <4>1. handled \in Item /\ memory[handled] = Durable[handled]
        BY <3>3 DEF Answer, IInv, TypeOK, DeviceTypeOK, Handling, Stored
      <4> QED BY <2>3, <3>3, <4>1 DEF Answer
    <3>4. CASE EnterSetMode \/ TellRadio \/ LeaveSetMode
      BY <2>2, <3>4 DEF EnterSetMode, TellRadio, LeaveSetMode
    <3> QED BY <2>4, <3>1, <3>2, <3>3, <3>4 DEF OfDevice, DeviceStep
  <2>5. CASE Ping \/ Read \/ User \/ Lose
    BY <2>2, <2>5 DEF Ping, Read, User, Lose, deviceVars
  <2>6. CASE Fail
    BY <2>2, <2>6 DEF Fail, PowerCut, Setup
  <2>7. CASE UNCHANGED vars
    <3>1. UNCHANGED <<stored, said>>
      BY <2>7 DEF vars, deviceVars
    <3> QED BY <2>1, <3>1
  <2> QED BY <2>4, <2>5, <2>6, <2>7 DEF Next
<1> QED BY <1>2, <1>3, Invariance, PTL DEF Spec, RegisterSpec
-----------------------------------------------------------------------------
\* The handler of a SET of i has still to answer, or a frame that will be answered
\* is on its way to the device.
Asked(i) == \/ Has(toDevice, "GET", i) \/ Has(toDevice, "SET", i)
            \/ handled = i /\ "answer" \in todo

\* A closed port holds nothing, so that what it holds comes from the device that is
\* plugged in.
PortClosed == ~isConnected => toTool = << >>

PongsTyped ==
    \A n \in 1 .. Len(toTool) : toTool[n].op = "PONG" => toTool[n].type = deviceType

TypeShown == ~spoiled /\ deviceId # Nothing => shownType = deviceType

\* What is shown as the id is what was last heard, or what the device will end with.
IdShown ==
    ~spoiled => \/ shown["id"] = deviceId
                \/ Ends(toDevice, "SET", "id", memory["id"], shown["id"])

\* A setting that is not being asked for will be shown as it is in memory once the
\* answers on the way are read.
AnswersComing ==
    ~spoiled /\ deviceId # Nothing =>
        \A i \in Item : Knows(i) => Asked(i) \/ Ends(toTool, "ACK", i, shown[i], memory[i])

ScreenInv == PortClosed /\ PongsTyped /\ TypeShown /\ IdShown /\ AnswersComing

\* The tool asks for every setting that a device knows.
LEMMA AsksForAll ==
    ASSUME NEW i \in Item, Knows(i)
    PROVE  Has(Requests(deviceType), "GET", i)
<1>1. ASSUME NEW j PROVE Request(j) \in Seq(ToDevice)
  BY RequestTyped
<1>2. Has(Request(i), "GET", i)
  <2>1. Request(i) = <<GetFor(i)>> /\ Of(GetFor(i), "GET", i)
    BY DEF Request, GetFor, Of
  <2> QED BY <2>1 DEF Has
<1> DEFINE s == Request("channel") \o Request("power")
           t == Request("target1") \o Request("target2")
           u == IF deviceType = "TRANSMITTER" THEN t ELSE << >>
<1>3. s \in Seq(ToDevice) /\ t \in Seq(ToDevice)
  BY <1>1, ConcatTyped
<1>4. u \in Seq(ToDevice)
  BY <1>3
<1>5. i \in {"channel", "power"} => Has(s, "GET", i)
  BY <1>1, <1>2, HasConcat
<1>6. i \in {"target1", "target2"} => Has(t, "GET", i)
  BY <1>1, <1>2, HasConcat
<1>7. i \in {"channel", "power"} \/ (i \in {"target1", "target2"} /\ deviceType = "TRANSMITTER")
  BY DEF Knows, RadioItem, SlotItem, Setting
<1> HIDE DEF s, t
<1>8. Has(s, "GET", i) \/ Has(u, "GET", i)
  BY <1>5, <1>6, <1>7
<1>9. Has(s \o u, "GET", i)
  BY <1>3, <1>4, <1>8, HasConcat
<1> QED BY <1>9 DEF Requests, s, t

LEMMA InitScreenInv == Init => ScreenInv
BY DEF Init, LineInit, ToolInit, ScreenInv, PortClosed, PongsTyped, TypeShown, IdShown,
       AnswersComing

\* A step that leaves the line, the screen and the settings alone and forgets nothing
\* that was asked keeps ScreenInv.
LEMMA ScreenKept ==
    ASSUME ScreenInv, spoiled \in BOOLEAN, spoiled' \in BOOLEAN, spoiled => spoiled',
           UNCHANGED <<lineVars, deviceId, shown, shownType, deviceType, memory>>,
           isConnected => isConnected',
           \A i \in Item : Asked(i) => Asked(i)'
    PROVE  ScreenInv'
<1>1. UNCHANGED <<toDevice, toTool>> /\ (spoiled' = FALSE => spoiled = FALSE)
  BY DEF lineVars
<1>2. PortClosed' /\ PongsTyped' /\ TypeShown' /\ IdShown'
  BY <1>1 DEF ScreenInv, PortClosed, PongsTyped, TypeShown, IdShown
<1>3. AnswersComing'
  <2> SUFFICES ASSUME ~spoiled', deviceId' # Nothing, NEW i \in Item, Knows(i)'
               PROVE  Asked(i)' \/ Ends(toTool, "ACK", i, shown[i], memory[i])'
    BY DEF AnswersComing
  <2>1. Asked(i) \/ Ends(toTool, "ACK", i, shown[i], memory[i])
    BY <1>1 DEF ScreenInv, AnswersComing, Knows
  <2> QED BY <1>1, <2>1
<1> QED BY <1>2, <1>3 DEF ScreenInv

\* Nothing is said of a setting by frames that nobody waits for.
LEMMA NotWaited ==
    ASSUME NEW q, ~Waited(q), NEW i, NEW op \in {"GET", "SET", "ACK"}
    PROVE  ~Has(q, op, i)
BY DEF Waited, Matters, Has, Of

\* Answering a PING or a GET.
LEMMA AnswerScreen ==
    ASSUME IInv, ScreenInv, configRoutine(isConnected),
           AnswerPing(isConnected, Head(toDevice)) \/ AnswerGet(isConnected, Head(toDevice)),
           Spoil(~isConnected /\ (todo = {"answer"} \/ (Idle /\ Matters(Head(toDevice))))),
           UNCHANGED toolVars
    PROVE  ScreenInv'
<1> DEFINE f == Head(toDevice)
           g == IF f.op = "PING" THEN PongOf(memory["id"], deviceType)
                                 ELSE AckOf(f.item, memory[f.item])
<1>1. /\ toDevice \in Seq(ToDevice) /\ toDevice # << >> /\ toDevice' = Tail(toDevice)
      /\ f \in ToDevice /\ Idle
  BY DEF IInv, TypeOK, LineTypeOK, configRoutine
<1>2. /\ UNCHANGED <<deviceType, memory, handled, todo>>
      /\ UNCHANGED <<isConnected, deviceId, shown, shownType>>
  BY DEF AnswerPing, AnswerGet, deviceVars, toolVars
<1>3. /\ f.op \in {"PING", "GET"}
      /\ f.op = "GET" => f.item \in Item \ {"id"}
      /\ Write(isConnected, g)
  BY DEF AnswerPing, AnswerGet, Knows, RadioItem, SlotItem
<1>4. /\ toTool \in Seq(ToTool) /\ g \in ToTool
      /\ toTool' = IF isConnected THEN Append(toTool, g) ELSE toTool
  <2>1. PongOf(memory["id"], deviceType) \in ToTool
    BY DEF IInv, TypeOK, DeviceTypeOK, PongOf, ToTool
  <2>2. f.op = "GET" => AckOf(f.item, memory[f.item]) \in ToTool
    BY <1>3, AckTyped DEF IInv, TypeOK, DeviceTypeOK
  <2> QED BY <1>3, <2>1, <2>2 DEF Write, IInv, TypeOK, LineTypeOK
<1>5. /\ g.op = "PONG" => g.type = deviceType
      /\ \A i : Of(g, "ACK", i) <=> Of(f, "GET", i)
      /\ \A i : Of(g, "ACK", i) => g.value = memory[i]
  BY <1>3 DEF PongOf, AckOf, Of
<1>6. ~spoiled' => ~spoiled /\ (isConnected \/ f.op = "PING")
  BY <1>1, <1>3 DEF Spoil, Matters
<1> HIDE DEF f, g
<1>7. PortClosed'
  BY <1>2, <1>4 DEF ScreenInv, PortClosed
<1>8. PongsTyped'
  BY <1>2, <1>4, <1>5 DEF ScreenInv, PongsTyped
<1>9. TypeShown'
  BY <1>2, <1>6 DEF ScreenInv, TypeShown
<1>10. IdShown'
  <2>1. ~Of(f, "SET", "id")
    BY <1>3 DEF Of
  <2> QED BY <1>1, <1>2, <1>6, <2>1, EndsTail DEF ScreenInv, IdShown, f
<1>11. AnswersComing'
  <2> SUFFICES ASSUME ~spoiled', deviceId' # Nothing, NEW i \in Item, Knows(i)'
               PROVE  Asked(i)' \/ Ends(toTool', "ACK", i, shown'[i], memory'[i])
    BY DEF AnswersComing
  <2>1. Asked(i) \/ Ends(toTool, "ACK", i, shown[i], memory[i])
    BY <1>2, <1>6 DEF ScreenInv, AnswersComing, Knows
  <2>2. CASE Of(f, "GET", i)
    <3>1. isConnected /\ toTool' = Append(toTool, g) /\ Of(g, "ACK", i) /\ g.value = memory[i]
      BY <1>4, <1>5, <1>6, <2>2 DEF Of
    <3>2. Has(toTool', "ACK", i)
      BY <1>4, <3>1, HasAppend
    <3>3. Ends(toTool', "ACK", i, shown[i], memory[i])
      BY <1>4, <3>1, <3>2, LastAppend DEF Ends
    <3> QED BY <1>2, <3>3
  <2>3. CASE ~Of(f, "GET", i)
    <3>1. Asked(i) => Asked(i)'
      <4>1. ~Of(f, "SET", i)
        BY <1>3 DEF Of
      <4> QED BY <1>1, <1>2, <2>3, <4>1, HasTail DEF Asked, f
    <3>2. ~Of(g, "ACK", i)
      BY <1>5, <2>3
    <3>3. Ends(toTool, "ACK", i, shown[i], memory[i])
          => Ends(toTool', "ACK", i, shown[i], memory[i])
      BY <1>4, <3>2, EndsAppend
    <3> QED BY <1>2, <2>1, <3>1, <3>3
  <2> QED BY <2>2, <2>3
<1> QED BY <1>7, <1>8, <1>9, <1>10, <1>11 DEF ScreenInv

\* Beginning to handle a SET.
LEMMA BeginSetScreen ==
    ASSUME IInv, ScreenInv, configRoutine(isConnected), BeginSet(Head(toDevice)),
           Spoil(~isConnected /\ (todo = {"answer"} \/ (Idle /\ Matters(Head(toDevice))))),
           UNCHANGED toolVars
    PROVE  ScreenInv'
<1> DEFINE f == Head(toDevice)
<1>1. /\ toDevice \in Seq(ToDevice) /\ toDevice # << >> /\ toDevice' = Tail(toDevice)
      /\ f \in ToDevice /\ Idle
  BY DEF IInv, TypeOK, LineTypeOK, configRoutine
<1>2. UNCHANGED <<deviceType, toTool, isConnected, deviceId, shown, shownType>>
  BY DEF BeginSet, toolVars
<1>3. /\ f.op = "SET" /\ f.item \in Item /\ f.value \in Byte
      /\ memory' = [memory EXCEPT ![f.item] = Sanitize(f.item, f.value)]
      /\ handled' = f.item
      /\ f.item # "id" => "answer" \in todo'
  BY <1>1 DEF BeginSet, ToDevice
<1>4. memory \in [Item -> Byte] /\ todo = {} /\ handled = Nothing
  BY <1>1 DEF IInv, TypeOK, DeviceTypeOK, Handling, Idle
<1>5. ~spoiled' => ~spoiled
  BY DEF Spoil
<1> HIDE DEF f
<1>6. PortClosed' /\ PongsTyped' /\ TypeShown'
  BY <1>2, <1>5 DEF ScreenInv, PortClosed, PongsTyped, TypeShown
<1>7. IdShown'
  <2> SUFFICES ASSUME ~spoiled', shown["id"] # deviceId
               PROVE  Ends(toDevice', "SET", "id", memory'["id"], shown["id"])
    BY <1>2 DEF IdShown
  <2>1. Ends(toDevice, "SET", "id", memory["id"], shown["id"])
    BY <1>5 DEF ScreenInv, IdShown
  <2>2. CASE Of(f, "SET", "id")
    <3>1. memory'["id"] = f.value
      BY <1>3, <1>4, <2>2 DEF Of, Sanitize
    <3> QED BY <1>1, <2>1, <2>2, <3>1, EndsTail DEF f
  <2>3. CASE ~Of(f, "SET", "id")
    <3>1. memory'["id"] = memory["id"]
      BY <1>3, <1>4, <2>3 DEF Of
    <3> QED BY <1>1, <2>1, <2>3, <3>1, EndsTail DEF f
  <2> QED BY <2>2, <2>3
<1>8. AnswersComing'
  <2> SUFFICES ASSUME ~spoiled', deviceId' # Nothing, NEW i \in Item, Knows(i)'
               PROVE  Asked(i)' \/ Ends(toTool', "ACK", i, shown'[i], memory'[i])
    BY DEF AnswersComing
  <2>1. Asked(i) \/ Ends(toTool, "ACK", i, shown[i], memory[i])
    BY <1>2, <1>5 DEF ScreenInv, AnswersComing, Knows
  <2>2. CASE f.item = i
    <3>1. i # "id"
      BY <1>2 DEF Knows, RadioItem, SlotItem
    <3> QED BY <1>3, <2>2, <3>1 DEF Asked
  <2>3. CASE f.item # i
    <3>1. memory'[i] = memory[i]
      BY <1>3, <1>4, <2>3
    <3>2. Asked(i) => Asked(i)'
      <4>1. ~Of(f, "GET", i) /\ ~Of(f, "SET", i)
        BY <2>3 DEF Of
      <4> QED BY <1>1, <1>4, <4>1, HasTail DEF Asked, f
    <3> QED BY <1>2, <2>1, <3>1, <3>2
  <2> QED BY <2>2, <2>3
<1> QED BY <1>6, <1>7, <1>8 DEF ScreenInv

\* Passing over a frame that the device does not know.
LEMMA IgnoreScreen ==
    ASSUME IInv, ScreenInv, configRoutine(isConnected), Ignore(Head(toDevice)),
           Spoil(~isConnected /\ (todo = {"answer"} \/ (Idle /\ Matters(Head(toDevice))))),
           UNCHANGED toolVars
    PROVE  ScreenInv'
<1> DEFINE f == Head(toDevice)
<1>1. toDevice \in Seq(ToDevice) /\ toDevice # << >> /\ toDevice' = Tail(toDevice)
  BY DEF IInv, TypeOK, LineTypeOK, configRoutine
<1>2. UNCHANGED <<deviceType, memory, handled, todo, toTool>>
      /\ UNCHANGED <<isConnected, deviceId, shown, shownType>>
  BY DEF Ignore, deviceVars, toolVars
<1>3. ~Knows(f.item) /\ ~Of(f, "SET", "id")
  BY DEF Ignore, Of
<1>4. ~spoiled' => ~spoiled
  BY DEF Spoil
<1> HIDE DEF f
<1>5. PortClosed' /\ PongsTyped' /\ TypeShown'
  BY <1>2, <1>4 DEF ScreenInv, PortClosed, PongsTyped, TypeShown
<1>6. IdShown'
  BY <1>1, <1>2, <1>3, <1>4, EndsTail DEF ScreenInv, IdShown, f
<1>7. AnswersComing'
  <2> SUFFICES ASSUME ~spoiled', deviceId' # Nothing, NEW i \in Item, Knows(i)'
               PROVE  Asked(i)' \/ Ends(toTool', "ACK", i, shown'[i], memory'[i])
    BY DEF AnswersComing
  <2>1. Knows(i) /\ (Asked(i) \/ Ends(toTool, "ACK", i, shown[i], memory[i]))
    BY <1>2, <1>4 DEF ScreenInv, AnswersComing, Knows
  <2>2. ~Of(f, "GET", i) /\ ~Of(f, "SET", i)
    BY <1>3, <2>1 DEF Of
  <2>3. Asked(i) => Asked(i)'
    BY <1>1, <1>2, <2>2, HasTail DEF Asked, f
  <2> QED BY <1>2, <2>1, <2>3
<1> QED BY <1>5, <1>6, <1>7 DEF ScreenInv

\* Answering a SET.
LEMMA AnswerSetScreen ==
    ASSUME IInv, ScreenInv, Answer(isConnected),
           Spoil(~isConnected /\ (todo = {"answer"} \/ (Idle /\ Matters(Head(toDevice))))),
           UNCHANGED toolVars
    PROVE  ScreenInv'
<1> DEFINE g == AckOf(handled, memory[handled])
<1>1. /\ UNCHANGED <<deviceType, memory, toDevice, isConnected, deviceId, shown, shownType>>
      /\ todo = {"answer"} /\ Write(isConnected, g)
  BY DEF Answer, toolVars
<1>2. handled \in Item \ {"id"} /\ memory \in [Item -> Byte]
  BY <1>1 DEF IInv, TypeOK, DeviceTypeOK, Handling
<1>3. /\ toTool \in Seq(ToTool) /\ g \in ToTool
      /\ toTool' = IF isConnected THEN Append(toTool, g) ELSE toTool
  BY <1>1, <1>2, AckTyped DEF Write, IInv, TypeOK, LineTypeOK
<1>4. g.op = "ACK" /\ g.item = handled /\ g.value = memory[handled]
  BY DEF AckOf
<1>5. ~spoiled' => ~spoiled /\ isConnected
  BY <1>1 DEF Spoil
<1> HIDE DEF g
<1>6. PortClosed' /\ TypeShown' /\ IdShown'
  BY <1>1, <1>3, <1>5 DEF ScreenInv, PortClosed, TypeShown, IdShown
<1>7. PongsTyped'
  BY <1>1, <1>3, <1>4 DEF ScreenInv, PongsTyped
<1>8. AnswersComing'
  <2> SUFFICES ASSUME ~spoiled', deviceId' # Nothing, NEW i \in Item, Knows(i)'
               PROVE  Asked(i)' \/ Ends(toTool', "ACK", i, shown'[i], memory'[i])
    BY DEF AnswersComing
  <2>1. Asked(i) \/ Ends(toTool, "ACK", i, shown[i], memory[i])
    BY <1>1, <1>5 DEF ScreenInv, AnswersComing, Knows
  <2>2. toTool' = Append(toTool, g)
    BY <1>3, <1>5
  <2>3. CASE handled = i
    <3>1. Of(g, "ACK", i) /\ g.value = memory[i]
      BY <1>4, <2>3 DEF Of
    <3>2. Has(toTool', "ACK", i)
      BY <1>3, <2>2, <3>1, HasAppend
    <3>3. Ends(toTool', "ACK", i, shown[i], memory[i])
      BY <1>3, <2>2, <3>1, <3>2, LastAppend DEF Ends
    <3> QED BY <1>1, <3>3
  <2>4. CASE handled # i
    <3>1. Asked(i) => Asked(i)'
      BY <1>1, <2>4 DEF Asked
    <3>2. ~Of(g, "ACK", i)
      BY <1>4, <2>4 DEF Of
    <3>3. Ends(toTool, "ACK", i, shown[i], memory[i])
          => Ends(toTool', "ACK", i, shown[i], memory[i])
      BY <1>3, <2>2, <3>2, EndsAppend
    <3> QED BY <1>1, <2>1, <3>1, <3>3
  <2> QED BY <2>3, <2>4
<1> QED BY <1>6, <1>7, <1>8 DEF ScreenInv

\* The device's other steps say nothing, and forget nothing.
LEMMA OfDeviceScreen == ASSUME IInv, IInv', ScreenInv, OfDevice PROVE ScreenInv'
<1>1. /\ DeviceStep(isConnected)
      /\ Spoil(~isConnected /\ (todo = {"answer"} \/ (Idle /\ Matters(Head(toDevice)))))
      /\ UNCHANGED toolVars
  BY DEF OfDevice
<1>2. CASE configRoutine(isConnected)
  BY <1>1, <1>2, AnswerScreen, BeginSetScreen, IgnoreScreen DEF configRoutine
<1>3. CASE Answer(isConnected)
  BY <1>1, <1>3, AnswerSetScreen
<1>4. CASE Store \/ EnterSetMode \/ TellRadio \/ LeaveSetMode
  <2>1. UNCHANGED <<lineVars, deviceType, memory, isConnected, deviceId, shown, shownType>>
    BY <1>1, <1>4 DEF Store, EnterSetMode, TellRadio, LeaveSetMode, lineVars, toolVars
  <2>2. "answer" \in todo => handled' = handled /\ "answer" \in todo'
    BY <1>4 DEF Store, Done, EnterSetMode, TellRadio, LeaveSetMode
  <2>3. \A i \in Item : Asked(i) => Asked(i)'
    BY <2>1, <2>2 DEF Asked, lineVars
  <2>4. spoiled \in BOOLEAN /\ spoiled' \in BOOLEAN /\ (spoiled => spoiled')
    BY <1>1 DEF Spoil, IInv, TypeOK
  <2> QED BY <2>1, <2>3, <2>4, ScreenKept
<1> QED BY <1>1, <1>2, <1>3, <1>4 DEF DeviceStep

\* Pinging: nobody waits for a PING.
LEMMA PingScreen == ASSUME IInv, ScreenInv, Ping PROVE ScreenInv'
<1>1. /\ toDevice \in Seq(ToDevice) /\ PingFor \in ToDevice
      /\ toDevice' = Append(toDevice, PingFor)
      /\ UNCHANGED <<deviceType, memory, handled, todo, toTool, spoiled>>
      /\ UNCHANGED <<isConnected, deviceId, shown, shownType>>
  BY DEF Ping, serialPing, toolVars, deviceVars, IInv, TypeOK, LineTypeOK, PingFor, ToDevice
<1>2. \A op \in {"GET", "SET"} : \A i : ~Of(PingFor, op, i)
  BY DEF Of, PingFor
<1>3. PortClosed' /\ PongsTyped' /\ TypeShown'
  BY <1>1 DEF ScreenInv, PortClosed, PongsTyped, TypeShown
<1>4. IdShown'
  BY <1>1, <1>2, EndsAppend DEF ScreenInv, IdShown
<1>5. \A i \in Item : Asked(i) => Asked(i)'
  BY <1>1, HasAppend DEF Asked
<1>6. AnswersComing'
  BY <1>1, <1>5 DEF ScreenInv, AnswersComing, Knows
<1> QED BY <1>3, <1>4, <1>6 DEF ScreenInv

\* Hearing of a device: if its id is new, all of its settings are asked for.
LEMMA PongScreen ==
    ASSUME IInv, ScreenInv, Read, ProcessPong(Head(toTool))
    PROVE  ScreenInv'
<1> DEFINE f == Head(toTool)
<1>1. /\ toTool \in Seq(ToTool) /\ toTool # << >> /\ toTool' = Tail(toTool)
      /\ f \in ToTool /\ isConnected
      /\ UNCHANGED <<deviceType, memory, handled, todo, isConnected>>
  BY DEF Read, readData, deviceVars, IInv, TypeOK, LineTypeOK
<1>2. /\ f.op = "PONG" /\ f.id \in Byte /\ shownType' = f.type
      /\ IF NewId(f)
         THEN /\ deviceId' = f.id
              /\ shown' = [shown EXCEPT !["id"] = f.id]
              /\ toDevice' = IF Room(toDevice, Len(Requests(f.type)))
                              THEN toDevice \o Requests(f.type)
                              ELSE toDevice
              /\ spoiled' = ~Room(toDevice, Len(Requests(f.type)))
         ELSE UNCHANGED <<deviceId, shown, toDevice, spoiled>>
  BY <1>1 DEF ProcessPong, Read, ToTool
<1>3. f.type = deviceType
  BY <1>1, <1>2 DEF ScreenInv, PongsTyped
<1> HIDE DEF f
<1>4. PortClosed' /\ PongsTyped'
  BY <1>1 DEF ScreenInv, PortClosed, PongsTyped
<1>5. TypeShown'
  BY <1>1, <1>2, <1>3 DEF TypeShown
<1>6. CASE NewId(f)
  <2>1. shown \in [Item -> Byte \cup {Nothing}]
    BY DEF IInv, TypeOK, ToolTypeOK
  <2>2. IdShown'
    BY <1>2, <1>6, <2>1 DEF IdShown
  <2>3. AnswersComing'
    <3> SUFFICES ASSUME ~spoiled', NEW i \in Item, Knows(i)' PROVE Asked(i)'
      BY DEF AnswersComing
    <3>1. toDevice' = toDevice \o Requests(deviceType)
      BY <1>2, <1>3, <1>6
    <3>2. Has(Requests(deviceType), "GET", i)
      BY <1>1, AsksForAll DEF Knows
    <3>3. toDevice \in Seq(ToDevice) /\ Requests(deviceType) \in Seq(ToDevice)
      BY RequestsTyped DEF IInv, TypeOK, LineTypeOK
    <3>4. Has(toDevice', "GET", i)
      BY <3>1, <3>2, <3>3, HasConcat
    <3> QED BY <3>4 DEF Asked
  <2> QED BY <1>4, <1>5, <2>2, <2>3 DEF ScreenInv
<1>7. CASE ~NewId(f)
  <2>1. UNCHANGED <<deviceId, shown, toDevice, spoiled>>
    BY <1>2, <1>7
  <2>2. \A i : ~Of(f, "ACK", i)
    BY <1>2 DEF Of
  <2>3. IdShown'
    BY <1>1, <2>1 DEF ScreenInv, IdShown
  <2>4. AnswersComing'
    <3> SUFFICES ASSUME ~spoiled', deviceId' # Nothing, NEW i \in Item, Knows(i)'
                 PROVE  Asked(i)' \/ Ends(toTool', "ACK", i, shown'[i], memory'[i])
      BY DEF AnswersComing
    <3>1. Asked(i) \/ Ends(toTool, "ACK", i, shown[i], memory[i])
      BY <1>1, <2>1 DEF ScreenInv, AnswersComing, Knows
    <3>2. Ends(toTool, "ACK", i, shown[i], memory[i])
          => Ends(toTool', "ACK", i, shown[i], memory[i])
      BY <1>1, <2>2, EndsTail DEF f
    <3> QED BY <1>1, <2>1, <3>1, <3>2 DEF Asked
  <2> QED BY <1>4, <1>5, <2>3, <2>4 DEF ScreenInv
<1> QED BY <1>6, <1>7

\* Hearing a value.
LEMMA AckScreen ==
    ASSUME IInv, ScreenInv, Read, ProcessAck(Head(toTool))
    PROVE  ScreenInv'
<1> DEFINE f == Head(toTool)
<1>1. /\ toTool \in Seq(ToTool) /\ toTool # << >> /\ toTool' = Tail(toTool)
      /\ f \in ToTool /\ isConnected
      /\ UNCHANGED <<deviceType, memory, handled, todo, isConnected>>
  BY DEF Read, readData, deviceVars, IInv, TypeOK, LineTypeOK
<1>2. /\ f.op = "ACK" /\ f.item \in Item \ {"id"}
      /\ shown' = [shown EXCEPT ![f.item] = f.value]
      /\ UNCHANGED <<deviceId, shownType, toDevice, spoiled>>
  BY <1>1 DEF ProcessAck, Read, ToTool
<1>3. shown \in [Item -> Byte \cup {Nothing}]
  BY DEF IInv, TypeOK, ToolTypeOK
<1> HIDE DEF f
<1>4. PortClosed' /\ PongsTyped' /\ TypeShown'
  BY <1>1, <1>2 DEF ScreenInv, PortClosed, PongsTyped, TypeShown
<1>5. IdShown'
  <2>1. shown'["id"] = shown["id"]
    BY <1>2, <1>3
  <2> QED BY <1>1, <1>2, <2>1 DEF ScreenInv, IdShown
<1>6. AnswersComing'
  <2> SUFFICES ASSUME ~spoiled', deviceId' # Nothing, NEW i \in Item, Knows(i)'
               PROVE  Asked(i)' \/ Ends(toTool', "ACK", i, shown'[i], memory'[i])
    BY DEF AnswersComing
  <2>1. Asked(i) \/ Ends(toTool, "ACK", i, shown[i], memory[i])
    BY <1>1, <1>2 DEF ScreenInv, AnswersComing, Knows
  <2>2. Asked(i) => Asked(i)'
    BY <1>1, <1>2 DEF Asked
  <2>3. ASSUME Ends(toTool, "ACK", i, shown[i], memory[i])
        PROVE  Ends(toTool', "ACK", i, shown'[i], memory[i])
    <3>1. CASE Of(f, "ACK", i)
      <4>1. shown'[i] = f.value
        BY <1>2, <1>3, <3>1 DEF Of
      <4> QED BY <1>1, <2>3, <3>1, <4>1, EndsTail DEF f
    <3>2. CASE ~Of(f, "ACK", i)
      <4>1. shown'[i] = shown[i]
        BY <1>2, <1>3, <3>2 DEF Of
      <4> QED BY <1>1, <2>3, <3>2, <4>1, EndsTail DEF f
    <3> QED BY <3>1, <3>2
  <2> QED BY <1>1, <2>1, <2>2, <2>3
<1> QED BY <1>4, <1>5, <1>6 DEF ScreenInv

\* What the user types is shown at once, and sent unless the port is closed.
LEMMA TypeScreen ==
    ASSUME IInv, ScreenInv, UNCHANGED deviceVars,
           NEW j \in DOMAIN Typed, NEW v \in Typed[j], Update(j, v),
           Spoil(~isConnected \/ ~(j = "id" \/ Knows(j)))
    PROVE  ScreenInv'
<1> DEFINE f == SetFor(j, v)
<1>1. /\ UNCHANGED <<deviceType, memory, handled, todo, toTool>>
      /\ UNCHANGED <<isConnected, deviceId, shownType>>
      /\ j \in Item /\ v \in Byte
      /\ toDevice \in Seq(ToDevice) /\ f \in ToDevice
      /\ isConnected => toDevice' = Append(toDevice, f)
      /\ shown \in [Item -> Byte \cup {Nothing}] /\ shown' = [shown EXCEPT ![j] = v]
  BY DEF Update, deviceVars, SetFor, ToDevice, IInv, TypeOK, LineTypeOK, ToolTypeOK
<1>2. ~spoiled' => ~spoiled /\ toDevice' = Append(toDevice, f)
  BY <1>1 DEF Spoil
<1>3. Of(f, "SET", j) /\ f.value = v
      /\ \A i : Of(f, "SET", i) => i = j
  BY DEF Of, SetFor
<1> HIDE DEF f
<1>4. \A op, i : Has(Append(toDevice, f), op, i) <=> Has(toDevice, op, i) \/ Of(f, op, i)
  BY <1>1, HasAppend
<1>5. Last(Append(toDevice, f), "SET", j, v)
  BY <1>1, <1>3, LastAppend
<1>6. PortClosed' /\ PongsTyped' /\ TypeShown'
  BY <1>1, <1>2 DEF ScreenInv, PortClosed, PongsTyped, TypeShown
<1>7. IdShown'
  <2> SUFFICES ASSUME ~spoiled', shown'["id"] # deviceId
               PROVE  Ends(toDevice', "SET", "id", memory["id"], shown'["id"])
    BY <1>1 DEF IdShown
  <2>1. CASE j = "id"
    <3>1. Has(toDevice', "SET", "id") /\ Last(toDevice', "SET", "id", v)
      BY <1>2, <1>3, <1>4, <1>5, <2>1
    <3> QED BY <1>1, <2>1, <3>1 DEF Ends
  <2>2. CASE j # "id"
    <3>1. shown'["id"] = shown["id"] /\ ~Of(f, "SET", "id")
      BY <1>1, <1>3, <2>2
    <3>2. Ends(toDevice, "SET", "id", memory["id"], shown["id"])
      BY <1>2, <3>1 DEF ScreenInv, IdShown
    <3>3. Ends(Append(toDevice, f), "SET", "id", memory["id"], shown["id"])
      BY <1>1, <3>1, <3>2, EndsAppend
    <3> QED BY <1>2, <3>1, <3>3
  <2> QED BY <2>1, <2>2
<1>8. AnswersComing'
  <2> SUFFICES ASSUME ~spoiled', deviceId' # Nothing, NEW i \in Item, Knows(i)'
               PROVE  Asked(i)' \/ Ends(toTool', "ACK", i, shown'[i], memory'[i])
    BY DEF AnswersComing
  <2>1. Asked(i) \/ Ends(toTool, "ACK", i, shown[i], memory[i])
    BY <1>1, <1>2 DEF ScreenInv, AnswersComing, Knows
  <2>2. CASE i = j
    BY <1>2, <1>3, <1>4, <2>2 DEF Asked
  <2>3. CASE i # j
    <3>1. toDevice' = Append(toDevice, f)
      BY <1>2
    <3>2. Asked(i) => Asked(i)'
      BY <1>1, <1>4, <3>1 DEF Asked
    <3>3. shown'[i] = shown[i]
      BY <1>1, <2>3
    <3> QED BY <1>1, <2>1, <3>2, <3>3
  <2> QED BY <2>2, <2>3
<1> QED BY <1>6, <1>7, <1>8 DEF ScreenInv

\* Closing the port throws away what waits in it.
LEMMA DisconnectScreen ==
    ASSUME IInv, ScreenInv, Disconnect, Spoil(Waited(toTool)), UNCHANGED deviceVars
    PROVE  ScreenInv'
<1>1. /\ UNCHANGED <<deviceType, memory, handled, todo, toDevice>>
      /\ UNCHANGED <<deviceId, shown, shownType>>
      /\ toTool' = << >>
  BY DEF Disconnect, deviceVars
<1>2. ~spoiled' => ~spoiled /\ ~Waited(toTool)
  BY DEF Spoil
<1>3. ASSUME NEW i, NEW a, NEW b PROVE Ends(toTool', "ACK", i, a, b) <=> a = b
  BY <1>1 DEF Ends, Has
<1>4. PortClosed' /\ PongsTyped' /\ TypeShown' /\ IdShown'
  BY <1>1, <1>2 DEF ScreenInv, PortClosed, PongsTyped, TypeShown, IdShown
<1>5. AnswersComing'
  <2> SUFFICES ASSUME ~spoiled', deviceId' # Nothing, NEW i \in Item, Knows(i)'
               PROVE  Asked(i)' \/ Ends(toTool', "ACK", i, shown'[i], memory'[i])
    BY DEF AnswersComing
  <2>1. Asked(i) \/ Ends(toTool, "ACK", i, shown[i], memory[i])
    BY <1>1, <1>2 DEF ScreenInv, AnswersComing, Knows
  <2>2. Ends(toTool, "ACK", i, shown[i], memory[i]) <=> shown[i] = memory[i]
    BY <1>2, NotWaited DEF Ends
  <2>3. Ends(toTool', "ACK", i, shown[i], memory[i]) <=> shown[i] = memory[i]
    BY <1>3
  <2> QED BY <1>1, <2>1, <2>2, <2>3 DEF Asked
<1> QED BY <1>4, <1>5 DEF ScreenInv

LEMMA UserScreen == ASSUME IInv, IInv', ScreenInv, User PROVE ScreenInv'
<1>1. UNCHANGED deviceVars
  BY DEF User
<1>2. CASE \E i \in DOMAIN Typed : TypeValue(i) /\ Spoil(~isConnected \/ ~(i = "id" \/ Knows(i)))
  BY <1>1, <1>2, TypeScreen DEF TypeValue
<1>3. CASE Connect /\ Spoil(FALSE)
  <2>1. UNCHANGED <<lineVars, deviceId, shown, shownType, deviceType, memory, handled, todo>>
        /\ isConnected'
    BY <1>1, <1>3 DEF Connect, deviceVars
  <2>2. \A i \in Item : Asked(i) => Asked(i)'
    BY <2>1 DEF Asked, lineVars
  <2>3. spoiled \in BOOLEAN /\ spoiled' \in BOOLEAN /\ (spoiled => spoiled')
    BY <1>3 DEF Spoil, IInv, TypeOK
  <2> QED BY <2>1, <2>2, <2>3, ScreenKept
<1>4. CASE Disconnect /\ Spoil(Waited(toTool))
  BY <1>1, <1>4, DisconnectScreen
<1> QED BY <1>2, <1>3, <1>4 DEF User

\* What is lost unnoticed is a frame that nobody waits for.
LEMMA LoseScreen == ASSUME IInv, ScreenInv, Lose PROVE ScreenInv'
<1>1. /\ UNCHANGED <<deviceType, memory, handled, todo>>
      /\ UNCHANGED <<isConnected, deviceId, shown, shownType>>
      /\ toDevice \in Seq(ToDevice) /\ toTool \in Seq(ToTool)
  BY DEF Lose, deviceVars, toolVars, IInv, TypeOK, LineTypeOK
<1>2. CASE LoseToDevice /\ Spoil(Matters(Head(toDevice)))
  <2> DEFINE f == Head(toDevice)
  <2>1. toDevice # << >> /\ toDevice' = Tail(toDevice) /\ toTool' = toTool
    BY <1>2 DEF LoseToDevice
  <2>2. ~spoiled' => ~spoiled /\ \A i : ~Of(f, "GET", i) /\ ~Of(f, "SET", i)
    BY <1>2 DEF Spoil, Matters, Of
  <2> HIDE DEF f
  <2>3. PortClosed' /\ PongsTyped' /\ TypeShown'
    BY <1>1, <2>1, <2>2 DEF ScreenInv, PortClosed, PongsTyped, TypeShown
  <2>4. IdShown'
    BY <1>1, <2>1, <2>2, EndsTail DEF ScreenInv, IdShown, f
  <2>5. AnswersComing'
    <3> SUFFICES ASSUME ~spoiled', deviceId' # Nothing, NEW i \in Item, Knows(i)'
                 PROVE  Asked(i)' \/ Ends(toTool', "ACK", i, shown'[i], memory'[i])
      BY DEF AnswersComing
    <3>1. Asked(i) \/ Ends(toTool, "ACK", i, shown[i], memory[i])
      BY <1>1, <2>2 DEF ScreenInv, AnswersComing, Knows
    <3>2. Asked(i) => Asked(i)'
      BY <1>1, <2>1, <2>2, HasTail DEF Asked, f
    <3> QED BY <1>1, <2>1, <3>1, <3>2
  <2> QED BY <2>3, <2>4, <2>5 DEF ScreenInv
<1>3. CASE LoseToTool /\ Spoil(Matters(Head(toTool)))
  <2> DEFINE f == Head(toTool)
  <2>1. toTool # << >> /\ toTool' = Tail(toTool) /\ toDevice' = toDevice
    BY <1>3 DEF LoseToTool
  <2>2. ~spoiled' => ~spoiled /\ \A i : ~Of(f, "ACK", i)
    BY <1>3 DEF Spoil, Matters, Of
  <2> HIDE DEF f
  <2>3. PortClosed' /\ PongsTyped' /\ TypeShown' /\ IdShown'
    BY <1>1, <2>1, <2>2 DEF ScreenInv, PortClosed, PongsTyped, TypeShown, IdShown
  <2>4. AnswersComing'
    <3> SUFFICES ASSUME ~spoiled', deviceId' # Nothing, NEW i \in Item, Knows(i)'
                 PROVE  Asked(i)' \/ Ends(toTool', "ACK", i, shown'[i], memory'[i])
      BY DEF AnswersComing
    <3>1. Asked(i) \/ Ends(toTool, "ACK", i, shown[i], memory[i])
      BY <1>1, <2>2 DEF ScreenInv, AnswersComing, Knows
    <3>2. ~Of(f, "ACK", i)
      BY <2>2
    <3>3. Ends(toTool, "ACK", i, shown[i], memory[i])
          => Ends(toTool', "ACK", i, shown[i], memory[i])
      BY <1>1, <2>1, <3>2, EndsTail DEF f
    <3> QED BY <1>1, <2>1, <3>1, <3>3 DEF Asked
  <2> QED BY <2>3, <2>4 DEF ScreenInv
<1> QED BY <1>2, <1>3 DEF Lose

\* A power cut takes the requests on the way with it, and what was not yet stored.
LEMMA FailScreen == ASSUME IInv, ScreenInv, Fail PROVE ScreenInv'
<1>1. /\ UNCHANGED <<deviceType, toTool, isConnected, deviceId, shown, shownType>>
      /\ memory' = Durable /\ toDevice' = << >>
  BY DEF Fail, PowerCut, Setup, Durable, toolVars
<1>2. ~spoiled' => ~spoiled /\ todo = {} /\ ~Waited(toDevice)
  BY DEF Fail, Spoil
<1>3. todo = {} => \A i \in Item : memory[i] = Durable[i]
  BY DEF IInv, Stored
<1>4. ASSUME NEW i, NEW a, NEW b PROVE Ends(toDevice', "SET", i, a, b) <=> a = b
  BY <1>1 DEF Ends, Has
<1>5. PortClosed' /\ PongsTyped' /\ TypeShown'
  BY <1>1, <1>2 DEF ScreenInv, PortClosed, PongsTyped, TypeShown
<1>6. IdShown'
  <2> SUFFICES ASSUME ~spoiled', shown["id"] # deviceId PROVE memory'["id"] = shown["id"]
    BY <1>1, <1>4 DEF IdShown
  <2>1. Ends(toDevice, "SET", "id", memory["id"], shown["id"]) /\ ~Waited(toDevice)
    BY <1>2 DEF ScreenInv, IdShown
  <2>2. memory["id"] = shown["id"]
    BY <2>1, NotWaited DEF Ends
  <2> QED BY <1>1, <1>2, <1>3, <2>2
<1>7. AnswersComing'
  <2> SUFFICES ASSUME ~spoiled', deviceId' # Nothing, NEW i \in Item, Knows(i)'
               PROVE  Asked(i)' \/ Ends(toTool', "ACK", i, shown'[i], memory'[i])
    BY DEF AnswersComing
  <2>1. Asked(i) \/ Ends(toTool, "ACK", i, shown[i], memory[i])
    BY <1>1, <1>2 DEF ScreenInv, AnswersComing, Knows
  <2>2. ~Asked(i)
    BY <1>2, NotWaited DEF Asked
  <2>3. memory'[i] = memory[i]
    BY <1>1, <1>2, <1>3
  <2> QED BY <1>1, <2>1, <2>2, <2>3
<1> QED BY <1>5, <1>6, <1>7 DEF ScreenInv

\* Each step keeps ScreenInv.
LEMMA NextScreenInv == IInv /\ IInv' /\ ScreenInv /\ [Next]_vars => ScreenInv'
<1> SUFFICES ASSUME IInv, IInv', ScreenInv, [Next]_vars PROVE ScreenInv'
  OBVIOUS
<1>1. CASE OfDevice
  BY <1>1, OfDeviceScreen
<1>2. CASE Ping
  BY <1>2, PingScreen
<1>3. CASE Read
  BY <1>3, PongScreen, AckScreen DEF Read, readData
<1>4. CASE User
  BY <1>4, UserScreen
<1>5. CASE Lose
  BY <1>5, LoseScreen
<1>6. CASE Fail
  BY <1>6, FailScreen
<1>7. CASE Change
  <2>1. toTool' = << >> /\ isConnected' = isConnected /\ spoiled' = TRUE
    BY <1>7 DEF Change, Plug, toolVars, ScreenInv, PortClosed
  <2> QED BY <2>1 DEF ScreenInv, PortClosed, PongsTyped, TypeShown, IdShown, AnswersComing
<1>8. CASE UNCHANGED vars
  <2>1. /\ UNCHANGED <<lineVars, deviceId, shown, shownType, deviceType, memory, spoiled>>
        /\ UNCHANGED <<isConnected, handled, todo>>
    BY <1>8 DEF vars, toolVars, deviceVars
  <2>2. \A i \in Item : Asked(i) => Asked(i)'
    BY <2>1 DEF Asked, lineVars
  <2>3. spoiled \in BOOLEAN /\ spoiled' \in BOOLEAN /\ (spoiled => spoiled')
    BY <2>1 DEF IInv, TypeOK
  <2> QED BY <2>1, <2>2, <2>3, ScreenKept
<1> QED BY <1>1, <1>2, <1>3, <1>4, <1>5, <1>6, <1>7, <1>8 DEF Next

\* Once nothing is on the way, and nothing was lost behind the tool's back, the tool
\* shows the type and the settings of the device that it took for its own.
THEOREM ScreenTrueHolds == Spec => []ScreenTrue
<1>1. IInv /\ ScreenInv => ScreenTrue
  <2> SUFFICES ASSUME IInv, ScreenInv, ~spoiled, Quiet, deviceId = memory["id"]
               PROVE  /\ shownType = deviceType
                      /\ \A i \in Item : i = "id" \/ Knows(i) => Shows(i)
    BY DEF ScreenTrue
  <2>1. deviceId # Nothing
    BY DEF IInv, TypeOK, DeviceTypeOK
  <2>2. shownType = deviceType
    BY <2>1 DEF ScreenInv, TypeShown
  <2>3. Shows("id")
    <3>1. shown["id"] = deviceId \/ Ends(toDevice, "SET", "id", memory["id"], shown["id"])
      BY DEF ScreenInv, IdShown
    <3> QED BY <3>1, NotWaited DEF Quiet, Shows, Ends
  <2>4. ASSUME NEW i \in Item, Knows(i) PROVE Shows(i)
    <3>1. Asked(i) \/ Ends(toTool, "ACK", i, shown[i], memory[i])
      BY <2>1, <2>4 DEF ScreenInv, AnswersComing
    <3>2. ~Asked(i)
      BY NotWaited DEF Asked, Quiet
    <3> QED BY <3>1, <3>2, NotWaited DEF Quiet, Shows, Ends
  <2> QED BY <2>2, <2>3, <2>4
<1> QED BY <1>1, InitScreenInv, NextScreenInv, Invariance, PTL DEF Spec
=============================================================================
