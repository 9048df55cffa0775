--------------------------------- MODULE HeaderProofs ----------------------------------
(* What holds of any headers, where the run of MCHeaders looks at the repository's.
   Fields: for all registers whose fields lie apart, whatever their number and layout,
   and for every sequence of writes. Structs: for any struct type, for any number of
   objects assigned in any order, and for a telemetry frame at any address. *)
EXTENDS Headers, FiniteSetTheorems, WellFoundedInduction, TLAPS

(* A behaviour of the two together is one of each. *)
LEMMA Both == HeadersSpec => Spec /\ Devices!Spec
<1>1. HeadersInit => Init /\ Devices!Init
    BY DEF HeadersInit
<1>2. ASSUME [HeadersNext]_<<layout, fieldVars, deviceVars>>
      PROVE  [Next]_vars /\ [Devices!Next]_Devices!vars
    <2>1. CASE Next /\ UNCHANGED deviceVars
        BY <2>1 DEF deviceVars, Devices!vars
    <2>2. CASE Devices!Next /\ UNCHANGED fieldVars
        BY <2>2 DEF fieldVars, vars
    <2>3. CASE UNCHANGED <<layout, fieldVars, deviceVars>>
        BY <2>3 DEF fieldVars, deviceVars, vars, Devices!vars
    <2> QED BY <1>2, <2>1, <2>2, <2>3 DEF HeadersNext
<1>3. [HeadersNext]_<<layout, fieldVars, deviceVars>>
        => [Next]_vars /\ [Devices!Next]_Devices!vars
    BY <1>2
<1> QED BY <1>1, <1>3, PTL DEF HeadersSpec, Spec, Devices!Spec

(* The registers have fields that lie apart (part of TypeOK in the run over the headers),
   and only values that fit a field are written to it. *)
WellFormed ==
    /\ \A r \in DOMAIN Registers : FieldsApart(Registers[r])
    /\ StartWords \subseteq SUBSET Bits
    /\ \A n \in Nat : Sample(n) \subseteq SUBSET (0..n - 1)
    /\ MaxWrites \in Nat

(* A field lies within the word. *)
LEMMA RunOfBits ==
    ASSUME NEW hi \in Bits, NEW lo \in 0..hi
    PROVE  lo..hi \subseteq Bits
BY SMT DEF Bits

(* POSITION_VAL finds where a field begins. *)
LEMMA PositionIsLow ==
    ASSUME NEW hi \in Bits, NEW lo \in 0..hi
    PROVE  POSITION_VAL(lo..hi) = lo
<1> DEFINE mirrored == RBIT(lo..hi)
<1>1. mirrored = (31 - hi)..(31 - lo)
    <2>1. \A x : x \in mirrored => x \in (31 - hi)..(31 - lo)
        BY SMT DEF RBIT, Bits
    <2>2. ASSUME NEW x \in (31 - hi)..(31 - lo) PROVE x \in mirrored
        <3>1. 31 - x \in lo..hi /\ x = 31 - (31 - x)
            BY SMT DEF Bits
        <3> QED BY <3>1 DEF RBIT
    <2> QED BY <2>1, <2>2
<1>2. 31 - lo \in mirrored /\ \A y \in mirrored : 31 - lo >= y
    BY <1>1, SMT DEF Bits
<1> HIDE DEF mirrored
<1>3. PICK m : m = Max(mirrored) /\ m \in mirrored /\ \A y \in mirrored : m >= y
    BY <1>2 DEF Max
<1>4. m = 31 - lo
    BY <1>1, <1>2, <1>3, SMT DEF Bits
<1>5. mirrored # {}
    BY <1>2
<1>6. CLZ(mirrored) = 31 - (31 - lo)
    BY <1>3, <1>4, <1>5 DEF CLZ
<1> QED BY <1>6, SMT DEF POSITION_VAL, mirrored, Bits

(* A field as wide as its mask: the numbers of its own bits. *)
LEMMA WidthIsSpan ==
    ASSUME NEW hi \in Bits, NEW lo \in 0..hi
    PROVE  Cardinality(lo..hi) = hi - lo + 1
BY FS_Interval, SMT DEF Bits

(* A value that fits a field goes to the bits of its mask and comes back. *)
LEMMA RoundTrip ==
    ASSUME NEW hi \in Bits, NEW lo \in 0..hi, NEW v \in SUBSET (0..hi - lo)
    PROVE  /\ ShiftLeft(v, lo) \subseteq lo..hi
           /\ VAL2FLD(lo, lo..hi, v) = ShiftLeft(v, lo)
           /\ ShiftRight(ShiftLeft(v, lo), lo) = v
<1> DEFINE up == ShiftLeft(v, lo)
<1>1. \A b \in v : b + lo \in up /\ b + lo - lo = b /\ b \in Bits
    BY SMT DEF ShiftLeft, Bits
<1>2. \A c \in up : c \in lo..hi /\ c - lo \in v
    BY SMT DEF ShiftLeft, Bits
<1> HIDE DEF up
<1>3. ShiftRight(up, lo) = v
    <2>1. \A x \in ShiftRight(up, lo) : x \in v
        BY <1>2 DEF ShiftRight
    <2>2. \A x \in v : x \in ShiftRight(up, lo)
        BY <1>1 DEF ShiftRight
    <2> QED BY <2>1, <2>2
<1>4. VAL2FLD(lo, lo..hi, v) = up
    BY <1>2 DEF VAL2FLD, up
<1> QED BY <1>2, <1>3, <1>4 DEF up

(* All the bits of a field are the widest value it can hold, and no bits are zero. *)
LEMMA FullAndEmpty ==
    ASSUME NEW hi \in Bits, NEW lo \in 0..hi
    PROVE  ShiftRight(lo..hi, lo) = 0..hi - lo /\ ShiftRight({}, lo) = {}
<1>1. \A x \in ShiftRight(lo..hi, lo) : x \in 0..hi - lo
    BY SMT DEF ShiftRight, Bits
<1>2. ASSUME NEW x \in 0..hi - lo PROVE x \in ShiftRight(lo..hi, lo)
    <2>1. x + lo \in lo..hi /\ x + lo - lo = x /\ x \in Bits
        BY SMT DEF Bits
    <2> QED BY <2>1 DEF ShiftRight
<1>3. ShiftRight({}, lo) = {}
    BY DEF ShiftRight
<1> QED BY <1>1, <1>2, <1>3

----------------------------------------------------------------------------------------
(* What all three conjuncts of ReadsBack say of a well-formed register. *)
Held(f) == ShiftRight(word \cap Msk(f), Pos(f))
Matches == \A f \in Fields : Held(f) = intended[f]

Inv == TypeOK /\ Matches

LEMMA MatchesReadsBack ==
    ASSUME WellFormed, Inv
    PROVE  ReadsBack
<1> SUFFICES ASSUME NEW f \in Fields
             PROVE  /\ FLD2VAL(Pos(f), Msk(f), word) = intended[f]
                    /\ ShiftRight(READ_BIT(word, Msk(f)), POSITION_VAL(Msk(f))) = intended[f]
                    /\ FLD2VAL(Pos(f), Member(f), word) = intended[f]
    BY DEF ReadsBack
<1>1. PICK hi \in Bits : Pos(f) \in 0..hi /\ Msk(f) = Pos(f)..hi
    BY DEF Inv, TypeOK, FieldsApart, Fields, Msk, Pos
<1>2. POSITION_VAL(Msk(f)) = Pos(f)
    BY <1>1, PositionIsLow
<1>3. Member(f) = Msk(f)
    BY DEF Inv, TypeOK, FieldsApart, Fields, Msk, Member, Masks
<1>4. Held(f) = intended[f]
    BY DEF Inv, Matches
<1> QED BY <1>2, <1>3, <1>4 DEF Held, FLD2VAL, READ_BIT

(* One write puts s in the place of the bits of field f: that field then holds the
   value of s, and no other field has changed. *)
LEMMA OneField ==
    ASSUME WellFormed, Inv, NEW f \in Fields, NEW s \in SUBSET Msk(f),
           Write((word \ Msk(f)) \cup s, [intended EXCEPT ![f] = ShiftRight(s, Pos(f))])
    PROVE  Inv'
<1>1. reg' = reg /\ word' = (word \ Msk(f)) \cup s
      /\ intended' = [intended EXCEPT ![f] = ShiftRight(s, Pos(f))]
      /\ writes' = writes + 1 /\ writes < MaxWrites
    BY DEF Write
<1>2. Fields' = Fields /\ \A g : Msk(g)' = Msk(g) /\ Pos(g)' = Pos(g)
    BY <1>1 DEF Fields, Msk, Pos
<1>3. Msk(f) \subseteq Bits
    <2>1. PICK hi \in Bits : Pos(f) \in 0..hi /\ Msk(f) = Pos(f)..hi
        BY DEF Inv, TypeOK, FieldsApart, Fields, Msk, Pos
    <2> QED BY <2>1, RunOfBits
<1>4. TypeOK'
    <2>1. word' \subseteq Bits
        BY <1>1, <1>3 DEF Inv, TypeOK
    <2>2. intended' \in [Fields -> SUBSET Bits]
        BY <1>1 DEF Inv, TypeOK, ShiftRight
    <2>3. writes' \in 0..MaxWrites
        BY <1>1, SMT DEF Inv, TypeOK, WellFormed
    <2> QED BY <1>1, <1>2, <2>1, <2>2, <2>3 DEF Inv, TypeOK
<1>5. ASSUME NEW g \in Fields PROVE ShiftRight(word' \cap Msk(g), Pos(g)) = intended'[g]
    <2>1. CASE g = f
        <3>1. word' \cap Msk(f) = s
            BY <1>1
        <3> QED BY <1>1, <2>1, <3>1 DEF Inv, TypeOK
    <2>2. CASE g # f
        <3>1. Msk(f) \cap Msk(g) = {}
            BY <2>2 DEF Inv, TypeOK, FieldsApart, Fields, Msk
        <3>2. word' \cap Msk(g) = word \cap Msk(g)
            BY <1>1, <3>1
        <3> QED BY <1>1, <2>2, <3>2 DEF Inv, TypeOK, Matches, Held
    <2> QED BY <2>1, <2>2
<1>6. Matches'
    BY <1>2, <1>5 DEF Matches, Held
<1> QED BY <1>4, <1>6 DEF Inv

(* Every write to a field is one of that form. *)
LEMMA WriteKeepsInv ==
    ASSUME WellFormed, Inv, NEW f \in Fields,
           SetField(f) \/ ClearField(f) \/ ModifyField(f) \/ ModifyAtPosition(f)
    PROVE  Inv' /\ word' \cap Reserved = word \cap Reserved
<1>1. PICK hi \in Bits : Pos(f) \in 0..hi /\ Msk(f) = Pos(f)..hi
    BY DEF Inv, TypeOK, FieldsApart, Fields, Msk, Pos
<1>2. Width(f) = hi - Pos(f) + 1 /\ Width(f) - 1 = hi - Pos(f) /\ Width(f) \in Nat
    <2>1. Width(f) = hi - Pos(f) + 1
        BY <1>1, WidthIsSpan DEF Width
    <2> QED BY <1>1, <2>1, SMT DEF Bits
<1>3. ASSUME NEW s \in SUBSET Msk(f), word' = (word \ Msk(f)) \cup s
      PROVE  word' \cap Reserved = word \cap Reserved
    BY <1>3 DEF Reserved
<1>4. CASE SetField(f)
    <2>1. SET_BIT(word, Msk(f)) = (word \ Msk(f)) \cup Msk(f)
        BY DEF SET_BIT
    <2>2. 0..Width(f) - 1 = ShiftRight(Msk(f), Pos(f))
        BY <1>1, <1>2, FullAndEmpty
    <2>3. Write((word \ Msk(f)) \cup Msk(f),
                [intended EXCEPT ![f] = ShiftRight(Msk(f), Pos(f))])
        BY <1>4, <2>1, <2>2 DEF SetField
    <2>4. Inv'
        BY <2>3, OneField
    <2>5. word' = (word \ Msk(f)) \cup Msk(f)
        BY <2>3 DEF Write
    <2>6. word' \cap Reserved = word \cap Reserved
        BY <2>5 DEF Reserved
    <2> QED BY <2>4, <2>6
<1>5. CASE ClearField(f)
    <2>1. CLEAR_BIT(word, Msk(f)) = (word \ Msk(f)) \cup {}
        BY DEF CLEAR_BIT
    <2>2. {} = ShiftRight({}, Pos(f))
        BY <1>1, FullAndEmpty
    <2>3. Write((word \ Msk(f)) \cup {}, [intended EXCEPT ![f] = ShiftRight({}, Pos(f))])
        BY <1>5, <2>1, <2>2 DEF ClearField
    <2>4. Inv'
        BY <2>3, OneField
    <2>5. word' = (word \ Msk(f)) \cup {}
        BY <2>3 DEF Write
    <2>6. word' \cap Reserved = word \cap Reserved
        BY <2>5 DEF Reserved
    <2> QED BY <2>4, <2>6
<1>6. ASSUME NEW v \in Sample(Width(f)),
             Write(MODIFY_REG(word, Msk(f), ShiftLeft(v, Pos(f))),
                   [intended EXCEPT ![f] = v])
      PROVE  Inv' /\ word' \cap Reserved = word \cap Reserved
    <2> DEFINE s == ShiftLeft(v, Pos(f))
    <2>1. v \in SUBSET (0..hi - Pos(f))
        BY <1>2 DEF WellFormed
    <2>2. s \in SUBSET Msk(f) /\ v = ShiftRight(s, Pos(f))
        BY <1>1, <2>1, RoundTrip
    <2> HIDE DEF s
    <2>3. Write((word \ Msk(f)) \cup s, [intended EXCEPT ![f] = ShiftRight(s, Pos(f))])
        BY <1>6, <2>2 DEF MODIFY_REG, s
    <2> QED BY <1>3, <2>2, <2>3, OneField DEF Write
<1>7. CASE ModifyField(f)
    <2>1. PICK v \in Sample(Width(f)) :
            Write(MODIFY_REG(word, Msk(f), VAL2FLD(Pos(f), Msk(f), v)),
                  [intended EXCEPT ![f] = v])
        BY <1>7 DEF ModifyField
    <2>2. v \in SUBSET (0..hi - Pos(f))
        BY <1>2 DEF WellFormed
    <2>3. VAL2FLD(Pos(f), Msk(f), v) = ShiftLeft(v, Pos(f))
        BY <1>1, <2>2, RoundTrip
    <2> QED BY <1>6, <2>1, <2>3
<1>8. CASE ModifyAtPosition(f)
    <2>1. POSITION_VAL(Msk(f)) = Pos(f)
        BY <1>1, PositionIsLow
    <2> QED BY <1>6, <1>8, <2>1 DEF ModifyAtPosition
<1> QED BY <1>4, <1>5, <1>7, <1>8

LEMMA ClearKeepsInv ==
    ASSUME WellFormed, Inv, ClearRegister
    PROVE  Inv'
<1>1. reg' = reg /\ word' = {} /\ intended' = [f \in Fields |-> {}]
      /\ writes' = writes + 1 /\ writes < MaxWrites
    BY DEF ClearRegister, Write
<1>2. Fields' = Fields /\ \A g : Msk(g)' = Msk(g) /\ Pos(g)' = Pos(g)
    BY <1>1 DEF Fields, Msk, Pos
<1>3. writes' \in 0..MaxWrites
    BY <1>1, SMT DEF Inv, TypeOK, WellFormed
<1>4. TypeOK'
    BY <1>1, <1>2, <1>3 DEF Inv, TypeOK
<1>5. Matches'
    BY <1>1, <1>2 DEF Matches, Held, ShiftRight
<1> QED BY <1>4, <1>5 DEF Inv

LEMMA InitInv ==
    ASSUME WellFormed, Init
    PROVE  Inv
<1>1. TypeOK
    BY SMT DEF Init, TypeOK, WellFormed, FLD2VAL, ShiftRight
<1>2. Matches
    BY DEF Init, Matches, Held, FLD2VAL
<1> QED BY <1>1, <1>2 DEF Inv

LEMMA StepInv ==
    ASSUME WellFormed, Inv, [Next]_vars
    PROVE  Inv'
<1>1. CASE ClearRegister
    BY <1>1, ClearKeepsInv
<1>2. CASE \E f \in Fields :
            SetField(f) \/ ClearField(f) \/ ModifyField(f) \/ ModifyAtPosition(f)
    BY <1>2, WriteKeepsInv
<1>3. CASE UNCHANGED vars
    BY <1>3 DEF vars, Inv, TypeOK, Matches, Held, Fields, Msk, Pos
<1> QED BY <1>1, <1>2, <1>3 DEF Next

LEMMA Inductive ==
    ASSUME WellFormed
    PROVE  Spec => []Inv
<1>1. Init => Inv
    BY InitInv
<1>2. Inv /\ [Next]_vars => Inv'
    BY StepInv
<1> QED BY <1>1, <1>2, PTL DEF Spec

(* However many fields and writes: a register holds 32 bits and its fields no more
   than they are wide. *)
THEOREM TypeCorrect ==
    ASSUME WellFormed
    PROVE  HeadersSpec => []TypeOK
<1>1. Inv => TypeOK
    BY DEF Inv
<1> QED BY <1>1, Both, Inductive, PTL

(* For every register whose fields lie apart and every sequence of writes with any of
   the macros, each field reads back what was written to it last. *)
THEOREM ReadsBackHolds ==
    ASSUME WellFormed
    PROVE  HeadersSpec => []ReadsBack
<1>1. Inv => ReadsBack
    BY MatchesReadsBack
<1> QED BY <1>1, Both, Inductive, PTL

(* No write to a field touches a reserved bit. *)
THEOREM ReservedKeptHolds ==
    ASSUME WellFormed
    PROVE  HeadersSpec => ReservedKept
<1>1. ASSUME Inv, [Next]_vars
      PROVE  [ClearRegister \/ word' \cap Reserved = word \cap Reserved]_vars
    BY <1>1, WriteKeepsInv DEF Next
<1>2. Inv /\ [Next]_vars => [ClearRegister \/ word' \cap Reserved = word \cap Reserved]_vars
    BY <1>1
<1> QED BY <1>2, Both, Inductive, PTL DEF Spec, ReservedKept

----------------------------------------------------------------------------------------
(* The least number of a set of them. *)
LEMMA Least ==
    ASSUME NEW T \in SUBSET Nat, T # {}
    PROVE  \E k \in T : \A j \in T : ~ j < k
<1>1. PICK k \in T : \A j \in T : ~ (<<j, k>> \in OpToRel(<, Nat))
    BY WFMin, NatLessThanWellFounded, Zenon
<1>2. ASSUME NEW j \in T, j < k PROVE <<j, k>> \in OpToRel(<, Nat)
    BY <1>2, Zenon DEF OpToRel
<1> QED BY <1>1, <1>2

(* The next address that a type may have. *)
LEMMA AlignedUp ==
    ASSUME NEW n \in Nat, NEW align \in {1, 2, 4, 8}
    PROVE  /\ Devices!AlignUp(n, align) \in Nat /\ Devices!AlignUp(n, align) >= n
           /\ Devices!AlignUp(n, align) < n + align
           /\ Devices!AlignUp(n, align) % align = 0
<1>1. CASE align = 1
    BY <1>1, SMT DEF Devices!AlignUp
<1>2. CASE align = 2
    BY <1>2, SMT DEF Devices!AlignUp
<1>3. CASE align = 4
    BY <1>3, SMT DEF Devices!AlignUp
<1>4. CASE align = 8
    BY <1>4, SMT DEF Devices!AlignUp
<1> QED BY <1>1, <1>2, <1>3, <1>4

(* A struct type: its members have sizes, and the alignments that C types have here. *)
IsStruct(type) ==
    /\ Len(type) \in Nat /\ DOMAIN type = 1..Len(type)
    /\ \A i \in DOMAIN type :
          /\ Devices!Bytes(type[i]) \in Nat
          /\ type[i].align \in {1, 2, 4, 8}

(* Where the member after i may begin, when it may begin at n. *)
After(type, i, n) == Devices!AlignUp(n, type[i].align) + type[i].size * type[i].count

(* e says where each of the first n members ends. *)
Ends(type, e, n) ==
    /\ e \in [0..n -> Nat] /\ e[0] = 0
    /\ \A i \in 1..n : e[i] = After(type, i, e[i - 1])

(* Members are laid out forward. *)
LEMMA AfterIsNumber ==
    ASSUME NEW type, IsStruct(type), NEW i \in DOMAIN type, NEW n \in Nat
    PROVE  After(type, i, n) \in Nat /\ After(type, i, n) >= n
<1>1. Devices!AlignUp(n, type[i].align) \in Nat /\ Devices!AlignUp(n, type[i].align) >= n
    BY AlignedUp, Zenon DEF IsStruct
<1>2. type[i].size * type[i].count \in Nat
    BY DEF IsStruct, Devices!Bytes
<1> QED BY <1>1, <1>2, SMT DEF After

(* There are such ends for any struct: were there a first n with none, those of n - 1
   would extend to it. *)
LEMMA EndsExist ==
    ASSUME NEW type, IsStruct(type)
    PROVE  \A n \in 0..Len(type) : \E e : Ends(type, e, n)
<1> DEFINE T == {n \in 0..Len(type) : ~ \E e : Ends(type, e, n)}
<1>1. SUFFICES ASSUME T # {} PROVE FALSE
    OBVIOUS
<1>2. T \in SUBSET Nat
    BY SMT DEF IsStruct
<1>3. PICK k \in T : \A j \in T : ~ j < k
    BY <1>1, <1>2, Least
<1>4. k \in 0..Len(type) /\ ~ \E e : Ends(type, e, k)
    BY <1>3
<1> HIDE DEF T
<1>5. CASE k = 0
    <2>1. Ends(type, [i \in 0..0 |-> 0], 0)
        BY SMT DEF Ends
    <2> QED BY <1>4, <1>5, <2>1
<1>6. CASE k # 0
    <2>1. k - 1 \in 0..Len(type) /\ k - 1 < k /\ k \in DOMAIN type /\ k \in Nat
        BY <1>4, <1>6, SMT DEF IsStruct
    <2>2. k - 1 \notin T
        BY <1>3, <2>1
    <2>3. PICK e : Ends(type, e, k - 1)
        BY <2>1, <2>2 DEF T
    <2> DEFINE f == [i \in 0..k |-> IF i = k THEN After(type, k, e[k - 1]) ELSE e[i]]
    <2>4. e[k - 1] \in Nat /\ After(type, k, e[k - 1]) \in Nat
        <3>1. e[k - 1] \in Nat
            BY <2>1, <2>3, SMT DEF Ends
        <3> QED BY <2>1, <3>1, AfterIsNumber
    <2>5. f \in [0..k -> Nat] /\ f[0] = 0
        BY <2>1, <2>3, <2>4, <1>6, SMT DEF Ends
    <2>6. ASSUME NEW i \in 1..k PROVE f[i] = After(type, i, f[i - 1])
        <3>1. i - 1 \in 0..k /\ i - 1 # k /\ i \in 0..k /\ f[i - 1] = e[i - 1]
            BY <2>1, SMT
        <3>2. CASE i = k
            BY <3>1, <3>2
        <3>3. CASE i # k
            <4>1. i \in 1..k - 1
                BY <2>1, <3>3, SMT
            <4>2. f[i] = e[i]
                BY <3>1, <3>3
            <4> QED BY <2>3, <3>1, <4>1, <4>2 DEF Ends
        <3> QED BY <3>2, <3>3
    <2>7. Ends(type, f, k)
        BY <2>5, <2>6 DEF Ends
    <2> QED BY <1>4, <2>7
<1> QED BY <1>5, <1>6

(* The recursion of Places has a solution, and is it. *)
LEMMA PlacesFollow ==
    ASSUME NEW type, IsStruct(type)
    PROVE  \E e \in [0..Len(type) -> Nat] :
              /\ e[0] = 0
              /\ DOMAIN Devices!Places(type) = DOMAIN type
              /\ \A i \in DOMAIN type :
                    /\ Devices!Places(type)[i] = Devices!AlignUp(e[i - 1], type[i].align)
                    /\ e[i] = Devices!Places(type)[i] + Devices!Bytes(type[i])
<1> DEFINE Step(f) == [i \in 0..Len(type) |->
                        IF i = 0 THEN 0
                        ELSE Devices!AlignUp(f[i - 1], type[i].align)
                             + type[i].size * type[i].count]
           end == CHOOSE f : f = Step(f)
<1>1. \E f : f = Step(f)
    <2>1. PICK e : Ends(type, e, Len(type))
        BY EndsExist, SMT DEF IsStruct
    <2>2. e = Step(e)
        <3>1. \A i \in 0..Len(type) : i # 0 => i \in 1..Len(type)
            BY SMT DEF IsStruct
        <3> QED BY <2>1, <3>1 DEF Ends, After
    <2> QED BY <2>2
<1>2. end = Step(end)
    BY <1>1, Zenon
<1>3. Devices!Places(type) =
        [i \in DOMAIN type |-> Devices!AlignUp(end[i - 1], type[i].align)]
    BY Zenon DEF Devices!Places
<1> HIDE DEF end
<1>4. end[0] = 0 /\ DOMAIN end = 0..Len(type)
    BY <1>2, SMT DEF IsStruct
<1>5. \A i \in DOMAIN type : i - 1 \in 0..Len(type) /\ i \in 0..Len(type) /\ i # 0
    BY SMT DEF IsStruct
<1>6. \A i \in DOMAIN type : end[i] = After(type, i, end[i - 1])
    BY <1>2, <1>5, Zenon DEF After
<1>7. \A i \in 0..Len(type) : end[i] \in Nat
    <2> DEFINE T == {i \in 0..Len(type) : end[i] \notin Nat}
    <2>1. SUFFICES ASSUME T # {} PROVE FALSE
        OBVIOUS
    <2>2. T \in SUBSET Nat
        BY SMT DEF IsStruct
    <2>3. PICK k \in T : \A j \in T : ~ j < k
        BY <2>1, <2>2, Least
    <2>4. k \in 0..Len(type) /\ end[k] \notin Nat
        BY <2>3
    <2>5. k # 0
        BY <1>4, <2>4
    <2>6. k \in DOMAIN type /\ k - 1 \in 0..Len(type) /\ k - 1 < k
        BY <2>4, <2>5, SMT DEF IsStruct
    <2>7. end[k - 1] \in Nat
        BY <2>3, <2>6
    <2> QED BY <1>6, <2>4, <2>6, <2>7, AfterIsNumber
<1>8. end \in [0..Len(type) -> Nat]
    <2>1. end = [i \in 0..Len(type) |-> end[i]]
        BY <1>2
    <2> QED BY <1>7, <2>1
<1>9. \A i \in DOMAIN type : end[i] = Devices!Places(type)[i] + Devices!Bytes(type[i])
    BY <1>3, <1>6, Zenon DEF After, Devices!Bytes
<1> QED BY <1>3, <1>4, <1>8, <1>9

(* The layout of any struct: every member begins at a multiple of its alignment and
   after the end of every member before it. *)
THEOREM MembersApart ==
    ASSUME NEW type, IsStruct(type), NEW i \in DOMAIN type
    PROVE  /\ Devices!Places(type)[i] % type[i].align = 0
           /\ \A j \in i + 1..Len(type) :
                 Devices!Places(type)[i] + Devices!Bytes(type[i]) <= Devices!Places(type)[j]
<1>1. PICK e \in [0..Len(type) -> Nat] :
            /\ DOMAIN Devices!Places(type) = DOMAIN type
            /\ \A k \in DOMAIN type :
                  /\ Devices!Places(type)[k] = Devices!AlignUp(e[k - 1], type[k].align)
                  /\ e[k] = Devices!Places(type)[k] + Devices!Bytes(type[k])
    BY PlacesFollow
<1>2. \A k \in DOMAIN type : e[k - 1] \in Nat /\ e[k] \in Nat
    BY <1>1, SMT DEF IsStruct
<1>3. \A k \in DOMAIN type :
        Devices!Places(type)[k] \in Nat /\ e[k - 1] <= Devices!Places(type)[k]
    <2> SUFFICES ASSUME NEW k \in DOMAIN type
                 PROVE  /\ Devices!Places(type)[k] \in Nat
                        /\ e[k - 1] <= Devices!Places(type)[k]
        OBVIOUS
    <2>1. /\ Devices!AlignUp(e[k - 1], type[k].align) \in Nat
          /\ Devices!AlignUp(e[k - 1], type[k].align) >= e[k - 1]
        BY <1>2, AlignedUp, Zenon DEF IsStruct
    <2> QED BY <1>1, <1>2, <2>1, SMT
<1>4. Devices!Places(type)[i] % type[i].align = 0
    <2>1. e[i - 1] \in Nat /\ type[i].align \in {1, 2, 4, 8}
        BY <1>2 DEF IsStruct
    <2>2. Devices!AlignUp(e[i - 1], type[i].align) % type[i].align = 0
        BY <2>1, AlignedUp, Zenon
    <2>3. Devices!Places(type)[i] = Devices!AlignUp(e[i - 1], type[i].align)
        BY <1>1
    <2> QED BY <2>2, <2>3
<1>5. \A j \in i + 1..Len(type) : e[i] <= e[j - 1]
    <2> DEFINE T == {j \in i + 1..Len(type) : ~ e[i] <= e[j - 1]}
    <2>1. SUFFICES ASSUME T # {} PROVE FALSE
        OBVIOUS
    <2>2. T \in SUBSET Nat
        BY SMT DEF IsStruct
    <2>3. PICK k \in T : \A j \in T : ~ j < k
        BY <2>1, <2>2, Least
    <2>4. k \in i + 1..Len(type) /\ ~ e[i] <= e[k - 1]
        BY <2>3
    <2>5. CASE k = i + 1
        BY <1>2, <2>4, <2>5, SMT DEF IsStruct
    <2>6. CASE k # i + 1
        <3>1. k - 1 \in i + 1..Len(type) /\ k - 1 < k /\ k - 1 \in DOMAIN type
            BY <2>4, <2>6, SMT DEF IsStruct
        <3>2. e[i] <= e[k - 1 - 1]
            BY <2>3, <3>1
        <3>3. e[k - 1 - 1] <= e[k - 1]
            <4>1. Devices!Bytes(type[k - 1]) \in Nat
                BY <3>1 DEF IsStruct
            <4>2. /\ e[k - 1] = Devices!Places(type)[k - 1] + Devices!Bytes(type[k - 1])
                  /\ Devices!Places(type)[k - 1] \in Nat
                  /\ e[k - 1 - 1] <= Devices!Places(type)[k - 1] /\ e[k - 1 - 1] \in Nat
                BY <1>1, <1>2, <1>3, <3>1
            <4> QED BY <4>1, <4>2, SMT
        <3>4. e[i] \in Nat /\ e[k - 1] \in Nat /\ e[k - 1 - 1] \in Nat
            BY <1>2, <3>1
        <3> QED BY <2>4, <3>2, <3>3, <3>4, SMT
    <2> QED BY <2>5, <2>6
<1>6. ASSUME NEW j \in i + 1..Len(type)
      PROVE  Devices!Places(type)[i] + Devices!Bytes(type[i]) <= Devices!Places(type)[j]
    <2>1. j \in DOMAIN type
        BY <1>6, SMT DEF IsStruct
    <2>2. e[i] \in Nat /\ e[j - 1] \in Nat /\ Devices!Places(type)[j] \in Nat
        BY <1>2, <1>3, <2>1
    <2>3. e[i] <= e[j - 1] /\ e[j - 1] <= Devices!Places(type)[j]
        BY <1>3, <1>5, <2>1
    <2>4. e[i] = Devices!Places(type)[i] + Devices!Bytes(type[i])
        BY <1>1
    <2> QED BY <2>2, <2>3, <2>4, SMT
<1> QED BY <1>4, <1>6

----------------------------------------------------------------------------------------
(* The members of the telemetry structs, one by one. *)
Scalar(name, size) == Devices!Member(Devices!None, name, size, size, 1)
Padding(n) == Devices!Member(Devices!None, "", 1, 1, n)
NestedFix ==
    Devices!Member(Devices!None, "", Devices!Size(Devices!gps_fix_t),
                   Devices!Align(Devices!gps_fix_t), 1)

(* The sequences that gps_structs.h gives as concatenations. *)
LEMMA FourWords ==
    ASSUME NEW a, NEW b, NEW c, NEW d
    PROVE  Devices!Words(Devices!None, <<a, b, c, d>>)
             = <<Scalar(a, 4), Scalar(b, 4), Scalar(c, 4), Scalar(d, 4)>>
BY SMT DEF Devices!Words, Scalar

LEMMA ElevenMembers ==
    ASSUME NEW a, NEW b, NEW c, NEW d, NEW e, NEW f, NEW g, NEW h, NEW i, NEW j, NEW k
    PROVE  LET s == <<a, b, c, d>> \o <<e>> \o <<f>> \o <<g>> \o <<h>> \o <<i>> \o <<j>>
                    \o <<k>>
           IN  /\ Len(s) = 11 /\ DOMAIN s = 1..11
               /\ s[1] = a /\ s[2] = b /\ s[3] = c /\ s[4] = d /\ s[5] = e /\ s[6] = f
               /\ s[7] = g /\ s[8] = h /\ s[9] = i /\ s[10] = j /\ s[11] = k
BY SMT

LEMMA SixMembers ==
    ASSUME NEW a, NEW b, NEW c, NEW d, NEW e, NEW f
    PROVE  LET s == <<a>> \o <<b>> \o <<c>> \o <<d>> \o <<e>> \o <<f>>
           IN  /\ Len(s) = 6 /\ DOMAIN s = 1..6
               /\ s[1] = a /\ s[2] = b /\ s[3] = c /\ s[4] = d /\ s[5] = e /\ s[6] = f
BY SMT

(* What a member of n bytes contributes to a struct. *)
Contributes(m, align, n) ==
    m.doc = Devices!None /\ m.align = align /\ Devices!Bytes(m) = n

(* A scalar contributes as many bytes as it must be aligned to. *)
LEMMA ScalarIs ==
    ASSUME NEW name
    PROVE  /\ Contributes(Scalar(name, 1), 1, 1) /\ Scalar(name, 1).name = name
           /\ Contributes(Scalar(name, 2), 2, 2) /\ Scalar(name, 2).name = name
           /\ Contributes(Scalar(name, 4), 4, 4) /\ Scalar(name, 4).name = name
BY SMT DEF Scalar, Devices!Member, Devices!Bytes, Contributes

(* What each member of gps_fix_t contributes; only its last is without a name. *)
LEMMA FixMembers ==
    LET t == Devices!gps_fix_t
    IN  /\ Len(t) = 11 /\ DOMAIN t = 1..11
        /\ \A i \in 1..4 : Contributes(t[i], 4, 4)
        /\ \A i \in 5..7 : Contributes(t[i], 2, 2)
        /\ \A i \in 8..10 : Contributes(t[i], 1, 1)
        /\ Contributes(t[11], 1, 3)
        /\ \A i \in 1..11 : t[i].name # "" <=> i # 11
<1> DEFINE t == Devices!gps_fix_t
<1>1. t = <<Scalar("timestamp_epoch", 4), Scalar("nmea_time_utc", 4),
            Scalar("lattitude", 4), Scalar("longitude", 4)>>
          \o <<Scalar("altitude_msl", 2)>> \o <<Scalar("course", 2)>>
          \o <<Scalar("speed", 2)>> \o <<Scalar("fix_quality", 1)>>
          \o <<Scalar("num_sats", 1)>> \o <<Scalar("hdop", 1)>> \o <<Padding(3)>>
    BY FourWords, Zenon DEF Devices!gps_fix_t, Devices!Array, Scalar, Padding
<1> HIDE DEF t
<1>2. /\ Len(t) = 11 /\ DOMAIN t = 1..11
      /\ t[1] = Scalar("timestamp_epoch", 4) /\ t[2] = Scalar("nmea_time_utc", 4)
      /\ t[3] = Scalar("lattitude", 4) /\ t[4] = Scalar("longitude", 4)
      /\ t[5] = Scalar("altitude_msl", 2) /\ t[6] = Scalar("course", 2)
      /\ t[7] = Scalar("speed", 2) /\ t[8] = Scalar("fix_quality", 1)
      /\ t[9] = Scalar("num_sats", 1) /\ t[10] = Scalar("hdop", 1) /\ t[11] = Padding(3)
    BY <1>1, ElevenMembers
<1>3. \A name :
        /\ Contributes(Scalar(name, 1), 1, 1) /\ Scalar(name, 1).name = name
        /\ Contributes(Scalar(name, 2), 2, 2) /\ Scalar(name, 2).name = name
        /\ Contributes(Scalar(name, 4), 4, 4) /\ Scalar(name, 4).name = name
    BY ScalarIs, Zenon
<1>4. Contributes(Padding(3), 1, 3) /\ Padding(3).name = ""
    <2>1. \A name : /\ Contributes(Devices!Member(Devices!None, name, 1, 1, 3), 1, 3)
                     /\ Devices!Member(Devices!None, name, 1, 1, 3).name = name
        BY SMT DEF Devices!Member, Devices!Bytes, Contributes
    <2> QED BY <2>1, Zenon DEF Padding
<1>5. /\ \A i \in 1..4 : i = 1 \/ i = 2 \/ i = 3 \/ i = 4
      /\ \A i \in 5..7 : i = 5 \/ i = 6 \/ i = 7
      /\ \A i \in 8..10 : i = 8 \/ i = 9 \/ i = 10
    BY SMT
<1>6. /\ \A i \in 1..4 : Contributes(t[i], 4, 4)
      /\ \A i \in 5..7 : Contributes(t[i], 2, 2)
      /\ \A i \in 8..10 : Contributes(t[i], 1, 1)
    BY <1>2, <1>3, <1>5
<1>7. /\ t[1].name # "" /\ t[2].name # "" /\ t[3].name # "" /\ t[4].name # ""
      /\ t[5].name # "" /\ t[6].name # "" /\ t[7].name # "" /\ t[8].name # ""
      /\ t[9].name # "" /\ t[10].name # "" /\ t[11].name = ""
    <2>1. /\ t[1].name = "timestamp_epoch" /\ t[2].name = "nmea_time_utc"
          /\ t[3].name = "lattitude" /\ t[4].name = "longitude"
          /\ t[5].name = "altitude_msl" /\ t[6].name = "course" /\ t[7].name = "speed"
          /\ t[8].name = "fix_quality" /\ t[9].name = "num_sats" /\ t[10].name = "hdop"
        BY <1>2, <1>3
    <2>2. t[11].name = ""
        BY <1>2, <1>4, Zenon
    <2> QED BY <2>1, <2>2, Zenon
<1>8. \A i \in 1..11 : i = 1 \/ i = 2 \/ i = 3 \/ i = 4 \/ i = 5 \/ i = 6 \/ i = 7 \/ i = 8
                       \/ i = 9 \/ i = 10 \/ i = 11
    BY SMT
<1>9. 1 # 11 /\ 2 # 11 /\ 3 # 11 /\ 4 # 11 /\ 5 # 11 /\ 6 # 11 /\ 7 # 11 /\ 8 # 11 /\ 9 # 11
      /\ 10 # 11
    BY SMT
<1>10. \A i \in 1..11 : t[i].name # "" <=> i # 11
    BY <1>7, <1>8, <1>9, Zenon
<1> QED BY <1>2, <1>4, <1>6, <1>10, Zenon DEF t

(* A struct whose members are these; its greatest alignment is max. *)
LEMMA SizeIs ==
    ASSUME NEW type, NEW n, Len(type) = n, NEW max \in Nat,
           \A i \in DOMAIN type : type[i].align \in Nat /\ type[i].align <= max,
           \E i \in DOMAIN type : type[i].align = max
    PROVE  /\ Devices!Align(type) = max
           /\ Devices!Size(type)
                = Devices!AlignUp(Devices!Places(type)[n] + Devices!Bytes(type[n]), max)
<1> DEFINE aligns == {type[i].align : i \in DOMAIN type}
<1>1. max \in aligns /\ \A y \in aligns : max >= y /\ y \in Nat
    BY SMT
<1> HIDE DEF aligns
<1>2. \A x \in aligns : (\A y \in aligns : x >= y) => x = max
    BY <1>1, SMT
<1>3. Devices!Max(aligns) = max
    BY <1>1, <1>2, Zenon DEF Devices!Max
<1>4. Devices!Align(type) = max
    BY <1>3, Zenon DEF aligns, Devices!Align
<1> QED BY <1>4, Zenon DEF Devices!Size

(* Where the members of gps_fix_t lie: no padding between them, 28 bytes in all. *)
LEMMA FixPlaces ==
    LET t == Devices!gps_fix_t
        p == Devices!Places(t)
    IN  /\ p[1] = 0 /\ p[2] = 4 /\ p[3] = 8 /\ p[4] = 12 /\ p[5] = 16 /\ p[6] = 18
        /\ p[7] = 20 /\ p[8] = 22 /\ p[9] = 23 /\ p[10] = 24 /\ p[11] = 25
        /\ Devices!Align(t) = 4 /\ Devices!Size(t) = 28
<1> DEFINE t == Devices!gps_fix_t
           p == Devices!Places(t)
<1>1. /\ Len(t) = 11 /\ DOMAIN t = 1..11
      /\ \A i \in 1..4 : t[i].align = 4 /\ Devices!Bytes(t[i]) = 4
      /\ \A i \in 5..7 : t[i].align = 2 /\ Devices!Bytes(t[i]) = 2
      /\ \A i \in 8..10 : t[i].align = 1 /\ Devices!Bytes(t[i]) = 1
      /\ t[11].align = 1 /\ Devices!Bytes(t[11]) = 3
    BY FixMembers, Zenon DEF Contributes
<1> HIDE DEF t
<1>2. \A i \in 1..11 : i \in 1..4 \/ i \in 5..7 \/ i \in 8..10 \/ i = 11
    BY SMT
<1>3. IsStruct(t)
    <2>1. \A i \in 1..11 : Devices!Bytes(t[i]) \in Nat /\ t[i].align \in {1, 2, 4, 8}
        BY <1>1, <1>2
    <2> QED BY <1>1, <2>1 DEF IsStruct
<1>4. PICK e \in [0..11 -> Nat] :
            /\ e[0] = 0
            /\ \A i \in 1..11 : /\ p[i] = Devices!AlignUp(e[i - 1], t[i].align)
                                /\ e[i] = p[i] + Devices!Bytes(t[i])
    <2>1. PICK e \in [0..Len(t) -> Nat] :
            /\ e[0] = 0
            /\ DOMAIN p = DOMAIN t
            /\ \A i \in DOMAIN t : /\ p[i] = Devices!AlignUp(e[i - 1], t[i].align)
                                  /\ e[i] = p[i] + Devices!Bytes(t[i])
        BY <1>3, PlacesFollow
    <2> QED BY <1>1, <2>1, Zenon
<1> HIDE DEF p
<1>5. \A i \in 1..4 : p[i] = ((e[i - 1] + 3) \div 4) * 4 /\ e[i] = p[i] + 4
    BY <1>1, <1>4, SMT DEF Devices!AlignUp
<1>6. \A i \in 5..7 : p[i] = ((e[i - 1] + 1) \div 2) * 2 /\ e[i] = p[i] + 2
    BY <1>1, <1>4, SMT DEF Devices!AlignUp
<1>7. \A i \in 8..10 : p[i] = e[i - 1] /\ e[i] = p[i] + 1
    BY <1>1, <1>4, SMT DEF Devices!AlignUp
<1>8. p[11] = e[10] /\ e[11] = p[11] + 3
    BY <1>1, <1>4, SMT DEF Devices!AlignUp
<1>9. /\ p[1] = 0 /\ p[2] = 4 /\ p[3] = 8 /\ p[4] = 12 /\ e[4] = 16
    <2>1. /\ 1 \in 1..4 /\ 2 \in 1..4 /\ 3 \in 1..4 /\ 4 \in 1..4
          /\ 1 - 1 = 0 /\ 2 - 1 = 1 /\ 3 - 1 = 2 /\ 4 - 1 = 3
        BY SMT
    <2>2. /\ p[1] = ((e[0] + 3) \div 4) * 4 /\ e[1] = p[1] + 4
          /\ p[2] = ((e[1] + 3) \div 4) * 4 /\ e[2] = p[2] + 4
          /\ p[3] = ((e[2] + 3) \div 4) * 4 /\ e[3] = p[3] + 4
          /\ p[4] = ((e[3] + 3) \div 4) * 4 /\ e[4] = p[4] + 4
        BY <1>5, <2>1, Zenon
    <2> QED BY <1>4, <2>2, SMT
<1>10. /\ p[5] = 16 /\ p[6] = 18 /\ p[7] = 20 /\ e[7] = 22
    BY <1>6, <1>9, SMT
<1>11. /\ p[8] = 22 /\ p[9] = 23 /\ p[10] = 24 /\ p[11] = 25
    BY <1>7, <1>8, <1>10, SMT
<1>12. /\ Devices!Align(t) = 4
       /\ Devices!Size(t) = Devices!AlignUp(p[11] + Devices!Bytes(t[11]), 4)
    <2>1. \A i \in DOMAIN t : t[i].align \in Nat /\ t[i].align <= 4
        BY <1>1, <1>2, SMT
    <2>2. \E i \in DOMAIN t : t[i].align = 4
        <3>1. 1 \in 1..4 /\ 1 \in 1..11
            BY SMT
        <3> QED BY <1>1, <3>1, Zenon
    <2>3. 4 \in Nat
        BY SMT
    <2> QED BY <1>1, <2>1, <2>2, <2>3, SizeIs, Zenon DEF p
<1>13. Devices!Size(t) = 28
    BY <1>1, <1>11, <1>12, SMT DEF Devices!AlignUp
<1> QED BY <1>9, <1>10, <1>11, <1>12, <1>13, Zenon DEF t, p

(* What each member of telemetry_frame_t contributes; only its payload, a struct of its
   own, is without a name. *)
LEMMA FrameMembers ==
    LET t == Devices!telemetry_frame_t
    IN  /\ Len(t) = 6 /\ DOMAIN t = 1..6
        /\ \A i \in 1..4 : Contributes(t[i], 1, 1)
        /\ Contributes(t[5], 4, 28)
        /\ Contributes(t[6], 2, 2)
        /\ \A i \in 1..6 : t[i].name # "" <=> i # 5
<1> DEFINE t == Devices!telemetry_frame_t
<1>1. t = <<Scalar("sync1", 1)>> \o <<Scalar("sync2", 1)>> \o <<Scalar("msg_type", 1)>>
          \o <<Scalar("seq_num", 1)>> \o <<NestedFix>> \o <<Scalar("checksum", 2)>>
    BY Zenon DEF Devices!telemetry_frame_t, Devices!Array, Devices!Nested, Scalar, NestedFix
<1> HIDE DEF t
<1>2. /\ Len(t) = 6 /\ DOMAIN t = 1..6
      /\ t[1] = Scalar("sync1", 1) /\ t[2] = Scalar("sync2", 1)
      /\ t[3] = Scalar("msg_type", 1) /\ t[4] = Scalar("seq_num", 1)
      /\ t[5] = NestedFix /\ t[6] = Scalar("checksum", 2)
    BY <1>1, SixMembers
<1>3. \A name :
        /\ Contributes(Scalar(name, 1), 1, 1) /\ Scalar(name, 1).name = name
        /\ Contributes(Scalar(name, 2), 2, 2) /\ Scalar(name, 2).name = name
    BY ScalarIs, Zenon
<1>4. Contributes(NestedFix, 4, 28) /\ NestedFix.name = ""
    <2>1. \A name : /\ Contributes(Devices!Member(Devices!None, name, 28, 4, 1), 4, 28)
                     /\ Devices!Member(Devices!None, name, 28, 4, 1).name = name
        BY SMT DEF Devices!Member, Devices!Bytes, Contributes
    <2> QED BY <2>1, FixPlaces, Zenon DEF NestedFix
<1>5. \A i \in 1..4 : i = 1 \/ i = 2 \/ i = 3 \/ i = 4
    BY SMT
<1>6. \A i \in 1..4 : Contributes(t[i], 1, 1)
    BY <1>2, <1>3, <1>5
<1>7. /\ t[1].name # "" /\ t[2].name # "" /\ t[3].name # "" /\ t[4].name # ""
      /\ t[5].name = "" /\ t[6].name # ""
    <2>1. /\ t[1].name = "sync1" /\ t[2].name = "sync2" /\ t[3].name = "msg_type"
          /\ t[4].name = "seq_num" /\ t[6].name = "checksum"
        BY <1>2, <1>3
    <2>2. t[5].name = ""
        BY <1>2, <1>4, Zenon
    <2> QED BY <2>1, <2>2, Zenon
<1>8. /\ \A i \in 1..6 : i = 1 \/ i = 2 \/ i = 3 \/ i = 4 \/ i = 5 \/ i = 6
      /\ 1 # 5 /\ 2 # 5 /\ 3 # 5 /\ 4 # 5 /\ 6 # 5
    BY SMT
<1>9. \A i \in 1..6 : t[i].name # "" <=> i # 5
    BY <1>7, <1>8, Zenon
<1>10. Contributes(t[5], 4, 28) /\ Contributes(t[6], 2, 2)
    BY <1>2, <1>3, <1>4
<1> QED BY <1>2, <1>6, <1>9, <1>10, Zenon DEF t

(* Where the members of telemetry_frame_t lie; two bytes round its size up to 36. *)
LEMMA FramePlaces ==
    LET t == Devices!telemetry_frame_t
        p == Devices!Places(t)
    IN  /\ p[1] = 0 /\ p[2] = 1 /\ p[3] = 2 /\ p[4] = 3 /\ p[5] = 4 /\ p[6] = 32
        /\ Devices!Size(t) = 36
<1> DEFINE t == Devices!telemetry_frame_t
           p == Devices!Places(t)
<1>1. /\ Len(t) = 6 /\ DOMAIN t = 1..6
      /\ \A i \in 1..4 : t[i].align = 1 /\ Devices!Bytes(t[i]) = 1
      /\ t[5].align = 4 /\ Devices!Bytes(t[5]) = 28
      /\ t[6].align = 2 /\ Devices!Bytes(t[6]) = 2
    BY FrameMembers, Zenon DEF Contributes
<1> HIDE DEF t
<1>2. \A i \in 1..6 : i \in 1..4 \/ i = 5 \/ i = 6
    BY SMT
<1>3. IsStruct(t)
    <2>1. \A i \in 1..6 : Devices!Bytes(t[i]) \in Nat /\ t[i].align \in {1, 2, 4, 8}
        BY <1>1, <1>2
    <2> QED BY <1>1, <2>1 DEF IsStruct
<1>4. PICK e \in [0..6 -> Nat] :
            /\ e[0] = 0
            /\ \A i \in 1..6 : /\ p[i] = Devices!AlignUp(e[i - 1], t[i].align)
                               /\ e[i] = p[i] + Devices!Bytes(t[i])
    <2>1. PICK e \in [0..Len(t) -> Nat] :
            /\ e[0] = 0
            /\ DOMAIN p = DOMAIN t
            /\ \A i \in DOMAIN t : /\ p[i] = Devices!AlignUp(e[i - 1], t[i].align)
                                  /\ e[i] = p[i] + Devices!Bytes(t[i])
        BY <1>3, PlacesFollow
    <2> QED BY <1>1, <2>1, Zenon
<1> HIDE DEF p
<1>5. \A i \in 1..4 : p[i] = e[i - 1] /\ e[i] = p[i] + 1
    BY <1>1, <1>4, SMT DEF Devices!AlignUp
<1>6. p[5] = ((e[4] + 3) \div 4) * 4 /\ e[5] = p[5] + 28
    BY <1>1, <1>4, SMT DEF Devices!AlignUp
<1>7. p[6] = ((e[5] + 1) \div 2) * 2
    BY <1>1, <1>4, SMT DEF Devices!AlignUp
<1>8. /\ p[1] = 0 /\ p[2] = 1 /\ p[3] = 2 /\ p[4] = 3 /\ e[4] = 4
    BY <1>4, <1>5, SMT
<1>9. p[5] = 4 /\ p[6] = 32
    BY <1>6, <1>7, <1>8, SMT
<1>10. Devices!Size(t) = Devices!AlignUp(p[6] + Devices!Bytes(t[6]), 4)
    <2>1. \A i \in DOMAIN t : t[i].align \in Nat /\ t[i].align <= 4
        BY <1>1, <1>2, SMT
    <2>2. 5 \in 1..6 /\ 4 \in Nat
        BY SMT
    <2>3. \E i \in DOMAIN t : t[i].align = 4
        BY <1>1, <2>2, Zenon
    <2> QED BY <1>1, <2>1, <2>2, <2>3, SizeIs, Zenon DEF p
<1>11. Devices!Size(t) = 36
    BY <1>1, <1>9, <1>10, SMT DEF Devices!AlignUp
<1> QED BY <1>8, <1>9, <1>11, Zenon DEF t, p

----------------------------------------------------------------------------------------
(* Objects together in one memory. *)
Place(m) == m.from..m.from + m.bytes - 1

(* Every member is where its comment says, and no two share an address. This is a
   statement about pairs of members: TLC checks it when it checks AtDocumentedAddress
   with every two objects of the headers used together. *)
WellPlaced ==
    \A o \in DOMAIN Objects : \A m \in Devices!Named(o) :
        /\ m.documented = m.from
        /\ \A p \in DOMAIN Objects : \A n \in Devices!Named(p) :
              Place(m) \cap Place(n) # {} => o = p /\ m.name = n.name

Stored(o) == UNION {Place(m) : m \in Devices!Named(o)}

(* What has been stored to is the named members of the objects used. *)
StoredInv ==
    /\ used \subseteq DOMAIN Objects
    /\ DOMAIN memory = UNION {Stored(o) : o \in used}

(* And each of those addresses holds what was assigned to its member. *)
MemoryInv ==
    /\ StoredInv
    /\ \A o \in used : \A m \in Devices!Named(o) : \A a \in Place(m) :
          memory[a] = <<o, m.name>>

(* An assignment fills the places of its object and leaves the others. *)
LEMMA AssignStores ==
    ASSUME NEW o \in DOMAIN Objects, Devices!Assign(o)
    PROVE  /\ used' = used \cup {o} /\ o \notin used
           /\ DOMAIN memory' = Stored(o) \cup DOMAIN memory
           /\ \A a \in Stored(o) : \E m \in Devices!Named(o) :
                a \in Place(m) /\ memory'[a] = <<o, m.name>>
           /\ \A a \in DOMAIN memory \ Stored(o) : memory'[a] = memory[a]
<1> DEFINE owner(a) == CHOOSE m \in Devices!Named(o) : a \in Place(m)
<1>1. /\ memory' = [a \in Stored(o) \cup DOMAIN memory |->
                    IF a \in Stored(o) THEN <<o, owner(a).name>> ELSE memory[a]]
      /\ used' = used \cup {o} /\ o \notin used
    BY Zenon DEF Devices!Assign, Stored, Place
<1>2. \A a \in Stored(o) : owner(a) \in Devices!Named(o) /\ a \in Place(owner(a))
    BY Zenon DEF Stored
<1> HIDE DEF owner
<1> QED BY <1>1, <1>2

LEMMA StoredInvariance == Devices!Spec => []StoredInv
<1>1. Devices!Init => StoredInv
    BY DEF Devices!Init, StoredInv
<1>2. ASSUME StoredInv, [Devices!Next]_Devices!vars PROVE StoredInv'
    <2>1. ASSUME NEW o \in DOMAIN Objects, Devices!Assign(o) PROVE StoredInv'
        <3>1. used' = used \cup {o} /\ DOMAIN memory' = Stored(o) \cup DOMAIN memory
            BY <2>1, AssignStores
        <3>2. DOMAIN memory' = UNION {Stored(p) : p \in used'}
            BY <1>2, <3>1 DEF StoredInv
        <3> QED BY <1>2, <3>1, <3>2 DEF StoredInv
    <2>2. CASE UNCHANGED Devices!vars
        BY <1>2, <2>2 DEF StoredInv, Devices!vars
    <2> QED BY <1>2, <2>1, <2>2 DEF Devices!Next
<1> QED BY <1>1, <1>2, PTL DEF Devices!Spec

(* No object's places are taken by a later one. *)
LEMMA AssignKeepsMemory ==
    ASSUME WellPlaced, MemoryInv, NEW o \in DOMAIN Objects, Devices!Assign(o)
    PROVE  MemoryInv'
<1>1. used' = used \cup {o} /\ DOMAIN memory' = Stored(o) \cup DOMAIN memory
    BY AssignStores
<1>2. DOMAIN memory' = UNION {Stored(p) : p \in used'}
    BY <1>1 DEF MemoryInv, StoredInv
<1>3. ASSUME NEW p \in used', NEW m \in Devices!Named(p), NEW a \in Place(m)
      PROVE  memory'[a] = <<p, m.name>>
    <2>1. p \in DOMAIN Objects
        BY <1>1 DEF MemoryInv, StoredInv
    <2>2. CASE a \in Stored(o)
        <3>1. PICK n \in Devices!Named(o) : a \in Place(n) /\ memory'[a] = <<o, n.name>>
            BY <2>2, AssignStores
        <3>2. o = p /\ n.name = m.name
            BY <2>1, <3>1 DEF WellPlaced
        <3> QED BY <3>1, <3>2
    <2>3. CASE a \notin Stored(o)
        <3>1. p # o
            BY <2>3 DEF Stored
        <3>2. p \in used
            BY <1>1, <3>1
        <3>3. memory[a] = <<p, m.name>> /\ a \in DOMAIN memory
            BY <3>2 DEF MemoryInv, StoredInv, Stored
        <3> QED BY <2>3, <3>3, AssignStores
    <2> QED BY <2>2, <2>3
<1>4. used' \subseteq DOMAIN Objects
    BY <1>1 DEF MemoryInv, StoredInv
<1>5. \A p : Devices!Named(p)' = Devices!Named(p) /\ Stored(p)' = Stored(p)
    OBVIOUS
<1> QED BY <1>2, <1>3, <1>4 DEF MemoryInv, StoredInv

LEMMA MemoryInvariance ==
    ASSUME WellPlaced
    PROVE  Devices!Spec => []MemoryInv
<1>1. Devices!Init => MemoryInv
    <2>1. ASSUME Devices!Init PROVE used = {} /\ StoredInv
        BY <2>1 DEF Devices!Init, StoredInv
    <2> QED BY <2>1 DEF MemoryInv
<1>2. ASSUME MemoryInv, [Devices!Next]_Devices!vars PROVE MemoryInv'
    <2>1. CASE Devices!Next
        BY <1>2, <2>1, AssignKeepsMemory DEF Devices!Next
    <2>2. CASE UNCHANGED Devices!vars
        BY <1>2, <2>2 DEF MemoryInv, StoredInv, Devices!vars
    <2> QED BY <1>2, <2>1, <2>2
<1> QED BY <1>1, <1>2, PTL DEF Devices!Spec

(* For any number of objects assigned in any order: each member is, whole, at the address
   that the comment beside its declaration gives, undisturbed by the others. *)
THEOREM AtDocumentedAddressHolds ==
    ASSUME WellPlaced
    PROVE  HeadersSpec => []AtDocumentedAddress
<1>1. ASSUME MemoryInv PROVE Devices!AtDocumentedAddress
    <2> SUFFICES ASSUME NEW o \in used, NEW m \in Devices!Named(o),
                        NEW a \in m.documented..m.documented + m.bytes - 1
                 PROVE  a \in DOMAIN memory /\ memory[a] = <<o, m.name>>
        BY DEF Devices!AtDocumentedAddress
    <2>1. o \in DOMAIN Objects
        BY <1>1 DEF MemoryInv, StoredInv
    <2>2. a \in Place(m)
        BY <2>1 DEF WellPlaced, Place
    <2> QED BY <1>1, <2>2 DEF MemoryInv, StoredInv, Stored
<1>2. MemoryInv => Devices!AtDocumentedAddress
    BY <1>1
<1> QED BY <1>2, Both, MemoryInvariance, PTL DEF AtDocumentedAddress

----------------------------------------------------------------------------------------
(* The stored bytes of a struct that is laid out at an address. *)
LEMMA StoredOf ==
    ASSUME NEW o, NEW type, NEW base, Objects[o] = Devices!At(type, base)
    PROVE  \A a : a \in Stored(o) <=>
              \E i \in DOMAIN type :
                 /\ type[i].name # ""
                 /\ a \in base + Devices!Places(type)[i]
                          ..base + Devices!Places(type)[i] + Devices!Bytes(type[i]) - 1
<1> DEFINE member(i) ==
            [name |-> type[i].name, from |-> base + Devices!Places(type)[i],
             bytes |-> Devices!Bytes(type[i]),
             documented |-> IF type[i].doc = Devices!None
                            THEN base + Devices!Places(type)[i] ELSE base + type[i].doc]
<1>1. Objects[o] = [base |-> base, size |-> Devices!Size(type),
                    members |-> {member(i) : i \in DOMAIN type}]
    BY Zenon DEF Devices!At, Devices!Placed
<1>2. \A i : /\ member(i).name = type[i].name
             /\ Place(member(i)) = base + Devices!Places(type)[i]
                      ..base + Devices!Places(type)[i] + Devices!Bytes(type[i]) - 1
    BY Zenon DEF Place
<1> HIDE DEF member
<1>3. Devices!Named(o) = {m \in {member(i) : i \in DOMAIN type} : m.name # ""}
    <2>1. Objects[o].members = {member(i) : i \in DOMAIN type}
        BY <1>1
    <2> QED BY <2>1, Zenon DEF Devices!Named
<1>4. ASSUME NEW a \in Stored(o)
      PROVE  \E i \in DOMAIN type : type[i].name # "" /\ a \in Place(member(i))
    <2>1. PICK m \in Devices!Named(o) : a \in Place(m)
        BY Zenon DEF Stored
    <2>2. PICK i \in DOMAIN type : m = member(i)
        BY <1>3, Zenon
    <2> QED BY <1>2, <1>3, <2>1, <2>2, Zenon
<1>5. ASSUME NEW a, NEW i \in DOMAIN type, type[i].name # "", a \in Place(member(i))
      PROVE  a \in Stored(o)
    <2>1. member(i) \in Devices!Named(o)
        BY <1>2, <1>3, <1>5, Zenon
    <2> QED BY <1>5, <2>1, Zenon DEF Stored
<1> QED BY <1>2, <1>4, <1>5, Zenon

(* A frame and its payload in RAM, at any address; nothing else lies in it. *)
FrameAt(address) ==
    /\ {Devices!Frame, Devices!Payload} \subseteq DOMAIN Objects
    /\ Objects[Devices!Frame] = Devices!At(Devices!telemetry_frame_t, address)
    /\ Objects[Devices!Payload] =
          Devices!At(Devices!gps_fix_t,
                     address + Devices!Places(Devices!telemetry_frame_t)[5])
    /\ \A o \in DOMAIN Objects \ {Devices!Frame, Devices!Payload} :
          Stored(o) \cap (address..address + 35) = {}

(* The fix fills bytes 4 to 28 of the frame, its reserved bytes 29 to 31 stay. *)
LEMMA PayloadStored ==
    ASSUME NEW address \in Nat, FrameAt(address)
    PROVE  Stored(Devices!Payload) = address + 4..address + 28
<1> DEFINE t == Devices!gps_fix_t
           p == Devices!Places(t)
           base == address + 4
<1>1. Objects[Devices!Payload] = Devices!At(t, base)
    BY FramePlaces, Zenon DEF FrameAt
<1>2. \A a : a \in Stored(Devices!Payload) <=>
              \E i \in DOMAIN t : /\ t[i].name # ""
                                 /\ a \in base + p[i]..base + p[i] + Devices!Bytes(t[i]) - 1
    BY <1>1, StoredOf
<1>3. /\ DOMAIN t = 1..11 /\ \A i \in 1..11 : t[i].name # "" <=> i # 11
      /\ \A i \in 1..4 : Devices!Bytes(t[i]) = 4
      /\ \A i \in 5..7 : Devices!Bytes(t[i]) = 2
      /\ \A i \in 8..10 : Devices!Bytes(t[i]) = 1
    BY FixMembers, Zenon DEF Contributes
<1>4. /\ p[1] = 0 /\ p[2] = 4 /\ p[3] = 8 /\ p[4] = 12 /\ p[5] = 16 /\ p[6] = 18
      /\ p[7] = 20 /\ p[8] = 22 /\ p[9] = 23 /\ p[10] = 24
    BY FixPlaces, Zenon
<1> HIDE DEF t, p
<1> DEFINE span(i) == base + p[i]..base + p[i] + Devices!Bytes(t[i]) - 1
<1>5. /\ span(1) = base..base + 3 /\ span(2) = base + 4..base + 7
      /\ span(3) = base + 8..base + 11 /\ span(4) = base + 12..base + 15
    <2>1. 1 \in 1..4 /\ 2 \in 1..4 /\ 3 \in 1..4 /\ 4 \in 1..4
        BY SMT
    <2>2. /\ Devices!Bytes(t[1]) = 4 /\ Devices!Bytes(t[2]) = 4
          /\ Devices!Bytes(t[3]) = 4 /\ Devices!Bytes(t[4]) = 4
        BY <1>3, <2>1, Zenon
    <2> QED BY <1>4, <2>2, SMT
<1>6. /\ span(5) = base + 16..base + 17 /\ span(6) = base + 18..base + 19
      /\ span(7) = base + 20..base + 21
    <2>1. 5 \in 5..7 /\ 6 \in 5..7 /\ 7 \in 5..7
        BY SMT
    <2>2. Devices!Bytes(t[5]) = 2 /\ Devices!Bytes(t[6]) = 2 /\ Devices!Bytes(t[7]) = 2
        BY <1>3, <2>1, Zenon
    <2> QED BY <1>4, <2>2, SMT
<1>7. /\ span(8) = base + 22..base + 22 /\ span(9) = base + 23..base + 23
      /\ span(10) = base + 24..base + 24
    <2>1. 8 \in 8..10 /\ 9 \in 8..10 /\ 10 \in 8..10
        BY SMT
    <2>2. Devices!Bytes(t[8]) = 1 /\ Devices!Bytes(t[9]) = 1 /\ Devices!Bytes(t[10]) = 1
        BY <1>3, <2>1, Zenon
    <2> QED BY <1>4, <2>2, SMT
<1>8. \A a : a \in Stored(Devices!Payload)
              <=> \E i \in DOMAIN t : t[i].name # "" /\ a \in span(i)
    BY <1>2, Zenon
<1> HIDE DEF span
<1>9. \A i : i \in 1..11 /\ i # 11
            <=> i = 1 \/ i = 2 \/ i = 3 \/ i = 4 \/ i = 5 \/ i = 6 \/ i = 7 \/ i = 8 \/ i = 9
                \/ i = 10
    BY SMT
<1>10. \A a : a \in Stored(Devices!Payload)
               <=> \E i : i \in 1..11 /\ i # 11 /\ a \in span(i)
    BY <1>3, <1>8, Zenon
<1>11. ASSUME NEW i, i \in 1..11, i # 11, NEW a \in span(i)
       PROVE  a \in address + 4..address + 28
    <2>1. CASE i = 1 \/ i = 2 \/ i = 3 \/ i = 4
        BY <1>5, <1>11, <2>1, SMT
    <2>2. CASE i = 5 \/ i = 6 \/ i = 7
        BY <1>6, <1>11, <2>2, SMT
    <2>3. CASE i = 8 \/ i = 9 \/ i = 10
        BY <1>7, <1>11, <2>3, SMT
    <2> QED BY <1>9, <1>11, <2>1, <2>2, <2>3, Zenon
<1>12. ASSUME NEW a \in address + 4..address + 28
       PROVE  \E i : i \in 1..11 /\ i # 11 /\ a \in span(i)
    <2>1. \/ a \in base..base + 3 \/ a \in base + 4..base + 7
          \/ a \in base + 8..base + 11 \/ a \in base + 12..base + 15
          \/ a \in base + 16..base + 17 \/ a \in base + 18..base + 19
          \/ a \in base + 20..base + 21 \/ a \in base + 22..base + 22
          \/ a \in base + 23..base + 23 \/ a \in base + 24..base + 24
        BY SMT
    <2>2. \/ a \in span(1) \/ a \in span(2) \/ a \in span(3) \/ a \in span(4)
          \/ a \in span(5) \/ a \in span(6) \/ a \in span(7) \/ a \in span(8)
          \/ a \in span(9) \/ a \in span(10)
        BY <1>5, <1>6, <1>7, <2>1, Zenon
    <2>3. \A i \in {1, 2, 3, 4, 5, 6, 7, 8, 9, 10} : i \in 1..11 /\ i # 11
        BY SMT
    <2>4. \E i \in {1, 2, 3, 4, 5, 6, 7, 8, 9, 10} : a \in span(i)
        BY <2>2, Zenon
    <2> QED BY <2>3, <2>4, Zenon
<1> QED BY <1>10, <1>11, <1>12, Zenon

(* The frame's own members are its first four bytes and its checksum. *)
LEMMA FrameStored ==
    ASSUME NEW address \in Nat, FrameAt(address)
    PROVE  Stored(Devices!Frame) = (address..address + 3) \cup (address + 32..address + 33)
<1> DEFINE t == Devices!telemetry_frame_t
           p == Devices!Places(t)
<1>1. \A a : a \in Stored(Devices!Frame) <=>
              \E i \in DOMAIN t :
                 /\ t[i].name # ""
                 /\ a \in address + p[i]..address + p[i] + Devices!Bytes(t[i]) - 1
    BY StoredOf DEF FrameAt
<1>2. /\ DOMAIN t = 1..6 /\ \A i \in 1..6 : t[i].name # "" <=> i # 5
      /\ \A i \in 1..4 : Devices!Bytes(t[i]) = 1
      /\ Devices!Bytes(t[6]) = 2
    BY FrameMembers, Zenon DEF Contributes
<1>3. p[1] = 0 /\ p[2] = 1 /\ p[3] = 2 /\ p[4] = 3 /\ p[6] = 32
    BY FramePlaces, Zenon
<1> HIDE DEF t, p
<1> DEFINE span(i) == address + p[i]..address + p[i] + Devices!Bytes(t[i]) - 1
<1>4. /\ span(1) = address..address /\ span(2) = address + 1..address + 1
      /\ span(3) = address + 2..address + 2 /\ span(4) = address + 3..address + 3
      /\ span(6) = address + 32..address + 33
    <2>1. 1 \in 1..4 /\ 2 \in 1..4 /\ 3 \in 1..4 /\ 4 \in 1..4
        BY SMT
    <2>2. /\ Devices!Bytes(t[1]) = 1 /\ Devices!Bytes(t[2]) = 1
          /\ Devices!Bytes(t[3]) = 1 /\ Devices!Bytes(t[4]) = 1
          /\ Devices!Bytes(t[6]) = 2
        BY <1>2, <2>1, Zenon
    <2> QED BY <1>3, <2>2, SMT
<1>5. \A a : a \in Stored(Devices!Frame)
              <=> \E i \in DOMAIN t : t[i].name # "" /\ a \in span(i)
    BY <1>1, Zenon
<1> HIDE DEF span
<1>6. \A i : i \in 1..6 /\ i # 5 <=> i = 1 \/ i = 2 \/ i = 3 \/ i = 4 \/ i = 6
    BY SMT
<1>7. \A a : a \in Stored(Devices!Frame) <=> \E i : i \in 1..6 /\ i # 5 /\ a \in span(i)
    BY <1>2, <1>5, Zenon
<1>8. ASSUME NEW i, i \in 1..6, i # 5, NEW a \in span(i)
      PROVE  a \in (address..address + 3) \cup (address + 32..address + 33)
    BY <1>4, <1>6, <1>8, SMT
<1>9. ASSUME NEW a \in (address..address + 3) \cup (address + 32..address + 33)
      PROVE  \E i : i \in 1..6 /\ i # 5 /\ a \in span(i)
    <2>1. \/ a \in address..address \/ a \in address + 1..address + 1
          \/ a \in address + 2..address + 2 \/ a \in address + 3..address + 3
          \/ a \in address + 32..address + 33
        BY SMT
    <2>2. a \in span(1) \/ a \in span(2) \/ a \in span(3) \/ a \in span(4) \/ a \in span(6)
        BY <1>4, <2>1, Zenon
    <2> QED BY <1>6, <2>2, Zenon
<1> QED BY <1>7, <1>8, <1>9, Zenon

(* A telemetry frame anywhere in RAM, and whatever else is in use: the bytes of a
   filled frame that no assignment has reached are the five known ones, and the sizes
   are the 28 and 36 of the header's assertions. *)
THEOREM OnlyKnownStaleHolds ==
    ASSUME NEW address \in Nat, FrameAt(address)
    PROVE  HeadersSpec => []OnlyKnownStale
<1>1. ASSUME StoredInv PROVE Devices!OnlyKnownStale
    <2> SUFFICES ASSUME Devices!Frame \in used, Devices!Payload \in used
                 PROVE  /\ Devices!Stale = {29, 30, 31} \cup {34, 35}
                        /\ Objects[Devices!Payload].size = 28
                        /\ Objects[Devices!Frame].size = 36
        BY DEF Devices!OnlyKnownStale, Devices!Filled
    <2>1. /\ Objects[Devices!Payload].size = 28
          /\ Objects[Devices!Frame].size = 36 /\ Objects[Devices!Frame].base = address
        <3>1. \A type, base : Devices!At(type, base).size = Devices!Size(type)
                              /\ Devices!At(type, base).base = base
            BY SMT DEF Devices!At, Devices!Placed
        <3>2. Devices!Size(Devices!gps_fix_t) = 28
              /\ Devices!Size(Devices!telemetry_frame_t) = 36
            BY FixPlaces, FramePlaces, Zenon
        <3>3. /\ Objects[Devices!Frame] = Devices!At(Devices!telemetry_frame_t, address)
              /\ Objects[Devices!Payload] =
                    Devices!At(Devices!gps_fix_t,
                               address + Devices!Places(Devices!telemetry_frame_t)[5])
            BY Zenon DEF FrameAt
        <3> QED BY <3>1, <3>2, <3>3
    <2>2. Devices!FrameBytes = address..address + 35
        <3>1. Devices!FrameBytes = {address + i : i \in 0..36 - 1}
            BY <2>1, Zenon DEF Devices!FrameBytes
        <3>2. \A a : a \in {address + i : i \in 0..36 - 1} => a \in address..address + 35
            BY SMT
        <3>3. ASSUME NEW a \in address..address + 35
              PROVE  a \in {address + i : i \in 0..36 - 1}
            <4>1. a - address \in 0..36 - 1 /\ a = address + (a - address)
                BY SMT
            <4> QED BY <4>1
        <3> QED BY <3>1, <3>2, <3>3
    <2>3. \A a \in address..address + 35 : a \in DOMAIN memory
                <=> a \in Stored(Devices!Frame) \/ a \in Stored(Devices!Payload)
        BY <1>1, Zenon DEF StoredInv, FrameAt
    <2>4. \A a \in address..address + 35 : a \notin DOMAIN memory
                <=> a - address \in {29, 30, 31} \cup {34, 35}
        <3>1. \A a \in address..address + 35 : a \notin DOMAIN memory
                <=> a \notin (address..address + 3) \cup (address + 32..address + 33)
                    /\ a \notin address + 4..address + 28
            BY <2>3, FrameStored, PayloadStored, Zenon
        <3> QED BY <3>1, SMT
    <2>5. Devices!Stale = {a - address : a \in (address..address + 35) \ DOMAIN memory}
        BY <2>1, <2>2, Zenon DEF Devices!Stale
    <2>6. ASSUME NEW k \in {29, 30, 31} \cup {34, 35} PROVE k \in Devices!Stale
        <3>1. address + k \in address..address + 35 /\ address + k - address = k
            BY SMT
        <3>2. address + k \notin DOMAIN memory
            BY <2>4, <3>1
        <3> QED BY <2>5, <3>1, <3>2
    <2>7. ASSUME NEW k \in Devices!Stale PROVE k \in {29, 30, 31} \cup {34, 35}
        BY <2>4, <2>5
    <2> QED BY <2>1, <2>6, <2>7
<1>2. StoredInv => Devices!OnlyKnownStale
    BY <1>1
<1> QED BY <1>2, Both, StoredInvariance, PTL DEF OnlyKnownStale
========================================================================================
