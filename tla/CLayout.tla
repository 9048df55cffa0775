----------------------------------- MODULE CLayout ------------------------------------
(* How the compiler lays out a struct (the AAPCS): each member at the next address
   that its type may have. A member without a name is reserved and is not accessed;
   doc is the offset that the comment beside the declaration gives, where it does. *)
EXTENDS Integers, Sequences, FiniteSetsExt

None == -1

Member(doc, name, size, align, count) ==
    [doc |-> doc, name |-> name, size |-> size, align |-> align, count |-> count]

\* An array of n scalars; one-word registers in a row; words without a name.
Array(doc, name, size, n) == <<Member(doc, name, size, size, n)>>
Words(doc, names) ==
    [i \in DOMAIN names |->
        Member(IF doc = None THEN None ELSE doc + 4 * (i - 1), names[i], 4, 4, 1)]
Reserved(n) == Array(None, "", 4, n)

AlignUp(n, align) == ((n + align - 1) \div align) * align

\* Where each member begins, and where the next may begin.
Places(type) ==
    LET end[i \in 0..Len(type)] ==
            IF i = 0 THEN 0
            ELSE AlignUp(end[i - 1], type[i].align) + type[i].size * type[i].count
    IN  [i \in DOMAIN type |-> AlignUp(end[i - 1], type[i].align)]

Bytes(member) == member.size * member.count

Align(type) == Max({type[i].align : i \in DOMAIN type})
Size(type) ==
    LET n == Len(type) IN AlignUp(Places(type)[n] + Bytes(type[n]), Align(type))

\* A struct as a member of another: its own members are the ones that are accessed.
Nested(type) == <<Member(None, "", Size(type), Align(type), 1)>>

\* A struct placed at an address. origin is what its comments count offsets from.
Placed(type, base, origin) ==
    LET at == Places(type)
        member(i) == [name |-> type[i].name, from |-> base + at[i], bytes |-> Bytes(type[i]),
                      documented |-> IF type[i].doc = None THEN base + at[i]
                                     ELSE origin + type[i].doc]
    IN  [base |-> base, size |-> Size(type), members |-> {member(i) : i \in DOMAIN type}]
At(type, base) == Placed(type, base, base)
========================================================================================
