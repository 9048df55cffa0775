---------------------------------- MODULE DeviceMap ------------------------------------
(* Drivers that set up devices, and tasks that fill in structs, each by assigning
   every member through a pointer; and the memory behind, which knows addresses only. *)
EXTENDS CLayout

CONSTANTS
    Objects,        \* the structs in memory and their members, by name
    MaxUsed         \* bound: how many are used together

VARIABLES
    memory,         \* what each address that has been stored to holds
    used            \* the objects whose members have been assigned

vars == <<memory, used>>

Named(o) == {m \in Objects[o].members : m.name # ""}

Init ==
    /\ memory = <<>>
    /\ used = {}

(* Each member is given a value of its own; the members reserved are left alone. *)
Assign(o) ==
    LET owner(a) == CHOOSE m \in Named(o) : a \in m.from..m.from + m.bytes - 1
        stored   == UNION {m.from..m.from + m.bytes - 1 : m \in Named(o)}
    IN  /\ Cardinality(used) < MaxUsed
        /\ o \notin used
        /\ memory' = [a \in stored \cup DOMAIN memory |->
                        IF a \in stored THEN <<o, owner(a).name>> ELSE memory[a]]
        /\ used' = used \cup {o}

Next == \E o \in DOMAIN Objects : Assign(o)

Spec == Init /\ [][Next]_vars
----------------------------------------------------------------------------------------
(* Whatever objects are used together, in whatever order: each register is, whole, at
   the address that the comment beside its declaration gives, and nothing that was
   assigned to another object has ended up there. *)
AtDocumentedAddress ==
    LET known == DOMAIN memory
    IN  \A o \in used : \A m \in Named(o) :
            \A a \in m.documented..m.documented + m.bytes - 1 :
                a \in known /\ memory[a] = <<o, m.name>>
========================================================================================
