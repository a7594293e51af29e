------------------------------ MODULE NameMap ------------------------------
(* What a directory promises: a map from names to inodes, 0 for no entry,    *)
(* whose operations change one name each.                                    *)
EXTENDS Integers

CONSTANTS Name, Ino

VARIABLE map

Init == map = [name \in Name \cup {"dot", "dotdot"} |-> IF name \in Name THEN 0 ELSE 1]

Bind(name, ino) == map[name] = 0 /\ map' = [map EXCEPT ![name] = ino]

Unbind(name) == map[name] # 0 /\ map' = [map EXCEPT ![name] = 0]

Rebind(name, ino) == map[name] # 0 /\ map' = [map EXCEPT ![name] = ino]

Next ==
    \/ \E name \in Name, ino \in Ino : Bind(name, ino) \/ Rebind(name, ino)
    \/ \E name \in Name : Unbind(name)
    \/ \E ino \in Ino : Rebind("dotdot", ino)

Spec == Init /\ [][Next]_map
=============================================================================
