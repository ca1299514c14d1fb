------------------------------ MODULE PropertyMap ------------------------------
(***************************************************************************)
(* What the properties of objects promise to a script: each object has its *)
(* own properties, in the order they were added, whatever other objects    *)
(* do.  An object that is not there is <<>>, one that is there <<list>>.   *)
(***************************************************************************)
EXTENDS Sequences, FiniteSets

CONSTANTS Names, Contents

VARIABLE objects

Property == [name : Names, configurable : BOOLEAN, value : Contents]
NamesOf(o) == {objects[o][1][i].name : i \in DOMAIN objects[o][1]}
There(o) == objects[o] # <<>>

Init == \A o \in DOMAIN objects : objects[o] = <<>>

Changes(o, list) == objects' = [objects EXCEPT ![o] = <<list>>]
Create(o) == ~There(o) /\ Changes(o, <<>>)
Drop(o) == There(o) /\ objects' = [objects EXCEPT ![o] = <<>>]
Add(o, p) == There(o) /\ p.name \notin NamesOf(o) /\ Changes(o, Append(objects[o][1], p))
Delete(o, n) ==
  /\ There(o)
  /\ \E i \in DOMAIN objects[o][1] : objects[o][1][i].name = n /\ objects[o][1][i].configurable
  /\ Changes(o, SelectSeq(objects[o][1], LAMBDA p : p.name # n))
Reconfigure(o, n) ==
  /\ There(o) /\ n \in NamesOf(o)
  /\ Changes(o, [i \in DOMAIN objects[o][1] |->
                   IF objects[o][1][i].name = n
                   THEN [objects[o][1][i] EXCEPT !.configurable = ~@] ELSE objects[o][1][i]])

Next ==
  \E o \in DOMAIN objects :
    \/ Create(o) \/ Drop(o)
    \/ \E p \in Property : Add(o, p)
    \/ \E n \in Names : Delete(o, n) \/ Reconfigure(o, n)
Spec == Init /\ [][Next]_objects
===============================================================================
