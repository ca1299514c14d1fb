------------------------------ MODULE MCRegExp ------------------------------
(* Patterns of a few atoms under every kind of quantifier, in each other, and
   in lookaheads and lookbehinds; texts of up to three characters. *)
EXTENDS RegExp

Class(S) == [k |-> "class", set |-> S]
A == Class({"a"})
B == Class({"b"})
Group(d) == [k |-> "group", captures |-> TRUE, d |-> d]
NonCapturing(d) == [k |-> "group", captures |-> FALSE, d |-> d]
Look(behind, negative, d) == [k |-> "look", behind |-> behind, negative |-> negative, d |-> d]
To(n) == [k |-> "reference", refs |-> <<n>>]
Q(t, min, max, greedy) == [k |-> "quantified", atom |-> t, min |-> min, max |-> max, greedy |-> greedy]
Star(t) == Q(t, 0, Infinity, TRUE)
Assertion(i) == [k |-> "assertion", inst |-> i]

Quantifiers == {<<0, 0>>, <<0, 1>>, <<0, 2>>, <<0, Infinity>>, <<1, 2>>, <<1, Infinity>>, <<2, 2>>, <<2, Infinity>>}
Quantified(t) == {Q(t, q[1], q[2], g) : q \in Quantifiers, g \in BOOLEAN}
AorB == Group(<<<<A>>, <<B>>>>)
Atomic == {A, Group(<<<<A>>>>), Group(<<<<>>, <<A>>>>),
           NonCapturing(<<<<Group(<<<<A>>>>)>>, <<Group(<<<<B>>>>)>>>>),
           NonCapturing(<<<<Q(A, 0, 1, TRUE), Group(<<<<B>>, <<>>>>)>>>>),
           Look(FALSE, FALSE, <<<<Group(<<<<A>>>>)>>>>)}

(* In a loop, in a lookahead, in a lookbehind; with a reference in a loop and out of it *)
Inside(t) == {Star(Group(<<<<t, Q(B, 0, 1, TRUE)>>>>)), Q(NonCapturing(<<<<t>>, <<B>>>>), 2, Infinity, FALSE)}
Around(t) == {Look(FALSE, TRUE, <<<<t, B>>>>), Look(FALSE, FALSE, <<<<t, B>>>>), Look(TRUE, FALSE, <<<<t, A>>>>)}
Loops == {Q(t, q[1], q[2], TRUE) : t \in {AorB, Group(<<<<>>, <<A>>>>)}, q \in {<<0, 2>>, <<0, Infinity>>, <<1, 2>>, <<2, 2>>}}
Edge(op) == Assertion([op |-> op])
Terms ==
  {<<q>> : q \in UNION {Quantified(t) : t \in Atomic}}
  \cup {<<w>> : w \in UNION {Inside(q) : q \in Loops}}
  \cup {<<w, q, B>> : w \in UNION {Around(q) : q \in Loops}, q \in {Star(A)}}
  \cup {<<AorB, Star(NonCapturing(<<<<q, To(1)>>>>)), Edge("line_end")>> : q \in Loops}
  \cup {<<Star(NonCapturing(<<<<Group(<<<<A, To(1)>>, <<B, To(2)>>>>), Q(AorB, 0, 1, TRUE)>>>>))>>,
         <<A, Look(TRUE, FALSE, <<<<Edge("line_start"), AorB>>, <<To(2), Group(<<<<B>>>>)>>>>)>>,
         <<Assertion([op |-> "word_boundary", is |-> TRUE]), B>>,
         <<Assertion([op |-> "word_boundary", is |-> FALSE]), Q(B, 1, Infinity, FALSE)>>,
         <<NonCapturing(<<<<Group(<<<<A>>>>)>>, <<Group(<<<<B>>>>)>>>>), [k |-> "reference", refs |-> <<1, 2>>]>>}
MCPatterns == [sticky : {FALSE}, d : {<<ts>> : ts \in Terms}]
              \cup [sticky : {TRUE}, d : {<<<<q, B>>, <<A>>>> : q \in Loops}]
MCRegexps == {LreCompile(p) : p \in MCPatterns}
MCSubjects == {<<>>, <<"a">>, <<"a", "b">>, <<"a", "a", "b">>, <<"b", "a", "b">>}
=============================================================================
