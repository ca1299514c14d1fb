----------------------------- MODULE RuntimeRings -----------------------------
(***************************************************************************)
(* The strings that the native runtime returns (native_runtime.c): each of *)
(* ptjs_string_char_at and the ptjs_identificar functions writes into a    *)
(* ring of static buffers of its own and returns a pointer to one of them. *)
(* A compiled program keeps the pointer in a temporary or a local.         *)
(***************************************************************************)
EXTENDS Naturals, Sequences

CONSTANTS
  RingFunctions,   \* the functions with a ring
  RingSize,        \* RingSize[f]: its buffers, 16 or 4
  Texts,           \* what a function may have to write
  NoText           \* contents of a buffer not written yet

ASSUME RuntimeRingsAssumption ==
  /\ RingSize \in [RingFunctions -> Nat \ {0}]
  /\ NoText \notin Texts

VARIABLES
  buffer,          \* buffer[f][i]: the static array
  ringNext,        \* the static index `next` of each
  returned         \* history: the last pointers returned, with what was meant

ringsVars == <<buffer, ringNext, returned>>

RingsInit ==
  /\ buffer = [f \in RingFunctions |-> [i \in 0 .. RingSize[f] - 1 |-> NoText]]
  /\ ringNext = [f \in RingFunctions |-> 0]
  /\ returned = [f \in RingFunctions |-> <<>>]

(* The index after i; the slip wraps one buffer early. *)
NextBufferEarly(f, i) == (i + 1) % (IF RingSize[f] > 1 THEN RingSize[f] - 1 ELSE 1)
NextBuffer(f, i) == (i + 1) % RingSize[f]

LastOf(s, n) == IF Len(s) <= n THEN s ELSE SubSeq(s, Len(s) - n + 1, Len(s))

(* A call of f that has text to return. An index out of range returns a
   constant "" instead and leaves the ring alone. *)
RuntimeCall(f, text) ==
  /\ buffer' = [buffer EXCEPT ![f][ringNext[f]] = text]
  /\ ringNext' = [ringNext EXCEPT ![f] = NextBuffer(f, @)]
  /\ returned' = [returned EXCEPT
       ![f] = LastOf(Append(@, [slot |-> ringNext[f], text |-> text]), RingSize[f])]

RingsNext == \E f \in RingFunctions, text \in Texts : RuntimeCall(f, text)

RingsSpec == RingsInit /\ [][RingsNext]_ringsVars

-----------------------------------------------------------------------------
(***************************************************************************)
(* A string that the runtime returned reads as it was returned until the   *)
(* same function has been called RingSize more times, whatever the other   *)
(* functions do: an expression may hold that many characters at once.      *)
(***************************************************************************)
RecentStringsIntact ==
  \A f \in RingFunctions : \A i \in DOMAIN returned[f] :
    buffer[f][returned[f][i].slot] = returned[f][i].text
=============================================================================
