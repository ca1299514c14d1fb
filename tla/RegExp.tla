--------------------------------- MODULE RegExp ---------------------------------
(***************************************************************************)
(* Regular expressions in libregexp.c: lre_compile, which makes code of a  *)
(* pattern, and lre_exec_backtrack, which runs it on a text.               *)
(*                                                                         *)
(* A pattern is a tree, its characters having been read; an instruction    *)
(* takes one place of the code, and jumps are relative to the place after  *)
(* it.  Characters are told apart only by the sets that classes make.      *)
(***************************************************************************)
EXTENDS Integers, Sequences, SequencesExt, FiniteSets

CONSTANTS
  Regexps,     \* what lre_compile makes of some patterns
  Subjects,    \* the texts they run on: sequences of characters
  WordCharacters,        \* the characters of words
  Infinity     \* INT32_MAX: more than any number of iterations

VARIABLES
  program,         \* of Regexps
  subject,
  ip, cptr,        \* pc, the next instruction, and the characters before the position
  capture,         \* positions of the captures, then the registers
  states,          \* saved states, the last one on top
  outcome          \* "running", then "match", "no match" or "timeout"; "idle" before

regexpVars == <<program, subject, ip, cptr, capture, states, outcome>>

NULL == -1
Optional(condition, inst) == IF condition THEN <<inst>> ELSE <<>>
AsNumber(condition) == IF condition THEN 1 ELSE 0

-----------------------------------------------------------------------------
(* re_need_check_adv_and_capture_init, on the code of an atom.  It looks no
   further than the first instruction with effects that it cannot tell.  The
   slip takes an atom to set all its captures. *)
Understood == {"char", "line_start", "line_end", "word_boundary", "set_i32", "set_char_pos", "prev",
               "save_start", "save_end", "save_reset", "back_reference"}
Looked(code) ==
  CHOOSE n \in 0 .. Len(code) : /\ \A i \in 1 .. n : code[i].op \in Understood
                                /\ n < Len(code) => code[n + 1].op \notin Understood
NeedCheckAdv(code) == ~\E i \in 1 .. Looked(code) : code[i].op = "char"
NeedCaptureInitNever(code) == FALSE
NeedCaptureInit(code) ==
  Looked(code) < Len(code) \/ \E i \in DOMAIN code : code[i].op = "back_reference"

(* re_parse_term, from its label quantifier on: the code of an atom with the
   captures from first up to next, repeated. *)
Repeated(atom, q, first, next) ==
  LET init == NeedCaptureInit(atom)
      check == NeedCheckAdv(atom)
      captures == first # next
      reset == [op |-> "save_reset", from |-> first, to |-> next - 1]
      body == Optional(init /\ captures, reset) \o atom
      once == Optional(~init /\ captures, reset)
      len == Len(body)
      Split(goto, off) == [op |-> "split", goto |-> goto, off |-> off]
      SetI32 == [op |-> "set_i32", val |-> q.max, reg |-> 0]
      SetPos(chk) == Optional(chk, [op |-> "set_char_pos", reg |-> 0])
      Loop(chk, limit) == [op |-> "loop_split", check |-> chk, goto |-> q.greedy, limit |-> limit,
                           off |-> -(len + AsNumber(chk) + 1), reg |-> 0]
      size == len + 2 * AsNumber(check)    \* with set_char_pos and check_advance
      some == check /\ q.min # q.max
  IN CASE q.min = 0 /\ q.max = 0 -> once
       [] q.min = 0 /\ q.max \in {1, Infinity} ->
            once \o <<Split(~q.greedy, size + AsNumber(q.max = Infinity))>>
                 \o SetPos(check) \o body \o Optional(check, [op |-> "check_advance", reg |-> 0])
                 \o Optional(q.max = Infinity, [op |-> "goto", off |-> -(size + 2)])
       [] q.min = 0 /\ q.max \notin {0, 1, Infinity} ->
            once \o <<Split(~q.greedy, len + AsNumber(check) + 2), SetI32>>
                 \o SetPos(check) \o Append(body, Loop(check, q.max))
       [] q.min = 1 /\ q.max = Infinity /\ ~check -> Append(body, Split(q.greedy, -(len + 1)))
       [] OTHER ->
            <<SetI32>> \o SetPos(some)
              \o Append(body, IF q.min = q.max
                              THEN [op |-> "loop", off |-> -(len + 1), reg |-> 0]
                              ELSE Loop(some, q.max - q.min))

(* re_parse_term, re_parse_alternative and re_parse_disjunction, with the number
   n of the next capture.  In a lookbehind the terms come in reverse order and
   the characters are read backwards. *)
RECURSIVE Term(_, _, _), Alternative(_, _, _), Disjunction(_, _, _)
Term(t, n, back) ==
  CASE t.k = "class" ->
         [code |-> Optional(back, [op |-> "prev"]) \o <<[op |-> "char", set |-> t.set]>>
                     \o Optional(back, [op |-> "prev"]), next |-> n]
    [] t.k = "assertion" -> [code |-> <<t.inst>>, next |-> n]
    [] t.k = "reference" -> [code |-> <<[op |-> "back_reference", refs |-> t.refs, back |-> back]>>, next |-> n]
    [] t.k = "group" /\ ~t.captures -> Disjunction(t.d, n, back)
    [] t.k = "group" /\ t.captures ->
         LET inner == Disjunction(t.d, n + 1, back)
             save(start) == <<[op |-> IF start THEN "save_start" ELSE "save_end", val |-> n]>>
         IN [inner EXCEPT !.code = save(~back) \o @ \o save(back)]
    [] t.k = "look" ->
         LET inner == Disjunction(t.d, n, t.behind) IN
         [inner EXCEPT !.code = <<[op |-> "look", negative |-> t.negative, off |-> Len(@) + 1]>>
                                  \o @ \o <<[op |-> "look_match", negative |-> t.negative]>>]
    [] t.k = "quantified" ->
         LET atom == Term(t.atom, n, back) IN
         [atom EXCEPT !.code = Repeated(@, t, n, atom.next)]
Alternative(ts, n, back) ==
  LET step(s, t) == LET x == Term(t, s.next, back) IN
                    [code |-> IF back THEN x.code \o s.code ELSE s.code \o x.code, next |-> x.next]
  IN FoldLeft(step, [code |-> <<>>, next |-> n], ts)
Disjunction(d, n, back) ==
  LET step(s, ts) ==
        LET x == Alternative(ts, s.next, back) IN
        [code |-> <<[op |-> "split", goto |-> FALSE, off |-> Len(s.code) + 1]>> \o s.code
                    \o <<[op |-> "goto", off |-> Len(x.code)]>> \o x.code,
         next |-> x.next]
  IN FoldLeft(step, Alternative(Head(d), n, back), Tail(d))

(* compute_register_count: registers are a stack in the order of the code. *)
RegistersGiven(code) ==
  LET step(s, i) ==
        LET depth == s.depth - CASE i.op \in {"check_advance", "loop"} -> 1
                                 [] i.op = "loop_split" -> 1 + AsNumber(i.check)
                                 [] OTHER -> 0
        IN IF i.op \in {"set_i32", "set_char_pos"}
           THEN [code |-> Append(s.code, [i EXCEPT !.reg = s.depth]), depth |-> s.depth + 1,
                 count |-> IF s.depth + 1 > s.count THEN s.depth + 1 ELSE s.count]
           ELSE [s EXCEPT !.code = Append(@, IF depth # s.depth THEN [i EXCEPT !.reg = depth] ELSE i),
                          !.depth = depth]
  IN FoldLeft(step, [code |-> <<>>, depth |-> 0, count |-> 0], code)

(* lre_compile: unless the pattern is sticky, it is tried at every position. *)
AnyChar == UNION {Range(s) : s \in Subjects}
Search == <<[op |-> "split", goto |-> TRUE, off |-> 2], [op |-> "char", set |-> AnyChar],
            [op |-> "goto", off |-> -3]>>
LreCompile(pattern) ==
  LET main == Disjunction(pattern.d, 1, FALSE)
      given == RegistersGiven((IF pattern.sticky THEN <<>> ELSE Search)
                              \o <<[op |-> "save_start", val |-> 0]>> \o main.code
                              \o <<[op |-> "save_end", val |-> 0], [op |-> "match"]>>)
  IN [pattern |-> pattern, code |-> given.code, captures |-> main.next, registers |-> given.count]

-----------------------------------------------------------------------------
(* lre_exec_backtrack.  A saved state has the undo records made since then;
   states[1] is the bottom of the stack.  was, a history, is capture at the
   time. *)
StateAt(kind, p) == [kind |-> kind, pc |-> p, cptr |-> cptr, undo |-> <<>>, was |-> capture]

(* lre_exec at the start of the text; a pattern that is not sticky begins with
   a loop that moves on *)
RegExpInit ==
  /\ program \in Regexps /\ subject \in Subjects
  /\ ip = 1 /\ cptr = 0 /\ outcome = "running"
  /\ capture = [i \in 0 .. 2 * program.captures + program.registers - 1 |-> NULL]
  /\ states = <<StateAt("bottom", 0)>>

(* No pattern has been compiled. *)
RegExpIdle ==
  /\ program = <<>> /\ subject = <<>> /\ ip = 1 /\ cptr = 0 /\ outcome = "idle"
  /\ capture = <<>> /\ states = <<>>

Opcode == program.code[ip]
Executes(ops) == outcome = "running" /\ Opcode.op \in ops
TopState == Len(states)
Register == 2 * program.captures + Opcode.reg

TakenBack(undo, c) == FoldRight(LAMBDA u, s : [s EXCEPT ![u.idx] = u.val], undo, c)
UndoneTo(k) == TakenBack(FlattenSeq([i \in 1 .. TopState - k + 1 |-> states[k + i - 1].undo]), capture)

(* The stack without state k and those above it.  The slip leaves k there. *)
PoppedKept(k) == [SubSeq(states, 1, k) EXCEPT ![k].undo = <<>>]
Popped(k) == SubSeq(states, 1, k - 1)

(* no_match: the last saved state that is not a lookahead is resumed. *)
ResumedBelow(n) ==
  LET resumable == {k \in 2 .. n : states[k].kind # "lookahead"} IN
  IF resumable = {} THEN outcome' = "no match" /\ UNCHANGED <<ip, cptr, capture, states>>
  ELSE LET k == CHOOSE i \in resumable : \A j \in resumable : j <= i IN
       /\ capture' = UndoneTo(k)
       /\ ip' = states[k].pc /\ cptr' = states[k].cptr
       /\ states' = Popped(k)
       /\ UNCHANGED outcome
NoMatch == ResumedBelow(TopState)

Proceeds(p) == ip' = p /\ UNCHANGED outcome
Stays == UNCHANGED <<program, subject>>

ExecMatch ==
  /\ Executes({"match"}) /\ Stays
  /\ outcome' = "match" /\ UNCHANGED <<ip, cptr, capture, states>>

(* REOP_char, REOP_range and the like *)
ExecChar ==
  /\ Executes({"char"}) /\ Stays
  /\ IF cptr < Len(subject) /\ subject[cptr + 1] \in Opcode.set
     THEN Proceeds(ip + 1) /\ cptr' = cptr + 1 /\ UNCHANGED <<capture, states>>
     ELSE NoMatch
ExecPrev ==
  /\ Executes({"prev"}) /\ Stays
  /\ IF cptr > 0 THEN Proceeds(ip + 1) /\ cptr' = cptr - 1 /\ UNCHANGED <<capture, states>>
     ELSE NoMatch

WordAt(i) == i \in DOMAIN subject /\ subject[i] \in WordCharacters
AssertionHolds(i) == CASE i.op = "line_start" -> cptr = 0
              [] i.op = "line_end" -> cptr = Len(subject)
              [] i.op = "word_boundary" -> (WordAt(cptr) # WordAt(cptr + 1)) = i.is
              [] i.op = "check_advance" -> capture[Register] # cptr
ExecAssertion ==
  /\ Executes({"line_start", "line_end", "word_boundary", "check_advance"}) /\ Stays
  /\ IF AssertionHolds(Opcode) THEN Proceeds(ip + 1) /\ UNCHANGED <<cptr, capture, states>> ELSE NoMatch

ExecGoto ==
  /\ Executes({"goto"}) /\ Stays
  /\ Proceeds(ip + 1 + Opcode.off) /\ UNCHANGED <<cptr, capture, states>>

(* One way is taken and the other saved; stack is with what was saved before. *)
Splits(stack, c) ==
  LET there == ip + 1 + Opcode.off IN
  /\ Proceeds(IF Opcode.goto THEN there ELSE ip + 1)
  /\ states' = Append(stack, [StateAt("split", IF Opcode.goto THEN ip + 1 ELSE there) EXCEPT !.was = c])
  /\ UNCHANGED cptr
ExecSplit ==
  /\ Executes({"split"}) /\ Stays
  /\ Splits(states, capture) /\ UNCHANGED capture

ExecLook ==
  /\ Executes({"look"}) /\ Stays
  /\ states' = Append(states, StateAt(IF Opcode.negative THEN "negative" ELSE "lookahead", ip + 1 + Opcode.off))
  /\ Proceeds(ip + 1) /\ UNCHANGED <<cptr, capture>>

LastOfKind(kind) == CHOOSE k \in DOMAIN states :
                      states[k].kind = kind /\ \A j \in k + 1 .. TopState : states[j].kind # kind
(* The states of a lookahead that matched are dropped, and their undo records
   go to the state below it.  (The code drops them when there is none but the
   bottom, which is never resumed.)  The slip drops them always. *)
KeptUndoDropped(k) == Popped(k)
KeptUndo(k) == [Popped(k) EXCEPT ![k - 1].undo =
                  @ \o FlattenSeq([i \in 1 .. TopState - k + 1 |-> states[k + i - 1].undo])]
ExecLookMatch ==
  /\ Executes({"look_match"}) /\ Stays
  /\ IF Opcode.negative THEN ResumedBelow(LastOfKind("negative") - 1)
     ELSE LET k == LastOfKind("lookahead") IN
          /\ Proceeds(states[k].pc) /\ cptr' = states[k].cptr
          /\ states' = KeptUndo(k) /\ UNCHANGED capture

(* SAVE_CAPTURE, and SAVE_CAPTURE_CHECK, which records a register once per
   saved state.  The slip finds records of earlier states too. *)
Recorded(stack, idx, c) == [stack EXCEPT ![Len(stack)].undo = Append(@, [idx |-> idx, val |-> c[idx]])]
AlreadySavedBelow(idx) == \E k \in DOMAIN states : \E i \in DOMAIN states[k].undo : states[k].undo[i].idx = idx
AlreadySaved(idx) == \E i \in DOMAIN states[TopState].undo : states[TopState].undo[i].idx = idx
SavedCheck(idx) == IF AlreadySaved(idx) THEN states ELSE Recorded(states, idx, capture)

ExecSave ==
  /\ Executes({"save_start", "save_end"}) /\ Stays
  /\ LET idx == 2 * Opcode.val + AsNumber(Opcode.op = "save_end") IN
     states' = Recorded(states, idx, capture) /\ capture' = [capture EXCEPT ![idx] = cptr]
  /\ Proceeds(ip + 1) /\ UNCHANGED cptr
ExecSaveReset ==
  /\ Executes({"save_reset"}) /\ Stays
  /\ LET reset == 2 * Opcode.from .. 2 * Opcode.to + 1 IN
     /\ capture' = [i \in DOMAIN capture |-> IF i \in reset THEN NULL ELSE capture[i]]
     /\ states' = FoldSet(LAMBDA i, s : Recorded(s, i, capture), states, reset)
  /\ Proceeds(ip + 1) /\ UNCHANGED cptr

Sets(v) == states' = SavedCheck(Register) /\ capture' = [capture EXCEPT ![Register] = v]
ExecSet ==
  /\ Executes({"set_i32", "set_char_pos"}) /\ Stays
  /\ Sets(IF Opcode.op = "set_i32" THEN Opcode.val ELSE cptr)
  /\ Proceeds(ip + 1) /\ UNCHANGED cptr
ExecLoop ==
  /\ Executes({"loop"}) /\ Stays
  /\ LET left == capture[Register] - 1 IN
     /\ Sets(left)
     /\ Proceeds(IF left # 0 THEN ip + 1 + Opcode.off ELSE ip + 1)
  /\ UNCHANGED cptr
(* The number of iterations left, against the number left when min are done *)
ExecLoopSplit ==
  /\ Executes({"loop_split"}) /\ Stays
  /\ LET left == capture[Register] - 1
         c == [capture EXCEPT ![Register] = left]
         stuck == Opcode.check /\ capture[Register + 1] = cptr /\ left # Opcode.limit
     IN CASE left > Opcode.limit -> Sets(left) /\ Proceeds(ip + 1 + Opcode.off) /\ UNCHANGED cptr
          [] left <= Opcode.limit /\ stuck -> NoMatch
          [] left <= Opcode.limit /\ ~stuck /\ left # 0 -> Splits(SavedCheck(Register), c) /\ capture' = c
          [] left = 0 /\ ~stuck -> Sets(left) /\ Proceeds(ip + 1) /\ UNCHANGED cptr

(* The first reference that is set is compared; without one, nothing is. *)
IsSet(n) == capture[2 * n] # NULL /\ capture[2 * n + 1] # NULL
ExecBackReference ==
  /\ Executes({"back_reference"}) /\ Stays
  /\ LET set == {i \in DOMAIN Opcode.refs : IsSet(Opcode.refs[i])}
         n == Opcode.refs[CHOOSE i \in set : \A j \in set : i <= j]
         from == capture[2 * n]
         len == capture[2 * n + 1] - from
         start == IF Opcode.back THEN cptr - len ELSE cptr
     IN IF set = {} THEN Proceeds(ip + 1) /\ UNCHANGED <<cptr, capture, states>>
        ELSE IF /\ start >= 0 /\ start + len <= Len(subject)
                /\ \A i \in 1 .. len : subject[from + i] = subject[start + i]
        THEN Proceeds(ip + 1) /\ cptr' = (IF Opcode.back THEN start ELSE start + len) /\ UNCHANGED <<capture, states>>
        ELSE NoMatch

(* lre_poll_timeout, at jumps back and where an instruction has resumed a saved
   state: the interrupt handler asks to stop.  (An instruction that could fail
   and does not is not followed by a poll; that makes no difference here.) *)
TimesOut ==
  /\ outcome = "running"
  /\ Opcode.op \notin {"match", "split", "look", "save_start", "save_end", "save_reset", "set_i32", "set_char_pos"}
  /\ outcome' = "timeout" /\ UNCHANGED <<program, subject, ip, cptr, capture, states>>

ExecInstruction ==
  \/ ExecMatch \/ ExecChar \/ ExecPrev \/ ExecAssertion \/ ExecGoto \/ ExecSplit \/ ExecLook \/ ExecLookMatch
  \/ ExecSave \/ ExecSaveReset \/ ExecSet \/ ExecLoop \/ ExecLoopSplit \/ ExecBackReference
RegExpNext == ExecInstruction \/ TimesOut
RegExpSpec == RegExpInit /\ [][RegExpNext]_regexpVars /\ WF_regexpVars(ExecInstruction)

-----------------------------------------------------------------------------
(* What a pattern means in ECMAScript: the ways of matching it from a state, a
   position with the captures so far, in the order in which they are tried. *)
RECURSIVE GroupsIn(_), GroupsOf(_), Ways(_, _, _, _), WaysOf(_, _, _, _), WaysAny(_, _, _, _), Iterated(_, _, _, _, _, _)
GroupsIn(t) == CASE t.k = "group" -> AsNumber(t.captures) + GroupsOf(t.d)
                 [] t.k = "look" -> GroupsOf(t.d)
                 [] t.k = "quantified" -> GroupsIn(t.atom)
                 [] OTHER -> 0
GroupsOf(d) == FoldLeft(LAMBDA n, ts : FoldLeft(LAMBDA m, t : m + GroupsIn(t), n, ts), 0, d)

AllFrom(results, F(_)) == FlattenSeq([i \in DOMAIN results |-> F(results[i])])
Unset == <<NULL, NULL>>

(* RepeatMatcher: captures are reset before each iteration, and an iteration
   that is not required and matches nothing is no way. *)
Iterated(t, n, back, x, min, max) ==
  LET fresh == [x EXCEPT !.caps = [i \in DOMAIN @ |-> IF i \in n .. n + GroupsIn(t.atom) - 1 THEN Unset ELSE @[i]]]
      less(m) == IF m = Infinity THEN m ELSE m - 1
      goOn(y) == IF min = 0 /\ y.pos = x.pos THEN <<>>
                 ELSE Iterated(t, n, back, y, IF min = 0 THEN 0 ELSE min - 1, less(max))
      more == AllFrom(Ways(t.atom, n, back, fresh), goOn)
  IN CASE max = 0 -> <<x>>
       [] max # 0 /\ min # 0 -> more
       [] max # 0 /\ min = 0 -> IF t.greedy THEN Append(more, x) ELSE <<x>> \o more

Ways(t, n, back, x) ==
  CASE t.k = "class" ->
         LET at == IF back THEN x.pos ELSE x.pos + 1 IN
         Optional(at \in DOMAIN subject /\ subject[at] \in t.set, [x EXCEPT !.pos = IF back THEN @ - 1 ELSE @ + 1])
    [] t.k = "assertion" ->
         Optional(CASE t.inst.op = "line_start" -> x.pos = 0
                    [] t.inst.op = "line_end" -> x.pos = Len(subject)
                    [] t.inst.op = "word_boundary" -> (WordAt(x.pos) # WordAt(x.pos + 1)) = t.inst.is, x)
    [] t.k = "reference" ->
         LET set == SelectSeq(t.refs, LAMBDA i : x.caps[i] # Unset)
             c == x.caps[set[1]]
             len == c[2] - c[1]
             start == IF back THEN x.pos - len ELSE x.pos
         IN IF set = <<>> THEN <<x>>
            ELSE Optional(/\ start \in 0 .. Len(subject) - len
                          /\ SubSeq(subject, c[1] + 1, c[2]) = SubSeq(subject, start + 1, start + len),
                          [x EXCEPT !.pos = IF back THEN start ELSE start + len])
    [] t.k = "group" ->
         LET enclosed(y) == [y EXCEPT !.caps[n] = IF back THEN <<y.pos, x.pos>> ELSE <<x.pos, y.pos>>]
             ways == WaysAny(t.d, n + AsNumber(t.captures), back, x)
         IN IF t.captures THEN [i \in DOMAIN ways |-> enclosed(ways[i])] ELSE ways
    [] t.k = "look" ->
         LET ways == WaysAny(t.d, n, t.behind, x) IN
         IF t.negative THEN Optional(ways = <<>>, x)
         ELSE Optional(ways # <<>>, [x EXCEPT !.caps = ways[1].caps])
    [] t.k = "quantified" -> Iterated(t, n, back, x, t.min, t.max)

(* The terms of an alternative, the last one first when reading backwards *)
WaysOf(ts, n, back, x) ==
  IF ts = <<>> THEN <<x>>
  ELSE IF back
  THEN LET before == FoldLeft(LAMBDA m, t : m + GroupsIn(t), n, Front(ts))
           goOn(y) == WaysOf(Front(ts), n, back, y)
       IN AllFrom(Ways(Last(ts), before, back, x), goOn)
  ELSE LET goOn(y) == WaysOf(Tail(ts), n + GroupsIn(Head(ts)), back, y)
       IN AllFrom(Ways(Head(ts), n, back, x), goOn)
WaysAny(d, n, back, x) ==
  IF d = <<>> THEN <<>>
  ELSE WaysOf(Head(d), n, back, x) \o WaysAny(Tail(d), n + GroupsOf(<<Head(d)>>), back, x)

ExpectedMatch ==
  LET blank == [i \in 1 .. GroupsOf(program.pattern.d) |-> Unset]
      ways(p) == WaysAny(program.pattern.d, 1, FALSE, [pos |-> p, caps |-> blank])
      starts == {p \in IF program.pattern.sticky THEN {0} ELSE 0 .. Len(subject) : ways(p) # <<>>}
      first == CHOOSE p \in starts : \A q \in starts : p <= q
      way == ways(first)[1]
  IN IF starts = {} THEN <<>>
     ELSE [i \in 1 .. Len(blank) + 1 |-> IF i = 1 THEN <<first, way.pos>> ELSE way.caps[i - 1]]

-----------------------------------------------------------------------------
(***************************************************************************)
(* The code finds the match that the standard defines, with the captures   *)
(* of its last iterations: what lre_compile leaves out (a reset of         *)
(* captures, a test that an iteration advances) was not needed.            *)
(***************************************************************************)
Captured == [i \in 1 .. program.captures |-> <<capture[2 * i - 2], capture[2 * i - 1]>>]
MatchesAsSpecified ==
  /\ outcome = "match" => Captured = ExpectedMatch
  /\ outcome = "no match" => ExpectedMatch = <<>>

(***************************************************************************)
(* Undoing the records made since a state was saved, state by state from   *)
(* the top, gives it the captures and registers it was saved with, though  *)
(* registers are recorded once and the states of lookaheads are gone.      *)
(***************************************************************************)
BacktrackRestores ==
  outcome = "running" => \A k \in 2 .. TopState :
    states[k].was = TakenBack(states[k].undo, IF k = TopState THEN capture ELSE states[k + 1].was)

(***************************************************************************)
(* Every pattern comes to an end on every text: no iteration that matches  *)
(* nothing is repeated for ever.                                           *)
(***************************************************************************)
MatchEnds == outcome = "running" ~> outcome # "running"
=============================================================================
