------------------------------ MODULE HostProofs ------------------------------
(***************************************************************************)
(* The host of the script engine, for every value of the constants: the    *)
(* raw mode of the terminal, the base directory of incluir, the event      *)
(* loop, the pipes between threads and the window.                         *)
(***************************************************************************)
EXTENDS Terminal, Incluir, EventLoop, Workers, Video, ListLemmas, TLAPS

-----------------------------------------------------------------------------
(* The terminal.                                                           *)

TermState == [termios : Settings, flags : Flags]
Restoring == {"desativar:fcntl", "sair:fcntl", "handler:fcntl"}
Stages ==
  {"script", "tcgetattr", "tcsetattr", "fcntl", "marking", "desativar", "sair", "exit",
   "handler", "exited", "killed"} \cup Restoring

TerminalTypeOK ==
  /\ tty \in TermState /\ ttyFound \in TermState /\ saved \in TermState
  /\ rawActive \in BOOLEAN /\ atExit \in BOOLEAN
  /\ stage \in Stages
  /\ refused \subseteq {"termios", "flags"}

(***************************************************************************)
(* What each point of the switch knows: while raw mode is on the handler   *)
(* is registered and the saved settings are the ones found; on the way to  *)
(* raw mode and back, half of the settings are.  A refused call breaks     *)
(* this for its half of the settings, and for no more.                     *)
(***************************************************************************)
SavedIs(f) == f \in refused \/ saved[f] = ttyFound[f]
TerminalStages ==
  /\ rawActive => atExit /\ SavedIs("termios") /\ SavedIs("flags")
  /\ ~rawActive /\ stage \in {"script", "tcgetattr", "tcsetattr", "desativar", "sair", "exit",
                             "handler", "exited"} => AsFound("termios") /\ AsFound("flags")
  /\ stage \in {"tcgetattr", "tcsetattr", "fcntl", "marking"} => ~rawActive /\ atExit
  /\ stage \in {"tcsetattr", "fcntl", "marking"} => SavedIs("termios") /\ SavedIs("flags")
  /\ stage = "fcntl" => AsFound("flags")
  /\ stage \in Restoring => rawActive /\ AsFound("termios")
  /\ stage = "exited" => ~rawActive

TerminalInv == TerminalTypeOK /\ TerminalStages

(* A state of the terminal is its settings and its flags. *)
LEMMA TermStateFields ==
  ASSUME NEW s \in TermState
  PROVE  s.termios \in Settings /\ s.flags \in Flags
BY DEF TermState

(* A system call changes one of the two. *)
LEMMA ChangedTermios ==
  ASSUME tty \in TermState, NEW v \in Settings, Changed("termios", v)
  PROVE  tty' \in TermState /\ tty'.termios = v /\ tty'.flags = tty.flags /\ refused' = refused
BY DEF Changed, TermState

LEMMA ChangedFlags ==
  ASSUME tty \in TermState, NEW v \in Flags, Changed("flags", v)
  PROVE  tty' \in TermState /\ tty'.flags = v /\ tty'.termios = tty.termios /\ refused' = refused
BY DEF Changed, TermState

(* After a call that puts one of the two back it is as found, if what was
   saved is, or refused; the other one is not touched. *)
LEMMA PutsTermiosBack ==
  ASSUME TerminalInv, PutBack("termios"), UNCHANGED <<ttyFound, saved>>, SavedIs("termios")
  PROVE  /\ tty' \in TermState /\ refused' \subseteq {"termios", "flags"}
         /\ AsFound("termios")'
         /\ AsFound("flags") => AsFound("flags")'
         /\ SavedIs("termios")' /\ (SavedIs("flags") => SavedIs("flags")')
<1> tty \in TermState /\ saved \in TermState /\ refused \subseteq {"termios", "flags"}
  BY DEF TerminalInv, TerminalTypeOK
<1> saved.termios \in Settings
  BY TermStateFields
<1>1. CASE Changed("termios", saved.termios)
  BY <1>1, ChangedTermios DEF AsFound, SavedIs
<1>2. CASE refused' = refused \cup {"termios"} /\ UNCHANGED tty
  BY <1>2 DEF AsFound, SavedIs
<1>3. QED
  BY <1>1, <1>2 DEF PutBack

LEMMA PutsFlagsBack ==
  ASSUME TerminalInv, PutBack("flags"), UNCHANGED <<ttyFound, saved>>, SavedIs("flags")
  PROVE  /\ tty' \in TermState /\ refused' \subseteq {"termios", "flags"}
         /\ AsFound("flags")'
         /\ AsFound("termios") => AsFound("termios")'
<1> tty \in TermState /\ saved \in TermState /\ refused \subseteq {"termios", "flags"}
  BY DEF TerminalInv, TerminalTypeOK
<1> saved.flags \in Flags
  BY TermStateFields
<1>1. CASE Changed("flags", saved.flags)
  BY <1>1, ChangedFlags DEF AsFound, SavedIs
<1>2. CASE refused' = refused \cup {"flags"} /\ UNCHANGED tty
  BY <1>2 DEF AsFound, SavedIs
<1>3. QED
  BY <1>1, <1>2 DEF PutBack

LEMMA TerminalInitInv == TerminalInit => TerminalInv
<1> SUFFICES ASSUME TerminalInit PROVE TerminalInv
  OBVIOUS
<1>1. tty \in TermState
  BY DEF TerminalInit, TermState, Settings, Flags
<1>2. saved \in TermState
  BY DEF TerminalInit, TermState, Settings, Flags
<1>3. QED
  BY <1>1, <1>2
  DEF TerminalInit, TerminalInv, TerminalTypeOK, TerminalStages, Stages, Restoring, AsFound

(* The two system calls that put the terminal back, wherever they are made. *)
LEMMA RestoreKeepsInv ==
  ASSUME TerminalInv, NEW here, NEW between, NEW next,
         \/ here = "desativar" /\ between = "desativar:fcntl" /\ next = "script"
         \/ here = "sair" /\ between = "sair:fcntl" /\ next = "exit"
         \/ here = "handler" /\ between = "handler:fcntl" /\ next = "exited",
         RestoreThen(here, between, next)
  PROVE  TerminalInv'
<1>1. CASE /\ stage = here /\ rawActive /\ PutBack("termios") /\ stage' = between
           /\ UNCHANGED <<ttyFound, saved, rawActive, atExit>>
  <2>1. SavedIs("termios") /\ SavedIs("flags")
    BY <1>1 DEF TerminalInv, TerminalStages
  <2>2. /\ tty' \in TermState /\ refused' \subseteq {"termios", "flags"}
        /\ AsFound("termios")' /\ SavedIs("termios")' /\ SavedIs("flags")'
    BY <1>1, <2>1, PutsTermiosBack
  <2>3. QED
    BY <1>1, <2>2 DEF TerminalInv, TerminalTypeOK, TerminalStages, Stages, Restoring
<1>2. CASE /\ stage = here /\ ~rawActive /\ stage' = next
           /\ UNCHANGED <<tty, ttyFound, saved, rawActive, atExit, refused>>
  BY <1>2 DEF TerminalInv, TerminalTypeOK, TerminalStages, Stages, Restoring, AsFound, SavedIs
<1>3. CASE /\ stage = between /\ PutBack("flags") /\ rawActive' = FALSE
           /\ stage' = next /\ UNCHANGED <<ttyFound, saved, atExit>>
  <2>1. rawActive /\ SavedIs("flags") /\ AsFound("termios")
    BY <1>3 DEF TerminalInv, TerminalStages, Restoring
  <2>2. /\ tty' \in TermState /\ refused' \subseteq {"termios", "flags"}
        /\ AsFound("termios")' /\ AsFound("flags")'
    BY <1>3, <2>1, PutsFlagsBack
  <2>3. QED
    BY <1>3, <2>1, <2>2 DEF TerminalInv, TerminalTypeOK, TerminalStages, Stages, Restoring
<1>4. QED
  BY <1>1, <1>2, <1>3 DEF RestoreThen

LEMMA TerminalStepInv == TerminalInv /\ [TerminalNext]_terminalVars => TerminalInv'
<1> SUFFICES ASSUME TerminalInv, [TerminalNext]_terminalVars PROVE TerminalInv'
  OBVIOUS
<1> tty \in TermState /\ ttyFound \in TermState /\ saved \in TermState
  BY DEF TerminalInv, TerminalTypeOK
<1>1. CASE Ativar
  BY <1>1 DEF Ativar, Already, TerminalInv, TerminalTypeOK, TerminalStages, Stages, Restoring,
     AsFound, SavedIs
<1>2. CASE ReadSettings
  <2>1. [saved EXCEPT !.termios = tty.termios] \in TermState
    BY DEF TermState
  <2>2. QED
    BY <1>2, <2>1
    DEF ReadSettings, TerminalInv, TerminalTypeOK, TerminalStages, Stages, Restoring, AsFound, SavedIs
<1>3. CASE SetRaw
  <2>1. CASE Changed("termios", "raw") /\ stage' = "fcntl"
    <3>1. tty' \in TermState /\ tty'.flags = tty.flags /\ refused' = refused
      BY <2>1, ChangedTermios DEF Settings
    <3>2. QED
      BY <1>3, <2>1, <3>1
      DEF SetRaw, TerminalInv, TerminalTypeOK, TerminalStages, Stages, Restoring, AsFound, SavedIs
  <2>2. CASE UNCHANGED <<tty, refused>> /\ stage' = "script"
    BY <1>3, <2>2
    DEF SetRaw, TerminalInv, TerminalTypeOK, TerminalStages, Stages, Restoring, AsFound, SavedIs
  <2>3. QED
    BY <1>3, <2>1, <2>2 DEF SetRaw
<1>4. CASE SetNonBlocking
  <2>1. AsFound("flags") /\ SavedIs("termios") /\ SavedIs("flags") /\ ~rawActive /\ atExit
    BY <1>4 DEF SetNonBlocking, TerminalInv, TerminalStages
  <2>2. CASE Changed("flags", "nonblocking") /\ stage' = "marking" /\ UNCHANGED rawActive
    <3>1. tty' \in TermState /\ refused' = refused
      BY <2>2, ChangedFlags DEF Flags
    <3>2. QED
      BY <1>4, <2>1, <2>2, <3>1
      DEF SetNonBlocking, TerminalInv, TerminalTypeOK, TerminalStages, Stages, Restoring, SavedIs
  <2>3. CASE Undone /\ stage' = "script" /\ UNCHANGED rawActive
    <3>1. /\ tty' \in TermState /\ refused' \subseteq {"termios", "flags"}
          /\ AsFound("termios")' /\ AsFound("flags")'
      BY <1>4, <2>1, <2>3, PutsTermiosBack DEF Undone, SetNonBlocking
    <3>2. QED
      BY <1>4, <2>1, <2>3, <3>1
      DEF SetNonBlocking, TerminalInv, TerminalTypeOK, TerminalStages, Stages, Restoring
  <2>4. QED
    BY <1>4, <2>2, <2>3 DEF SetNonBlocking
<1>5. CASE MarkActive
  BY <1>5 DEF MarkActive, TerminalInv, TerminalTypeOK, TerminalStages, Stages, Restoring, SavedIs
<1>6. ASSUME NEW there \in {"desativar", "sair", "exit"}, Calls(there) PROVE TerminalInv'
  BY <1>6 DEF Calls, TerminalInv, TerminalTypeOK, TerminalStages, Stages, Restoring, AsFound, SavedIs
<1>7. CASE Desativar
  BY <1>6, <1>7, RestoreKeepsInv DEF Desativar
<1>8. CASE Sair
  BY <1>6, <1>8, RestoreKeepsInv DEF Sair
<1>9. CASE ScriptEnds
  BY <1>6, <1>9 DEF ScriptEnds
<1>10. CASE ProcessExit
  <2>1. CASE /\ stage = "exit" /\ stage' = IF RunsHandler THEN "handler" ELSE "exited"
             /\ UNCHANGED <<tty, ttyFound, saved, rawActive, atExit, refused>>
    BY <2>1 DEF RunsHandler, TerminalInv, TerminalTypeOK, TerminalStages, Stages, Restoring,
       AsFound, SavedIs
  <2>2. QED
    BY <1>10, <2>1, RestoreKeepsInv DEF ProcessExit
<1>11. CASE Killed
  BY <1>11 DEF Killed, TerminalInv, TerminalTypeOK, TerminalStages, Stages, Restoring, AsFound, SavedIs
<1>12. CASE UNCHANGED terminalVars
  BY <1>12 DEF terminalVars, TerminalInv, TerminalTypeOK, TerminalStages, Stages, Restoring,
     AsFound, SavedIs
<1>13. QED
  BY <1>1, <1>2, <1>3, <1>4, <1>5, <1>7, <1>8, <1>9, <1>10, <1>11, <1>12 DEF TerminalNext

(***************************************************************************)
(* js_pt_restore_terminal_state and the exit handler put the terminal back *)
(* as it was found, after every sequence of switches, failed activations   *)
(* and calls of exit: whenever raw mode is off, and once exit has run the  *)
(* handler, the settings and the flags are each as found, unless the       *)
(* system refused a call that puts them back.  (A process that a signal    *)
(* ends is not covered: no handler runs.)                                  *)
(***************************************************************************)
THEOREM TerminalRestored == TerminalSpec => []TerminalSound
<1>1. TerminalInv => TerminalSound
  BY DEF TerminalInv, TerminalStages, TerminalSound, RestoredOnExit, AsFoundWhileOff
<1>2. QED
  BY <1>1, TerminalInitInv, TerminalStepInv, PTL DEF TerminalSpec

-----------------------------------------------------------------------------
(* incluir.                                                                *)

Script == [dir : Dirs, saved : Dirs \cup {NoBase}]

IncluirTypeOK ==
  /\ base \in Dirs \cup {NoBase}
  /\ running \in Seq(Script) /\ running # <<>>
  /\ throwing \in BOOLEAN

(* The scripts that run, and the base each call of incluir keeps. *)
IncluirInv == IncluirTypeOK /\ BaseIsScriptDir /\ ResolvedFromScript

LEMMA IncluirInitInv == IncluirInit => IncluirInv
<1> SUFFICES ASSUME IncluirInit PROVE IncluirInv
  OBVIOUS
<1>1. PICK d \in Dirs : /\ running = <<[dir |-> d, saved |-> NoBase]>>
                        /\ base \in {d, NoBase} /\ DirOf(base) = d
  BY IncluirAssumption DEF IncluirInit, DirOf
<1>2. [dir |-> d, saved |-> NoBase] \in Script
  BY DEF Script
<1>3. running \in Seq(Script) /\ running # <<>> /\ Len(running) = 1 /\ Top.dir = d
  BY <1>1, <1>2 DEF Top
<1>4. IncluirTypeOK
  BY <1>1, <1>3 DEF IncluirTypeOK, IncluirInit
<1>5. BaseIsScriptDir
  BY <1>1, <1>3 DEF BaseIsScriptDir
<1>6. ResolvedFromScript
  BY DEF IncluirInit, ResolvedFromScript, NothingResolved
<1>7. QED
  BY <1>4, <1>5, <1>6 DEF IncluirInv

(* A path of the running script leads where its directory says. *)
LEMMA ResolutionRight ==
  ASSUME IncluirInv, NEW p \in Paths, resolvedTo' = Resolution(p)
  PROVE  ResolvedFromScript'
<1>1. DirOf(base) = Top.dir
  BY DEF IncluirInv, BaseIsScriptDir
<1>2. resolvedTo'[1] = [got |-> Join[DirOf(base)][p], want |-> Join[Top.dir][p]]
  BY DEF Resolution
<1>3. QED
  BY <1>1, <1>2 DEF ResolvedFromScript

LEMMA IncluirStepInv == IncluirInv /\ [IncluirNext]_incluirVars => IncluirInv'
<1> SUFFICES ASSUME IncluirInv, [IncluirNext]_incluirVars PROVE IncluirInv'
  OBVIOUS
<1>0. /\ base \in Dirs \cup {NoBase} /\ throwing \in BOOLEAN
      /\ running \in Seq(Script) /\ running # <<>> /\ Len(running) \in Nat \ {0}
      /\ DirOf(base) = Top.dir /\ DirOf(base) \in Dirs
      /\ \A i \in 2 .. Len(running) : DirOf(running[i].saved) = running[i - 1].dir
  <2>1. Len(running) \in Nat \ {0}
    BY DEF IncluirInv, IncluirTypeOK
  <2>2. QED
    BY <2>1, IncluirAssumption DEF IncluirInv, IncluirTypeOK, BaseIsScriptDir, DirOf
<1>1. ASSUME NEW p \in Paths, ResolvePath(p) PROVE IncluirInv'
  BY <1>1, ResolutionRight
  DEF ResolvePath, IncluirInv, IncluirTypeOK, BaseIsScriptDir, DirOf, Top
<1>2. ASSUME NEW p \in Paths, IncludeBegins(p) PROVE IncluirInv'
  <2> DEFINE d == Join[DirOf(base)][p]
  <2>1. ResolvedFromScript'
    BY <1>2, ResolutionRight DEF IncludeBegins
  <2>2. d \in Dirs
    BY <1>0, IncluirAssumption
  <2>3. CASE d \in Missing
    BY <1>2, <2>1, <2>3
    DEF IncludeBegins, IncluirInv, IncluirTypeOK, BaseIsScriptDir, DirOf, Top
  <2>4. CASE d \notin Missing
    <3> DEFINE new == [dir |-> d, saved |-> base]
    <3>1. base' = d /\ running' = Append(running, new) /\ throwing' = throwing
      BY <1>2, <2>4 DEF IncludeBegins
    <3>2. new \in Script /\ new.dir = d /\ new.saved = base
      BY <1>0, <2>2 DEF Script
    <3> HIDE DEF d, new
    <3>3. /\ running' \in Seq(Script) /\ running' # <<>>
          /\ Len(running') = Len(running) + 1
          /\ running'[Len(running) + 1] = new
          /\ \A i \in 1 .. Len(running) : running'[i] = running[i]
      BY <1>0, <3>1, <3>2
    <3>4. IncluirTypeOK'
      BY <1>0, <2>2, <3>1, <3>3 DEF IncluirTypeOK
    <3>5. (DirOf(base) = Top.dir)'
      BY <2>2, <3>1, <3>2, <3>3, IncluirAssumption DEF DirOf, Top
    <3>6. ASSUME NEW i \in 2 .. Len(running')
          PROVE  DirOf(running'[i].saved) = running'[i - 1].dir
      <4>1. CASE i = Len(running) + 1
        <5>1. running'[i] = new /\ i - 1 = Len(running) /\ running'[i - 1] = running[Len(running)]
          BY <1>0, <3>3, <4>1
        <5>2. QED
          BY <1>0, <3>2, <5>1 DEF Top
      <4>2. CASE i # Len(running) + 1
        <5>1. i \in 2 .. Len(running) /\ i - 1 \in 1 .. Len(running) /\ i \in 1 .. Len(running)
          BY <1>0, <3>3, <4>2
        <5>2. QED
          BY <1>0, <3>3, <5>1
      <4>3. QED
        BY <4>1, <4>2
    <3>7. QED
      BY <2>1, <3>4, <3>5, <3>6 DEF IncluirInv, BaseIsScriptDir, DirOf
  <2>5. QED
    BY <2>3, <2>4
<1>3. CASE Throws
  BY <1>3 DEF Throws, IncluirInv, IncluirTypeOK, BaseIsScriptDir, ResolvedFromScript, DirOf, Top
<1>4. CASE Catches
  BY <1>4 DEF Catches, IncluirInv, IncluirTypeOK, BaseIsScriptDir, ResolvedFromScript, DirOf, Top
<1>5. CASE IncludeReturns
  <2>1. PICK n \in Nat : n = Len(running) /\ n > 1
    BY <1>0, <1>5 DEF IncludeReturns
  <2>2. /\ running' \in Seq(Script) /\ Len(running') = n - 1
        /\ \A i \in 1 .. n - 1 : running'[i] = running[i]
    BY <1>0, <1>5, <2>1, ButLast DEF IncludeReturns, Shorter
  <2>3. running[n] \in Script /\ base' = running[n].saved
    BY <1>0, <1>5, <2>1 DEF IncludeReturns, Restored, Top
  <2>4. IncluirTypeOK'
    <3>1. running' # <<>>
      BY <2>1, <2>2
    <3>2. base' \in Dirs \cup {NoBase}
      BY <2>3 DEF Script
    <3>3. QED
      BY <1>0, <1>5, <2>2, <3>1, <3>2 DEF IncluirTypeOK, IncludeReturns
  <2>5. DirOf(running[n].saved) = running[n - 1].dir
    BY <1>0, <2>1
  <2>6. (DirOf(base) = Top.dir)'
    BY <2>1, <2>2, <2>3, <2>5 DEF DirOf, Top
  <2>7. ASSUME NEW i \in 2 .. Len(running')
        PROVE  DirOf(running'[i].saved) = running'[i - 1].dir
    <3>1. i \in 2 .. n /\ i \in 1 .. n - 1 /\ i - 1 \in 1 .. n - 1
      BY <2>1, <2>2
    <3>2. QED
      BY <1>0, <2>1, <2>2, <3>1
  <2>8. ResolvedFromScript'
    BY <1>5 DEF IncludeReturns, IncluirInv, ResolvedFromScript
  <2>9. QED
    BY <2>4, <2>6, <2>7, <2>8 DEF IncluirInv, BaseIsScriptDir, DirOf
<1>6. CASE UNCHANGED incluirVars
  BY <1>6 DEF incluirVars, IncluirInv, IncluirTypeOK, BaseIsScriptDir, ResolvedFromScript, DirOf, Top
<1>7. QED
  BY <1>1, <1>2, <1>3, <1>4, <1>5, <1>6 DEF IncluirNext

(***************************************************************************)
(* js_pt_incluir: through every nesting of inclusions, also those left by  *)
(* an exception, paths are resolved from the directory of the script that  *)
(* runs, however many directories and paths there are.                     *)
(***************************************************************************)
THEOREM PathsFromScript == IncluirSpec => []IncluirSound
<1>1. IncluirInv => IncluirSound
  BY DEF IncluirInv, IncluirSound
<1>2. QED
  BY <1>1, IncluirInitInv, IncluirStepInv, PTL DEF IncluirSpec

-----------------------------------------------------------------------------
(* The event loop.                                                         *)

TimerRecord == [th : Timers, id : {-1} \cup 1 .. MaxTimerId, left : Nat, age : 0 .. MaxTimerId]
HandlerRecord == [fd : Fds, func : (SUBSET {0, 1}) \ {{}}]

(***************************************************************************)
(* Where the ids come from, for a list ts of timers when the next id is n. *)
(* A timer keeps, in age, how many timers with an id were made since; as   *)
(* long as fewer than MaxTimerId were, its id is that many steps behind    *)
(* the counter, which wrapped at most once in between.  Later timers are   *)
(* younger.                                                                *)
(***************************************************************************)
Named(t) == t.id > 0 /\ t.age < MaxTimerId
TimersFit(ts, n) ==
  /\ ts \in Seq(TimerRecord)
  /\ \A i \in DOMAIN ts :
       Named(ts[i]) => ts[i].id \in {n - 1 - ts[i].age, n - 1 - ts[i].age + MaxTimerId}
  /\ \A i, j \in DOMAIN ts : i < j /\ Named(ts[i]) /\ ts[j].id > 0 => ts[j].age < ts[i].age

(***************************************************************************)
(* What the turn of the loop has already seen to: once the jobs have run,  *)
(* some are left only after one that failed, and past the check no         *)
(* rejection is.                                                           *)
(***************************************************************************)
LoopStages ==
  /\ at \in {"check", "signals", "timers", "asleep", "ended"} => (jobs # <<>> => broke)
  /\ at \in {"signals", "timers", "asleep", "ended"} => unhandled = {}

LoopInv ==
  /\ LoopTypeOK /\ handlers \in Seq(HandlerRecord)
  /\ TimersFit(timers, nextTimerId)
  /\ WakesForTimers /\ LoopStages

(* Two timers with the same id: the ids wrapped between them. *)
LEMMA LoopInvSound == LoopInv => LoopSound
<1> SUFFICES ASSUME LoopInv PROVE LoopSound
  OBVIOUS
<1>1. SettledBeforeSleep
  BY DEF LoopInv, LoopStages, SettledBeforeSleep
<1>2. TimerIdsDistinct
  <2>1. SUFFICES ASSUME NEW i \in DOMAIN timers, NEW j \in DOMAIN timers,
                        i < j, timers[i].id = timers[j].id, timers[i].id > 0,
                        timers[i].age # MaxTimerId
                 PROVE  FALSE
    BY DEF TimerIdsDistinct
  <2>2. timers[i] \in TimerRecord /\ timers[j] \in TimerRecord
    BY DEF LoopInv, TimersFit
  <2>3. PICK m \in Nat, n \in Nat, id \in Int, a \in Nat, b \in Nat :
          /\ m = MaxTimerId /\ n = nextTimerId /\ id = timers[i].id /\ id = timers[j].id
          /\ a = timers[i].age /\ b = timers[j].age /\ a <= m /\ b <= m
    <3>1. MaxTimerId \in Nat /\ nextTimerId \in Nat
      BY EventLoopAssumption DEF LoopInv, LoopTypeOK
    <3>2. timers[i].id \in Int /\ timers[i].age \in 0 .. MaxTimerId /\ timers[j].age \in 0 .. MaxTimerId
      BY <2>2, <3>1 DEF TimerRecord
    <3>3. timers[i].age \in Nat /\ timers[j].age \in Nat
          /\ timers[i].age <= MaxTimerId /\ timers[j].age <= MaxTimerId
      BY <3>1, <3>2
    <3>4. QED
      BY <2>1, <3>1, <3>2, <3>3
  <2>4. Named(timers[i]) /\ a < m
    BY <2>1, <2>3 DEF Named
  <2>5. b < a
    BY <2>1, <2>3, <2>4 DEF LoopInv, TimersFit
  <2>6. Named(timers[j])
    BY <2>1, <2>3, <2>4, <2>5 DEF Named
  <2>7. id \in {n - 1 - a, n - 1 - a + m} /\ id \in {n - 1 - b, n - 1 - b + m}
    <3>1. \A k \in DOMAIN timers : Named(timers[k]) =>
            timers[k].id \in {nextTimerId - 1 - timers[k].age,
                              nextTimerId - 1 - timers[k].age + MaxTimerId}
      BY DEF LoopInv, TimersFit
    <3>2. QED
      BY <2>3, <2>4, <2>6, <3>1
  <2>8. QED
    BY <2>3, <2>4, <2>5, <2>7
<1>3. QED
  BY <1>1, <1>2 DEF LoopInv, LoopSound

LEMMA LoopInitInv == LoopInit => LoopInv
<1> SUFFICES ASSUME LoopInit PROVE LoopInv
  OBVIOUS
<1>1. timers = <<>> /\ handlers = <<>> /\ nextTimerId = 1 /\ at = "script"
  BY DEF LoopInit
<1>2. DOMAIN timers = {} /\ DOMAIN handlers = {} /\ Range(handlers) = {}
  BY <1>1 DEF Range
<1>3. LoopTypeOK
  BY <1>1, <1>2, EventLoopAssumption DEF LoopInit, LoopTypeOK, Forever
<1>4. TimersFit(timers, nextTimerId) /\ handlers \in Seq(HandlerRecord)
  BY <1>1, <1>2 DEF TimersFit
<1>5. QED
  BY <1>1, <1>3, <1>4 DEF LoopInv, WakesForTimers, LoopStages

(* A timer that fires or is cleared. *)
LEMMA TimerGone ==
  ASSUME NEW ts, NEW n \in Nat, TimersFit(ts, n), NEW i \in DOMAIN ts
  PROVE  TimersFit(RemoveAt(ts, i), n)
<1>1. PICK k \in Nat : k = Len(ts) /\ DOMAIN ts = 1 .. k /\ ts \in Seq(TimerRecord)
  BY DEF TimersFit
<1>2. i \in 1 .. k
  BY <1>1
<1> DEFINE us == RemoveAt(ts, i)
<1> HIDE DEF us
<1>3. OneLess(TimerRecord, ts, k, i, us)
  BY <1>1, <1>2, RemoveAtElements, Zenon DEF us
<1>4. /\ us \in Seq(TimerRecord) /\ DOMAIN us = 1 .. k - 1
      /\ \A j \in 1 .. k - 1 : us[j] = ts[IF j < i THEN j ELSE j + 1]
  BY <1>3 DEF OneLess
<1> DEFINE p(j) == IF j < i THEN j ELSE j + 1
<1>5. /\ \A j \in 1 .. k - 1 : p(j) \in 1 .. k /\ us[j] = ts[p(j)]
      /\ \A j, l \in 1 .. k - 1 : j < l => p(j) < p(l)
  BY <1>2, <1>4
<1> HIDE DEF p
<1>6. QED
  BY <1>1, <1>4, <1>5, ZenonT(30) DEF us, TimersFit

(* setTimeout: every timer is one older, and the counter goes on or wraps. *)
LEMMA TimerMade ==
  ASSUME NEW ts, NEW n \in 1 .. MaxTimerId, TimersFit(ts, n),
         NEW th \in Timers, NEW delay \in 0 .. MaxDelay
  PROVE  /\ NextId(n) \in 1 .. MaxTimerId
         /\ TimersFit(Append(Older(ts), [th |-> th, id |-> n, left |-> delay, age |-> 0]), NextId(n))
<1>1. PICK m \in Nat \ {0}, k \in Nat : m = MaxTimerId /\ k = Len(ts) /\ DOMAIN ts = 1 .. k
  BY EventLoopAssumption DEF TimersFit
<1>2. PICK n2 \in 1 .. m : n2 = NextId(n) /\ n2 = IF n = m THEN 1 ELSE n + 1
  BY <1>1 DEF NextId
<1> DEFINE t == [th |-> th, id |-> n, left |-> delay, age |-> 0]
           os == Older(ts)
           us == Append(os, t)
<1>3. t \in TimerRecord /\ t.id = n /\ t.age = 0
  BY EventLoopAssumption DEF TimerRecord
<1>4. ts \in Seq(TimerRecord) /\ \A i \in 1 .. k : ts[i] \in TimerRecord
  BY <1>1 DEF TimersFit
<1>5. ASSUME NEW i \in 1 .. k
      PROVE  /\ os[i] \in TimerRecord /\ os[i].id = ts[i].id
             /\ os[i].age = IF ts[i].age < m THEN ts[i].age + 1 ELSE ts[i].age
  <2>1. os[i] = [ts[i] EXCEPT !.age = IF @ < m THEN @ + 1 ELSE @]
    BY <1>1, <1>5 DEF Older
  <2>2. ts[i] \in TimerRecord
    BY <1>4, <1>5
  <2>3. PICK a \in 0 .. m : a = ts[i].age
    BY <1>1, <2>2 DEF TimerRecord
  <2>4. (IF a < m THEN a + 1 ELSE a) \in 0 .. m
    OBVIOUS
  <2>5. QED
    BY <1>1, <2>1, <2>2, <2>3, <2>4 DEF TimerRecord
<1>6. DOMAIN os = 1 .. k /\ os \in Seq(TimerRecord)
  <2>1. os = [i \in 1 .. k |-> os[i]]
    BY <1>1 DEF Older
  <2>2. QED
    BY <1>5, <2>1
<1>7. Len(os) = k
  BY <1>6
<1> HIDE DEF t, os
<1>8. /\ us \in Seq(TimerRecord) /\ DOMAIN us = 1 .. k + 1 /\ us[k + 1] = t
      /\ \A i \in 1 .. k : us[i] = os[i]
  BY <1>3, <1>6, <1>7
<1> HIDE DEF us
<1>9. \A i \in 1 .. k + 1 : i \in 1 .. k \/ i = k + 1
  OBVIOUS
<1>10. ASSUME NEW i \in 1 .. k, Named(us[i])
       PROVE  /\ Named(ts[i]) /\ us[i].id = ts[i].id /\ us[i].age = ts[i].age + 1
              /\ ts[i].age \in 0 .. m - 2 /\ ts[i].id \in 1 .. m
  <2>1. us[i].id = ts[i].id /\ us[i].age = IF ts[i].age < m THEN ts[i].age + 1 ELSE ts[i].age
    BY <1>5, <1>8, <1>10
  <2>2. PICK a \in 0 .. m, d \in {-1} \cup 1 .. m : a = ts[i].age /\ d = ts[i].id
    BY <1>1, <1>4, <1>10 DEF TimerRecord
  <2>3. us[i].id > 0 /\ us[i].age < m
    BY <1>1, <1>10 DEF Named
  <2>4. a < m - 1 /\ d > 0 /\ us[i].age = a + 1
    BY <2>1, <2>2, <2>3
  <2>5. QED
    BY <1>1, <2>1, <2>2, <2>4 DEF Named
<1>11. ASSUME NEW i \in 1 .. k + 1, Named(us[i])
       PROVE  us[i].id \in {n2 - 1 - us[i].age, n2 - 1 - us[i].age + m}
  <2>1. CASE i = k + 1
    <3>1. us[i].id = n /\ us[i].age = 0
      BY <1>3, <1>8, <2>1
    <3>2. n = n2 - 1 - 0 \/ n = n2 - 1 - 0 + m
      BY <1>1, <1>2
    <3>3. QED
      BY <3>1, <3>2
  <2>2. CASE i \in 1 .. k
    <3>1. /\ Named(ts[i]) /\ us[i].id = ts[i].id /\ us[i].age = ts[i].age + 1
          /\ ts[i].age \in 0 .. m - 2 /\ ts[i].id \in 1 .. m
      BY <1>10, <1>11, <2>2
    <3>2. PICK a \in 0 .. m - 2, d \in 1 .. m : a = ts[i].age /\ d = ts[i].id
      BY <3>1
    <3>3. d \in {n - 1 - a, n - 1 - a + m}
      BY <1>1, <2>2, <3>1, <3>2 DEF TimersFit
    <3>4. d \in {n2 - 1 - (a + 1), n2 - 1 - (a + 1) + m}
      BY <1>1, <1>2, <3>3
    <3>5. QED
      BY <3>1, <3>2, <3>4
  <2>3. QED
    BY <1>9, <1>11, <2>1, <2>2
<1>12. ASSUME NEW i \in 1 .. k + 1, NEW j \in 1 .. k + 1, i < j, Named(us[i]), us[j].id > 0
       PROVE  us[j].age < us[i].age
  <2>1. i \in 1 .. k
    BY <1>12
  <2>2. PICK a \in 0 .. m - 2 : a = ts[i].age /\ us[i].age = a + 1 /\ Named(ts[i])
    BY <1>10, <1>12, <2>1
  <2>3. CASE j = k + 1
    BY <1>3, <1>8, <2>2, <2>3
  <2>4. CASE j \in 1 .. k
    <3>1. us[j].id = ts[j].id /\ us[j].age = IF ts[j].age < m THEN ts[j].age + 1 ELSE ts[j].age
      BY <1>5, <1>8, <2>4
    <3>2. PICK b \in 0 .. m : b = ts[j].age
      BY <1>1, <1>4, <2>4 DEF TimerRecord
    <3>3. b < a
      BY <1>1, <1>12, <2>1, <2>2, <2>4, <3>1, <3>2 DEF TimersFit
    <3>4. QED
      BY <2>2, <3>1, <3>2, <3>3
  <2>5. QED
    BY <1>9, <2>3, <2>4
<1>13. TimersFit(us, n2)
  BY <1>1, <1>8, <1>11, <1>12 DEF TimersFit
<1>14. QED
  BY <1>1, <1>2, <1>13, Zenon DEF us, os, t

(* sleepAsync: a timer without an id. *)
LEMMA SleepMade ==
  ASSUME NEW ts, NEW n \in Nat, TimersFit(ts, n), NEW t \in TimerRecord, t.id = -1
  PROVE  TimersFit(Append(ts, t), n)
<1>1. PICK k \in Nat : k = Len(ts) /\ DOMAIN ts = 1 .. k /\ ts \in Seq(TimerRecord)
  BY DEF TimersFit
<1> DEFINE us == Append(ts, t)
<1>2. /\ us \in Seq(TimerRecord) /\ DOMAIN us = 1 .. k + 1 /\ us[k + 1] = t
      /\ \A i \in 1 .. k : us[i] = ts[i]
  BY <1>1
<1> HIDE DEF us
<1>3. ~(t.id > 0) /\ ~Named(t)
  BY DEF Named
<1>4. \A i \in 1 .. k + 1 : us[i].id > 0 => i \in 1 .. k
  BY <1>2, <1>3
<1>5. \A i \in 1 .. k + 1 : Named(us[i]) => i \in 1 .. k
  BY <1>4 DEF Named
<1>6. QED
  BY <1>1, <1>2, <1>4, <1>5, Zenon DEF us, TimersFit

(* Time passes: nothing but the time left changes. *)
LEMMA TimersTick ==
  ASSUME NEW ts, NEW n \in Nat, TimersFit(ts, n), NEW us,
         us = [i \in DOMAIN ts |-> [ts[i] EXCEPT !.left = IF @ > 0 THEN @ - 1 ELSE @]]
  PROVE  /\ TimersFit(us, n) /\ DOMAIN us = DOMAIN ts
         /\ \A i \in DOMAIN ts :
              ts[i].left \in Nat /\ us[i].left = IF ts[i].left > 0 THEN ts[i].left - 1 ELSE ts[i].left
<1>1. PICK k \in Nat : k = Len(ts) /\ DOMAIN ts = 1 .. k /\ ts \in Seq(TimerRecord)
  BY DEF TimersFit
<1>2. ASSUME NEW i \in 1 .. k
      PROVE  /\ us[i] \in TimerRecord /\ us[i].id = ts[i].id /\ us[i].age = ts[i].age
             /\ ts[i].left \in Nat
             /\ us[i].left = IF ts[i].left > 0 THEN ts[i].left - 1 ELSE ts[i].left
  <2>1. ts[i] \in TimerRecord /\ us[i] = [ts[i] EXCEPT !.left = IF @ > 0 THEN @ - 1 ELSE @]
    BY <1>1, <1>2
  <2>2. PICK d \in Nat : d = ts[i].left
    BY <2>1 DEF TimerRecord
  <2>3. (IF d > 0 THEN d - 1 ELSE d) \in Nat
    OBVIOUS
  <2>4. QED
    BY <2>1, <2>2, <2>3 DEF TimerRecord
<1>3. DOMAIN us = 1 .. k /\ us \in Seq(TimerRecord)
  BY <1>1, <1>2
<1>4. \A i \in 1 .. k : Named(us[i]) <=> Named(ts[i])
  BY <1>2 DEF Named
<1>5. TimersFit(us, n)
  BY <1>1, <1>2, <1>3, <1>4 DEF TimersFit
<1>6. QED
  BY <1>1, <1>2, <1>3, <1>5

(* min_delay, when no timer has expired: no more than what any has left. *)
LEMMA MinDelayRight ==
  ASSUME TimersFit(timers, nextTimerId), FirstExpired = {}
  PROVE  /\ MinDelay \in {Forever} \cup 0 .. MaxSleep
         /\ \A i \in DOMAIN timers : MinDelay # Forever /\ MinDelay <= timers[i].left
<1>1. PICK k \in Nat : k = Len(timers) /\ DOMAIN timers = 1 .. k /\ timers \in Seq(TimerRecord)
  BY DEF TimersFit
<1>2. \A i \in 1 .. k : timers[i].left \in Nat
  <2>1. \A i \in 1 .. k : timers[i] \in TimerRecord
    BY <1>1
  <2>2. QED
    BY <2>1 DEF TimerRecord
<1>3. \A i \in 1 .. k : timers[i].left > 0
  <2>1. SUFFICES ASSUME NEW e \in 1 .. k, ~(timers[e].left > 0) PROVE FALSE
    OBVIOUS
  <2> DEFINE T == {i \in 1 .. k : timers[i].left <= 0}
  <2>2. T \subseteq Nat /\ T # {}
    BY <1>2, <2>1
  <2>3. PICK i \in T : \A j \in T : i <= j
    BY <2>2, LeastOf
  <2>4. ASSUME NEW j \in 1 .. i - 1 PROVE timers[j].left > 0
    <3>1. j \in 1 .. k /\ ~(i <= j)
      BY <2>3
    <3>2. j \notin T
      BY <2>3, <3>1
    <3>3. QED
      BY <1>2, <3>1, <3>2
  <2>5. i \in FirstExpired
    BY <1>1, <2>3, <2>4 DEF FirstExpired
  <2>6. QED
    BY <2>5
<1>4. CASE timers = <<>>
  <2>1. MinDelay = Forever /\ DOMAIN timers = {}
    BY <1>4 DEF MinDelay
  <2>2. QED
    BY <2>1
<1>5. CASE timers # <<>>
  <2> DEFINE T == {MaxSleep} \cup {timers[i].left : i \in 1 .. k}
             Shortest(d) == /\ d = MaxSleep \/ \E i \in DOMAIN timers : timers[i].left = d
                         /\ \A i \in DOMAIN timers : d <= timers[i].left
  <2>1. T \subseteq Nat /\ T # {}
    BY <1>2, EventLoopAssumption
  <2>2. PICK d \in T : \A y \in T : d <= y
    BY <2>1, LeastOf
  <2>3. d \in 1 .. MaxSleep
    BY <1>2, <1>3, <2>2, EventLoopAssumption
  <2>4. Shortest(d)
    BY <1>1, <2>2
  <2>5. MinDelay = CHOOSE x \in 1 .. MaxSleep : Shortest(x)
    BY <1>5 DEF MinDelay
  <2> HIDE DEF Shortest
  <2>6. MinDelay \in 1 .. MaxSleep /\ Shortest(MinDelay)
    BY <2>3, <2>4, <2>5, Zenon
  <2>7. MinDelay # Forever /\ MinDelay \in 0 .. MaxSleep
    BY <2>6, EventLoopAssumption DEF Forever
  <2>8. QED
    BY <2>6, <2>7 DEF Shortest
<1>6. QED
  BY <1>4, <1>5

(* What a script calls: it runs in none of the stages past the jobs. *)
LEMMA ScriptCallInv ==
  ASSUME LoopInv, ScriptCall
  PROVE  LoopInv'
<1>1. at \in {"script", "job"} /\ at' = at /\ mode' = mode /\ sleep' = sleep /\ pending' = pending
  BY DEF ScriptCall, SetTimeout, SleepAsync, ClearTimeout, SetHandler, ClearHandler, OsSignal,
         EnqueueJob, Reject, SettleMain, Scripting, LoopUnchanged, systemState
<1>2. WakesForTimers' /\ LoopStages'
  BY <1>1 DEF WakesForTimers, LoopStages
<1>3. SUFFICES /\ nextTimerId' \in 1 .. MaxTimerId /\ TimersFit(timers', nextTimerId')
               /\ handlers' \in Seq(HandlerRecord)
  <2>1. ASSUME handlers' \in Seq(HandlerRecord), NEW h \in Range(handlers)'
        PROVE  h.func # {} /\ h.func \subseteq {0, 1}
    <3>1. h \in HandlerRecord
      BY <2>1 DEF Range
    <3>2. QED
      BY <3>1 DEF HandlerRecord
  <2>2. QED
    BY <1>1, <1>2, <2>1 DEF LoopInv, LoopTypeOK
<1>4. PICK n \in 1 .. MaxTimerId : n = nextTimerId /\ n \in Nat
  BY EventLoopAssumption DEF LoopInv, LoopTypeOK
<1> DEFINE Kept == /\ nextTimerId' \in 1 .. MaxTimerId /\ TimersFit(timers', nextTimerId')
                   /\ handlers' \in Seq(HandlerRecord)
<1>5. ASSUME NEW th \in Timers, NEW d \in 0 .. MaxDelay, SetTimeout(th, d) PROVE Kept
  BY <1>4, <1>5, TimerMade DEF SetTimeout, LoopInv
<1>6. ASSUME NEW th \in Timers, NEW d \in 0 .. MaxDelay, SleepAsync(th, d) PROVE Kept
  <2>1. PICK t : t = [th |-> th, id |-> -1, left |-> d, age |-> 0]
    OBVIOUS
  <2>2. t \in TimerRecord /\ t.id = -1
    BY <2>1, EventLoopAssumption DEF TimerRecord
  <2>3. timers' = Append(timers, t) /\ UNCHANGED <<nextTimerId, handlers>>
    BY <1>6, <2>1 DEF SleepAsync
  <2>4. QED
    BY <1>4, <2>2, <2>3, SleepMade DEF LoopInv
<1>7. ASSUME NEW id \in 1 .. MaxTimerId, ClearTimeout(id) PROVE Kept
  <2>1. PICK i \in DOMAIN timers : timers' = RemoveAt(timers, i)
    BY <1>7 DEF ClearTimeout
  <2>2. UNCHANGED <<nextTimerId, handlers>>
    BY <1>7 DEF ClearTimeout
  <2>3. QED
    BY <1>4, <2>1, <2>2, TimerGone DEF LoopInv
<1>8. handlers \in Seq(HandlerRecord) /\ TimersFit(timers, nextTimerId)
  BY DEF LoopInv
<1>9. ASSUME NEW fd \in Fds, NEW io \in {0, 1}, SetHandler(fd, io) PROVE Kept
  <2>1. UNCHANGED <<nextTimerId, timers>>
    BY <1>9 DEF SetHandler
  <2>2. CASE handlers' = Append(handlers, [fd |-> fd, func |-> {io}])
    <3>1. [fd |-> fd, func |-> {io}] \in HandlerRecord
      BY DEF HandlerRecord
    <3>2. QED
      BY <1>4, <1>8, <2>1, <2>2, <3>1
  <2>3. CASE \E i \in EntryOf(fd) : handlers' = [handlers EXCEPT ![i].func = @ \cup {io}]
    <3>1. PICK i \in DOMAIN handlers : handlers' = [handlers EXCEPT ![i].func = @ \cup {io}]
      BY <2>3 DEF EntryOf
    <3>2. handlers[i] \in HandlerRecord
      BY <1>8, <3>1
    <3>3. [handlers[i] EXCEPT !.func = @ \cup {io}] \in HandlerRecord
      BY <3>2 DEF HandlerRecord
    <3>4. handlers' \in Seq(HandlerRecord)
      BY <1>8, <3>1, <3>3
    <3>5. QED
      BY <1>4, <1>8, <2>1, <3>4
  <2>4. QED
    BY <1>9, <2>2, <2>3 DEF SetHandler
<1>10. ASSUME NEW fd \in Fds, NEW io \in {0, 1}, ClearHandler(fd, io) PROVE Kept
  <2>1. UNCHANGED <<nextTimerId, timers>>
    BY <1>10 DEF ClearHandler
  <2>2. PICK i \in DOMAIN handlers :
          handlers' = IF handlers[i].func \subseteq {io} THEN RemoveAt(handlers, i)
                      ELSE [handlers EXCEPT ![i].func = @ \ {io}]
    BY <1>10 DEF ClearHandler, EntryOf
  <2>3. CASE handlers[i].func \subseteq {io}
    <3>1. PICK k \in Nat : k = Len(handlers) /\ i \in 1 .. k
      BY <1>8, <2>2
    <3>2. OneLess(HandlerRecord, handlers, k, i, RemoveAt(handlers, i))
      BY <1>8, <3>1, RemoveAtElements, Zenon
    <3>3. handlers' \in Seq(HandlerRecord)
      BY <2>2, <2>3, <3>2 DEF OneLess
    <3>4. QED
      BY <1>4, <1>8, <2>1, <3>3
  <2>4. CASE ~(handlers[i].func \subseteq {io})
    <3>1. handlers[i] \in HandlerRecord
      BY <1>8, <2>2
    <3>2. PICK h \in HandlerRecord : h = [handlers[i] EXCEPT !.func = @ \ {io}]
      BY <2>4, <3>1 DEF HandlerRecord
    <3>3. handlers' = [handlers EXCEPT ![i] = h]
      BY <2>2, <2>4, <3>2
    <3>4. handlers' \in Seq(HandlerRecord)
      BY <1>8, <3>3
    <3>5. QED
      BY <1>4, <1>8, <2>1, <3>4
  <2>5. QED
    BY <2>3, <2>4
<1>11. ASSUME \/ \E sig \in Signals, on \in BOOLEAN : OsSignal(sig, on)
              \/ \E fails \in BOOLEAN : EnqueueJob(fails)
              \/ \E p \in Rejected, handled \in BOOLEAN : Reject(p, handled)
              \/ SettleMain
       PROVE  Kept
  <2>1. UNCHANGED <<nextTimerId, timers, handlers>>
    BY <1>11 DEF OsSignal, EnqueueJob, Reject, SettleMain
  <2>2. QED
    BY <1>4, <1>8, <2>1
<1> HIDE DEF Kept
<1>12. Kept
  BY <1>5, <1>6, <1>7, <1>9, <1>10, <1>11 DEF ScriptCall
<1>13. QED
  BY <1>12 DEF Kept

(* The thread itself and the system: only Tick and the call of a timer touch
   the timers, and nothing but a script touches the handlers. *)
LEMMA LoopStepInv == LoopInv /\ [LoopNext]_loopVars => LoopInv'
<1> SUFFICES ASSUME LoopInv, [LoopNext]_loopVars PROVE LoopInv'
  OBVIOUS
<1>1. CASE UNCHANGED loopVars
  <2>1. UNCHANGED <<mode, at, broke, sleep, jobs, unhandled, timers, nextTimerId, handlers, pending>>
    BY <1>1 DEF loopVars, scriptState, systemState
  <2>2. QED
    BY <2>1 DEF LoopInv, LoopTypeOK, WakesForTimers, LoopStages, Range
<1>2. CASE ScriptCall
  BY <1>2, ScriptCallInv
<1>3. CASE ScriptReturns \/ AwaitEnds \/ RunJob \/ JobReturns \/ NoMoreJobs \/ RejectionCheck
           \/ CallSignal \/ NoSignal \/ PollNothing \/ SelectTimesOut \/ CallHandler \/ SelectFinds
           \/ \E sig \in Signals : SignalArrives(sig)
  <2>1. UNCHANGED <<timers, nextTimerId, handlers>>
    BY <1>3 DEF ScriptReturns, AwaitEnds, RunJob, JobReturns, NoMoreJobs, RejectionCheck, CallSignal,
                NoSignal, PollNothing, SelectTimesOut, CallHandler, SelectFinds, SignalArrives,
                Goes, scriptState
  <2>2. TimersFit(timers', nextTimerId') /\ handlers' \in Seq(HandlerRecord)
    BY <2>1 DEF LoopInv
  <2>3. mode' \in {"await", "loop"} /\ pending' \subseteq Signals
    BY <1>3 DEF LoopInv, LoopTypeOK, ScriptReturns, AwaitEnds, RunJob, JobReturns, NoMoreJobs,
                RejectionCheck, CallSignal, NoSignal, PollNothing, SelectTimesOut, CallHandler,
                SelectFinds, SignalArrives, Goes, systemState
  <2>4. sleep' \in {Forever} \cup 0 .. MaxSleep
    BY <1>3 DEF LoopInv, LoopTypeOK, ScriptReturns, AwaitEnds, RunJob, JobReturns, NoMoreJobs,
                RejectionCheck, CallSignal, NoSignal, PollNothing, SelectTimesOut, CallHandler,
                SelectFinds, SignalArrives, Goes
  <2>5. at' # "asleep" /\ at' \in {"script", "job", "turn", "check", "signals", "timers", "found",
                                  "exit", "ended"}
    BY <1>3 DEF LoopInv, LoopTypeOK, ScriptReturns, AwaitEnds, RunJob, JobReturns, NoMoreJobs,
                RejectionCheck, CallSignal, NoSignal, PollNothing, SelectTimesOut, CallHandler,
                SelectFinds, SignalArrives, Goes
  <2>6. LoopTypeOK'
    BY <2>1, <2>3, <2>4, <2>5 DEF LoopInv, LoopTypeOK, Range
  <2>7. LoopStages'
    BY <1>3 DEF LoopInv, LoopStages, LoopTypeOK, ScriptReturns, AwaitEnds, RunJob, JobReturns, NoMoreJobs,
                RejectionCheck, CallSignal, NoSignal, PollNothing, SelectTimesOut, CallHandler,
                SelectFinds, SignalArrives, Goes, ExitsFor, scriptState
  <2>8. QED
    BY <2>2, <2>5, <2>6, <2>7 DEF LoopInv, WakesForTimers
<1>4. CASE CallTimer
  <2>1. PICK i \in DOMAIN timers : timers' = RemoveAt(timers, i)
    BY <1>4 DEF CallTimer, FirstExpired
  <2>2. at' = "script" /\ UNCHANGED <<mode, sleep, nextTimerId, handlers, pending>>
    BY <1>4 DEF CallTimer, systemState
  <2>3. nextTimerId \in Nat
    BY EventLoopAssumption DEF LoopInv, LoopTypeOK
  <2>4. TimersFit(timers', nextTimerId')
    BY <2>1, <2>2, <2>3, TimerGone DEF LoopInv
  <2>5. QED
    BY <2>2, <2>4 DEF LoopInv, LoopTypeOK, WakesForTimers, LoopStages, Range
<1>5. CASE Sleep
  <2>1. /\ at = "timers" /\ at' = "asleep" /\ sleep' = MinDelay /\ FirstExpired = {}
        /\ UNCHANGED <<mode, broke, jobs, unhandled, timers, nextTimerId, handlers, pending>>
    BY <1>5 DEF Sleep, scriptState, systemState
  <2>2. /\ MinDelay \in {Forever} \cup 0 .. MaxSleep
        /\ \A i \in DOMAIN timers : MinDelay # Forever /\ MinDelay <= timers[i].left
    BY <2>1, MinDelayRight DEF LoopInv
  <2>3. WakesForTimers'
    BY <2>1, <2>2 DEF WakesForTimers, Forever
  <2>4. LoopStages'
    BY <2>1 DEF LoopInv, LoopStages
  <2>5. LoopTypeOK'
    BY <2>1, <2>2 DEF LoopInv, LoopTypeOK, Range, Forever
  <2>6. QED
    BY <2>1, <2>3, <2>4, <2>5 DEF LoopInv
<1>6. CASE Tick
  <2>1. /\ UNCHANGED <<mode, at, broke, jobs, unhandled, nextTimerId, handlers, pending>>
        /\ sleep # 0 /\ sleep' = IF sleep > 0 THEN sleep - 1 ELSE sleep
        /\ timers' = [i \in DOMAIN timers |-> [timers[i] EXCEPT !.left = IF @ > 0 THEN @ - 1 ELSE @]]
    BY <1>6 DEF Tick, systemState
  <2>2. nextTimerId \in Nat /\ TimersFit(timers, nextTimerId)
    BY EventLoopAssumption DEF LoopInv, LoopTypeOK
  <2>3. /\ TimersFit(timers', nextTimerId) /\ DOMAIN timers' = DOMAIN timers
        /\ \A i \in DOMAIN timers :
             /\ timers[i].left \in Nat
             /\ timers'[i].left = IF timers[i].left > 0 THEN timers[i].left - 1 ELSE timers[i].left
    BY <2>1, <2>2, TimersTick
  <2>4. PICK q \in {-1} \cup 0 .. MaxSleep :
          q = sleep /\ sleep' = IF q > 0 THEN q - 1 ELSE q
    BY <2>1, EventLoopAssumption DEF LoopInv, LoopTypeOK, Forever
  <2>5. sleep' \in {Forever} \cup 0 .. MaxSleep
    BY <2>4, EventLoopAssumption DEF Forever
  <2>6. LoopTypeOK' /\ LoopStages'
    BY <2>1, <2>5 DEF LoopInv, LoopTypeOK, LoopStages, Range
  <2>7. WakesForTimers'
    <3>1. ASSUME at = "asleep", NEW i \in DOMAIN timers
          PROVE  sleep' # Forever /\ sleep' <= timers'[i].left
      <4>1. PICK d \in Nat : d = timers[i].left /\ timers'[i].left = IF d > 0 THEN d - 1 ELSE d
        BY <2>3, <3>1
      <4>2. q # -1 /\ q # 0 /\ q <= d
        BY <2>1, <2>4, <3>1, <4>1 DEF LoopInv, WakesForTimers, Forever
      <4>3. QED
        BY <2>4, <4>1, <4>2 DEF Forever
    <3>2. QED
      BY <2>1, <2>3, <3>1 DEF WakesForTimers
  <2>8. QED
    BY <2>1, <2>3, <2>6, <2>7 DEF LoopInv
<1>7. QED
  BY <1>1, <1>2, <1>3, <1>4, <1>5, <1>6 DEF LoopNext, LoopStep

(***************************************************************************)
(* js_os_poll, js_std_loop and js_std_await, for every bound on timers,    *)
(* delays, descriptors, signals and jobs and every width of the timer id:  *)
(* select never sleeps past a timer, live timers share an id only after a  *)
(* full turn of the counter, and the thread neither sleeps nor ends with a *)
(* rejection unreported.                                                   *)
(***************************************************************************)
THEOREM LoopAlwaysSound == LoopSpec => []LoopSound
<1>1. LoopInv => LoopSound
  BY LoopInvSound
<1>2. QED
  BY <1>1, LoopInitInv, LoopStepInv, PTL DEF LoopSpec

-----------------------------------------------------------------------------
(* Workers.                                                                *)

(* Who writes into a pipe, and who reads from it. *)
Sender(p) == IF p[2] = "down" THEN Main ELSE p[1]
Reader(p) == IF p[2] = "up" THEN Main ELSE p[1]

PcValues == {"none", "ctor", "created", "script", "posting", "poll", "selected",
             "taken", "read", "exiting", "freeing", "ended"}
CtorValues == {"none", "pipes", "object", "started", "failed"}
InTransit == [id : 1 .. MaxPosts, sab : Sabs \cup {NoSab}, pipe : Pipes]
ThreadTypes ==
  /\ pc \in [Threads -> PcValues] /\ ctor \in [WorkerIds -> CtorValues]
  /\ object \in [Threads -> SUBSET WorkerIds] /\ ports \in [Threads -> Seq(WorkerIds)]
  /\ refCount \in [Pipes -> Int] /\ readable \in [Threads -> SUBSET Nat]
PipeTypes ==
  /\ queue \in [Pipes -> Seq(Messages)] /\ waker \in [Pipes -> Nat] /\ mutex \in [Pipes -> BOOLEAN]
  /\ current \in [Threads -> Seq(InTransit)]
  /\ posted \in [Pipes -> Nat] /\ received \in [Pipes -> Nat]

(***************************************************************************)
(* How far a worker has come: the constructor is at work on one of them at *)
(* a time, the objects of a worker are made when it starts and gone when   *)
(* it ends, and a port belongs to an object.                               *)
(***************************************************************************)
Constructing(w) == ctor[w] \in {"pipes", "object"}
WorkerStages ==
  /\ \A w \in WorkerIds : Constructing(w) => pc[Main] = "ctor"
  /\ \A v, w \in WorkerIds : Constructing(v) /\ Constructing(w) => v = w
  /\ \A w \in WorkerIds : pc[w] = "none" <=> ctor[w] # "started"
  /\ \A w \in WorkerIds : ctor[w] \in {"none", "pipes", "failed"} => w \notin object[Main]
  /\ \A w \in WorkerIds : ctor[w] = "object" => w \in object[Main] /\ ~HasPort(Main, w)
  /\ \A w \in WorkerIds : pc[w] \in {"none", "created", "ended"} => object[w] = {}
  /\ \A w \in WorkerIds : object[w] \subseteq {w}
  /\ \A w \in WorkerIds : pc[w] \in {"exiting", "freeing"} => ports[w] = <<>>
PortsKept ==
  /\ \A t \in Threads, w \in WorkerIds : HasPort(t, w) => w \in object[t]
  /\ \A t \in Threads : OnceEach(ports[t])
  /\ \A t \in Threads : pc[t] = "selected" => readable[t] \subseteq DOMAIN ports[t]

(* The holders of a pipe, one by one. *)
KeepsArgs(w) == ctor[w] \in {"pipes", "object", "started"} /\ pc[w] \notin {"freeing", "ended"}
HolderCount(p) ==
  (IF KeepsArgs(p[1]) THEN 1 ELSE 0) + (IF p[1] \in object[Main] THEN 1 ELSE 0)
  + (IF p[1] \in object[p[1]] THEN 1 ELSE 0) + (IF HasPort(Reader(p), p[1]) THEN 1 ELSE 0)
HoldersCounted == \A p \in Pipes : refCount[p] = HolderCount(p)

(* The mutex of a pipe is held exactly while its sender is posting. *)
PostsTo(t, p) == pc[t] = "posting" /\ current[t] # <<>> /\ current[t][1].pipe = p
PostingHolds ==
  /\ \A p \in Pipes : mutex[p] = TRUE <=> PostsTo(Sender(p), p)
  /\ \A t \in Threads : pc[t] = "posting" =>
       /\ current[t] # <<>> /\ Sender(current[t][1].pipe) = t
       /\ current[t][1].id = posted[current[t][1].pipe]

(* What is in a pipe, and in one that was not made yet. *)
Flows(q, wk, mx, po, re) ==
  /\ Len(q) = po - re - (IF mx = TRUE THEN 1 ELSE 0)
  /\ \A i \in 1 .. Len(q) : q[i].id = re + i
  /\ wk = IF q = <<>> /\ mx = FALSE THEN 0 ELSE 1
Unmade(q, wk, mx, po, re) == q = <<>> /\ wk = 0 /\ mx = FALSE /\ po = 0 /\ re = 0
PipesFlow ==
  \A p \in Pipes :
    /\ refCount[p] > 0 => Flows(queue[p], waker[p], mutex[p], posted[p], received[p])
    /\ ctor[p[1]] = "none" => Unmade(queue[p], waker[p], mutex[p], posted[p], received[p])

WorkersInv ==
  /\ ThreadTypes /\ PipeTypes /\ WorkerStages /\ PortsKept /\ HoldersCounted /\ PostingHolds /\ PipesFlow

(* Pipes and their ends. *)
LEMMA PipeEnds ==
  /\ \A p \in Pipes : p[1] \in WorkerIds /\ p[1] # Main /\ p = <<p[1], p[2]>> /\ p[2] \in {"down", "up"}
                      /\ Sender(p) \in Threads /\ Reader(p) \in Threads
  /\ \A t \in Threads, w \in WorkerIds : SendPipe(t, w) \in Pipes /\ RecvPipe(t, w) \in Pipes
  /\ \A w \in WorkerIds : PipesOf(w) \subseteq Pipes /\ w \in Threads
  /\ \A w \in WorkerIds : \A p \in Pipes : p \in PipesOf(w) <=> p[1] = w
  /\ \A t \in Threads, w \in WorkerIds : (t # Main => t = w) =>
       /\ Sender(SendPipe(t, w)) = t /\ SendPipe(t, w)[1] = w
       /\ \A p \in Pipes : p = RecvPipe(t, w) <=> p[1] = w /\ Reader(p) = t
BY WorkersAssumption DEF Pipes, PipesOf, Sender, Reader, SendPipe, RecvPipe, Threads

(* The count of a set with at most two elements. *)
LEMMA CountOfTwo ==
  ASSUME NEW a, NEW b, a # b, NEW S, S \subseteq {a, b}
  PROVE  Cardinality(S) = (IF a \in S THEN 1 ELSE 0) + (IF b \in S THEN 1 ELSE 0)
<1>1. CASE a \in S /\ b \in S
  <2>1. S = {a} \cup {b} /\ {a} \cap {b} = {} /\ IsFiniteSet({a}) /\ IsFiniteSet({b})
    BY <1>1, FS_Singleton
  <2>2. Cardinality(S) = Cardinality({a}) + Cardinality({b}) - Cardinality({a} \cap {b})
    BY <2>1, FS_Union
  <2>3. Cardinality({a}) = 1 /\ Cardinality({b}) = 1
    BY FS_Singleton
  <2>5. Cardinality({a} \cap {b}) = 0
    BY <2>1, FS_EmptySet
  <2>4. QED
    BY <1>1, <2>2, <2>3, <2>5
<1>2. CASE a \in S /\ b \notin S
  <2>1. S = {a}
    BY <1>2
  <2>2. Cardinality({a}) = 1
    BY FS_Singleton
  <2>3. QED
    BY <1>2, <2>1, <2>2
<1>3. CASE a \notin S /\ b \in S
  <2>1. S = {b}
    BY <1>3
  <2>2. Cardinality({b}) = 1
    BY FS_Singleton
  <2>3. QED
    BY <1>3, <2>1, <2>2
<1>4. CASE a \notin S /\ b \notin S
  <2>1. S = {}
    BY <1>4
  <2>2. QED
    BY <1>4, <2>1, FS_EmptySet
<1>5. QED
  BY <1>1, <1>2, <1>3, <1>4

(* PipeHolders counts them. *)
LEMMA HoldersAgree ==
  ASSUME NEW p \in Pipes
  PROVE  PipeHolders(p) = HolderCount(p)
<1>1. PICK w \in WorkerIds : w = p[1]
  BY PipeEnds
<1>2. w # Main /\ Main \in Threads /\ w \in Threads
  BY WorkersAssumption DEF Threads
<1> DEFINE A == {t \in {Main, w} : w \in object[t]}
           B == {t \in {Main, w} : HasPort(t, w) /\ RecvPipe(t, w) = p}
<1>3. Cardinality(A) = (IF w \in object[Main] THEN 1 ELSE 0) + (IF w \in object[w] THEN 1 ELSE 0)
  <2>1. A \subseteq {Main, w}
    OBVIOUS
  <2>3. Main \in A <=> w \in object[Main]
    OBVIOUS
  <2>4. w \in A <=> w \in object[w]
    OBVIOUS
  <2> HIDE DEF A
  <2>2. Cardinality(A) = (IF Main \in A THEN 1 ELSE 0) + (IF w \in A THEN 1 ELSE 0)
    BY <1>2, <2>1, CountOfTwo
  <2>5. QED
    BY <2>2, <2>3, <2>4
<1>4. Cardinality(B) = IF HasPort(Reader(p), w) THEN 1 ELSE 0
  <2>1. B \subseteq {Main, w}
    OBVIOUS
  <2>0. \A t \in {Main, w} : RecvPipe(t, w) = p <=> Reader(p) = t
    <3>1. p = <<w, p[2]>> /\ p[2] \in {"down", "up"}
      BY <1>1, PipeEnds
    <3>2. QED
      BY <1>1, <1>2, <3>1 DEF RecvPipe, Reader
  <2>3. Main \in B <=> HasPort(Main, w) /\ Reader(p) = Main
    BY <2>0
  <2>4. w \in B <=> HasPort(w, w) /\ Reader(p) = w
    BY <2>0
  <2>5. Reader(p) = Main \/ Reader(p) = w
    BY <1>1 DEF Reader
  <2> HIDE DEF B
  <2>2. Cardinality(B) = (IF Main \in B THEN 1 ELSE 0) + (IF w \in B THEN 1 ELSE 0)
    BY <1>2, <2>1, CountOfTwo
  <2>6. QED
    BY <1>2, <2>2, <2>3, <2>4, <2>5
<1> HIDE DEF A, B
<1>5. PipeHolders(p) = (IF KeepsArgs(w) THEN 1 ELSE 0) + Cardinality(A) + Cardinality(B)
  BY <1>1 DEF PipeHolders, KeepsArgs, A, B
<1>6. QED
  BY <1>1, <1>3, <1>4, <1>5 DEF HolderCount

(* The invariant says what the runs check of pipes. *)
LEMMA WorkersInvSound == WorkersInv => PipesCounted /\ WakerAgrees /\ InOrder
<1> SUFFICES ASSUME WorkersInv PROVE PipesCounted /\ WakerAgrees /\ InOrder
  OBVIOUS
<1>1. PipesCounted
  BY HoldersAgree DEF WorkersInv, HoldersCounted, PipesCounted
<1>2. ASSUME NEW p \in Pipes, refCount[p] > 0
      PROVE  /\ mutex[p] \in BOOLEAN /\ queue[p] \in Seq(Messages) /\ posted[p] \in Nat /\ received[p] \in Nat
             /\ Flows(queue[p], waker[p], mutex[p], posted[p], received[p])
  BY <1>2 DEF WorkersInv, PipeTypes, PipesFlow
<1>3. WakerAgrees
  BY <1>2 DEF WakerAgrees, Flows
<1>4. InOrder
  <2>1. SUFFICES ASSUME NEW p \in Pipes, refCount[p] > 0
        PROVE  [i \in DOMAIN queue[p] |-> queue[p][i].id]
               = [i \in 1 .. posted[p] - received[p] - (IF mutex[p] THEN 1 ELSE 0) |-> received[p] + i]
    BY DEF InOrder
  <2>2. PICK q \in Seq(Messages), n \in Nat : q = queue[p] /\ n = Len(q) /\ DOMAIN q = 1 .. n
    BY <1>2, <2>1
  <2>3. n = posted[p] - received[p] - (IF mutex[p] THEN 1 ELSE 0)
    BY <1>2, <2>1, <2>2 DEF Flows
  <2>4. \A i \in 1 .. n : q[i].id = received[p] + i
    BY <1>2, <2>1, <2>2 DEF Flows
  <2>5. [i \in 1 .. n |-> q[i].id] = [i \in 1 .. n |-> received[p] + i]
    BY <2>4
  <2>6. QED
    BY <2>2, <2>3, <2>5
<1>5. QED
  BY <1>1, <1>3, <1>4

LEMMA WorkersInitInv == WorkersInit => WorkersInv
<1> SUFFICES ASSUME WorkersInit PROVE WorkersInv
  OBVIOUS
<1>1. ThreadTypes /\ PipeTypes
  BY DEF WorkersInit, ThreadTypes, PipeTypes, PcValues, CtorValues
<1>2. \A t \in Threads : DOMAIN ports[t] = {} /\ object[t] = {} /\ pc[t] \in {"script", "none"}
  BY DEF WorkersInit
<1>3. \A t \in Threads, w \in WorkerIds : ~HasPort(t, w)
  BY <1>2 DEF HasPort
<1>4. Main \in Threads /\ \A w \in WorkerIds : w \in Threads /\ pc[w] = "none" /\ ctor[w] = "none"
  BY WorkersAssumption DEF WorkersInit, Threads
<1>5. WorkerStages
  BY <1>2, <1>4 DEF WorkerStages, Constructing
<1>6. PortsKept
  BY <1>2, <1>3 DEF PortsKept, OnceEach
<1>7. HoldersCounted
  <2>1. ASSUME NEW p \in Pipes PROVE HolderCount(p) = 0
    <3>1. p[1] \in WorkerIds /\ p[1] \in Threads /\ Reader(p) \in Threads
      BY PipeEnds
    <3>2. ~KeepsArgs(p[1])
      BY <1>4, <3>1 DEF KeepsArgs
    <3>3. p[1] \notin object[Main] /\ p[1] \notin object[p[1]] /\ ~HasPort(Reader(p), p[1])
      BY <1>2, <1>3, <1>4, <3>1
    <3>4. QED
      BY <3>2, <3>3 DEF HolderCount
  <2>2. QED
    BY <2>1 DEF HoldersCounted, WorkersInit
<1>8. PostingHolds
  BY <1>2, PipeEnds DEF PostingHolds, PostsTo, WorkersInit
<1>9. PipesFlow
  BY DEF PipesFlow, Unmade, WorkersInit
<1>10. QED
  BY <1>1, <1>5, <1>6, <1>7, <1>8, <1>9 DEF WorkersInv

(***************************************************************************)
(* Steps of one thread that leave objects, ports and counts as they are.   *)
(***************************************************************************)
AtWork == {"script", "posting", "poll", "selected", "taken", "read"}
GoesOn(t, v) ==
  /\ pc[t] \in AtWork /\ v \in AtWork \cup {"exiting"} /\ pc' = [pc EXCEPT ![t] = v]
  /\ v = "exiting" => ports[t] = <<>>
  /\ readable' \in [Threads -> SUBSET Nat] /\ \A u \in Threads \ {t} : readable'[u] = readable[u]
  /\ v = "selected" => readable'[t] \subseteq DOMAIN ports[t]
  /\ UNCHANGED <<ctor, refCount, object, ports>>

ThreadsInv == ThreadTypes /\ WorkerStages /\ PortsKept /\ HoldersCounted

LEMMA GoesOnInv ==
  ASSUME WorkersInv, NEW t \in Threads, NEW v, GoesOn(t, v)
  PROVE  ThreadsInv'
<1>1. /\ ThreadTypes /\ WorkerStages /\ PortsKept /\ HoldersCounted
  BY DEF WorkersInv
<1>2. /\ pc[t] \in AtWork /\ v \in AtWork \cup {"exiting"}
      /\ pc'[t] = v /\ \A u \in Threads \ {t} : pc'[u] = pc[u]
      /\ v = "exiting" => ports[t] = <<>>
      /\ ctor' = ctor /\ refCount' = refCount /\ object' = object /\ ports' = ports
  BY <1>1 DEF GoesOn, ThreadTypes
<1>3. ThreadTypes'
  <2>1. pc' \in [Threads -> PcValues]
    BY <1>1 DEF GoesOn, ThreadTypes, PcValues, AtWork
  <2>2. QED
    BY <1>1, <1>2, <2>1 DEF GoesOn, ThreadTypes
<1>4. Main \in Threads /\ \A w \in WorkerIds : w \in Threads
  BY DEF Threads
<1>5. \A u \in Threads : /\ pc'[u] \in {"none", "created", "ended", "freeing", "ctor"} <=>
                             pc[u] \in {"none", "created", "ended", "freeing", "ctor"}
                         /\ pc'[u] # pc[u] => u = t /\ pc[u] \in AtWork /\ pc'[u] \in AtWork \cup {"exiting"}
  BY <1>2 DEF AtWork
<1>6. \A u \in Threads : u = t \/ pc'[u] = pc[u]
  BY <1>2
<1>7. WorkerStages'
  <2>1. pc[Main] = "ctor" => pc'[Main] = "ctor"
    BY <1>2, <1>4, <1>6 DEF AtWork
  <2>2. \A w \in WorkerIds : pc'[w] = "none" <=> pc[w] = "none"
    BY <1>2, <1>4, <1>6 DEF AtWork
  <2>3. \A w \in WorkerIds : pc'[w] \in {"none", "created", "ended"} => pc[w] \in {"none", "created", "ended"}
    BY <1>2, <1>4, <1>6 DEF AtWork
  <2>4. \A w \in WorkerIds : pc'[w] \in {"exiting", "freeing"} => ports[w] = <<>>
    BY <1>1, <1>2, <1>4, <1>6 DEF AtWork, WorkerStages
  <2>5. QED
    BY <1>1, <1>2, <2>1, <2>2, <2>3, <2>4 DEF WorkerStages, Constructing, HasPort
<1>8. PortsKept'
  <2>1. \A u \in Threads : pc'[u] = "selected" => readable'[u] \subseteq DOMAIN ports[u]
    BY <1>1, <1>2, <1>6 DEF GoesOn, PortsKept
  <2>2. QED
    BY <1>1, <1>2, <2>1 DEF PortsKept, HasPort
<1>9. HoldersCounted'
  <2>1. ASSUME NEW p \in Pipes PROVE HolderCount(p)' = HolderCount(p)
    <3>1. p[1] \in WorkerIds /\ p[1] \in Threads
      BY PipeEnds
    <3>2. KeepsArgs(p[1])' <=> KeepsArgs(p[1])
      BY <1>2, <1>6, <3>1 DEF KeepsArgs, AtWork
    <3>3. Reader(p)' = Reader(p) /\ (HasPort(Reader(p), p[1])' <=> HasPort(Reader(p), p[1]))
      BY <1>2 DEF HasPort, Reader
    <3>4. QED
      BY <1>2, <3>2, <3>3 DEF HolderCount
  <2>2. QED
    BY <1>1, <1>2, <2>1 DEF HoldersCounted
<1>10. QED
  BY <1>3, <1>7, <1>8, <1>9 DEF ThreadsInv

(* Pipes on which nothing happens. *)
PipesInv == PipeTypes /\ PostingHolds /\ PipesFlow
PipesStay ==
  /\ UNCHANGED <<queue, waker, mutex, posted, received>>
  /\ current' \in [Threads -> Seq(InTransit)]
  /\ \A u \in Threads : pc'[u] = "posting" <=> pc[u] = "posting"
  /\ \A u \in Threads : pc[u] = "posting" => current'[u] = current[u]

LEMMA PipesStayInv ==
  ASSUME WorkersInv, PipesStay, UNCHANGED <<ctor, refCount>>
  PROVE  PipesInv'
<1>1. PipeTypes /\ PostingHolds /\ PipesFlow
  BY DEF WorkersInv
<1>2. /\ queue' = queue /\ waker' = waker /\ mutex' = mutex /\ posted' = posted /\ received' = received
      /\ ctor' = ctor /\ refCount' = refCount
  BY DEF PipesStay
<1>3. PipeTypes'
  BY <1>1, <1>2 DEF PipeTypes, PipesStay
<1>4. PostingHolds'
  <2>1. ASSUME NEW p \in Pipes PROVE PostsTo(Sender(p), p)' <=> PostsTo(Sender(p), p)
    <3>1. PICK u \in Threads : u = Sender(p) /\ u = Sender(p)'
      BY PipeEnds DEF Sender
    <3>2. PostsTo(u, p)' <=> PostsTo(u, p)
      BY DEF PostsTo, PipesStay
    <3>3. QED
      BY <3>1, <3>2
  <2>2. ASSUME NEW t \in Threads, pc'[t] = "posting"
        PROVE  /\ current'[t] # <<>> /\ Sender(current'[t][1].pipe) = t
               /\ current'[t][1].id = posted'[current'[t][1].pipe]
    BY <1>1, <1>2, <2>2 DEF PipesStay, PostingHolds
  <2>3. QED
    BY <1>1, <1>2, <2>1, <2>2 DEF PostingHolds, Sender
<1>5. PipesFlow'
  BY <1>1, <1>2 DEF PipesFlow
<1>6. QED
  BY <1>3, <1>4, <1>5 DEF PipesInv

LEMMA WorkersStutter ==
  ASSUME WorkersInv,
         UNCHANGED <<pc, ctor, pipeState, object, ports, readable, current, history>>
  PROVE  WorkersInv'
BY DEF WorkersInv, ThreadTypes, PipeTypes, WorkerStages, PortsKept, HoldersCounted, PostingHolds, PipesFlow,
       pipeState, history, Constructing, HasPort, HolderCount, KeepsArgs, PostsTo, Reader, Sender

(* The steps of js_std_loop that touch no pipe. *)
LEMMA ThreadLoopInv ==
  ASSUME WorkersInv, NEW t \in Threads,
         \/ HandlerReturns(t) \/ ThreadLoopEnds(t) \/ Select(t)
         \/ ReadMessage(t) \/ CallOnmessage(t) \/ ReadFails(t)
  PROVE  WorkersInv'
<1>1. /\ ThreadTypes /\ PipeTypes /\ PortsKept
  BY DEF WorkersInv
<1>2. /\ readable \in [Threads -> SUBSET Nat] /\ current \in [Threads -> Seq(InTransit)]
      /\ ports \in [Threads -> Seq(WorkerIds)] /\ pc \in [Threads -> PcValues]
  BY <1>1 DEF ThreadTypes, PipeTypes
<1>3. \E v \in {"poll", "exiting", "selected", "read", "script"} : GoesOn(t, v)
  <2>1. CASE HandlerReturns(t)
    <3>1. GoesOn(t, "poll")
      BY <1>2, <2>1 DEF HandlerReturns, GoesOn, AtWork, pipeState
    <3>2. QED
      BY <3>1
  <2>2. CASE ThreadLoopEnds(t)
    <3>1. GoesOn(t, "exiting")
      BY <1>2, <2>2 DEF ThreadLoopEnds, GoesOn, AtWork, pipeState
    <3>2. QED
      BY <3>1
  <2>3. CASE Select(t)
    <3> DEFINE ready == {i \in DOMAIN ports[t] : waker[RecvPipe(t, ports[t][i])] > 0}
    <3>1. ready \subseteq DOMAIN ports[t] /\ ready \in SUBSET Nat
      BY <1>2
    <3>2. /\ pc[t] = "poll" /\ pc' = [pc EXCEPT ![t] = "selected"]
          /\ readable' = [readable EXCEPT ![t] = ready]
          /\ UNCHANGED <<ctor, refCount, object, ports>>
      BY <2>3 DEF Select, pipeState
    <3> HIDE DEF ready
    <3>3. GoesOn(t, "selected")
      BY <1>2, <3>1, <3>2 DEF GoesOn, AtWork
    <3>4. QED
      BY <3>3
  <2>4. CASE ReadMessage(t)
    <3>1. GoesOn(t, "read")
      BY <1>2, <2>4 DEF ReadMessage, GoesOn, AtWork, pipeState
    <3>2. QED
      BY <3>1
  <2>5. CASE CallOnmessage(t)
    <3>1. GoesOn(t, "script")
      BY <1>2, <2>5 DEF CallOnmessage, GoesOn, AtWork, pipeState
    <3>2. QED
      BY <3>1
  <2>6. CASE ReadFails(t)
    <3>1. GoesOn(t, "poll")
      BY <1>2, <2>6 DEF ReadFails, AfterReadError, GoesOn, AtWork, pipeState
    <3>2. QED
      BY <3>1
  <2>7. QED
    BY <2>1, <2>2, <2>3, <2>4, <2>5, <2>6
<1>4. PICK v \in {"poll", "exiting", "selected", "read", "script"} : GoesOn(t, v)
  BY <1>3
<1>5. /\ UNCHANGED <<queue, waker, mutex, posted, received, ctor, refCount>>
      /\ current' = current \/ current' = [current EXCEPT ![t] = <<>>]
      /\ pc[t] # "posting" /\ pc' = [pc EXCEPT ![t] = v]
  BY <1>4 DEF HandlerReturns, ThreadLoopEnds, Select, ReadMessage, CallOnmessage, ReadFails,
              GoesOn, pipeState, history
<1>6. PipesStay
  <2>1. current' \in [Threads -> Seq(InTransit)]
    <3>1. <<>> \in Seq(InTransit)
      OBVIOUS
    <3>2. QED
      BY <1>2, <1>5, <3>1
  <2>2. \A u \in Threads : pc'[u] = "posting" <=> pc[u] = "posting"
    BY <1>2, <1>5
  <2>3. \A u \in Threads : pc[u] = "posting" => current'[u] = current[u]
    BY <1>2, <1>5
  <2>4. QED
    BY <1>5, <2>1, <2>2, <2>3 DEF PipesStay
<1>7. QED
  BY <1>4, <1>5, <1>6, GoesOnInv, PipesStayInv DEF ThreadsInv, PipesInv, WorkersInv

(* One pipe changes, and the others do not. *)
ChangesOnly(p) ==
  \A q \in Pipes \ {p} :
    /\ queue'[q] = queue[q] /\ waker'[q] = waker[q] /\ mutex'[q] = mutex[q]
    /\ posted'[q] = posted[q] /\ received'[q] = received[q]

LEMMA ChangesOnlyFlow ==
  ASSUME PipesFlow, NEW p \in Pipes, ChangesOnly(p), UNCHANGED <<ctor, refCount>>, ctor[p[1]] # "none",
         refCount[p] > 0 /\ Flows(queue[p], waker[p], mutex[p], posted[p], received[p]) =>
           Flows(queue'[p], waker'[p], mutex'[p], posted'[p], received'[p])
  PROVE  PipesFlow'
<1>1. ctor' = ctor /\ refCount' = refCount
  OBVIOUS
<1>2. ASSUME NEW q \in Pipes
      PROVE  /\ refCount'[q] > 0 => Flows(queue'[q], waker'[q], mutex'[q], posted'[q], received'[q])
             /\ ctor'[q[1]] = "none" => Unmade(queue'[q], waker'[q], mutex'[q], posted'[q], received'[q])
  <2>1. CASE q = p
    BY <1>1, <2>1 DEF PipesFlow
  <2>2. CASE q # p
    BY <1>1, <2>2 DEF PipesFlow, ChangesOnly
  <2>3. QED
    BY <2>1, <2>2
<1>3. QED
  BY <1>2 DEF PipesFlow

(* A thread with an object for w is main or w, and w has been made. *)
LEMMA ObjectOwner ==
  ASSUME WorkersInv, NEW t \in Threads, NEW w \in WorkerIds, w \in object[t]
  PROVE  /\ t # Main => t = w
         /\ ctor[w] # "none"
<1>1. WorkerStages /\ ThreadTypes
  BY DEF WorkersInv
<1>2. t # Main => t = w
  BY <1>1 DEF WorkerStages, Threads
<1>3. CASE t = Main
  BY <1>1, <1>2, <1>3 DEF WorkerStages
<1>4. CASE t = w
  <2>1. object[w] # {}
    BY <1>4
  <2>2. pc[w] # "none"
    BY <1>1, <2>1 DEF WorkerStages
  <2>3. QED
    BY <1>1, <1>2, <2>2 DEF WorkerStages
<1>5. QED
  BY <1>2, <1>3, <1>4

LEMMA PostSignalInv ==
  ASSUME WorkersInv, NEW t \in Threads, NEW w \in WorkerIds, NEW b \in Sabs \cup {NoSab}, PostSignal(t, w, b)
  PROVE  WorkersInv'
<1> DEFINE p == SendPipe(t, w)
           c == [id |-> posted[p] + 1, sab |-> b, pipe |-> p]
<1>1. ThreadTypes /\ PipeTypes /\ PostingHolds /\ PipesFlow
  BY DEF WorkersInv
<1>2. pc[t] = "script" /\ w \in object[t] /\ posted[p] < MaxPosts /\ mutex[p] # TRUE
  BY DEF PostSignal
<1>3. p \in Pipes /\ Sender(p) = t /\ p[1] = w /\ ctor[w] # "none"
  <2>1. (t # Main => t = w) /\ ctor[w] # "none"
    BY <1>2, ObjectOwner
  <2>2. QED
    BY <2>1, PipeEnds
<1>4. /\ mutex' = [mutex EXCEPT ![p] = TRUE] /\ posted' = [posted EXCEPT ![p] = @ + 1]
      /\ waker' = [waker EXCEPT ![p] = IF queue[p] = <<>> THEN @ + 1 ELSE @]
      /\ current' = [current EXCEPT ![t] = <<c>>] /\ pc' = [pc EXCEPT ![t] = "posting"]
      /\ UNCHANGED <<ctor, refCount, queue, object, ports, readable, received>>
  BY DEF PostSignal, WakesReader
<1> HIDE DEF p
<1>5. posted \in [Pipes -> Nat] /\ MaxPosts \in Nat /\ posted[p] \in Nat
  BY <1>1, <1>3, WorkersAssumption DEF PipeTypes
<1>6. c \in InTransit /\ c.pipe = p /\ c.id = posted[p] + 1
  BY <1>2, <1>3, <1>5 DEF InTransit
<1> HIDE DEF c
<1>7. <<c>> \in Seq(InTransit) /\ <<c>> # <<>> /\ <<c>>[1] = c
  BY <1>6
<1>8. GoesOn(t, "posting")
  BY <1>1, <1>2, <1>4 DEF GoesOn, AtWork, ThreadTypes
<1>9. PipeTypes'
  <2>1. /\ queue' \in [Pipes -> Seq(Messages)] /\ waker' \in [Pipes -> Nat] /\ mutex' \in [Pipes -> BOOLEAN]
        /\ posted' \in [Pipes -> Nat] /\ received' \in [Pipes -> Nat]
    BY <1>1, <1>3, <1>4 DEF PipeTypes
  <2>2. current' \in [Threads -> Seq(InTransit)]
    BY <1>1, <1>4, <1>7 DEF PipeTypes
  <2>3. QED
    BY <2>1, <2>2 DEF PipeTypes
<1>10. /\ pc'[t] = "posting" /\ current'[t] = <<c>> /\ mutex'[p] = TRUE /\ posted'[p] = posted[p] + 1
       /\ \A u \in Threads \ {t} : pc'[u] = pc[u] /\ current'[u] = current[u]
       /\ \A q \in Pipes \ {p} : mutex'[q] = mutex[q] /\ posted'[q] = posted[q] /\ waker'[q] = waker[q]
  BY <1>1, <1>3, <1>4 DEF PipeTypes, ThreadTypes
<1>11. PostingHolds'
  <2>1. ASSUME NEW q \in Pipes PROVE mutex'[q] = TRUE <=> PostsTo(Sender(q), q)'
    <3>1. CASE q = p
      BY <1>3, <1>6, <1>7, <1>10, <3>1 DEF PostsTo, Sender
    <3>2. CASE q # p /\ Sender(q) = t
      <4>1. mutex[q] # TRUE
        BY <1>1, <1>2, <3>2 DEF PostingHolds, PostsTo
      <4>2. ~PostsTo(t, q)'
        BY <1>6, <1>7, <1>10, <3>2 DEF PostsTo
      <4>3. Sender(q)' = t
        BY <3>2 DEF Sender
      <4>4. QED
        BY <1>10, <3>2, <4>1, <4>2 DEF PostsTo, Sender
    <3>3. CASE q # p /\ Sender(q) # t
      <4>1. Sender(q) \in Threads \ {t}
        BY <3>3, PipeEnds
      <4>2. PostsTo(Sender(q), q)' <=> PostsTo(Sender(q), q)
        BY <1>10, <4>1 DEF PostsTo, Sender
      <4>3. QED
        BY <1>1, <1>10, <3>3, <4>2 DEF PostingHolds
    <3>4. QED
      BY <3>1, <3>2, <3>3
  <2>2. ASSUME NEW u \in Threads, pc'[u] = "posting"
        PROVE  /\ current'[u] # <<>> /\ Sender(current'[u][1].pipe) = u
               /\ current'[u][1].id = posted'[current'[u][1].pipe]
    <3>1. CASE u = t
      BY <1>3, <1>6, <1>7, <1>10, <3>1
    <3>2. CASE u # t
      <4>1. /\ current[u] # <<>> /\ Sender(current[u][1].pipe) = u
            /\ current[u][1].id = posted[current[u][1].pipe]
        BY <1>1, <1>10, <2>2, <3>2 DEF PostingHolds
      <4>2. current[u] \in Seq(InTransit)
        BY <1>1 DEF PipeTypes
      <4>3. current[u][1] \in InTransit
        BY <4>1, <4>2
      <4>4. current[u][1].pipe \in Pipes \ {p}
        BY <1>3, <3>2, <4>1, <4>3 DEF InTransit
      <4>5. QED
        BY <1>10, <3>2, <4>1, <4>4
    <3>3. QED
      BY <3>1, <3>2
  <2>3. QED
    BY <2>1, <2>2 DEF PostingHolds, Sender
<1>12. PipesFlow'
  <2>1. ChangesOnly(p)
    BY <1>4, <1>10 DEF ChangesOnly
  <2>2. ASSUME Flows(queue[p], waker[p], mutex[p], posted[p], received[p])
        PROVE  Flows(queue'[p], waker'[p], mutex'[p], posted'[p], received'[p])
    <3>1. PICK q \in Seq(Messages), n \in Nat, po \in Nat, re \in Nat :
            q = queue[p] /\ n = Len(q) /\ po = posted[p] /\ re = received[p]
      BY <1>1, <1>3 DEF PipeTypes
    <3>2. mutex[p] = FALSE
      BY <1>1, <1>2, <1>3 DEF PipeTypes
    <3>3. n = po - re /\ (\A i \in 1 .. n : q[i].id = re + i) /\ waker[p] = IF q = <<>> THEN 0 ELSE 1
      BY <2>2, <3>1, <3>2 DEF Flows
    <3>4. waker'[p] = 1
      BY <1>1, <1>3, <1>4, <3>1, <3>3 DEF PipeTypes
    <3>5. n = (po + 1) - re - 1
      BY <3>3
    <3>6. QED
      BY <1>4, <1>10, <3>1, <3>3, <3>4, <3>5 DEF Flows
  <2>3. QED
    BY <1>1, <1>3, <1>4, <2>1, <2>2, ChangesOnlyFlow
<1>13. QED
  BY <1>8, <1>9, <1>11, <1>12, GoesOnInv DEF ThreadsInv, WorkersInv

LEMMA PostAppendInv ==
  ASSUME WorkersInv, NEW t \in Threads, PostAppend(t)
  PROVE  WorkersInv'
<1> DEFINE p == current[t][1].pipe
           m == MessageOf(t)
<1>1. ThreadTypes /\ PipeTypes /\ PostingHolds /\ PipesFlow
  BY DEF WorkersInv
<1>2. pc[t] = "posting" /\ current[t] # <<>> /\ Sender(p) = t /\ current[t][1].id = posted[p]
  BY <1>1 DEF PostAppend, PostingHolds
<1>3. current[t][1] \in InTransit
  BY <1>1, <1>2 DEF PipeTypes
<1>4. p \in Pipes /\ m \in Messages /\ m.id = posted[p]
  BY <1>2, <1>3 DEF InTransit, MessageOf, Messages
<1>5. /\ queue' = [queue EXCEPT ![p] = Append(@, m)] /\ mutex' = [mutex EXCEPT ![p] = FALSE]
      /\ current' = [current EXCEPT ![t] = <<>>] /\ pc' = [pc EXCEPT ![t] = "script"]
      /\ UNCHANGED <<ctor, refCount, waker, object, ports, readable, posted, received>>
  BY DEF PostAppend, Enqueued, history
<1>6. mutex[p] = TRUE /\ PostsTo(t, p)
  BY <1>1, <1>2, <1>4 DEF PostingHolds, PostsTo
<1>7. \A q \in Pipes \ {p} : ~PostsTo(t, q)
  BY <1>6 DEF PostsTo
<1> HIDE DEF p, m
<1>8. ctor[p[1]] # "none"
  BY <1>1, <1>4, <1>6 DEF PipesFlow, Unmade
<1>9. GoesOn(t, "script")
  BY <1>1, <1>2, <1>5 DEF GoesOn, AtWork, ThreadTypes
<1>10. /\ queue'[p] = Append(queue[p], m) /\ mutex'[p] = FALSE /\ pc'[t] = "script"
       /\ \A u \in Threads \ {t} : pc'[u] = pc[u] /\ current'[u] = current[u]
       /\ \A q \in Pipes \ {p} : mutex'[q] = mutex[q] /\ queue'[q] = queue[q]
  BY <1>1, <1>4, <1>5 DEF PipeTypes, ThreadTypes
<1>11. PipeTypes'
  <2>1. /\ waker' \in [Pipes -> Nat] /\ mutex' \in [Pipes -> BOOLEAN]
        /\ posted' \in [Pipes -> Nat] /\ received' \in [Pipes -> Nat]
    BY <1>1, <1>4, <1>5 DEF PipeTypes
  <2>2. current' \in [Threads -> Seq(InTransit)]
    <3>1. <<>> \in Seq(InTransit)
      OBVIOUS
    <3>2. QED
      BY <1>1, <1>5, <3>1 DEF PipeTypes
  <2>3. queue' \in [Pipes -> Seq(Messages)]
    <3>1. Append(queue[p], m) \in Seq(Messages)
      BY <1>1, <1>4 DEF PipeTypes
    <3>2. QED
      BY <1>1, <1>5, <3>1 DEF PipeTypes
  <2>4. QED
    BY <2>1, <2>2, <2>3 DEF PipeTypes
<1>12. PostingHolds'
  <2>1. ASSUME NEW q \in Pipes PROVE mutex'[q] = TRUE <=> PostsTo(Sender(q), q)'
    <3>1. CASE Sender(q) = t
      <4>1. ~PostsTo(t, q)'
        BY <1>10 DEF PostsTo
      <4>2. mutex'[q] # TRUE
        BY <1>1, <1>7, <1>10, <3>1 DEF PostingHolds
      <4>3. QED
        BY <3>1, <4>1, <4>2 DEF PostsTo, Sender
    <3>2. CASE Sender(q) # t
      <4>1. Sender(q) \in Threads \ {t} /\ q # p
        BY <1>2, <3>2, PipeEnds DEF p
      <4>2. PostsTo(Sender(q), q)' <=> PostsTo(Sender(q), q)
        BY <1>10, <4>1 DEF PostsTo, Sender
      <4>3. QED
        BY <1>1, <1>10, <4>1, <4>2 DEF PostingHolds
    <3>3. QED
      BY <3>1, <3>2
  <2>2. ASSUME NEW u \in Threads, pc'[u] = "posting"
        PROVE  /\ current'[u] # <<>> /\ Sender(current'[u][1].pipe) = u
               /\ current'[u][1].id = posted'[current'[u][1].pipe]
    <3>1. u # t
      BY <1>10, <2>2
    <3>2. QED
      BY <1>1, <1>5, <1>10, <2>2, <3>1 DEF PostingHolds
  <2>3. QED
    BY <2>1, <2>2 DEF PostingHolds, Sender
<1>13. PipesFlow'
  <2>1. ChangesOnly(p)
    BY <1>5, <1>10 DEF ChangesOnly
  <2>2. ASSUME Flows(queue[p], waker[p], mutex[p], posted[p], received[p])
        PROVE  Flows(queue'[p], waker'[p], mutex'[p], posted'[p], received'[p])
    <3>1. PICK q \in Seq(Messages), n \in Nat, po \in Nat, re \in Nat :
            q = queue[p] /\ n = Len(q) /\ po = posted[p] /\ re = received[p]
      BY <1>1, <1>4 DEF PipeTypes
    <3>2. n = po - re - 1 /\ (\A i \in 1 .. n : q[i].id = re + i) /\ waker[p] = 1
      BY <1>6, <2>2, <3>1 DEF Flows
    <3>3. PICK r \in Seq(Messages) : r = queue'[p] /\ Longer(Messages, q, n, m, r)
      <4>1. Longer(Messages, q, n, m, Append(q, m))
        BY <1>4, <3>1, AppendElements, Zenon
      <4>2. queue'[p] = Append(q, m) /\ Append(q, m) \in Seq(Messages)
        BY <1>10, <3>1, <4>1 DEF Longer
      <4>3. QED
        BY <4>1, <4>2, Zenon
    <3>4. Len(r) = n + 1 /\ r # <<>> /\ n + 1 = po - re
      BY <3>2, <3>3 DEF Longer
    <3>5. ASSUME NEW i \in 1 .. n + 1 PROVE r[i].id = re + i
      <4>1. CASE i = n + 1
        <5>1. r[n + 1] = m /\ m.id = po /\ po = re + (n + 1)
          BY <1>4, <3>1, <3>2, <3>3 DEF Longer
        <5>2. QED
          BY <4>1, <5>1
      <4>2. CASE i \in 1 .. n
        BY <3>2, <3>3, <4>2 DEF Longer
      <4>3. QED
        BY <4>1, <4>2
    <3>6. QED
      BY <1>5, <1>10, <3>1, <3>2, <3>3, <3>4, <3>5 DEF Flows
  <2>3. QED
    BY <1>1, <1>4, <1>5, <1>8, <2>1, <2>2, ChangesOnlyFlow
<1>14. QED
  BY <1>9, <1>11, <1>12, <1>13, GoesOnInv DEF ThreadsInv, WorkersInv

LEMMA TakeInv ==
  ASSUME WorkersInv, NEW t \in Threads, Take(t)
  PROVE  WorkersInv'
<1> DEFINE p == RecvPipe(t, ports[t][FirstReadable(t)])
           m == Head(queue[p])
           c == [id |-> m.id, sab |-> m.sab, pipe |-> p]
<1>1. ThreadTypes /\ PipeTypes /\ PortsKept /\ PostingHolds /\ PipesFlow
  BY DEF WorkersInv
<1>2. pc[t] = "selected" /\ readable[t] # {} /\ mutex[p] # TRUE /\ queue[p] # <<>>
  BY DEF Take
<1>3. p \in Pipes
  <2>1. readable[t] \subseteq DOMAIN ports[t] /\ ports[t] \in Seq(WorkerIds)
    BY <1>1, <1>2 DEF PortsKept, ThreadTypes
  <2>2. readable[t] \subseteq Nat
    BY <1>1 DEF ThreadTypes
  <2>3. \E i \in readable[t] : \A j \in readable[t] : i <= j
    BY <1>2, <2>2, LeastOf
  <2>4. FirstReadable(t) \in readable[t]
    BY <2>3 DEF FirstReadable
  <2>5. ports[t][FirstReadable(t)] \in WorkerIds
    BY <2>1, <2>4
  <2>6. QED
    BY <2>5, PipeEnds
<1>4. /\ queue' = [queue EXCEPT ![p] = Tail(@)]
      /\ waker' = [waker EXCEPT ![p] = IF Len(queue[p]) = 1 THEN LeftAfterRead(@) ELSE @]
      /\ current' = [current EXCEPT ![t] = <<c>>] /\ received' = [received EXCEPT ![p] = m.id]
      /\ readable' = [readable EXCEPT ![t] = {}] /\ pc' = [pc EXCEPT ![t] = "taken"]
      /\ UNCHANGED <<ctor, refCount, mutex, object, ports, posted>>
  BY DEF Take, Drains
<1> HIDE DEF p
<1>5. queue[p] \in Seq(Messages) /\ mutex[p] = FALSE /\ waker[p] \in Nat
  BY <1>1, <1>2, <1>3 DEF PipeTypes
<1>6. m \in Messages /\ m = queue[p][1]
  BY <1>2, <1>5
<1> HIDE DEF m
<1>7. <<c>> \in Seq(InTransit) /\ m.id \in Nat
  <2>1. c \in InTransit /\ m.id \in Nat
    BY <1>3, <1>6 DEF InTransit, Messages
  <2> HIDE DEF c
  <2>2. QED
    BY <2>1
<1> HIDE DEF c
<1>8. ctor[p[1]] # "none"
  BY <1>1, <1>2, <1>3 DEF PipesFlow, Unmade
<1>9. GoesOn(t, "taken")
  BY <1>1, <1>2, <1>4 DEF GoesOn, AtWork, ThreadTypes
<1>10. /\ queue'[p] = Tail(queue[p]) /\ received'[p] = m.id
       /\ waker'[p] = IF Len(queue[p]) = 1 THEN LeftAfterRead(waker[p]) ELSE waker[p]
       /\ pc'[t] = "taken" /\ \A u \in Threads \ {t} : pc'[u] = pc[u] /\ current'[u] = current[u]
       /\ \A q \in Pipes \ {p} : queue'[q] = queue[q] /\ waker'[q] = waker[q] /\ received'[q] = received[q]
  BY <1>1, <1>3, <1>4 DEF PipeTypes, ThreadTypes
<1>11. PipeTypes'
  <2>1. mutex' \in [Pipes -> BOOLEAN] /\ posted' \in [Pipes -> Nat] /\ received' \in [Pipes -> Nat]
    BY <1>1, <1>4, <1>7 DEF PipeTypes
  <2>2. current' \in [Threads -> Seq(InTransit)]
    BY <1>1, <1>4, <1>7 DEF PipeTypes
  <2>3. queue' \in [Pipes -> Seq(Messages)]
    <3>1. Tail(queue[p]) \in Seq(Messages)
      BY <1>2, <1>5
    <3>2. QED
      BY <1>1, <1>4, <3>1 DEF PipeTypes
  <2>4. waker' \in [Pipes -> Nat]
    <3>1. LeftAfterRead(waker[p]) \in Nat
      BY <1>5 DEF LeftAfterRead
    <3>2. QED
      BY <1>1, <1>4, <3>1 DEF PipeTypes
  <2>5. QED
    BY <2>1, <2>2, <2>3, <2>4 DEF PipeTypes
<1>12. PostingHolds'
  <2>1. \A u \in Threads : /\ pc'[u] = "posting" <=> pc[u] = "posting"
                           /\ pc[u] = "posting" => current'[u] = current[u]
    BY <1>2, <1>10
  <2>2. ASSUME NEW q \in Pipes PROVE PostsTo(Sender(q), q)' <=> PostsTo(Sender(q), q)
    BY <2>1, PipeEnds DEF PostsTo, Sender
  <2>3. QED
    BY <1>1, <1>4, <2>1, <2>2 DEF PostingHolds, Sender
<1>13. PipesFlow'
  <2>1. ChangesOnly(p)
    BY <1>4, <1>10 DEF ChangesOnly
  <2>2. ASSUME Flows(queue[p], waker[p], mutex[p], posted[p], received[p])
        PROVE  Flows(queue'[p], waker'[p], mutex'[p], posted'[p], received'[p])
    <3>1. PICK q \in Seq(Messages), n \in Nat, po \in Nat, re \in Nat :
            q = queue[p] /\ n = Len(q) /\ n # 0 /\ q # <<>> /\ po = posted[p] /\ re = received[p]
      <4>1. posted[p] \in Nat /\ received[p] \in Nat
        BY <1>1, <1>3 DEF PipeTypes
      <4>2. Len(queue[p]) \in Nat /\ Len(queue[p]) # 0
        BY <1>2, <1>5
      <4>3. QED
        BY <1>2, <1>5, <4>1, <4>2
    <3>2. n = po - re /\ (\A i \in 1 .. n : q[i].id = re + i) /\ waker[p] = 1
      BY <1>5, <2>2, <3>1 DEF Flows
    <3>3. received'[p] = re + 1
      BY <1>6, <1>10, <3>1, <3>2
    <3>4. PICK r \in Seq(Messages) :
            r = queue'[p] /\ Len(r) = n - 1 /\ \A i \in 1 .. n - 1 : r[i] = q[i + 1]
      <4>1. Tail(q) \in Seq(Messages) /\ Len(Tail(q)) = n - 1 /\ \A i \in 1 .. n - 1 : Tail(q)[i] = q[i + 1]
        BY <3>1
      <4>2. queue'[p] = Tail(q)
        BY <1>10, <3>1
      <4>3. QED
        BY <4>1, <4>2, Zenon
    <3>5. ASSUME NEW i \in 1 .. n - 1 PROVE r[i].id = (re + 1) + i
      <4>1. i + 1 \in 1 .. n /\ r[i] = q[i + 1]
        BY <3>1, <3>4
      <4>2. q[i + 1].id = re + (i + 1)
        BY <3>2, <4>1
      <4>3. QED
        BY <4>1, <4>2
    <3>6. waker'[p] = IF r = <<>> THEN 0 ELSE 1
      <4>1. CASE n = 1
        BY <1>10, <3>1, <3>2, <3>4, <4>1 DEF LeftAfterRead
      <4>2. CASE n # 1
        BY <1>10, <3>1, <3>2, <3>4, <4>2
      <4>3. QED
        BY <4>1, <4>2
    <3>7. n - 1 = po - (re + 1)
      BY <3>2
    <3>8. QED
      <4>1. mutex'[p] = FALSE /\ posted'[p] = po
        BY <1>4, <1>5, <3>1
      <4>2. Len(r) = po - (re + 1) - 0
        BY <3>4, <3>7
      <4>3. Flows(r, waker'[p], FALSE, po, re + 1)
        BY <3>4, <3>5, <3>6, <4>2 DEF Flows
      <4>4. QED
        BY <3>3, <3>4, <4>1, <4>3
  <2>3. QED
    BY <1>1, <1>3, <1>4, <1>8, <2>1, <2>2, ChangesOnlyFlow
<1>14. QED
  BY <1>9, <1>11, <1>12, <1>13, GoesOnInv DEF ThreadsInv, WorkersInv

(***************************************************************************)
(* Steps that make and drop references: a pipe keeps its messages as long  *)
(* as somebody holds it.                                                   *)
(***************************************************************************)
HoldersStep ==
  /\ UNCHANGED <<waker, mutex, current, posted, received>>
  /\ queue' \in [Pipes -> Seq(Messages)]
  /\ \A u \in Threads : pc'[u] = "posting" <=> pc[u] = "posting"
  /\ \A p \in Pipes :
       /\ refCount'[p] > 0 => queue'[p] = queue[p] /\ (refCount[p] > 0 \/ ctor[p[1]] = "none")
       /\ ctor'[p[1]] = "none" => ctor[p[1]] = "none" /\ queue'[p] \in {queue[p], <<>>}

LEMMA HoldersStepInv ==
  ASSUME WorkersInv, HoldersStep
  PROVE  PipesInv'
<1>1. PipeTypes /\ PostingHolds /\ PipesFlow
  BY DEF WorkersInv
<1>2. /\ waker' = waker /\ mutex' = mutex /\ current' = current /\ posted' = posted /\ received' = received
  BY DEF HoldersStep
<1>3. PipeTypes'
  BY <1>1, <1>2 DEF PipeTypes, HoldersStep
<1>4. PostingHolds'
  <2>1. ASSUME NEW p \in Pipes PROVE PostsTo(Sender(p), p)' <=> PostsTo(Sender(p), p)
    <3>1. PICK u \in Threads : u = Sender(p) /\ u = Sender(p)'
      BY PipeEnds DEF Sender
    <3>2. PostsTo(u, p)' <=> PostsTo(u, p)
      BY <1>2 DEF PostsTo, HoldersStep
    <3>3. QED
      BY <3>1, <3>2
  <2>2. QED
    BY <1>1, <1>2, <2>1 DEF PostingHolds, Sender, HoldersStep
<1>5. PipesFlow'
  <2>1. ASSUME NEW p \in Pipes, refCount'[p] > 0
        PROVE  Flows(queue'[p], waker'[p], mutex'[p], posted'[p], received'[p])
    <3>1. queue'[p] = queue[p] /\ (refCount[p] > 0 \/ ctor[p[1]] = "none")
      BY <2>1 DEF HoldersStep
    <3>2. CASE refCount[p] > 0
      BY <1>1, <1>2, <3>1, <3>2 DEF PipesFlow
    <3>3. CASE ctor[p[1]] = "none"
      <4>1. Unmade(queue[p], waker[p], mutex[p], posted[p], received[p])
        BY <1>1, <3>3 DEF PipesFlow
      <4>2. Flows(<<>>, 0, FALSE, 0, 0)
        BY DEF Flows
      <4>3. QED
        BY <1>2, <3>1, <4>1, <4>2 DEF Unmade
    <3>4. QED
      BY <3>1, <3>2, <3>3
  <2>2. ASSUME NEW p \in Pipes, ctor'[p[1]] = "none"
        PROVE  Unmade(queue'[p], waker'[p], mutex'[p], posted'[p], received'[p])
    <3>1. ctor[p[1]] = "none" /\ queue'[p] \in {queue[p], <<>>}
      BY <2>2 DEF HoldersStep
    <3>2. Unmade(queue[p], waker[p], mutex[p], posted[p], received[p])
      BY <1>1, <3>1 DEF PipesFlow
    <3>3. QED
      BY <1>2, <3>1, <3>2 DEF Unmade
  <2>3. QED
    BY <2>1, <2>2 DEF PipesFlow
<1>6. QED
  BY <1>3, <1>4, <1>5 DEF PipesInv

Counts == [Pipes -> Nat]
LEMMA OnceCounts ==
  /\ \A S : Once(S) \in Counts /\ \A p \in Pipes : Once(S)[p] = IF p \in S THEN 1 ELSE 0
  /\ \A S, T : Twice(S, T) \in Counts
               /\ \A p \in Pipes : Twice(S, T)[p] = (IF p \in S THEN 1 ELSE 0) + (IF p \in T THEN 1 ELSE 0)
BY DEF Once, Twice, Counts

(* The count falls to zero when its messages go, and not before. *)
Frees(n) ==
  /\ refCount' = [p \in Pipes |-> refCount[p] - n[p]]
  /\ queue' = [p \in Pipes |-> IF p \in Gone(n) THEN <<>> ELSE queue[p]]
PipesRest ==
  /\ UNCHANGED <<waker, mutex, current, posted, received>>
  /\ \A u \in Threads : pc'[u] = "posting" <=> pc[u] = "posting"
  /\ \A w \in WorkerIds : ctor'[w] = "none" => ctor[w] = "none"

LEMMA FreesInv ==
  ASSUME WorkersInv, NEW n \in Counts, Frees(n), PipesRest
  PROVE  PipesInv' /\ refCount' \in [Pipes -> Int] /\ \A p \in Pipes : refCount'[p] = refCount[p] - n[p]
<1>1. PipeTypes /\ ThreadTypes
  BY DEF WorkersInv
<1>2. refCount \in [Pipes -> Int] /\ queue \in [Pipes -> Seq(Messages)]
  BY <1>1 DEF PipeTypes, ThreadTypes
<1>3. refCount' \in [Pipes -> Int] /\ \A p \in Pipes : refCount'[p] = refCount[p] - n[p]
  BY <1>2 DEF Frees, Counts
<1>4. queue' \in [Pipes -> Seq(Messages)]
  <2>1. <<>> \in Seq(Messages)
    OBVIOUS
  <2>2. QED
    BY <1>2, <2>1 DEF Frees
<1>5. ASSUME NEW p \in Pipes
      PROVE  /\ refCount'[p] > 0 => queue'[p] = queue[p] /\ refCount[p] > 0
             /\ queue'[p] \in {queue[p], <<>>}
  <2>1. n[p] \in Nat /\ refCount[p] \in Int
    BY <1>2 DEF Counts
  <2>2. refCount'[p] > 0 => p \notin Gone(n)
    BY <1>3, <2>1 DEF Gone
  <2>3. refCount'[p] > 0 => refCount[p] > 0
    BY <1>3, <2>1
  <2>4. queue'[p] = IF p \in Gone(n) THEN <<>> ELSE queue[p]
    BY DEF Frees
  <2>5. QED
    BY <2>2, <2>3, <2>4
<1>6. HoldersStep
  BY <1>4, <1>5, PipeEnds DEF HoldersStep, PipesRest
<1>7. QED
  BY <1>3, <1>6, HoldersStepInv

LEMMA DupsInv ==
  ASSUME WorkersInv, NEW n \in Counts, DupPipes(n), PipesRest,
         \A p \in Pipes : n[p] > 0 => refCount[p] > 0 \/ ctor[p[1]] = "none"
  PROVE  PipesInv' /\ refCount' \in [Pipes -> Int] /\ \A p \in Pipes : refCount'[p] = refCount[p] + n[p]
<1>1. PipeTypes /\ ThreadTypes
  BY DEF WorkersInv
<1>2. refCount \in [Pipes -> Int] /\ queue \in [Pipes -> Seq(Messages)] /\ queue' = queue
  BY <1>1 DEF PipeTypes, ThreadTypes, DupPipes
<1>3. refCount' \in [Pipes -> Int] /\ \A p \in Pipes : refCount'[p] = refCount[p] + n[p]
  BY <1>2 DEF DupPipes, Added, Counts
<1>4. ASSUME NEW p \in Pipes, refCount'[p] > 0 PROVE refCount[p] > 0 \/ ctor[p[1]] = "none"
  <2>1. n[p] \in Nat /\ refCount[p] \in Int
    BY <1>2 DEF Counts
  <2>2. n[p] > 0 \/ refCount[p] > 0
    BY <1>3, <1>4, <2>1
  <2>3. QED
    BY <2>2
<1>5. HoldersStep
  BY <1>2, <1>4, PipeEnds DEF HoldersStep, PipesRest
<1>6. QED
  BY <1>3, <1>5, HoldersStepInv

(* The holders of a pipe after a step, and which of them may change. *)
LEMMA HoldersLater ==
  ASSUME NEW p \in Pipes, NEW w, w = p[1], NEW r, r = Reader(p)
  PROVE  /\ HolderCount(p) = (IF KeepsArgs(w) THEN 1 ELSE 0) + (IF w \in object[Main] THEN 1 ELSE 0)
              + (IF w \in object[w] THEN 1 ELSE 0) + (IF HasPort(r, w) THEN 1 ELSE 0)
         /\ HolderCount(p)' = (IF KeepsArgs(w)' THEN 1 ELSE 0) + (IF w \in object'[Main] THEN 1 ELSE 0)
              + (IF w \in object'[w] THEN 1 ELSE 0) + (IF HasPort(r, w)' THEN 1 ELSE 0)
BY DEF HolderCount, Reader

(* A pipe that somebody holds is counted. *)
LEMMA HeldCounted ==
  ASSUME WorkersInv, NEW p \in Pipes, NEW t \in Threads,
         KeepsArgs(p[1]) \/ (p[1] \in object[t])
  PROVE  refCount[p] > 0
<1>1. PICK w \in WorkerIds : w = p[1]
  BY PipeEnds
<1>2. PICK r : r = Reader(p)
  OBVIOUS
<1>3. KeepsArgs(w) \/ w \in object[Main] \/ w \in object[w]
  <2>1. w \in object[t] => t = Main \/ t = w
    BY ObjectOwner
  <2>2. QED
    BY <1>1, <2>1
<1>4. refCount[p] = HolderCount(p)
  BY DEF WorkersInv, HoldersCounted
<1>5. QED
  BY <1>1, <1>2, <1>3, <1>4, HoldersLater

LEMMA ThreadsKnown ==
  /\ Main \in Threads /\ Main \notin WorkerIds /\ \A w \in WorkerIds : w \in Threads /\ w # Main
  /\ \A t \in Threads : t = Main \/ t \in WorkerIds
BY WorkersAssumption DEF Threads

(* Both pipes of a worker once. *)
LEMMA OnceBoth ==
  ASSUME NEW w \in WorkerIds
  PROVE  /\ Once(PipesOf(w)) \in Counts
         /\ \A p \in Pipes : Once(PipesOf(w))[p] = IF p[1] = w THEN 1 ELSE 0
<1>1. \A p \in Pipes : p \in PipesOf(w) <=> p[1] = w
  BY PipeEnds
<1>2. QED
  BY <1>1, OnceCounts

(* js_worker_ctor. *)
LEMMA CtorPipesInv ==
  ASSUME WorkersInv, NEW w \in WorkerIds, CtorPipes(w)
  PROVE  WorkersInv'
<1>1. ThreadTypes /\ WorkerStages /\ PortsKept /\ HoldersCounted
  BY DEF WorkersInv
<1>2. /\ pc[Main] = "script" /\ ctor[w] = "none" /\ pc'[Main] = "ctor" /\ ctor'[w] = "pipes"
      /\ \A u \in WorkerIds : pc'[u] = pc[u]
      /\ \A v \in WorkerIds \ {w} : ctor'[v] = ctor[v]
      /\ pc' \in [Threads -> PcValues] /\ ctor' \in [WorkerIds -> CtorValues]
      /\ object' = object /\ ports' = ports /\ readable' = readable
  BY <1>1, ThreadsKnown DEF CtorPipes, ThreadTypes, PcValues, CtorValues
<1>3. PipesInv' /\ refCount' \in [Pipes -> Int]
      /\ \A p \in Pipes : refCount'[p] = refCount[p] + Once(PipesOf(w))[p]
  <2>1. Once(PipesOf(w)) \in Counts /\ DupPipes(Once(PipesOf(w)))
    BY OnceBoth DEF CtorPipes
  <2>2. PipesRest
    BY <1>2, ThreadsKnown DEF CtorPipes, PipesRest, history
  <2>3. \A p \in Pipes : Once(PipesOf(w))[p] > 0 => ctor[p[1]] = "none"
    BY <1>2, OnceBoth
  <2>4. QED
    BY <2>1, <2>2, <2>3, DupsInv
<1>4. ThreadTypes'
  BY <1>1, <1>2, <1>3 DEF ThreadTypes
<1>5. pc[w] = "none" /\ w \notin object[Main] /\ \A v \in WorkerIds : ctor[v] \notin {"pipes", "object"}
  BY <1>1, <1>2 DEF WorkerStages, Constructing
<1>6. WorkerStages'
  <2>1. \A v \in WorkerIds : ctor'[v] \in {"pipes", "object"} => v = w
    BY <1>2, <1>5
  <2>2. \A v \in WorkerIds : ctor'[v] = ctor[v] \/ v = w
    BY <1>2
  <2>3. QED
    BY <1>1, <1>2, <1>5, <2>1, <2>2 DEF WorkerStages, Constructing, HasPort
<1>7. PortsKept'
  BY <1>1, <1>2, ThreadsKnown DEF PortsKept, HasPort
<1>8. HoldersCounted'
  <2>1. ASSUME NEW p \in Pipes PROVE refCount'[p] = HolderCount(p)'
    <3>1. PICK v \in WorkerIds : v = p[1]
      BY PipeEnds
    <3>2. PICK r : r = Reader(p)
      OBVIOUS
    <3>3. refCount'[p] = refCount[p] + (IF v = w THEN 1 ELSE 0)
      BY <1>3, <3>1, OnceBoth
    <3>4. KeepsArgs(v)' <=> KeepsArgs(v) \/ v = w
      BY <1>2, <1>5 DEF KeepsArgs
    <3>5. v = w => ~KeepsArgs(v)
      BY <1>2 DEF KeepsArgs
    <3>6. HasPort(r, v)' <=> HasPort(r, v)
      BY <1>2 DEF HasPort
    <3>7. refCount[p] = HolderCount(p)
      BY <1>1 DEF HoldersCounted
    <3>8. QED
      BY <1>2, <3>1, <3>2, <3>3, <3>4, <3>5, <3>6, <3>7, HoldersLater
  <2>2. QED
    BY <2>1 DEF HoldersCounted
<1>9. QED
  BY <1>3, <1>4, <1>6, <1>7, <1>8 DEF PipesInv, WorkersInv

LEMMA CtorObjectInv ==
  ASSUME WorkersInv, NEW w \in WorkerIds, CtorObject(w)
  PROVE  WorkersInv'
<1>1. ThreadTypes /\ WorkerStages /\ PortsKept /\ HoldersCounted
  BY DEF WorkersInv
<1>2. /\ pc[Main] = "ctor" /\ ctor[w] = "pipes" /\ ctor'[w] = "object"
      /\ \A v \in WorkerIds \ {w} : ctor'[v] = ctor[v]
      /\ ctor' \in [WorkerIds -> CtorValues] /\ object' \in [Threads -> SUBSET WorkerIds]
      /\ object'[Main] = object[Main] \cup {w} /\ \A u \in WorkerIds : object'[u] = object[u]
      /\ pc' = pc /\ ports' = ports /\ readable' = readable
  BY <1>1, ThreadsKnown DEF CtorObject, ThreadTypes, CtorValues
<1>3. pc[w] = "none" /\ w \notin object[Main] /\ ~HasPort(Main, w)
  BY <1>1, <1>2, ThreadsKnown DEF WorkerStages, PortsKept
<1>4. PipesInv' /\ refCount' \in [Pipes -> Int]
      /\ \A p \in Pipes : refCount'[p] = refCount[p] + Once(PipesOf(w))[p]
  <2>1. Once(PipesOf(w)) \in Counts /\ DupPipes(Once(PipesOf(w)))
    BY OnceBoth DEF CtorObject
  <2>2. PipesRest
    BY <1>2 DEF CtorObject, PipesRest, history
  <2>3. ASSUME NEW p \in Pipes, Once(PipesOf(w))[p] > 0 PROVE refCount[p] > 0
    <3>1. p[1] = w
      BY <2>3, OnceBoth
    <3>2. KeepsArgs(w)
      BY <1>2, <1>3 DEF KeepsArgs
    <3>3. QED
      BY <3>1, <3>2, HeldCounted, ThreadsKnown
  <2>4. QED
    BY <2>1, <2>2, <2>3, DupsInv
<1>5. ThreadTypes'
  BY <1>1, <1>2, <1>4 DEF ThreadTypes
<1>6. WorkerStages'
  <2>1. \A v \in WorkerIds : ctor'[v] \in {"pipes", "object"} => ctor[v] \in {"pipes", "object"}
    BY <1>2
  <2>2. \A v \in WorkerIds : ctor'[v] = ctor[v] \/ v = w
    BY <1>2
  <2>3. \A v \in WorkerIds : v \in object'[Main] <=> v \in object[Main] \/ v = w
    BY <1>2
  <2>4. QED
    BY <1>1, <1>2, <1>3, <2>1, <2>2, <2>3 DEF WorkerStages, Constructing, HasPort
<1>7. PortsKept'
  BY <1>1, <1>2, ThreadsKnown DEF PortsKept, HasPort
<1>8. HoldersCounted'
  <2>1. ASSUME NEW p \in Pipes PROVE refCount'[p] = HolderCount(p)'
    <3>1. PICK v \in WorkerIds : v = p[1]
      BY PipeEnds
    <3>2. PICK r : r = Reader(p)
      OBVIOUS
    <3>3. refCount'[p] = refCount[p] + (IF v = w THEN 1 ELSE 0)
      BY <1>4, <3>1, OnceBoth
    <3>4. KeepsArgs(v)' <=> KeepsArgs(v)
      BY <1>2 DEF KeepsArgs
    <3>5. v \in object'[Main] <=> v \in object[Main] \/ v = w
      BY <1>2
    <3>6. HasPort(r, v)' <=> HasPort(r, v)
      BY <1>2 DEF HasPort
    <3>7. refCount[p] = HolderCount(p) /\ object'[v] = object[v]
      BY <1>1, <1>2 DEF HoldersCounted
    <3>8. QED
      BY <1>3, <3>1, <3>2, <3>3, <3>4, <3>5, <3>6, <3>7, HoldersLater
  <2>2. QED
    BY <2>1 DEF HoldersCounted
<1>9. QED
  BY <1>4, <1>5, <1>6, <1>7, <1>8 DEF PipesInv, WorkersInv

LEMMA CtorThreadInv ==
  ASSUME WorkersInv, NEW w \in WorkerIds, CtorThread(w)
  PROVE  WorkersInv'
<1>1. ThreadTypes /\ PipeTypes /\ WorkerStages /\ PortsKept /\ HoldersCounted
  BY DEF WorkersInv
<1>2. /\ pc[Main] = "ctor" /\ ctor[w] = "object" /\ ctor'[w] = "started" /\ pc'[Main] = "script" /\ pc'[w] = "created"
      /\ \A v \in WorkerIds \ {w} : ctor'[v] = ctor[v] /\ pc'[v] = pc[v]
      /\ pc' \in [Threads -> PcValues] /\ ctor' \in [WorkerIds -> CtorValues]
      /\ object' = object /\ ports' = ports /\ readable' = readable /\ refCount' = refCount /\ queue' = queue
  BY <1>1, ThreadsKnown DEF CtorThread, ThreadTypes, PcValues, CtorValues, pipeState
<1>3. /\ pc[w] = "none" /\ w \in object[Main] /\ object[w] = {}
      /\ \A v \in WorkerIds \ {w} : ctor[v] \notin {"pipes", "object"}
  BY <1>1, <1>2 DEF WorkerStages, Constructing
<1>4. PipesInv'
  <2>1. queue \in [Pipes -> Seq(Messages)] /\ UNCHANGED <<waker, mutex, current, posted, received>>
    BY <1>1 DEF PipeTypes, CtorThread, pipeState, history
  <2>2. \A u \in Threads : pc'[u] = "posting" <=> pc[u] = "posting"
    BY <1>2, <1>3, ThreadsKnown
  <2>3. \A p \in Pipes : ctor'[p[1]] = "none" => ctor[p[1]] = "none"
    BY <1>2, PipeEnds
  <2>4. HoldersStep
    BY <1>2, <2>1, <2>2, <2>3 DEF HoldersStep
  <2>5. QED
    BY <2>4, HoldersStepInv
<1>5. ThreadTypes'
  BY <1>1, <1>2 DEF ThreadTypes
<1>6. WorkerStages'
  <2>1. \A v \in WorkerIds : ctor'[v] \notin {"pipes", "object"}
    BY <1>2, <1>3
  <2>2. \A v \in WorkerIds : v = w \/ (ctor'[v] = ctor[v] /\ pc'[v] = pc[v])
    BY <1>2
  <2>3. QED
    BY <1>1, <1>2, <1>3, <2>1, <2>2 DEF WorkerStages, Constructing, HasPort
<1>7. PortsKept'
  BY <1>1, <1>2, ThreadsKnown DEF PortsKept, HasPort
<1>8. HoldersCounted'
  <2>1. ASSUME NEW p \in Pipes PROVE refCount'[p] = HolderCount(p)'
    <3>1. PICK v \in WorkerIds : v = p[1]
      BY PipeEnds
    <3>2. PICK r : r = Reader(p)
      OBVIOUS
    <3>3. KeepsArgs(v)' <=> KeepsArgs(v)
      BY <1>2, <1>3 DEF KeepsArgs
    <3>4. HasPort(r, v)' <=> HasPort(r, v)
      BY <1>2 DEF HasPort
    <3>5. refCount[p] = HolderCount(p)
      BY <1>1 DEF HoldersCounted
    <3>6. QED
      BY <1>2, <3>1, <3>2, <3>3, <3>4, <3>5, HoldersLater
  <2>2. QED
    BY <2>1 DEF HoldersCounted
<1>9. QED
  BY <1>4, <1>5, <1>6, <1>7, <1>8 DEF PipesInv, WorkersInv

LEMMA CtorFailInv ==
  ASSUME WorkersInv, NEW w \in WorkerIds, CtorFail(w)
  PROVE  WorkersInv'
<1> DEFINE n == Twice(PipesOf(w), IF ctor[w] = "object" THEN PipesOf(w) ELSE {})
<1>1. ThreadTypes /\ WorkerStages /\ PortsKept /\ HoldersCounted
  BY DEF WorkersInv
<1>2. /\ pc[Main] = "ctor" /\ ctor[w] \in {"pipes", "object"} /\ ctor'[w] = "failed" /\ pc'[Main] = "script"
      /\ \A v \in WorkerIds \ {w} : ctor'[v] = ctor[v]
      /\ \A v \in WorkerIds : pc'[v] = pc[v] /\ object'[v] = object[v]
      /\ pc' \in [Threads -> PcValues] /\ ctor' \in [WorkerIds -> CtorValues]
      /\ object' \in [Threads -> SUBSET WorkerIds] /\ object'[Main] = object[Main] \ {w}
      /\ ports' = ports /\ readable' = readable
  BY <1>1, ThreadsKnown DEF CtorFail, ThreadTypes, PcValues, CtorValues
<1>3. /\ pc[w] = "none" /\ (w \in object[Main] <=> ctor[w] = "object") /\ ~HasPort(Main, w)
      /\ \A v \in WorkerIds \ {w} : ctor[v] \notin {"pipes", "object"}
  BY <1>1, <1>2, ThreadsKnown DEF WorkerStages, Constructing, PortsKept
<1>4. /\ n \in Counts
      /\ \A p \in Pipes : n[p] = IF p[1] = w THEN IF ctor[w] = "object" THEN 2 ELSE 1 ELSE 0
  <2>1. \A p \in Pipes : p \in PipesOf(w) <=> p[1] = w
    BY PipeEnds
  <2>2. CASE ctor[w] = "object"
    <3>1. n = Twice(PipesOf(w), PipesOf(w))
      BY <2>2
    <3> HIDE DEF n
    <3>2. QED
      BY <2>1, <2>2, <3>1, OnceCounts
  <2>3. CASE ctor[w] # "object"
    <3>1. n = Twice(PipesOf(w), {})
      BY <2>3
    <3> HIDE DEF n
    <3>2. QED
      BY <2>1, <2>3, <3>1, OnceCounts
  <2>4. QED
    BY <2>2, <2>3
<1>5. Frees(n)
  BY DEF CtorFail, FreePipes, Frees
<1> HIDE DEF n
<1>6. PipesInv' /\ refCount' \in [Pipes -> Int] /\ \A p \in Pipes : refCount'[p] = refCount[p] - n[p]
  <2>1. PipesRest
    BY <1>2, ThreadsKnown DEF CtorFail, PipesRest, history
  <2>2. QED
    BY <1>4, <1>5, <2>1, FreesInv
<1>7. ThreadTypes'
  BY <1>1, <1>2, <1>6 DEF ThreadTypes
<1>8. WorkerStages'
  <2>1. \A v \in WorkerIds : ctor'[v] \notin {"pipes", "object"}
    BY <1>2, <1>3
  <2>2. \A v \in WorkerIds : v = w \/ ctor'[v] = ctor[v]
    BY <1>2
  <2>3. QED
    BY <1>1, <1>2, <1>3, <2>1, <2>2 DEF WorkerStages, Constructing, HasPort
<1>9. PortsKept'
  <2>1. ASSUME NEW t \in Threads, NEW v \in WorkerIds, HasPort(t, v)' PROVE v \in object'[t]
    <3>1. HasPort(t, v)
      BY <1>2, <2>1 DEF HasPort
    <3>2. v \in object[t] /\ (t = Main => v # w)
      BY <1>1, <1>3, <3>1 DEF PortsKept
    <3>3. QED
      BY <1>2, <3>2, ThreadsKnown
  <2>2. QED
    BY <1>1, <1>2, <2>1, ThreadsKnown DEF PortsKept
<1>10. HoldersCounted'
  <2>1. ASSUME NEW p \in Pipes PROVE refCount'[p] = HolderCount(p)'
    <3>1. PICK v \in WorkerIds : v = p[1]
      BY PipeEnds
    <3>2. PICK r : r = Reader(p)
      OBVIOUS
    <3>3. HasPort(r, v)' <=> HasPort(r, v)
      BY <1>2 DEF HasPort
    <3>4. refCount[p] = HolderCount(p)
      BY <1>1 DEF HoldersCounted
    <3>5. /\ refCount[p] \in Int
          /\ refCount'[p] = refCount[p] - (IF v = w THEN IF ctor[w] = "object" THEN 2 ELSE 1 ELSE 0)
      <4>1. refCount[p] \in Int /\ refCount'[p] = refCount[p] - n[p]
        BY <1>1, <1>6 DEF ThreadTypes
      <4>2. n[p] = IF v = w THEN IF ctor[w] = "object" THEN 2 ELSE 1 ELSE 0
        BY <1>4, <3>1
      <4>3. QED
        BY <4>1, <4>2
    <3>6. CASE v = w
      <4>1. KeepsArgs(v) /\ ~KeepsArgs(v)'
        BY <1>2, <1>3, <3>6 DEF KeepsArgs
      <4>2. (v \in object[Main] <=> ctor[w] = "object") /\ v \notin object'[Main] /\ object'[v] = object[v]
        BY <1>2, <1>3, <3>6
      <4>3. CASE ctor[w] = "object"
        <5>1. refCount'[p] = refCount[p] - 2
          BY <3>5, <3>6, <4>3
        <5>2. QED
          BY <3>1, <3>2, <3>3, <3>4, <4>1, <4>2, <4>3, <5>1, HoldersLater
      <4>4. CASE ctor[w] # "object"
        <5>1. refCount'[p] = refCount[p] - 1
          BY <3>5, <3>6, <4>4
        <5>2. QED
          BY <3>1, <3>2, <3>3, <3>4, <4>1, <4>2, <4>4, <5>1, HoldersLater
      <4>5. QED
        BY <4>3, <4>4
    <3>7. CASE v # w
      <4>1. KeepsArgs(v)' <=> KeepsArgs(v)
        BY <1>2, <3>7 DEF KeepsArgs
      <4>2. refCount'[p] = refCount[p] /\ (v \in object'[Main] <=> v \in object[Main])
        BY <1>2, <3>5, <3>7
      <4>3. QED
        BY <1>2, <3>1, <3>2, <3>3, <3>4, <4>1, <4>2, HoldersLater
    <3>8. QED
      BY <3>6, <3>7
  <2>2. QED
    BY <2>1 DEF HoldersCounted
<1>11. QED
  BY <1>6, <1>7, <1>8, <1>9, <1>10 DEF PipesInv, WorkersInv

(* The thread of a worker starts and ends. *)
LEMMA WorkerStartsInv ==
  ASSUME WorkersInv, NEW w \in WorkerIds, WorkerStarts(w)
  PROVE  WorkersInv'
<1>1. ThreadTypes /\ WorkerStages /\ PortsKept /\ HoldersCounted
  BY DEF WorkersInv
<1>2. /\ pc[w] = "created" /\ pc'[w] = "script" /\ \A u \in Threads \ {w} : pc'[u] = pc[u] /\ object'[u] = object[u]
      /\ pc' \in [Threads -> PcValues] /\ object' \in [Threads -> SUBSET WorkerIds]
      /\ object'[w] = {w} /\ ctor' = ctor /\ ports' = ports /\ readable' = readable
  BY <1>1, ThreadsKnown DEF WorkerStarts, ThreadTypes, PcValues
<1>3. ctor[w] = "started" /\ object[w] = {}
  BY <1>1, <1>2 DEF WorkerStages
<1>4. PipesInv' /\ refCount' \in [Pipes -> Int]
      /\ \A p \in Pipes : refCount'[p] = refCount[p] + Once(PipesOf(w))[p]
  <2>1. Once(PipesOf(w)) \in Counts /\ DupPipes(Once(PipesOf(w)))
    BY OnceBoth DEF WorkerStarts
  <2>2. PipesRest
    BY <1>2 DEF WorkerStarts, PipesRest, history
  <2>3. ASSUME NEW p \in Pipes, Once(PipesOf(w))[p] > 0 PROVE refCount[p] > 0
    <3>1. p[1] = w
      BY <2>3, OnceBoth
    <3>2. KeepsArgs(w)
      BY <1>2, <1>3 DEF KeepsArgs
    <3>3. QED
      BY <3>1, <3>2, HeldCounted, ThreadsKnown
  <2>4. QED
    BY <2>1, <2>2, <2>3, DupsInv
<1>5. ThreadTypes'
  BY <1>1, <1>2, <1>4 DEF ThreadTypes
<1>6. WorkerStages'
  <2>1. pc'[Main] = pc[Main] /\ object'[Main] = object[Main]
    BY <1>2, ThreadsKnown
  <2>2. \A v \in WorkerIds : v = w \/ (pc'[v] = pc[v] /\ object'[v] = object[v])
    BY <1>2, ThreadsKnown
  <2>3. QED
    BY <1>1, <1>2, <1>3, <2>1, <2>2 DEF WorkerStages, Constructing, HasPort
<1>7. PortsKept'
  <2>1. \A t \in Threads, v \in WorkerIds : HasPort(t, v) => t # w
    BY <1>1, <1>3 DEF PortsKept
  <2>2. QED
    BY <1>1, <1>2, <2>1 DEF PortsKept, HasPort
<1>8. HoldersCounted'
  <2>1. ASSUME NEW p \in Pipes PROVE refCount'[p] = HolderCount(p)'
    <3>1. PICK v \in WorkerIds : v = p[1]
      BY PipeEnds
    <3>2. PICK r : r = Reader(p)
      OBVIOUS
    <3>3. refCount'[p] = refCount[p] + (IF v = w THEN 1 ELSE 0)
      BY <1>4, <3>1, OnceBoth
    <3>4. KeepsArgs(v)' <=> KeepsArgs(v)
      BY <1>2, ThreadsKnown DEF KeepsArgs
    <3>5. v \in object'[v] <=> v \in object[v] \/ v = w
      BY <1>2, <1>3, ThreadsKnown
    <3>6. HasPort(r, v)' <=> HasPort(r, v)
      BY <1>2 DEF HasPort
    <3>7. refCount[p] = HolderCount(p) /\ object'[Main] = object[Main]
      BY <1>1, <1>2, ThreadsKnown DEF HoldersCounted
    <3>8. QED
      BY <1>3, <3>1, <3>2, <3>3, <3>4, <3>5, <3>6, <3>7, HoldersLater
  <2>2. QED
    BY <2>1 DEF HoldersCounted
<1>9. QED
  BY <1>4, <1>5, <1>6, <1>7, <1>8 DEF PipesInv, WorkersInv

LEMMA FreeHandlersInv ==
  ASSUME WorkersInv, NEW w \in WorkerIds, FreeHandlers(w)
  PROVE  WorkersInv'
<1>1. ThreadTypes /\ WorkerStages /\ PortsKept /\ HoldersCounted
  BY DEF WorkersInv
<1>2. /\ pc[w] = "exiting" /\ pc'[w] = "freeing" /\ \A u \in Threads \ {w} : pc'[u] = pc[u]
      /\ pc' \in [Threads -> PcValues]
      /\ ctor' = ctor /\ object' = object /\ ports' = ports /\ readable' = readable
  BY <1>1, ThreadsKnown DEF FreeHandlers, ThreadTypes, PcValues
<1>3. ctor[w] = "started" /\ ports[w] = <<>>
  BY <1>1, <1>2 DEF WorkerStages
<1>4. PipesInv' /\ refCount' \in [Pipes -> Int]
      /\ \A p \in Pipes : refCount'[p] = refCount[p] - Once(PipesOf(w))[p]
  <2>1. Once(PipesOf(w)) \in Counts /\ Frees(Once(PipesOf(w)))
    BY OnceBoth DEF FreeHandlers, FreePipes, Frees
  <2>2. PipesRest
    BY <1>2 DEF FreeHandlers, PipesRest, history
  <2>3. QED
    BY <2>1, <2>2, FreesInv
<1>5. ThreadTypes'
  BY <1>1, <1>2, <1>4 DEF ThreadTypes
<1>6. WorkerStages'
  <2>1. pc'[Main] = pc[Main] /\ \A v \in WorkerIds : v = w \/ pc'[v] = pc[v]
    BY <1>2, ThreadsKnown
  <2>2. QED
    BY <1>1, <1>2, <1>3, <2>1 DEF WorkerStages, Constructing, HasPort
<1>7. PortsKept'
  BY <1>1, <1>2 DEF PortsKept, HasPort
<1>8. HoldersCounted'
  <2>1. ASSUME NEW p \in Pipes PROVE refCount'[p] = HolderCount(p)'
    <3>1. PICK v \in WorkerIds : v = p[1]
      BY PipeEnds
    <3>2. PICK r : r = Reader(p)
      OBVIOUS
    <3>3. refCount'[p] = refCount[p] - (IF v = w THEN 1 ELSE 0)
      BY <1>4, <3>1, OnceBoth
    <3>4. KeepsArgs(v)' <=> KeepsArgs(v) /\ v # w
      BY <1>2, ThreadsKnown DEF KeepsArgs
    <3>5. v = w => KeepsArgs(v)
      BY <1>2, <1>3 DEF KeepsArgs
    <3>6. HasPort(r, v)' <=> HasPort(r, v)
      BY <1>2 DEF HasPort
    <3>7. refCount[p] = HolderCount(p)
      BY <1>1 DEF HoldersCounted
    <3>8. QED
      BY <1>2, <3>1, <3>2, <3>3, <3>4, <3>5, <3>6, <3>7, HoldersLater
  <2>2. QED
    BY <2>1 DEF HoldersCounted
<1>9. QED
  BY <1>4, <1>5, <1>6, <1>7, <1>8 DEF PipesInv, WorkersInv

LEMMA FreeRuntimeInv ==
  ASSUME WorkersInv, NEW w \in WorkerIds, FreeRuntime(w)
  PROVE  WorkersInv'
<1> DEFINE n == Once(IF w \in object[w] THEN PipesOf(w) ELSE {})
<1>1. ThreadTypes /\ WorkerStages /\ PortsKept /\ HoldersCounted
  BY DEF WorkersInv
<1>2. /\ pc[w] = "freeing" /\ pc'[w] = "ended" /\ \A u \in Threads \ {w} : pc'[u] = pc[u] /\ object'[u] = object[u]
      /\ pc' \in [Threads -> PcValues] /\ object' \in [Threads -> SUBSET WorkerIds]
      /\ object'[w] = {} /\ ctor' = ctor /\ ports' = ports /\ readable' = readable
  BY <1>1, ThreadsKnown DEF FreeRuntime, ThreadTypes, PcValues
<1>3. ctor[w] = "started" /\ ports[w] = <<>>
  BY <1>1, <1>2 DEF WorkerStages
<1>4. /\ n \in Counts
      /\ \A p \in Pipes : n[p] = IF p[1] = w /\ w \in object[w] THEN 1 ELSE 0
  <2>1. \A p \in Pipes : p \in PipesOf(w) <=> p[1] = w
    BY PipeEnds
  <2>2. QED
    BY <2>1, OnceCounts
<1>5. Frees(n)
  BY DEF FreeRuntime, Frees
<1> HIDE DEF n
<1>6. PipesInv' /\ refCount' \in [Pipes -> Int] /\ \A p \in Pipes : refCount'[p] = refCount[p] - n[p]
  <2>1. PipesRest
    BY <1>2 DEF FreeRuntime, PipesRest, history
  <2>2. QED
    BY <1>4, <1>5, <2>1, FreesInv
<1>7. ThreadTypes'
  BY <1>1, <1>2, <1>6 DEF ThreadTypes
<1>8. WorkerStages'
  <2>1. pc'[Main] = pc[Main] /\ object'[Main] = object[Main]
    BY <1>2, ThreadsKnown
  <2>2. \A v \in WorkerIds : v = w \/ (pc'[v] = pc[v] /\ object'[v] = object[v])
    BY <1>2, ThreadsKnown
  <2>3. QED
    BY <1>1, <1>2, <1>3, <2>1, <2>2 DEF WorkerStages, Constructing, HasPort
<1>9. PortsKept'
  <2>1. \A v \in WorkerIds : ~HasPort(w, v)
    BY <1>3 DEF HasPort
  <2>2. \A t \in Threads, v \in WorkerIds : HasPort(t, v)' => HasPort(t, v) /\ t # w
    BY <1>2, <2>1 DEF HasPort
  <2>3. QED
    BY <1>1, <1>2, <2>2 DEF PortsKept
<1>10. HoldersCounted'
  <2>1. ASSUME NEW p \in Pipes PROVE refCount'[p] = HolderCount(p)'
    <3>1. PICK v \in WorkerIds : v = p[1]
      BY PipeEnds
    <3>2. PICK r : r = Reader(p)
      OBVIOUS
    <3>3. refCount'[p] = refCount[p] - (IF v = w /\ w \in object[w] THEN 1 ELSE 0)
      BY <1>4, <1>6, <3>1
    <3>4. KeepsArgs(v)' <=> KeepsArgs(v)
      BY <1>2, ThreadsKnown DEF KeepsArgs
    <3>5. v \in object'[v] <=> v \in object[v] /\ v # w
      BY <1>2, ThreadsKnown
    <3>6. HasPort(r, v)' <=> HasPort(r, v)
      BY <1>2 DEF HasPort
    <3>7. refCount[p] = HolderCount(p) /\ object'[Main] = object[Main]
      BY <1>1, <1>2, ThreadsKnown DEF HoldersCounted
    <3>8. QED
      BY <3>1, <3>2, <3>3, <3>4, <3>5, <3>6, <3>7, HoldersLater
  <2>2. QED
    BY <2>1 DEF HoldersCounted
<1>11. QED
  BY <1>6, <1>7, <1>8, <1>9, <1>10 DEF PipesInv, WorkersInv

(* Ports: one for each object at most. *)
LEMMA WithoutOnce ==
  ASSUME NEW S, NEW s \in Seq(S), OnceEach(s), NEW w
  PROVE  /\ Without(s, w) \in Seq(S) /\ OnceEach(Without(s, w))
         /\ \A x : Listed(x, Without(s, w)) <=> Listed(x, s) /\ x # w
<1>1. CASE Listed(w, s)
  <2>1. PICK i \in DOMAIN s : s[i] = w /\ Without(s, w) = RemoveAt(s, i)
    BY <1>1 DEF Without, Listed
  <2>2. QED
    BY <2>1, RemoveAtOnce
<1>2. CASE ~Listed(w, s)
  <2>1. Without(s, w) = s
    BY <1>2 DEF Without, Listed
  <2>2. QED
    BY <1>2, <2>1
<1>3. QED
  BY <1>1, <1>2

LEMMA OnceReceiver ==
  ASSUME NEW t \in Threads, NEW w \in WorkerIds, t # Main => t = w
  PROVE  /\ Once({RecvPipe(t, w)}) \in Counts
         /\ \A p \in Pipes : Once({RecvPipe(t, w)})[p] = IF p[1] = w /\ Reader(p) = t THEN 1 ELSE 0
<1>1. \A p \in Pipes : p \in {RecvPipe(t, w)} <=> p[1] = w /\ Reader(p) = t
  BY PipeEnds
<1>2. QED
  BY <1>1, OnceCounts

(* What a script does to its own objects and ports: has says which ports t
   has afterwards. *)
PortsStep(t, w, has) ==
  /\ pc[t] = "script" /\ w \in object[t] /\ pc' = pc /\ ctor' = ctor /\ readable' = readable
  /\ ports' \in [Threads -> Seq(WorkerIds)] /\ OnceEach(ports'[t])
  /\ \A u \in Threads \ {t} : ports'[u] = ports[u] /\ object'[u] = object[u]
  /\ \A v \in WorkerIds : HasPort(t, v)' <=> (IF v = w THEN has = TRUE ELSE HasPort(t, v))
  /\ object' \in [Threads -> SUBSET WorkerIds] /\ object[t] \ {w} \subseteq object'[t] /\ object'[t] \subseteq object[t]
  /\ has = TRUE => w \in object'[t]

LEMMA PortsStepInv ==
  ASSUME WorkersInv, NEW t \in Threads, NEW w \in WorkerIds, NEW has \in BOOLEAN, PortsStep(t, w, has),
         refCount' \in [Pipes -> Int]
  PROVE  ThreadTypes' /\ WorkerStages' /\ PortsKept'
<1>1. ThreadTypes /\ WorkerStages /\ PortsKept
  BY DEF WorkersInv
<1>2. /\ pc[t] = "script" /\ w \in object[t] /\ pc' = pc /\ ctor' = ctor /\ readable' = readable
      /\ \A u \in Threads : u = t \/ (ports'[u] = ports[u] /\ object'[u] = object[u])
      /\ \A v \in WorkerIds : HasPort(t, v)' <=> (IF v = w THEN has = TRUE ELSE HasPort(t, v))
      /\ object[t] \ {w} \subseteq object'[t] /\ object'[t] \subseteq object[t]
      /\ has = TRUE => w \in object'[t]
  BY DEF PortsStep
<1>3. ThreadTypes'
  BY <1>1 DEF PortsStep, ThreadTypes
<1>4. \A u \in Threads, v \in WorkerIds : u # t => (HasPort(u, v)' <=> HasPort(u, v))
  BY <1>2 DEF HasPort
<1>5. WorkerStages'
  <2>1. \A v \in WorkerIds : ctor[v] = "object" => v \in object'[Main] /\ ~HasPort(Main, v)'
    <3>1. SUFFICES ASSUME NEW v \in WorkerIds, ctor[v] = "object" PROVE v \in object'[Main] /\ ~HasPort(Main, v)'
      OBVIOUS
    <3>2. pc[Main] = "ctor" /\ v \in object[Main] /\ ~HasPort(Main, v)
      BY <1>1, <3>1 DEF WorkerStages, Constructing
    <3>3. Main # t
      BY <1>2, <3>2
    <3>4. QED
      BY <1>2, <1>4, <3>2, <3>3, ThreadsKnown
  <2>2. \A u \in Threads : object'[u] \subseteq object[u]
    BY <1>2
  <2>3. \A v \in WorkerIds : pc[v] \in {"exiting", "freeing"} => ports'[v] = <<>>
    BY <1>1, <1>2, ThreadsKnown DEF WorkerStages
  <2>4. \A v \in WorkerIds : pc[v] \in {"none", "created", "ended"} => object'[v] = {}
    BY <1>1, <2>2, ThreadsKnown DEF WorkerStages
  <2>5. \A v \in WorkerIds : ctor[v] \in {"none", "pipes", "failed"} => v \notin object'[Main]
    BY <1>1, <2>2, ThreadsKnown DEF WorkerStages
  <2>6. \A v \in WorkerIds : object'[v] \subseteq {v}
    BY <1>1, <2>2, ThreadsKnown DEF WorkerStages
  <2>7. QED
    BY <1>1, <1>2, <2>1, <2>3, <2>4, <2>5, <2>6 DEF WorkerStages, Constructing
<1>6. PortsKept'
  <2>1. ASSUME NEW u \in Threads, NEW v \in WorkerIds, HasPort(u, v)' PROVE v \in object'[u]
    <3>1. CASE u = t
      BY <1>1, <1>2, <2>1, <3>1 DEF PortsKept
    <3>2. CASE u # t
      BY <1>1, <1>2, <1>4, <2>1, <3>2 DEF PortsKept
    <3>3. QED
      BY <3>1, <3>2
  <2>2. \A u \in Threads : OnceEach(ports'[u])
    BY <1>1, <1>2 DEF PortsKept, PortsStep
  <2>3. \A u \in Threads : pc[u] = "selected" => readable[u] \subseteq DOMAIN ports'[u]
    BY <1>1, <1>2 DEF PortsKept
  <2>4. QED
    BY <1>2, <2>1, <2>2, <2>3 DEF PortsKept
<1>7. QED
  BY <1>3, <1>5, <1>6

(* The count of each pipe, told from what changed of its holders. *)
Recounted(t, w, has, had, dropped) ==
  /\ dropped = TRUE <=> w \notin object'[t]
  /\ had = TRUE <=> HasPort(t, w)
  /\ \A p \in Pipes : refCount'[p] = refCount[p]
       - (IF p[1] = w /\ dropped = TRUE THEN 1 ELSE 0)
       - (IF p[1] = w /\ Reader(p) = t /\ had = TRUE /\ has = FALSE THEN 1 ELSE 0)
       + (IF p[1] = w /\ Reader(p) = t /\ had = FALSE /\ has = TRUE THEN 1 ELSE 0)

LEMMA PortsStepCounts ==
  ASSUME WorkersInv, NEW t \in Threads, NEW w \in WorkerIds, NEW has \in BOOLEAN, PortsStep(t, w, has),
         t # Main => t = w,
         NEW had \in BOOLEAN, NEW dropped \in BOOLEAN, Recounted(t, w, has, had, dropped)
  PROVE  HoldersCounted'
<1>1. /\ w \in object[t] /\ pc' = pc /\ ctor' = ctor
      /\ \A u \in Threads : u = t \/ (ports'[u] = ports[u] /\ object'[u] = object[u])
      /\ \A v \in WorkerIds : HasPort(t, v)' <=> (IF v = w THEN has = TRUE ELSE HasPort(t, v))
      /\ object[t] \ {w} \subseteq object'[t] /\ object'[t] \subseteq object[t]
  BY DEF PortsStep
<1>2. ASSUME NEW p \in Pipes PROVE refCount'[p] = HolderCount(p)'
  <2>1. PICK v \in WorkerIds : v = p[1]
    BY PipeEnds
  <2>2. PICK r \in Threads : r = Reader(p)
    BY PipeEnds
  <2>3. KeepsArgs(v)' <=> KeepsArgs(v)
    BY <1>1 DEF KeepsArgs
  <2>4. r # t => (HasPort(r, v)' <=> HasPort(r, v))
    BY <1>1, <2>2 DEF HasPort
  <2>5. refCount[p] = HolderCount(p) /\ refCount[p] \in Int
    BY DEF WorkersInv, HoldersCounted, ThreadTypes
  <2>6. CASE v # w
    <3>1. refCount'[p] = refCount[p]
      BY <2>1, <2>5, <2>6 DEF Recounted
    <3>2. \A u \in Threads : v \in object'[u] <=> v \in object[u]
      BY <1>1, <2>6
    <3>3. HasPort(r, v)' <=> HasPort(r, v)
      BY <1>1, <2>4, <2>6
    <3>4. QED
      BY <2>1, <2>2, <2>3, <2>5, <3>1, <3>2, <3>3, HoldersLater, ThreadsKnown
  <2>7. CASE v = w
    <3>1. refCount'[p] = refCount[p] - (IF dropped = TRUE THEN 1 ELSE 0)
            - (IF r = t /\ had = TRUE /\ has = FALSE THEN 1 ELSE 0)
            + (IF r = t /\ had = FALSE /\ has = TRUE THEN 1 ELSE 0)
      BY <2>1, <2>2, <2>7 DEF Recounted
    <3>2. HasPort(r, v)' <=> (IF r = t THEN has = TRUE ELSE HasPort(r, v))
      BY <1>1, <2>4, <2>7
    <3>3. r = t => (HasPort(r, v) <=> had = TRUE)
      BY <2>7 DEF Recounted
    <3>4. CASE t = Main
      <4>1. v \in object[Main] /\ (v \in object'[Main] <=> dropped = FALSE) /\ object'[v] = object[v]
        BY <1>1, <2>7, <3>4, ThreadsKnown DEF Recounted
      <4>2. QED
        BY <2>1, <2>2, <2>3, <2>5, <3>1, <3>2, <3>3, <4>1, HoldersLater
    <3>5. CASE t = v /\ t # Main
      <4>1. v \in object[v] /\ (v \in object'[v] <=> dropped = FALSE) /\ object'[Main] = object[Main]
        BY <1>1, <2>7, <3>5, ThreadsKnown DEF Recounted
      <4>2. QED
        BY <2>1, <2>2, <2>3, <2>5, <3>1, <3>2, <3>3, <4>1, HoldersLater
    <3>6. QED
      BY <2>7, <3>4, <3>5
  <2>8. QED
    BY <2>6, <2>7
<1>3. QED
  BY <1>2 DEF HoldersCounted

LEMMA SetOnmessageInv ==
  ASSUME WorkersInv, NEW t \in Threads, NEW w \in WorkerIds, SetOnmessage(t, w)
  PROVE  WorkersInv'
<1>1. ThreadTypes /\ PortsKept
  BY DEF WorkersInv
<1>2. /\ pc[t] = "script" /\ w \in object[t] /\ ~HasPort(t, w)
      /\ UNCHANGED <<pc, ctor, object, readable>>
      /\ ports' = [ports EXCEPT ![t] = Append(@, w)] /\ DupPipes(Once({RecvPipe(t, w)}))
  BY DEF SetOnmessage
<1>3. t # Main => t = w
  BY <1>2, ObjectOwner
<1>4. ports[t] \in Seq(WorkerIds) /\ OnceEach(ports[t]) /\ ~Listed(w, ports[t])
  BY <1>1, <1>2 DEF ThreadTypes, PortsKept, HasPort, Listed
<1>5. PICK s \in Seq(WorkerIds) :
        s = Append(ports[t], w) /\ OnceEach(s) /\ \A x : Listed(x, s) <=> Listed(x, ports[t]) \/ x = w
  <2>1. /\ Append(ports[t], w) \in Seq(WorkerIds) /\ OnceEach(Append(ports[t], w))
        /\ \A x : Listed(x, Append(ports[t], w)) <=> Listed(x, ports[t]) \/ x = w
    BY <1>4, AppendOnce, Zenon
  <2>2. QED
    BY <2>1, Zenon
<1>6. /\ ports' \in [Threads -> Seq(WorkerIds)] /\ ports'[t] = s
      /\ \A u \in Threads \ {t} : ports'[u] = ports[u]
  BY <1>1, <1>2, <1>5 DEF ThreadTypes
<1>7. PortsStep(t, w, TRUE)
  <2>1. \A v \in WorkerIds : HasPort(t, v)' <=> (IF v = w THEN TRUE ELSE HasPort(t, v))
    BY <1>5, <1>6 DEF HasPort, Listed
  <2>2. QED
    BY <1>1, <1>2, <1>5, <1>6, <2>1 DEF PortsStep, ThreadTypes
<1>8. PipesInv' /\ refCount' \in [Pipes -> Int]
      /\ \A p \in Pipes : refCount'[p] = refCount[p] + Once({RecvPipe(t, w)})[p]
  <2>1. PipesRest
    BY DEF SetOnmessage, PipesRest, history
  <2>2. ASSUME NEW p \in Pipes, Once({RecvPipe(t, w)})[p] > 0 PROVE refCount[p] > 0
    <3>1. p[1] = w
      BY <1>3, <2>2, OnceReceiver
    <3>2. QED
      BY <1>2, <3>1, HeldCounted
  <2>3. Once({RecvPipe(t, w)}) \in Counts
    BY <1>3, OnceReceiver
  <2>4. QED
    BY <1>2, <2>1, <2>2, <2>3, DupsInv
<1>9. HoldersCounted'
  <2>1. \A p \in Pipes : refCount'[p] = refCount[p] + (IF p[1] = w /\ Reader(p) = t THEN 1 ELSE 0)
    BY <1>3, <1>8, OnceReceiver
  <2>2. Recounted(t, w, TRUE, FALSE, FALSE)
    BY <1>1, <1>2, <2>1 DEF ThreadTypes, Recounted
  <2>3. QED
    BY <1>3, <1>7, <2>2, PortsStepCounts, Zenon
<1>10. QED
  BY <1>7, <1>8, <1>9, PortsStepInv DEF PipesInv, WorkersInv

LEMMA ClearOnmessageInv ==
  ASSUME WorkersInv, NEW t \in Threads, NEW w \in WorkerIds, ClearOnmessage(t, w)
  PROVE  WorkersInv'
<1>1. ThreadTypes /\ PortsKept
  BY DEF WorkersInv
<1>2. /\ pc[t] = "script" /\ w \in object[t] /\ HasPort(t, w)
      /\ UNCHANGED <<pc, ctor, object, readable>>
      /\ ports' = [ports EXCEPT ![t] = Without(@, w)] /\ Frees(Once({RecvPipe(t, w)}))
  BY DEF ClearOnmessage, FreePort, FreePipes, Frees
<1>3. t # Main => t = w
  BY <1>2, ObjectOwner
<1>4. ports[t] \in Seq(WorkerIds) /\ OnceEach(ports[t])
  BY <1>1 DEF ThreadTypes, PortsKept
<1>5. PICK s \in Seq(WorkerIds) :
        s = Without(ports[t], w) /\ OnceEach(s) /\ \A x : Listed(x, s) <=> Listed(x, ports[t]) /\ x # w
  BY <1>4, WithoutOnce
<1>6. /\ ports' \in [Threads -> Seq(WorkerIds)] /\ ports'[t] = s
      /\ \A u \in Threads \ {t} : ports'[u] = ports[u]
  BY <1>1, <1>2, <1>5 DEF ThreadTypes
<1>7. PortsStep(t, w, FALSE)
  <2>1. \A v \in WorkerIds : HasPort(t, v)' <=> (IF v = w THEN FALSE ELSE HasPort(t, v))
    BY <1>5, <1>6 DEF HasPort, Listed
  <2>2. QED
    BY <1>1, <1>2, <1>5, <1>6, <2>1 DEF PortsStep, ThreadTypes
<1>8. PipesInv' /\ refCount' \in [Pipes -> Int]
      /\ \A p \in Pipes : refCount'[p] = refCount[p] - Once({RecvPipe(t, w)})[p]
  <2>1. PipesRest
    BY DEF ClearOnmessage, PipesRest, history
  <2>2. Once({RecvPipe(t, w)}) \in Counts
    BY <1>3, OnceReceiver
  <2>3. QED
    BY <1>2, <2>1, <2>2, FreesInv
<1>9. HoldersCounted'
  <2>1. \A p \in Pipes : refCount'[p] = refCount[p] - (IF p[1] = w /\ Reader(p) = t THEN 1 ELSE 0)
    BY <1>3, <1>8, OnceReceiver
  <2>2. Recounted(t, w, FALSE, TRUE, FALSE)
    BY <1>1, <1>2, <2>1 DEF ThreadTypes, Recounted
  <2>3. QED
    BY <1>3, <1>7, <2>2, PortsStepCounts, Zenon
<1>10. QED
  BY <1>7, <1>8, <1>9, PortsStepInv DEF PipesInv, WorkersInv

LEMMA DropObjectInv ==
  ASSUME WorkersInv, NEW t \in Threads, NEW w \in WorkerIds, DropObject(t, w)
  PROVE  WorkersInv'
<1> DEFINE n == Twice(PipesOf(w), IF HasPort(t, w) THEN {RecvPipe(t, w)} ELSE {})
<1>1. ThreadTypes /\ PortsKept
  BY DEF WorkersInv
<1>2. /\ pc[t] = "script" /\ w \in object[t] /\ UNCHANGED <<pc, ctor, readable>>
      /\ object' = [object EXCEPT ![t] = @ \ {w}]
      /\ ports' = [ports EXCEPT ![t] = Without(@, w)] /\ Frees(n)
  BY DEF DropObject, FreePipes, Frees
<1>3. t # Main => t = w
  BY <1>2, ObjectOwner
<1>4. n \in Counts
  BY OnceCounts
<1>5. /\ HasPort(t, w) => \A p \in Pipes : n[p] = (IF p[1] = w THEN 1 ELSE 0)
                                               + (IF p[1] = w /\ Reader(p) = t THEN 1 ELSE 0)
      /\ ~HasPort(t, w) => \A p \in Pipes : n[p] = IF p[1] = w THEN 1 ELSE 0
  <2>1. \A p \in Pipes : (p \in PipesOf(w) <=> p[1] = w)
                         /\ (p \in {RecvPipe(t, w)} <=> p[1] = w /\ Reader(p) = t)
    BY <1>3, PipeEnds
  <2>2. CASE HasPort(t, w)
    <3>1. n = Twice(PipesOf(w), {RecvPipe(t, w)})
      BY <2>2
    <3> HIDE DEF n
    <3>2. QED
      BY <2>1, <2>2, <3>1, OnceCounts
  <2>3. CASE ~HasPort(t, w)
    <3>1. n = Twice(PipesOf(w), {})
      BY <2>3
    <3> HIDE DEF n
    <3>2. QED
      BY <2>1, <2>3, <3>1, OnceCounts
  <2>4. QED
    BY <2>2, <2>3
<1> HIDE DEF n
<1>6. ports[t] \in Seq(WorkerIds) /\ OnceEach(ports[t])
  BY <1>1 DEF ThreadTypes, PortsKept
<1>7. PICK s \in Seq(WorkerIds) :
        s = Without(ports[t], w) /\ OnceEach(s) /\ \A x : Listed(x, s) <=> Listed(x, ports[t]) /\ x # w
  BY <1>6, WithoutOnce
<1>8. /\ ports' \in [Threads -> Seq(WorkerIds)] /\ ports'[t] = s
      /\ \A u \in Threads \ {t} : ports'[u] = ports[u] /\ object'[u] = object[u]
      /\ object' \in [Threads -> SUBSET WorkerIds] /\ object'[t] = object[t] \ {w}
  BY <1>1, <1>2, <1>7 DEF ThreadTypes
<1>9. PortsStep(t, w, FALSE)
  <2>1. \A v \in WorkerIds : HasPort(t, v)' <=> (IF v = w THEN FALSE ELSE HasPort(t, v))
    BY <1>7, <1>8 DEF HasPort, Listed
  <2>2. QED
    BY <1>2, <1>7, <1>8, <2>1 DEF PortsStep
<1>10. PipesInv' /\ refCount' \in [Pipes -> Int] /\ \A p \in Pipes : refCount'[p] = refCount[p] - n[p]
  <2>1. PipesRest
    BY DEF DropObject, PipesRest, history
  <2>2. QED
    BY <1>2, <1>4, <2>1, FreesInv
<1>11. HoldersCounted'
  <2>1. w \notin object'[t] /\ \A p \in Pipes : refCount[p] \in Int
    BY <1>1, <1>8 DEF ThreadTypes
  <2>2. CASE HasPort(t, w)
    <3>1. \A p \in Pipes : refCount'[p] = refCount[p] - (IF p[1] = w THEN 1 ELSE 0)
                               - (IF p[1] = w /\ Reader(p) = t THEN 1 ELSE 0)
      BY <1>5, <1>10, <2>1, <2>2
    <3>2. Recounted(t, w, FALSE, TRUE, TRUE)
      BY <2>1, <2>2, <3>1 DEF Recounted
    <3>3. QED
      BY <1>3, <1>9, <3>2, PortsStepCounts, Zenon
  <2>3. CASE ~HasPort(t, w)
    <3>1. \A p \in Pipes : refCount'[p] = refCount[p] - (IF p[1] = w THEN 1 ELSE 0)
      BY <1>5, <1>10, <2>3
    <3>2. Recounted(t, w, FALSE, FALSE, TRUE)
      BY <2>1, <2>3, <3>1 DEF Recounted
    <3>3. QED
      BY <1>3, <1>9, <3>2, PortsStepCounts, Zenon
  <2>4. QED
    BY <2>2, <2>3
<1>12. QED
  BY <1>9, <1>10, <1>11, PortsStepInv DEF PipesInv, WorkersInv

(* Every step keeps the invariant. *)
LEMMA WorkersNextInv ==
  ASSUME WorkersInv, [WorkersNext]_workerVars
  PROVE  WorkersInv'
<1>1. CASE UNCHANGED workerVars
  BY <1>1, WorkersStutter DEF workerVars
<1>2. CASE \E w \in WorkerIds : CtorPipes(w) \/ CtorObject(w) \/ CtorThread(w) \/ CtorFail(w)
  BY <1>2, CtorPipesInv, CtorObjectInv, CtorThreadInv, CtorFailInv
<1>3. CASE \E w \in WorkerIds : WorkerStarts(w) \/ FreeHandlers(w) \/ FreeRuntime(w)
  BY <1>3, WorkerStartsInv, FreeHandlersInv, FreeRuntimeInv
<1>4. CASE \E t \in Threads, w \in WorkerIds : SetOnmessage(t, w) \/ ClearOnmessage(t, w) \/ DropObject(t, w)
  BY <1>4, SetOnmessageInv, ClearOnmessageInv, DropObjectInv
<1>5. CASE \E t \in Threads, b \in Sabs : NewSab(t, b) \/ DropSab(t, b)
  <2>1. UNCHANGED <<pc, ctor, pipeState, object, ports, readable, current, history>>
    BY <1>5 DEF NewSab, DropSab
  <2>2. QED
    BY <2>1, WorkersStutter
<1>6. CASE \E t \in Threads, w \in WorkerIds, b \in Sabs \cup {NoSab} : PostSignal(t, w, b)
  BY <1>6, PostSignalInv
<1>7. CASE \E t \in Threads : ThreadStep(t) \/ ReadFails(t)
  <2>1. PICK t \in Threads : ThreadStep(t) \/ ReadFails(t)
    BY <1>7
  <2>2. \/ PostAppend(t) \/ Take(t)
        \/ HandlerReturns(t) \/ ThreadLoopEnds(t) \/ Select(t) \/ ReadMessage(t) \/ CallOnmessage(t) \/ ReadFails(t)
    BY <2>1 DEF ThreadStep
  <2>3. QED
    BY <2>2, PostAppendInv, TakeInv, ThreadLoopInv
<1>8. QED
  BY <1>1, <1>2, <1>3, <1>4, <1>5, <1>6, <1>7 DEF WorkersNext

(***************************************************************************)
(* The messages that js_worker_postMessage queues are taken by             *)
(* handle_posted_message in their order, none twice and none left out, on  *)
(* every pipe and for any number of workers and messages.                  *)
(***************************************************************************)
THEOREM MessagesInOrder == WorkersSpec => []InOrder
<1>1. WorkersInv /\ [WorkersNext]_workerVars => WorkersInv'
  BY WorkersNextInv
<1>2. QED
  BY <1>1, WorkersInitInv, WorkersInvSound, PTL DEF WorkersSpec

(***************************************************************************)
(* The reference count of a pipe is the number of its holders, so that     *)
(* js_free_message_pipe frees it with the last one and not before, and its *)
(* waker is readable exactly when a message waits.                         *)
(***************************************************************************)
THEOREM PipesAlwaysCounted == WorkersSpec => [](PipesCounted /\ WakerAgrees)
<1>1. WorkersInv /\ [WorkersNext]_workerVars => WorkersInv'
  BY WorkersNextInv
<1>2. WorkersInv => PipesCounted /\ WakerAgrees
  BY WorkersInvSound
<1>3. QED
  BY <1>1, <1>2, WorkersInitInv, PTL DEF WorkersSpec

-----------------------------------------------------------------------------
(* The window.                                                             *)

(* A product is below the product of the bounds. *)
LEMMA ProductBelow ==
  ASSUME NEW n \in Nat \ {0}, NEW m \in Nat, NEW d \in 0 .. m - 1, NEW e \in 0 .. n - 1
  PROVE  d * n + e \in 0 .. m * n - 1
<1>1. d * n >= 0
  OBVIOUS
<1>2. (m - 1 - d) * n >= 0
  OBVIOUS
<1>3. d * n =< m * n - n
  BY <1>2
<1> QED  BY <1>1, <1>3

-----------------------------------------------------------------------------
Keys == {"w", "left"}
VideoTypeOK ==
  /\ opens \in Nat /\ active \in BOOLEAN /\ windowGone \in BOOLEAN
  /\ handle \in [KindSet -> Nat]
  /\ size \in [width : Nat, height : Nat, scale : Nat]
  /\ videoInput \in [keys : SUBSET Keys, x : Int, y : Int, quit : BOOLEAN]
  /\ seen \in [quit : BOOLEAN, current : BOOLEAN]

(***************************************************************************)
(* An open window has a side and an image of its size, and a window that   *)
(* the user closed is not open.                                            *)
(***************************************************************************)
Pictured ==
  active =>
    /\ size \in [width : Nat \ {0}, height : Nat \ {0}, scale : Nat \ {0}]
    /\ DOMAIN pixels = 0 .. size.width * size.scale * size.height * size.scale - 1
GoneIsInactive == windowGone => ~active

VideoInv == VideoTypeOK /\ Pictured /\ GoneIsInactive /\ WindowSound

-----------------------------------------------------------------------------
(* The picture. *)

(* The pixel of the frame that covers pixel i of the image. *)
Covering(i) ==
  LET row == size.width * size.scale IN
  ((i \div row) \div size.scale) * size.width + (i % row) \div size.scale

(* What is copied to a pixel is what covers it. *)
LEMMA CopiedCovers ==
  ASSUME NEW w \in Nat \ {0}, NEW h \in Nat \ {0}, NEW s \in Nat \ {0},
         size.width = w, size.height = h, size.scale = s,
         NEW x \in 0 .. w - 1, NEW y \in 0 .. h - 1,
         NEW sx \in 0 .. s - 1, NEW sy \in 0 .. s - 1,
         NEW i \in Int, i = Destination(x, y, sx, sy)
  PROVE  Covering(i) = y * w + x
<1>1. PICK row \in Nat \ {0} : row = w * s
  OBVIOUS
<1>2. PICK q \in Int : q = y * s + sy
  OBVIOUS
<1>3. PICK r \in Int : r = x * s + sx
  OBVIOUS
<1>4. r \in 0 .. row - 1
  BY <1>1, <1>3, ProductBelow
<1>5. i = q * row + r
  BY <1>1, <1>2, <1>3 DEF Destination
<1>6. i \div row = q /\ i % row = r
  BY <1>4, <1>5, DivisionUnique
<1>7. q \div s = y
  BY <1>2, DivisionUnique
<1>8. r \div s = x
  BY <1>3, DivisionUnique
<1> QED  BY <1>1, <1>6, <1>7, <1>8 DEF Covering

(* Each pixel of the image is copied to. *)
LEMMA EachCopied ==
  ASSUME NEW w \in Nat \ {0}, NEW h \in Nat \ {0}, NEW s \in Nat \ {0},
         size.width = w, size.height = h, size.scale = s,
         NEW i \in 0 .. w * s * h * s - 1
  PROVE  \E x \in 0 .. w - 1, y \in 0 .. h - 1, sx \in 0 .. s - 1, sy \in 0 .. s - 1 :
           i = Destination(x, y, sx, sy)
<1>1. PICK row \in Nat \ {0} : row = w * s
  OBVIOUS
<1>2. PICK col \in Nat \ {0} : col = h * s
  OBVIOUS
<1>3. w * s * h * s = col * row
  BY <1>1, <1>2
<1>4. PICK q \in Int, r \in 0 .. row - 1 : i = q * row + r
  <2>1. i \in Int
    OBVIOUS
  <2>2. \E d \in Int, e \in 0 .. row - 1 : d = i \div row /\ e = i % row /\ i = d * row + e
    BY <2>1, Division, Zenon
  <2> QED  BY <2>2, Zenon
<1>5. q \in 0 .. col - 1
  BY <1>3, <1>4, QuotientBelow
<1>6. PICK y \in Int, sy \in 0 .. s - 1 : q = y * s + sy
  <2>1. q \in Int
    OBVIOUS
  <2>2. \E d \in Int, e \in 0 .. s - 1 : d = q \div s /\ e = q % s /\ q = d * s + e
    BY <2>1, Division, Zenon
  <2> QED  BY <2>2, Zenon
<1>7. y \in 0 .. h - 1
  BY <1>2, <1>5, <1>6, QuotientBelow
<1>8. PICK x \in Int, sx \in 0 .. s - 1 : r = x * s + sx
  <2>1. r \in Int
    OBVIOUS
  <2>2. \E d \in Int, e \in 0 .. s - 1 : d = r \div s /\ e = r % s /\ r = d * s + e
    BY <2>1, Division, Zenon
  <2> QED  BY <2>2, Zenon
<1>9. x \in 0 .. w - 1
  BY <1>1, <1>8, QuotientBelow
<1>10. i = Destination(x, y, sx, sy)
  BY <1>1, <1>4, <1>6, <1>8 DEF Destination
<1> QED  BY <1>7, <1>9, <1>10

(* What is copied comes from a pixel of the frame. *)
LEMMA CopiedFrom ==
  ASSUME NEW w, NEW h, NEW s, size.width = w, size.height = h, size.scale = s, NEW c \in Copied
  PROVE  \E x \in 0 .. w - 1, y \in 0 .. h - 1, sx \in 0 .. s - 1, sy \in 0 .. s - 1 :
           c = <<Destination(x, y, sx, sy), y * w + x>>
BY DEF Copied

(* video_apresentar leaves no pixel of the image as it was. *)
LEMMA PresentCovers ==
  ASSUME active, Pictured,
         pixels' = [i \in DOMAIN pixels |->
           IF \E c \in Copied : c[1] = i THEN (CHOOSE c \in Copied : c[1] = i)[2] ELSE pixels[i]]
  PROVE  DOMAIN pixels' = DOMAIN pixels /\ \A i \in DOMAIN pixels : pixels'[i] = Covering(i)
<1>1. PICK w \in Nat \ {0}, h \in Nat \ {0}, s \in Nat \ {0} :
        /\ size.width = w /\ size.height = h /\ size.scale = s
        /\ DOMAIN pixels = 0 .. w * s * h * s - 1
  BY DEF Pictured
<1>3. Copied = {<<Destination(x, y, sx, sy), y * w + x>> :
                 x \in 0 .. w - 1, y \in 0 .. h - 1, sx \in 0 .. s - 1, sy \in 0 .. s - 1}
  <2>1. size.width = w /\ size.height = h /\ size.scale = s
    BY <1>1
  <2> QED  BY <2>1 DEF Copied
<1>2. ASSUME NEW i \in DOMAIN pixels  PROVE pixels'[i] = Covering(i)
  <2>1. i \in 0 .. w * s * h * s - 1 /\ i \in Int
    BY <1>1, <1>2
  <2>2. PICK x \in 0 .. w - 1, y \in 0 .. h - 1, sx \in 0 .. s - 1, sy \in 0 .. s - 1 :
          i = Destination(x, y, sx, sy)
    <3>1. \E x \in 0 .. w - 1, y \in 0 .. h - 1, sx \in 0 .. s - 1, sy \in 0 .. s - 1 :
            i = Destination(x, y, sx, sy)
      BY <1>1, <2>1, EachCopied
    <3> QED  BY <3>1, Zenon
  <2>3. <<i, y * w + x>> \in Copied
    <3>1. <<i, y * w + x>> = <<Destination(x, y, sx, sy), y * w + x>>
      BY <2>2, Zenon
    <3> HIDE <2>2
    <3>2. <<Destination(x, y, sx, sy), y * w + x>> \in Copied
      BY <1>3
    <3> QED  BY <3>1, <3>2, Zenon
  <2>4. \E c \in Copied : c[1] = i
    BY <2>3
  <2>5. PICK c \in Copied : c[1] = i /\ pixels'[i] = c[2]
    <3>1. pixels'[i] = (CHOOSE c \in Copied : c[1] = i)[2]
      BY <2>4, <1>2, Zenon
    <3>2. (CHOOSE c \in Copied : c[1] = i) \in Copied /\ (CHOOSE c \in Copied : c[1] = i)[1] = i
      BY <2>4, Zenon
    <3> QED  BY <3>1, <3>2, Zenon
  <2>6. PICK x1 \in 0 .. w - 1, y1 \in 0 .. h - 1, sx1 \in 0 .. s - 1, sy1 \in 0 .. s - 1 :
          c = <<Destination(x1, y1, sx1, sy1), y1 * w + x1>>
    <3>1. \E x1 \in 0 .. w - 1, y1 \in 0 .. h - 1, sx1 \in 0 .. s - 1, sy1 \in 0 .. s - 1 :
            c = <<Destination(x1, y1, sx1, sy1), y1 * w + x1>>
      BY <1>1, <2>5, CopiedFrom
    <3> QED  BY <3>1, Zenon
  <2>7. i = Destination(x1, y1, sx1, sy1) /\ pixels'[i] = y1 * w + x1
    BY <2>5, <2>6
  <2>8. Covering(i) = y1 * w + x1
    BY <1>1, <2>1, <2>7, CopiedCovers
  <2> QED  BY <2>7, <2>8
<1> QED  BY <1>2

-----------------------------------------------------------------------------
(* The handles. *)

LEMMA KindsAre ==
  /\ KindSet = {"display", "window", "gc", "image_data", "image"}
  /\ Len(Kinds) = 5 /\ Kinds[1] = "display"
  /\ \A i \in 1 .. 5 : Kinds[i] \in KindSet
<1>1. Len(Kinds) = 5 /\ DOMAIN Kinds = 1 .. 5
  BY DEF Kinds
<1>2. /\ Kinds[1] = "display" /\ Kinds[2] = "window" /\ Kinds[3] = "gc"
      /\ Kinds[4] = "image_data" /\ Kinds[5] = "image"
  BY DEF Kinds
<1>3. \A i \in 1 .. 5 : i = 1 \/ i = 2 \/ i = 3 \/ i = 4 \/ i = 5
  OBVIOUS
<1>4. 1 \in 1 .. 5 /\ 2 \in 1 .. 5 /\ 3 \in 1 .. 5 /\ 4 \in 1 .. 5 /\ 5 \in 1 .. 5
  OBVIOUS
<1>5. KindSet = {"display", "window", "gc", "image_data", "image"}
  BY <1>1, <1>2, <1>3, <1>4, Zenon DEF KindSet
<1> QED  BY <1>1, <1>2, <1>5 DEF KindSet

(* What one session holds, closing gives back. *)
LEMMA ClosedFrees ==
  ASSUME VideoTypeOK, OneSession
  PROVE  Freed(handle) = alive /\ Closed(handle) = NoHandles
<1>1. "display" \in KindSet
  BY KindsAre
<1>2. \A k \in KindSet : handle[k] # 0 => handle["display"] # 0
  BY Zenon DEF OneSession
<1>3. \A k \in KindSet :
        (handle[k] # 0 /\ (k \in {"gc", "window"} => handle["display"] # 0)) <=> handle[k] # 0
  BY <1>2, Zenon
<1>4. {x \in KindSet : handle[x] # 0 /\ (x \in {"gc", "window"} => handle["display"] # 0)}
        = {x \in KindSet : handle[x] # 0}
  BY <1>3, Zenon
<1>5. Freed(handle) = alive
  BY <1>4, Zenon DEF Freed, OneSession
<1>6. \A k \in KindSet :
        (IF k \in {"gc", "window"} /\ handle["display"] = 0 THEN handle[k] ELSE 0) = 0
  BY <1>2, Zenon
<1>7. Closed(handle) = NoHandles
  BY <1>6, Zenon DEF Closed, NoHandles
<1> QED  BY <1>5, <1>7

(* No handle, nothing held. *)
LEMMA NothingHeld == handle = NoHandles /\ OneSession => alive = {}
<1> SUFFICES ASSUME handle = NoHandles, OneSession  PROVE alive = {}
  OBVIOUS
<1>1. {x \in KindSet : handle[x] # 0} = {}
  BY Zenon DEF NoHandles
<1> QED  BY <1>1, Zenon DEF OneSession

LEMMA NoHandlesType == NoHandles \in [KindSet -> Nat]
<1>1. 0 \in Nat
  OBVIOUS
<1> QED  BY <1>1, Zenon DEF NoHandles

LEMMA NothingIsSession ==
  ASSUME handle' = NoHandles, alive' = {}, active' = FALSE
  PROVE  OneSession'
<1>1. "display" \in KindSet
  BY KindsAre
<1>2. \A k \in KindSet : handle'[k] = 0
  BY Zenon DEF NoHandles
<1>3. {x \in KindSet : handle'[x] # 0} = {}
  BY <1>2, Zenon
<1>4. alive' = {<<k, handle'[k]>> : k \in {x \in KindSet : handle'[x] # 0}}
  BY <1>3, Zenon
<1> QED  BY <1>2, <1>4, Zenon DEF OneSession

(* Before a window is made there is none. *)
LEMMA OpensFromNothing ==
  ASSUME VideoTypeOK, OneSession, active \/ handle = NoHandles
  PROVE  OpenFrom = NoHandles /\ StillAlive = {}
<1>1. CASE active
  <2>1. OpenFrom = Closed(handle) /\ StillAlive = alive \ Freed(handle)
    BY <1>1, Zenon DEF OpenFrom, StillAlive
  <2> QED  BY <2>1, ClosedFrees, Zenon
<1>2. CASE ~active
  <2>1. OpenFrom = handle /\ StillAlive = alive /\ handle = NoHandles
    BY <1>2, Zenon DEF OpenFrom, StillAlive
  <2> QED  BY <2>1, NothingHeld, Zenon
<1> QED  BY <1>1, <1>2

(* What video_abrir has made after `made` calls. *)
MadeKinds(made) == {Kinds[i] : i \in 1 .. made}
LEMMA MadeHandles ==
  ASSUME NEW made \in 0 .. 5, NEW n \in Nat \ {0}
  PROVE  /\ WithMade(NoHandles, made, n)
              = [k \in KindSet |-> IF k \in MadeKinds(made) THEN n ELSE 0]
         /\ MadeBy(made, n) = {<<k, n>> : k \in MadeKinds(made)}
         /\ MadeKinds(made) \subseteq KindSet
         /\ made > 0 => "display" \in MadeKinds(made)
         /\ made = 0 => MadeKinds(made) = {}
         /\ made = 5 => MadeKinds(made) = KindSet
<1>1. 1 .. made \subseteq 1 .. 5
  OBVIOUS
<1>2. \A k \in KindSet : (\E i \in 1 .. made : Kinds[i] = k) <=> k \in MadeKinds(made)
  BY Zenon DEF MadeKinds
<1>3. \A k \in KindSet :
        (IF \E i \in 1 .. made : Kinds[i] = k THEN n
         ELSE IF made < Len(Kinds) /\ Kinds[made + 1] = k THEN 0 ELSE NoHandles[k])
        = IF k \in MadeKinds(made) THEN n ELSE 0
  BY <1>2, Zenon DEF NoHandles
<1>4. WithMade(NoHandles, made, n) = [k \in KindSet |-> IF k \in MadeKinds(made) THEN n ELSE 0]
  BY <1>3, Zenon DEF WithMade
<1>5. MadeBy(made, n) = {<<k, n>> : k \in MadeKinds(made)}
  BY Zenon DEF MadeBy, MadeKinds
<1>6. MadeKinds(made) \subseteq KindSet
  BY <1>1, KindsAre, Zenon DEF MadeKinds
<1>7. ASSUME made > 0  PROVE "display" \in MadeKinds(made)
  <2>1. 1 \in 1 .. made
    BY <1>7
  <2> QED  BY <2>1, KindsAre, Zenon DEF MadeKinds
<1>8. ASSUME made = 0  PROVE MadeKinds(made) = {}
  <2>1. 1 .. made = {}
    BY <1>8
  <2> QED  BY <2>1, Zenon DEF MadeKinds
<1>9. ASSUME made = 5  PROVE MadeKinds(made) = KindSet
  <2>1. DOMAIN Kinds = 1 .. 5
    BY DEF Kinds
  <2> QED  BY <2>1, <1>9, Zenon DEF MadeKinds, KindSet
<1> QED  BY <1>4, <1>5, <1>6, <1>7, <1>8, <1>9, Zenon

LEMMA MadeAndClosed ==
  ASSUME NEW made \in 1 .. 5, NEW n \in Nat \ {0}
  PROVE  /\ Closed(WithMade(NoHandles, made, n)) = NoHandles
         /\ MadeBy(made, n) \ Freed(WithMade(NoHandles, made, n)) = {}
<1>1. PICK M : M = MadeKinds(made)
  OBVIOUS
<1>2. PICK held : held = WithMade(NoHandles, made, n)
  OBVIOUS
<1>3. /\ held = [k \in KindSet |-> IF k \in M THEN n ELSE 0]
      /\ MadeBy(made, n) = {<<k, n>> : k \in M}
      /\ M \subseteq KindSet /\ "display" \in M
  <2>1. made \in 0 .. 5 /\ made > 0
    OBVIOUS
  <2> QED  BY <2>1, <1>1, <1>2, MadeHandles
<1>4. n # 0 /\ held["display"] = n /\ \A k \in M : held[k] = n
  BY <1>3
<1>5. Closed(held) = NoHandles
  <2>1. \A k \in KindSet :
          (IF k \in {"gc", "window"} /\ held["display"] = 0 THEN held[k] ELSE 0) = 0
    BY <1>4, Zenon
  <2> QED  BY <2>1, Zenon DEF Closed, NoHandles
<1>6. ASSUME NEW p \in MadeBy(made, n)  PROVE p \in Freed(held)
  <2>1. PICK k \in M : p = <<k, n>>
    BY <1>3, <1>6, Zenon
  <2>2. k \in {x \in KindSet : held[x] # 0 /\ (x \in {"gc", "window"} => held["display"] # 0)}
    BY <1>3, <1>4, <2>1, Zenon
  <2>3. p = <<k, held[k]>>
    BY <1>4, <2>1, Zenon
  <2> QED  BY <2>2, <2>3, Zenon DEF Freed
<1> QED  BY <1>2, <1>5, <1>6, Zenon

LEMMA AllMade ==
  ASSUME NEW n \in Nat \ {0}
  PROVE  /\ WithMade(NoHandles, Len(Kinds), n) = [k \in KindSet |-> n]
         /\ MadeBy(Len(Kinds), n) = {<<k, n>> : k \in KindSet}
<1>1. 5 \in 0 .. 5 /\ Len(Kinds) = 5
  BY KindsAre
<1>2. /\ WithMade(NoHandles, 5, n) = [k \in KindSet |-> IF k \in MadeKinds(5) THEN n ELSE 0]
      /\ MadeBy(5, n) = {<<k, n>> : k \in MadeKinds(5)}
      /\ MadeKinds(5) = KindSet
  BY <1>1, MadeHandles
<1>3. [k \in KindSet |-> IF k \in MadeKinds(5) THEN n ELSE 0] = [k \in KindSet |-> n]
  BY <1>2, Zenon
<1> QED  BY <1>1, <1>2, <1>3, Zenon

-----------------------------------------------------------------------------
(* The events. *)
Inputs == [keys : SUBSET Keys, x : Int, y : Int, quit : BOOLEAN]
Inside(in) == in.x \in 0 .. size.width - 1 /\ in.y \in 0 .. size.height - 1
LEMMA LogicalInside ==
  ASSUME NEW v \in Int, NEW s \in Nat \ {0}, NEW n \in Nat \ {0}
  PROVE  Logical(v, s, n) \in 0 .. n - 1
<1>1. TowardsZero(v, s) \in Int
  <2>1. v \div s \in Int /\ (-v) \div s \in Int
    OBVIOUS
  <2> QED  BY <2>1 DEF TowardsZero
<1> QED  BY <1>1 DEF Logical

LEMMA AppliedInside ==
  ASSUME VideoAssumption,
         size \in [width : Nat \ {0}, height : Nat \ {0}, scale : Nat \ {0}],
         NEW in \in Inputs, NEW e \in VideoEvents
  PROVE  Applied(in, e) \in Inputs /\ (Inside(in) => Inside(Applied(in, e)))
<1>1. CASE e.type = "key_press"
  <2>1. e.key \in Keys
    BY <1>1 DEF VideoEvents, Keys
  <2>2. Applied(in, e) = [in EXCEPT !.keys = @ \cup {e.key}]
    BY <1>1 DEF Applied
  <2> QED  BY <2>1, <2>2 DEF Inputs, Inside
<1>2. CASE e.type = "key_release"
  <2>2. Applied(in, e) = [in EXCEPT !.keys = @ \ {e.key}]
    BY <1>2 DEF Applied
  <2> QED  BY <2>2 DEF Inputs, Inside
<1>3. CASE e.type = "motion"
  <2>1. e.x \in Int /\ e.y \in Int
    BY <1>3 DEF VideoEvents, VideoAssumption
  <2>2. PICK lx, ly : lx = Logical(e.x, size.scale, size.width)
                      /\ ly = Logical(e.y, size.scale, size.height)
    OBVIOUS
  <2>3. lx \in 0 .. size.width - 1 /\ ly \in 0 .. size.height - 1
    BY <2>1, <2>2, LogicalInside
  <2>4. Applied(in, e) = [in EXCEPT !.x = lx, !.y = ly]
    BY <1>3, <2>2 DEF Applied
  <2>5. lx \in Int /\ ly \in Int
    BY <2>3
  <2>6. PICK out : out = [in EXCEPT !.x = lx, !.y = ly]
    OBVIOUS
  <2>7. out \in Inputs
    BY <2>5, <2>6 DEF Inputs
  <2>8. out.x = lx /\ out.y = ly
    BY <2>6 DEF Inputs
  <2>9. Inside(out)
    BY <2>3, <2>8, Zenon DEF Inside
  <2> QED  BY <2>4, <2>6, <2>7, <2>9, Zenon
<1>4. CASE e.type \in {"wm_delete", "destroy"}
  <2>1. Applied(in, e) = [in EXCEPT !.quit = TRUE]
    BY <1>4 DEF Applied
  <2> QED  BY <2>1 DEF Inputs, Inside
<1>5. CASE e.type = "focus_out"
  <2>1. Applied(in, e) = Unpressed
    BY <1>5 DEF Applied
  <2> QED  BY <2>1 DEF Inputs, Inside, Unpressed
<1>6. CASE e.type = "other"
  <2>1. Applied(in, e) = in
    BY <1>6 DEF Applied
  <2> QED  BY <2>1
<1>7. e.type \in {"key_press", "key_release", "motion", "wm_delete", "destroy", "focus_out", "other"}
  BY DEF VideoEvents
<1> QED  BY <1>1, <1>2, <1>3, <1>4, <1>5, <1>6, <1>7

(* js_pt_video_pump_events keeps the input an input, with the mouse inside. *)
LEMMA PumpInside ==
  ASSUME VideoAssumption,
         size \in [width : Nat \ {0}, height : Nat \ {0}, scale : Nat \ {0}],
         NEW es \in Waiting, videoInput \in Inputs
  PROVE  /\ InputAfter(videoInput, es) \in Inputs
         /\ Inside(videoInput) => Inside(InputAfter(videoInput, es))
<1>1. CASE es = <<>>
  <2>1. InputAfter(videoInput, es) = videoInput
    BY <1>1 DEF InputAfter
  <2> QED  BY <2>1
<1>2. ASSUME NEW e \in VideoEvents, es = <<e>>
      PROVE  /\ InputAfter(videoInput, es) \in Inputs
             /\ Inside(videoInput) => Inside(InputAfter(videoInput, es))
  <2>1. Len(es) = 1 /\ es[1] = e
    BY <1>2
  <2>2. InputAfter(videoInput, es) = Applied(videoInput, e)
    BY <2>1 DEF InputAfter
  <2> QED  BY <2>2, AppliedInside, Zenon
<1>3. ASSUME NEW e \in VideoEvents, NEW f \in VideoEvents, es = <<e, f>>
      PROVE  /\ InputAfter(videoInput, es) \in Inputs
             /\ Inside(videoInput) => Inside(InputAfter(videoInput, es))
  <2>1. Len(es) = 2 /\ es[1] = e /\ es[2] = f
    BY <1>3
  <2>2. InputAfter(videoInput, es) = Applied(Applied(videoInput, e), f)
    BY <2>1 DEF InputAfter
  <2>3. PICK in : in = Applied(videoInput, e)
    OBVIOUS
  <2>4. in \in Inputs /\ (Inside(videoInput) => Inside(in))
    BY <2>3, AppliedInside, Zenon
  <2>5. Applied(in, f) \in Inputs /\ (Inside(in) => Inside(Applied(in, f)))
    BY <2>4, AppliedInside, Zenon
  <2> QED  BY <2>2, <2>3, <2>4, <2>5, Zenon
<1>4. \/ es = <<>> \/ \E e \in VideoEvents : es = <<e>>
      \/ \E e, f \in VideoEvents : es = <<e, f>>
  BY DEF Waiting
<1> QED  BY <1>1, <1>2, <1>3, <1>4, Zenon

-----------------------------------------------------------------------------
(* Each step. *)

LEMMA InvInputs == VideoTypeOK => videoInput \in Inputs
BY Zenon DEF VideoTypeOK, Inputs

LEMMA UnpressedInput == Unpressed \in Inputs
BY DEF Unpressed, Inputs

LEMMA NothingSeenType == NothingSeen \in [quit : BOOLEAN, current : BOOLEAN] /\ ~NothingSeen.current
BY DEF NothingSeen

LEMMA VideoInitInv == VideoInit => VideoInv
<1> SUFFICES ASSUME VideoInit  PROVE VideoInv
  OBVIOUS
<1> USE DEF VideoInit
<1>1. VideoTypeOK
  BY NoHandlesType, UnpressedInput, NothingSeenType DEF VideoTypeOK, Inputs
<1>2. Pictured /\ GoneIsInactive /\ MouseInside /\ FrameCoversWindow /\ QuitSeen
  BY NothingSeenType DEF Pictured, GoneIsInactive, MouseInside, FrameCoversWindow, QuitSeen
<1>3. OneSession
  <2>1. "display" \in KindSet
    BY KindsAre
  <2>2. \A k \in KindSet : handle[k] = 0
    BY Zenon DEF NoHandles
  <2>3. {x \in KindSet : handle[x] # 0} = {}
    BY <2>2, Zenon
  <2>4. alive = {<<k, handle[k]>> : k \in {x \in KindSet : handle[x] # 0}}
    BY <2>3, Zenon
  <2> QED  BY <2>2, <2>4, Zenon DEF OneSession
<1> QED  BY <1>1, <1>2, <1>3 DEF VideoInv, WindowSound

(* When no window is open only the handles matter. *)
LEMMA InactiveInv ==
  ASSUME VideoTypeOK', OneSession', active' = FALSE, seen' = NothingSeen
  PROVE  VideoInv'
BY NothingSeenType
   DEF VideoInv, WindowSound, Pictured, GoneIsInactive, MouseInside, FrameCoversWindow, QuitSeen

LEMMA VideoCloseInv == VideoInv /\ VideoClose => VideoInv'
<1> SUFFICES ASSUME VideoInv, VideoClose  PROVE VideoInv'
  OBVIOUS
<1>1. VideoTypeOK /\ OneSession
  BY DEF VideoInv, WindowSound
<1>2. handle' = NoHandles /\ alive' = {} /\ active' = FALSE
  <2>1. alive' = alive \ Freed(handle) /\ handle' = Closed(handle) /\ active' = FALSE
    BY Zenon DEF VideoClose
  <2> QED  BY <1>1, <2>1, ClosedFrees, Zenon
<1>3. OneSession'
  BY <1>2, NothingIsSession, Zenon
<1>4. VideoTypeOK'
  BY <1>1, <1>2, NoHandlesType, UnpressedInput, NothingSeenType, Zenon
     DEF VideoTypeOK, VideoClose, Inputs
<1> QED  BY <1>2, <1>3, <1>4, InactiveInv, Zenon DEF VideoClose

LEMMA VideoUnavailableInv == VideoInv /\ VideoUnavailable => VideoInv'
<1> SUFFICES ASSUME VideoInv, VideoUnavailable  PROVE VideoInv'
  OBVIOUS
<1>1. VideoTypeOK /\ OneSession
  BY DEF VideoInv, WindowSound
<1>2. /\ opens' = opens + 1 /\ handle' = OpenFrom /\ alive' = StillAlive
      /\ active' = FALSE /\ seen' = NothingSeen
      /\ size' = size /\ windowGone' = windowGone
  BY Zenon DEF VideoUnavailable
<1>3. videoInput' \in Inputs
  <2>1. videoInput' = Unpressed \/ videoInput' = videoInput
    BY Zenon DEF VideoUnavailable
  <2> QED  BY <1>1, <2>1, InvInputs, UnpressedInput, Zenon
<1>4. OneSession' /\ handle' \in [KindSet -> Nat]
  <2>1. CASE active
    <3>1. handle' = NoHandles /\ alive' = {}
      BY <1>1, <1>2, <2>1, OpensFromNothing, Zenon
    <3> QED  BY <1>2, <3>1, NothingIsSession, NoHandlesType, Zenon
  <2>2. CASE ~active
    <3>1. handle' = handle /\ alive' = alive
      BY <1>2, <2>2, Zenon DEF OpenFrom, StillAlive
    <3>2. handle' \in [KindSet -> Nat]
      BY <1>1, <3>1, Zenon DEF VideoTypeOK
    <3>3. OneSession'
      BY <1>1, <1>2, <2>2, <3>1, Zenon DEF OneSession
    <3> QED  BY <3>2, <3>3
  <2> QED  BY <2>1, <2>2
<1>5. opens' \in Nat
  BY <1>1, <1>2 DEF VideoTypeOK
<1>6. VideoTypeOK'
  BY <1>1, <1>2, <1>3, <1>4, <1>5, NothingSeenType, Zenon DEF VideoTypeOK, Inputs
<1> QED  BY <1>2, <1>4, <1>6, InactiveInv, Zenon

(* A script that does not open a window again after the user closed it. *)
LEMMA VideoOpenFailsInv ==
  ASSUME VideoAssumption, ~ReopensAfterQuit, VideoInv,
         NEW made \in 0 .. 4, NEW w \in Sizes, NEW h \in Sizes, NEW s \in Scales,
         VideoOpenFails(made, w, h, s)
  PROVE  VideoInv'
<1>1. VideoTypeOK /\ OneSession
  BY DEF VideoInv, WindowSound
<1>2. OpenFrom = NoHandles /\ StillAlive = {}
  <2>1. active \/ handle = NoHandles
    BY Zenon DEF VideoOpenFails
  <2> QED  BY <1>1, <2>1, OpensFromNothing, Zenon
<1>3. PICK n : n = opens + 1
  OBVIOUS
<1>4. n \in Nat \ {0}
  BY <1>1, <1>3 DEF VideoTypeOK
<1>5. /\ opens' = n /\ active' = FALSE /\ seen' = NothingSeen /\ windowGone' = windowGone
  BY <1>3, Zenon DEF VideoOpenFails
<1>6. handle' = NoHandles /\ alive' = {} /\ videoInput' \in Inputs
  <2>1. CASE made = 0
    <3>1. /\ handle' = WithMade(NoHandles, 0, n) /\ alive' = MadeBy(0, n)
          /\ videoInput' = Unpressed \/ videoInput' = videoInput
      BY <1>2, <1>3, <2>1, Zenon DEF VideoOpenFails
    <3>2. /\ WithMade(NoHandles, 0, n) = [k \in KindSet |-> IF k \in MadeKinds(0) THEN n ELSE 0]
          /\ MadeBy(0, n) = {<<k, n>> : k \in MadeKinds(0)}
          /\ MadeKinds(0) = {}
      BY <1>4, MadeHandles
    <3>3. [k \in KindSet |-> IF k \in MadeKinds(0) THEN n ELSE 0] = NoHandles
      BY <3>2, Zenon DEF NoHandles
    <3> QED  BY <1>1, <3>1, <3>2, <3>3, InvInputs, UnpressedInput, Zenon
  <2>2. CASE made # 0
    <3>1. /\ handle' = Closed(WithMade(NoHandles, made, n))
          /\ alive' = MadeBy(made, n) \ Freed(WithMade(NoHandles, made, n))
          /\ videoInput' = Unpressed
      BY <1>2, <1>3, <2>2, Zenon DEF VideoOpenFails
    <3>2. made \in 1 .. 5
      BY <2>2
    <3> QED  BY <1>4, <3>1, <3>2, MadeAndClosed, UnpressedInput, Zenon
  <2> QED  BY <2>1, <2>2
<1>7. size' \in [width : Nat, height : Nat, scale : Nat]
  <2>1. size' = [width |-> w, height |-> h, scale |-> s] \/ size' = size
    BY DEF VideoOpenFails
  <2>2. w \in Nat /\ h \in Nat /\ s \in Nat
    BY DEF VideoAssumption
  <2> QED  BY <1>1, <2>1, <2>2 DEF VideoTypeOK
<1>8. VideoTypeOK'
  BY <1>1, <1>4, <1>5, <1>6, <1>7, NoHandlesType, NothingSeenType, Zenon DEF VideoTypeOK, Inputs
<1> QED  BY <1>5, <1>6, <1>8, NothingIsSession, InactiveInv, Zenon

LEMMA VideoOpenInv ==
  ASSUME VideoAssumption, ~ReopensAfterQuit, VideoInv,
         NEW w \in Sizes, NEW h \in Sizes, NEW s \in Scales, VideoOpen(w, h, s)
  PROVE  VideoInv'
<1>1. VideoTypeOK /\ OneSession
  BY DEF VideoInv, WindowSound
<1>2. OpenFrom = NoHandles /\ StillAlive = {}
  <2>1. active \/ handle = NoHandles
    BY Zenon DEF VideoOpen
  <2> QED  BY <1>1, <2>1, OpensFromNothing, Zenon
<1>3. PICK n : n = opens + 1
  OBVIOUS
<1>4. n \in Nat \ {0} /\ n # 0
  BY <1>1, <1>3 DEF VideoTypeOK
<1>5. handle' = [k \in KindSet |-> n] /\ alive' = {<<k, n>> : k \in KindSet}
  <2>1. handle' = WithMade(NoHandles, Len(Kinds), n) /\ alive' = MadeBy(Len(Kinds), n)
    BY <1>2, <1>3, Zenon DEF VideoOpen
  <2> QED  BY <1>4, <2>1, AllMade, Zenon
<1>6. w \in Nat \ {0} /\ h \in Nat \ {0} /\ s \in Nat \ {0}
  BY DEF VideoAssumption
<1>7. /\ opens' = n /\ active' = TRUE /\ videoInput' = Unpressed
      /\ windowGone' = FALSE /\ seen' = NothingSeen
      /\ size' = [width |-> w, height |-> h, scale |-> s]
      /\ pixels' = [i \in 0 .. w * s * h * s - 1 |-> -1]
  BY <1>3, Zenon DEF VideoOpen, InputOnOpen
<1>8. /\ size' \in [width : Nat \ {0}, height : Nat \ {0}, scale : Nat \ {0}]
      /\ size' \in [width : Nat, height : Nat, scale : Nat]
      /\ size'.width = w /\ size'.height = h /\ size'.scale = s
  BY <1>6, <1>7
<1>9. VideoTypeOK'
  <2>1. handle' \in [KindSet -> Nat]
    BY <1>4, <1>5
  <2> QED  BY <1>4, <1>7, <1>8, <2>1, UnpressedInput, NothingSeenType DEF VideoTypeOK, Inputs
<1>10. Pictured'
  <2>1. DOMAIN pixels' = 0 .. w * s * h * s - 1
    BY <1>7, Zenon
  <2> QED  BY <1>8, <2>1, Zenon DEF Pictured
<1>11. GoneIsInactive' /\ QuitSeen'
  BY <1>7 DEF GoneIsInactive, QuitSeen
<1>12. OneSession'
  <2>1. "display" \in KindSet
    BY KindsAre
  <2>2. \A k \in KindSet : handle'[k] = n
    BY <1>5, Zenon
  <2>3. {x \in KindSet : handle'[x] # 0} = KindSet
    BY <1>4, <2>2, Zenon
  <2>4. alive' = {<<k, handle'[k]>> : k \in {x \in KindSet : handle'[x] # 0}}
    BY <1>5, <2>2, <2>3, Zenon
  <2> QED  BY <1>4, <2>1, <2>2, <2>4, Zenon DEF OneSession
<1>13. MouseInside'
  BY <1>6, <1>7, <1>8 DEF MouseInside, Unpressed
<1>14. FrameCoversWindow'
  BY <1>7, Zenon DEF FrameCoversWindow
<1> QED  BY <1>9, <1>10, <1>11, <1>12, <1>13, <1>14, Zenon DEF VideoInv, WindowSound

(* What taking events leaves true, with an open window. *)
LEMMA PumpInv ==
  ASSUME VideoAssumption, VideoInv, active, NEW es \in Waiting, Pump(es),
         opens' = opens, handle' = handle, alive' = alive, size' = size,
         DOMAIN pixels' = DOMAIN pixels,
         seen' \in [quit : BOOLEAN, current : BOOLEAN]
  PROVE  VideoTypeOK' /\ Pictured' /\ GoneIsInactive' /\ OneSession' /\ MouseInside'
<1>1. VideoTypeOK /\ Pictured /\ GoneIsInactive /\ OneSession /\ MouseInside
  BY DEF VideoInv, WindowSound
<1>2. size \in [width : Nat \ {0}, height : Nat \ {0}, scale : Nat \ {0}]
  BY <1>1 DEF Pictured
<1>3. videoInput \in Inputs /\ Inside(videoInput)
  BY <1>1, InvInputs, Zenon DEF MouseInside, Inside
<1>4. videoInput' = InputAfter(videoInput, es)
  BY DEF Pump
<1>5. videoInput' \in Inputs /\ Inside(videoInput')
  BY <1>2, <1>3, <1>4, PumpInside, Zenon
<1>6. active' \in BOOLEAN /\ windowGone' \in BOOLEAN
  BY Zenon DEF Pump
<1>7. GoneIsInactive'
  <2>1. ~windowGone
    BY <1>1, Zenon DEF GoneIsInactive
  <2> QED  BY <2>1, Zenon DEF Pump, GoneIsInactive
<1>8. VideoTypeOK'
  BY <1>1, <1>5, <1>6, Zenon DEF VideoTypeOK, Inputs
<1>9. Pictured'
  BY <1>1, Zenon DEF Pictured
<1>10. OneSession'
  BY <1>1, Zenon DEF OneSession
<1>11. MouseInside'
  BY <1>5, Zenon DEF MouseInside, Inside
<1> QED  BY <1>7, <1>8, <1>9, <1>10, <1>11

LEMMA VideoPresentInv ==
  ASSUME VideoAssumption, VideoInv, NEW es \in Waiting, VideoPresent(es)
  PROVE  VideoInv'
<1>1. active /\ Pictured
  BY DEF VideoInv, VideoPresent, Ready
<1>2. /\ Pump(es) /\ seen' = NothingSeen
      /\ opens' = opens /\ handle' = handle /\ alive' = alive /\ size' = size
  BY Zenon DEF VideoPresent
<1>3. pixels' = [i \in DOMAIN pixels |->
        IF \E c \in Copied : c[1] = i THEN (CHOOSE c \in Copied : c[1] = i)[2] ELSE pixels[i]]
  BY Zenon DEF VideoPresent
<1>4. DOMAIN pixels' = DOMAIN pixels /\ \A i \in DOMAIN pixels : pixels'[i] = Covering(i)
  BY <1>1, <1>3, PresentCovers, Zenon
<1>5. VideoTypeOK' /\ Pictured' /\ GoneIsInactive' /\ OneSession' /\ MouseInside'
  BY <1>1, <1>2, <1>4, PumpInv, NothingSeenType, Zenon
<1>6. FrameCoversWindow'
  <2>1. \A i \in DOMAIN pixels' :
          LET row == size'.width * size'.scale IN
          pixels'[i] = ((i \div row) \div size'.scale) * size'.width + (i % row) \div size'.scale
    BY <1>2, <1>4, Zenon DEF Covering
  <2> QED  BY <2>1, Zenon DEF FrameCoversWindow
<1>7. QuitSeen'
  BY <1>2, NothingSeenType, Zenon DEF QuitSeen
<1> QED  BY <1>5, <1>6, <1>7, Zenon DEF VideoInv, WindowSound

LEMMA VideoInputInv ==
  ASSUME VideoAssumption, VideoInv, NEW es \in Waiting, VideoInput(es)
  PROVE  VideoInv'
<1>1. VideoTypeOK /\ Pictured /\ GoneIsInactive /\ OneSession /\ MouseInside /\ FrameCoversWindow
  BY DEF VideoInv, WindowSound
<1>2. /\ opens' = opens /\ handle' = handle /\ alive' = alive /\ size' = size /\ pixels' = pixels
      /\ seen' = [quit |-> QuitAnswer(videoInput', active'), current |-> TRUE]
  BY Zenon DEF VideoInput
<1>3. active' => active
  <2>1. CASE active
    BY <2>1
  <2>2. CASE ~active
    BY <2>2, Zenon DEF VideoInput
  <2> QED  BY <2>1, <2>2
<1>4. FrameCoversWindow'
  BY <1>1, <1>2, <1>3, Zenon DEF FrameCoversWindow
<1>5. seen'.current /\ seen'.quit = QuitAnswer(videoInput', active')
  BY <1>2
<1>6. ASSUME videoInput' \in Inputs, active' \in BOOLEAN
      PROVE  seen' \in [quit : BOOLEAN, current : BOOLEAN]
  <2>1. QuitAnswer(videoInput', active') \in BOOLEAN
    BY <1>6, Zenon DEF QuitAnswer
  <2> QED  BY <1>2, <2>1
<1>7. VideoTypeOK' /\ Pictured' /\ GoneIsInactive' /\ OneSession' /\ MouseInside'
  <2>1. CASE active
    <3>1. Pump(es)
      BY <2>1, Zenon DEF VideoInput
    <3>2. videoInput' \in Inputs /\ active' \in BOOLEAN
      <4>1. size \in [width : Nat \ {0}, height : Nat \ {0}, scale : Nat \ {0}]
        BY <1>1, <2>1 DEF Pictured
      <4>2. videoInput' = InputAfter(videoInput, es) /\ active' \in BOOLEAN
        BY <3>1, Zenon DEF Pump
      <4> QED  BY <1>1, <4>1, <4>2, InvInputs, PumpInside, Zenon
    <3>3. seen' \in [quit : BOOLEAN, current : BOOLEAN]
      BY <1>6, <3>2
    <3> QED  BY <1>2, <2>1, <3>1, <3>3, PumpInv, Zenon
  <2>2. CASE ~active
    <3>1. videoInput' = videoInput /\ active' = active /\ windowGone' = windowGone
      BY <2>2, Zenon DEF VideoInput
    <3>2. seen' \in [quit : BOOLEAN, current : BOOLEAN]
      BY <1>1, <1>6, <3>1, InvInputs, Zenon DEF VideoTypeOK
    <3>3. VideoTypeOK'
      BY <1>1, <1>2, <3>1, <3>2, Zenon DEF VideoTypeOK
    <3> QED  BY <1>1, <1>2, <2>2, <3>1, <3>3, Zenon
             DEF Pictured, GoneIsInactive, OneSession, MouseInside
  <2> QED  BY <2>1, <2>2
<1>8. QuitSeen'
  BY <1>5, <1>7, Zenon DEF QuitSeen, GoneIsInactive, QuitAnswer
<1> QED  BY <1>4, <1>7, <1>8, Zenon DEF VideoInv, WindowSound

LEMMA VideoStutter == VideoInv /\ UNCHANGED videoVars => VideoInv'
<1> SUFFICES ASSUME VideoInv, UNCHANGED videoVars  PROVE VideoInv'
  OBVIOUS
<1>1. /\ opens' = opens /\ active' = active /\ handle' = handle /\ alive' = alive
      /\ size' = size /\ videoInput' = videoInput /\ pixels' = pixels
      /\ windowGone' = windowGone /\ seen' = seen
  BY DEF videoVars
<1> QED  BY <1>1, Zenon DEF VideoInv, VideoTypeOK, Pictured, GoneIsInactive, WindowSound,
                            OneSession, MouseInside, FrameCoversWindow, QuitSeen

LEMMA VideoStepInv ==
  ASSUME VideoAssumption, ~ReopensAfterQuit, VideoInv, [VideoNext]_videoVars
  PROVE  VideoInv'
<1>1. CASE VideoClose
  BY <1>1, VideoCloseInv
<1>2. CASE VideoUnavailable
  BY <1>2, VideoUnavailableInv
<1>3. ASSUME NEW w \in Sizes, NEW h \in Sizes, NEW s \in Scales, VideoOpen(w, h, s)
      PROVE  VideoInv'
  BY <1>3, VideoOpenInv, Zenon
<1>4. ASSUME NEW w \in Sizes, NEW h \in Sizes, NEW s \in Scales, NEW made \in 0 .. 4,
             VideoOpenFails(made, w, h, s)
      PROVE  VideoInv'
  BY <1>4, VideoOpenFailsInv, Zenon
<1>5. ASSUME NEW es \in Waiting, VideoPresent(es)  PROVE VideoInv'
  BY <1>5, VideoPresentInv, Zenon
<1>6. ASSUME NEW es \in Waiting, VideoInput(es)  PROVE VideoInv'
  BY <1>6, VideoInputInv, Zenon
<1>7. CASE UNCHANGED videoVars
  BY <1>7, VideoStutter
<1> QED  BY <1>1, <1>2, <1>3, <1>4, <1>5, <1>6, <1>7, Zenon DEF VideoNext

(***************************************************************************)
(* The window of a script that does not open another one after the user    *)
(* closed it: the handles are those of the open window and of no other,    *)
(* whichever call of video_abrir fails; the mouse is inside the frame; a   *)
(* presented frame covers the window, each pixel with the frame's pixel    *)
(* over it, whatever the sizes and the scale; and a script that asks for   *)
(* its input learns that the window is gone.                               *)
(***************************************************************************)
THEOREM WindowAlwaysSound == ~ReopensAfterQuit /\ VideoSpec => []WindowSound
<1>1. VideoInv => WindowSound
  BY DEF VideoInv
<1>2. VideoInit => VideoInv
  BY VideoInitInv
<1>3. ~ReopensAfterQuit /\ VideoInv /\ [VideoNext]_videoVars => VideoInv'
  BY VideoStepInv, VideoAssumption
<1>4. ~ReopensAfterQuit => (VideoSpec => []WindowSound)
  <2> SUFFICES ASSUME ~ReopensAfterQuit  PROVE VideoSpec => []WindowSound
    OBVIOUS
  <2>1. VideoInv /\ [VideoNext]_videoVars => VideoInv'
    BY <1>3
  <2> QED  BY <1>1, <1>2, <2>1, PTL DEF VideoSpec
<1> QED  BY <1>4

(***************************************************************************)
(* "libera recursos do backend de video", for such a script: video_fechar  *)
(* leaves the process nothing of libX11.                                   *)
(***************************************************************************)
THEOREM BackendFreed == ~ReopensAfterQuit /\ VideoSpec => FreesBackend
<1> SUFFICES ASSUME ~ReopensAfterQuit  PROVE VideoSpec => FreesBackend
  OBVIOUS
<1>1. VideoInit => VideoInv
  BY VideoInitInv
<1>2. VideoInv /\ [VideoNext]_videoVars => VideoInv'
  BY VideoStepInv, VideoAssumption
<1>3. VideoInv => [VideoClose => alive' = {}]_videoVars
  <2> SUFFICES ASSUME VideoInv, VideoClose  PROVE alive' = {}
    OBVIOUS
  <2>1. alive' = alive \ Freed(handle)
    BY DEF VideoClose
  <2>2. VideoTypeOK /\ OneSession
    BY DEF VideoInv, WindowSound
  <2> QED  BY <2>1, <2>2, ClosedFrees, Zenon
<1> QED  BY <1>1, <1>2, <1>3, PTL DEF VideoSpec, FreesBackend
===============================================================================
