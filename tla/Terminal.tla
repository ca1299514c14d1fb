------------------------------- MODULE Terminal -------------------------------
(***************************************************************************)
(* The raw mode of the terminal (quickjs-libc.c): ativar_terminal_cru      *)
(* saves the settings and the flags of standard input and changes both,    *)
(* desativar_terminal_cru, sair and an exit handler put them back.  Every  *)
(* call of the system fails or succeeds, those that put back included,     *)
(* whose results nobody looks at, and a signal may end the process between *)
(* any two of them: raw mode keeps ISIG.                                   *)
(***************************************************************************)
EXTENDS Naturals

Settings == {"canonical", "raw"}
Flags == {"blocking", "nonblocking"}

VARIABLES
  tty,          \* settings and flags of standard input
  ttyFound,      \* history: what they were when the process started
  saved,        \* old_termios and old_flags
  rawActive,    \* js_pt_terminal_state.active
  atExit,       \* js_pt_terminal_cleanup_registered
  stage,            \* where the process is
  refused       \* history: what the system once refused to put back

terminalVars == <<tty, ttyFound, saved, rawActive, atExit, stage, refused>>

TerminalInit ==
  /\ tty \in [termios : {"canonical"}, flags : Flags]
  /\ ttyFound = tty
  /\ saved = [termios |-> "raw", flags |-> "nonblocking"]   \* never read before it is written
  /\ rawActive = FALSE /\ atExit = FALSE
  /\ stage = "script"
  /\ refused = {}

Changed(field, value) == tty' = [tty EXCEPT ![field] = value] /\ UNCHANGED refused

(* A call that puts back what was saved; its result is ignored. *)
PutBack(field) ==
  \/ Changed(field, saved[field])
  \/ refused' = refused \cup {field} /\ UNCHANGED tty

-----------------------------------------------------------------------------
(* ativar_terminal_cru; standard input is a terminal. *)

(* Already active: nothing is read again.  The slip forgets to look. *)
AlreadyForgotten == FALSE
Already == rawActive
Ativar ==
  /\ stage = "script"
  /\ atExit' = TRUE
  /\ stage' = IF Already THEN "script" ELSE "tcgetattr"
  /\ UNCHANGED <<tty, ttyFound, saved, rawActive, refused>>

(* tcgetattr and F_GETFL; either may fail, and then an exception is thrown. *)
ReadSettings ==
  /\ stage = "tcgetattr"
  /\ \/ saved' = tty /\ stage' = "tcsetattr"
     \/ saved' \in {saved, [saved EXCEPT !.termios = tty.termios]} /\ stage' = "script"
  /\ UNCHANGED <<tty, ttyFound, rawActive, atExit, refused>>

SetRaw ==
  /\ stage = "tcsetattr"
  /\ \/ Changed("termios", "raw") /\ stage' = "fcntl"
     \/ UNCHANGED <<tty, refused>> /\ stage' = "script"
  /\ UNCHANGED <<ttyFound, saved, rawActive, atExit>>

(* F_SETFL; when it fails the settings are put back.  The slip leaves them. *)
UndoneNothing == UNCHANGED <<tty, refused>>
Undone == PutBack("termios")
SetNonBlocking ==
  /\ stage = "fcntl"
  /\ \/ Changed("flags", "nonblocking") /\ stage' = "marking" /\ UNCHANGED rawActive
     \/ Undone /\ stage' = "script" /\ UNCHANGED rawActive
  /\ UNCHANGED <<ttyFound, saved, atExit>>
MarkActive ==
  /\ stage = "marking"
  /\ rawActive' = TRUE /\ stage' = "script"
  /\ UNCHANGED <<tty, ttyFound, saved, atExit, refused>>

-----------------------------------------------------------------------------
(* js_pt_restore_terminal_state, in two system calls. *)

RestoreThen(here, between, next) ==
  \/ /\ stage = here /\ rawActive
     /\ PutBack("termios")
     /\ stage' = between
     /\ UNCHANGED <<ttyFound, saved, rawActive, atExit>>
  \/ /\ stage = here /\ ~rawActive
     /\ stage' = next
     /\ UNCHANGED <<tty, ttyFound, saved, rawActive, atExit, refused>>
  \/ /\ stage = between
     /\ PutBack("flags")
     /\ rawActive' = FALSE /\ stage' = next
     /\ UNCHANGED <<ttyFound, saved, atExit>>

Calls(there) ==
  /\ stage = "script" /\ stage' = there
  /\ UNCHANGED <<tty, ttyFound, saved, rawActive, atExit, refused>>

Desativar == Calls("desativar") \/ RestoreThen("desativar", "desativar:fcntl", "script")

(* sair(codigo) restores and calls exit.  A script that ends, or fails with
   an exception or an unhandled rejection, calls it too. *)
Sair == Calls("sair") \/ RestoreThen("sair", "sair:fcntl", "exit")
ScriptEnds == Calls("exit")

(* exit runs the handler if it was registered; the slip registers none. *)
RunsHandlerForgotten == FALSE
RunsHandler == atExit
ProcessExit ==
  \/ /\ stage = "exit" /\ stage' = IF RunsHandler THEN "handler" ELSE "exited"
     /\ UNCHANGED <<tty, ttyFound, saved, rawActive, atExit, refused>>
  \/ RestoreThen("handler", "handler:fcntl", "exited")

(* External: a signal with its default action. *)
Killed ==
  /\ stage \notin {"exited", "killed"}
  /\ stage' = "killed"
  /\ UNCHANGED <<tty, ttyFound, saved, rawActive, atExit, refused>>

TerminalNext ==
  \/ Ativar \/ ReadSettings \/ SetRaw \/ SetNonBlocking \/ MarkActive
  \/ Desativar \/ Sair \/ ScriptEnds \/ ProcessExit \/ Killed

TerminalSpec == TerminalInit /\ [][TerminalNext]_terminalVars

-----------------------------------------------------------------------------
(* The settings, or the flags, are those that were found, unless the system
   refused to put them back. *)
AsFound(field) == field \in refused \/ tty[field] = ttyFound[field]

(***************************************************************************)
(* A process that calls exit, through sair, at its end or by an error,     *)
(* leaves the terminal as it found it, also after activations that failed  *)
(* halfway and however often raw mode was switched on and off.  Only what  *)
(* the system refused to put back is left changed: a refused tcsetattr     *)
(* does not keep the flags from being put back.                            *)
(***************************************************************************)
RestoredOnExit == stage = "exited" => AsFound("termios") /\ AsFound("flags")

(***************************************************************************)
(* While raw mode is off the script reads lines from the terminal as it    *)
(* was found: a failed activation leaves no half of its change behind,     *)
(* unless the system also refuses to undo it.                              *)
(***************************************************************************)
AsFoundWhileOff == stage = "script" /\ ~rawActive => AsFound("termios") /\ AsFound("flags")

(***************************************************************************)
(* Whatever the system did not refuse to put back is as the program found  *)
(* it whenever the raw mode is off, and after the process called exit.     *)
(***************************************************************************)
TerminalSound ==
  /\ RestoredOnExit
  /\ AsFoundWhileOff

(***************************************************************************)
(* The terminal is as it was found after the end of the process, also when *)
(* a signal such as that of Ctrl-C, which raw mode leaves on, ended it.    *)
(***************************************************************************)
RestoredAtEnd == stage \in {"exited", "killed"} => AsFound("termios") /\ AsFound("flags")
=============================================================================
