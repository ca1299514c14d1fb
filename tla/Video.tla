--------------------------------- MODULE Video ---------------------------------
(***************************************************************************)
(* The window of a script (quickjs-libc.c): video_abrir, video_apresentar, *)
(* video_entrada and video_fechar over libX11.  A handle is the number of  *)
(* the session that made it, 0 for NULL.  Which libX11 calls fail and      *)
(* which events arrive is up to the system.                                *)
(*                                                                         *)
(* Products of sizes are taken without their width: windows with a side of *)
(* 2^31 pixels are left out.                                               *)
(***************************************************************************)
EXTENDS Integers, Sequences, FiniteSets

CONSTANTS
  Sizes,              \* widths and heights that scripts ask for
  Scales,
  Clicks,             \* window coordinates of mouse events
  MaxOpens,           \* bound: calls of video_abrir
  ReopensAfterQuit    \* whether a script calls video_abrir again after the
                      \* user closed the window, without video_fechar

ASSUME VideoAssumption ==
  /\ Sizes \subseteq Nat \ {0} /\ Scales \subseteq Nat \ {0} /\ Clicks \subseteq Int
  /\ MaxOpens \in Nat /\ ReopensAfterQuit \in BOOLEAN

(* In the order video_abrir makes them. *)
Kinds == <<"display", "window", "gc", "image_data", "image">>
KindSet == {Kinds[i] : i \in DOMAIN Kinds}
NoHandles == [k \in KindSet |-> 0]
Unpressed == [keys |-> {}, x |-> 0, y |-> 0, quit |-> FALSE]

VARIABLES
  opens,              \* how often video_abrir was called
  active, handle,     \* of js_pt_video_state
  alive,              \* what libX11 and malloc gave and did not get back
  size,               \* width, height and scale
  videoInput,         \* js_pt_video_state.input
  pixels,             \* image_data: the frame pixel each pixel shows, -1 for black
  windowGone,         \* history: the user closed the window of this session
  seen                \* history: what the last video_entrada answered

videoVars == <<opens, active, handle, alive, size, videoInput, pixels, windowGone, seen>>

NothingSeen == [quit |-> FALSE, current |-> FALSE]

VideoInit ==
  /\ opens = 0 /\ active = FALSE /\ handle = NoHandles /\ alive = {}
  /\ size = [width |-> 0, height |-> 0, scale |-> 0]
  /\ videoInput = Unpressed /\ pixels = <<>>
  /\ windowGone = FALSE /\ seen = NothingSeen

-----------------------------------------------------------------------------
(* js_pt_video_close: what it frees of the handles h, and what h is then.
   The window and the gc are freed through the display.  The slip frees the
   image only. *)
FreedImageOnly(h) == {<<k, h[k]>> : k \in {x \in {"image", "image_data"} : h[x] # 0}}
Freed(h) ==
  {<<k, h[k]>> : k \in {x \in KindSet :
     h[x] # 0 /\ (x \in {"gc", "window"} => h["display"] # 0)}}
Closed(h) ==
  [k \in KindSet |-> IF k \in {"gc", "window"} /\ h["display"] = 0 THEN h[k] ELSE 0]

(* video_fechar, sair and the exit handler. *)
VideoClose ==
  /\ alive' = alive \ Freed(handle) /\ handle' = Closed(handle)
  /\ active' = FALSE /\ videoInput' = Unpressed
  /\ seen' = NothingSeen
  /\ UNCHANGED <<opens, size, pixels, windowGone>>

-----------------------------------------------------------------------------
(* video_abrir makes the handles one after the other; the first `made` of
   them are given, and the next one, if there is one, is NULL.  Nothing made
   and nothing tried: no libX11 or no DISPLAY. *)
WithMade(h, made, n) ==
  [k \in KindSet |->
    IF \E i \in 1 .. made : Kinds[i] = k THEN n
    ELSE IF made < Len(Kinds) /\ Kinds[made + 1] = k THEN 0 ELSE h[k]]

(* An open window is closed first; one that the user closed is not active,
   and its handles are overwritten. *)
OpenFrom == IF active THEN Closed(handle) ELSE handle
StillAlive == IF active THEN alive \ Freed(handle) ELSE alive

VideoUnavailable ==
  /\ opens < MaxOpens /\ opens' = opens + 1
  /\ handle' = OpenFrom /\ alive' = StillAlive
  /\ active' = FALSE /\ videoInput' = IF active THEN Unpressed ELSE videoInput
  /\ seen' = NothingSeen
  /\ UNCHANGED <<size, pixels, windowGone>>

MadeBy(made, n) == {<<Kinds[i], n>> : i \in 1 .. made}
VideoOpenFails(made, w, h, s) ==
  LET held == WithMade(OpenFrom, made, opens + 1)
      all == StillAlive \cup MadeBy(made, opens + 1)
  IN
  /\ opens < MaxOpens /\ opens' = opens + 1
  /\ ReopensAfterQuit \/ active \/ handle = NoHandles
  /\ made < Len(Kinds)
  /\ IF made = 0      \* no display: nothing to close
     THEN handle' = held /\ alive' = all
          /\ videoInput' = IF active THEN Unpressed ELSE videoInput
     ELSE handle' = Closed(held) /\ alive' = all \ Freed(held) /\ videoInput' = Unpressed
  /\ size' = IF made >= 3 THEN [width |-> w, height |-> h, scale |-> s] ELSE size
  /\ active' = FALSE /\ seen' = NothingSeen
  /\ UNCHANGED <<pixels, windowGone>>

(* The input of the session before is cleared; the slip keeps it. *)
InputOnOpenKept == videoInput
InputOnOpen == Unpressed
VideoOpen(w, h, s) ==
  /\ opens < MaxOpens /\ opens' = opens + 1
  /\ ReopensAfterQuit \/ active \/ handle = NoHandles
  /\ handle' = WithMade(OpenFrom, Len(Kinds), opens + 1)
  /\ alive' = StillAlive \cup MadeBy(Len(Kinds), opens + 1)
  /\ size' = [width |-> w, height |-> h, scale |-> s]
  /\ pixels' = [i \in 0 .. w * s * h * s - 1 |-> -1]
  /\ active' = TRUE /\ videoInput' = InputOnOpen
  /\ windowGone' = FALSE /\ seen' = NothingSeen

-----------------------------------------------------------------------------
(* js_pt_video_pump_events takes the events that wait; here they are none or
   a few, in any order. *)

(* A window coordinate as one of the frame: int division towards zero, then
   into the frame.  The slip does not look at the upper end. *)
TowardsZero(v, s) == IF v >= 0 THEN v \div s ELSE -((-v) \div s)
LogicalUnclamped(v, s, n) == IF TowardsZero(v, s) < 0 THEN 0 ELSE TowardsZero(v, s)
Logical(v, s, n) ==
  LET l == TowardsZero(v, s) IN IF l < 0 THEN 0 ELSE IF l >= n THEN n - 1 ELSE l

VideoEvents ==
  [type : {"key_press", "key_release"}, key : {"w", "left"}]
    \cup [type : {"motion"}, x : Clicks, y : Clicks]
    \cup [type : {"wm_delete", "destroy", "focus_out", "other"}]

Applied(in, e) ==
  CASE e.type = "key_press" -> [in EXCEPT !.keys = @ \cup {e.key}]
    [] e.type = "key_release" -> [in EXCEPT !.keys = @ \ {e.key}]
    [] e.type = "motion" -> [in EXCEPT !.x = Logical(e.x, size.scale, size.width),
                                       !.y = Logical(e.y, size.scale, size.height)]
    [] e.type \in {"wm_delete", "destroy"} -> [in EXCEPT !.quit = TRUE]
    [] e.type = "focus_out" -> Unpressed
    [] OTHER -> in
EndsSession(e) == e.type \in {"wm_delete", "destroy"}

(* Up to two events are taken; the loop does not stop when the first one
   ends the session. *)
Waiting == {<<>>} \cup {<<e>> : e \in VideoEvents}
             \cup {<<e, f>> : e \in {x \in VideoEvents : EndsSession(x)}, f \in VideoEvents}
InputAfter(in, es) ==
  CASE Len(es) = 0 -> in
    [] Len(es) = 1 -> Applied(in, es[1])
    [] Len(es) = 2 -> Applied(Applied(in, es[1]), es[2])
Pump(es) ==
  /\ videoInput' = InputAfter(videoInput, es)
  /\ active' = (~\E i \in DOMAIN es : EndsSession(es[i]))
  /\ windowGone' = (windowGone \/ \E i \in DOMAIN es : EndsSession(es[i]))

-----------------------------------------------------------------------------
(* video_apresentar copies each pixel of the frame to a square of the image;
   the slip counts the rows of the image in pixels of the frame. *)
DestinationUnscaled(x, y, sx, sy) == (y * size.scale + sy) * size.width + x * size.scale + sx
Destination(x, y, sx, sy) ==
  (y * size.scale + sy) * (size.width * size.scale) + x * size.scale + sx
Copied ==
  {<<Destination(x, y, sx, sy), y * size.width + x>> :
     x \in 0 .. size.width - 1, y \in 0 .. size.height - 1,
     sx \in 0 .. size.scale - 1, sy \in 0 .. size.scale - 1}

Ready == active /\ handle["display"] # 0 /\ handle["image"] # 0
VideoPresent(es) ==
  /\ Ready
  /\ pixels' = [i \in DOMAIN pixels |->
       IF \E c \in Copied : c[1] = i THEN (CHOOSE c \in Copied : c[1] = i)[2] ELSE pixels[i]]
  /\ Pump(es)
  /\ seen' = NothingSeen
  /\ UNCHANGED <<opens, handle, alive, size>>
(* A frame that is too short throws; without a window the answer is false. *)

(* quit in the answer of video_entrada; the slip forgets the second half. *)
QuitAnswerFlag(in, act) == in.quit
QuitAnswer(in, act) == in.quit \/ ~act
VideoInput(es) ==
  /\ IF active THEN Pump(es) ELSE es = <<>> /\ UNCHANGED <<videoInput, active, windowGone>>
  /\ seen' = [quit |-> QuitAnswer(videoInput', active'), current |-> TRUE]
  /\ UNCHANGED <<opens, handle, alive, size, pixels>>

-----------------------------------------------------------------------------
VideoNext ==
  \/ VideoClose \/ VideoUnavailable
  \/ \E w, h \in Sizes, s \in Scales :
       VideoOpen(w, h, s) \/ \E made \in 0 .. 4 : VideoOpenFails(made, w, h, s)
  \/ \E es \in Waiting : VideoPresent(es) \/ VideoInput(es)

VideoSpec == VideoInit /\ [][VideoNext]_videoVars

-----------------------------------------------------------------------------
(***************************************************************************)
(* What the process holds of libX11 is what its handles name, all of one   *)
(* session: every failing video_abrir gives back what it had made, a       *)
(* window is closed before the next is opened, and nothing is freed twice  *)
(* or through another display.                                             *)
(***************************************************************************)
OneSession ==
  /\ alive = {<<k, handle[k]>> : k \in {x \in KindSet : handle[x] # 0}}
  /\ \A k \in KindSet : handle[k] \in {0, handle["display"]}
  /\ active => \A k \in KindSet : handle[k] # 0

(***************************************************************************)
(* While there is an image the mouse is inside its frame, wherever the     *)
(* events were, and also after a larger window was open before.            *)
(***************************************************************************)
MouseInside ==
  active => videoInput.x \in 0 .. size.width - 1 /\ videoInput.y \in 0 .. size.height - 1

(***************************************************************************)
(* Each pixel of an image that was presented shows the pixel of the frame  *)
(* that covers it, and no pixel is left black.                             *)
(***************************************************************************)
FrameCoversWindow ==
  active /\ (\E i \in DOMAIN pixels : pixels[i] # -1) =>
    \A i \in DOMAIN pixels :
      LET row == size.width * size.scale IN
      pixels[i] = ((i \div row) \div size.scale) * size.width + (i % row) \div size.scale

(***************************************************************************)
(* A script that asks learns that the user closed the window, also when    *)
(* the loss of focus that follows cleared the input.                       *)
(***************************************************************************)
QuitSeen == seen.current /\ windowGone => seen.quit

(***************************************************************************)
(* "libera recursos do backend de video": after video_fechar the process   *)
(* holds nothing of libX11.                                                *)
(***************************************************************************)
FreesBackend == [][VideoClose => alive' = {}]_videoVars

(***************************************************************************)
(* Across openings, closings and what the server does to the window in     *)
(* between: the handles belong to the one open window, the mouse is inside *)
(* the picture, a frame covers the window, and a script that asks for its  *)
(* input learns that the window is gone.                                   *)
(***************************************************************************)
WindowSound ==
  /\ OneSession
  /\ MouseInside
  /\ FrameCoversWindow
  /\ QuitSeen
=============================================================================
