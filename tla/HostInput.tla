------------------------------ MODULE HostInput ------------------------------
(***************************************************************************)
(* How host input becomes guest input (runner/src/frontend.cpp, the event  *)
(* loop and the once-per-frame poll of nds_run_interactive_frontend;       *)
(* relative_mouse_touch.cpp).  Five layers share the controls: the runtime *)
(* menu, the virtual stylus, Prime Controls, the captured mouse and the    *)
(* plain button map; every event goes through them in that order.  The     *)
(* bindings, the sources and the guest's buttons are small sets, screen    *)
(* positions are the region they fall in.  The menu itself is external.    *)
(***************************************************************************)
EXTENDS Naturals, Sequences, FiniteSets

CONSTANTS Configs,   \* option sets a session starts with
          Button,    \* control -> guest buttons of key_bit and controller_bit
          Prime,     \* control -> Prime Controls actions bound to it
          Stylus,    \* control -> "hold", "tap" or "none"
          MenuInput, \* control -> the menu input of that key or button, or "none"
          Keys, Pads, Mice,  \* the keyboard keys, pad buttons and mouse buttons
          MaxIdle    \* frames a released pad stays engaged (45)

VARIABLES
  config,    \* the session's options
  u,         \* the frontend's input state
  held,      \* controls that are down by the events delivered so far
  swallowed, \* controls whose release a higher layer took
  tap,       \* [frames, clean]: frames the guest saw the last click, and
             \* whether nothing but the click moved the pen since
  guest      \* what the guest saw, when the last step was a frame

vars == <<config, u, held, swallowed, tap, guest>>

Trigger == "rt"
\* mph_prime_hold_mask; the other actions start a touch sequence
HoldMask(action) ==
  CASE action = "move" -> {"up"}
    [] action = "zoom" -> {"r"}
    [] action = "shoot" -> {"l"}
    [] OTHER -> {}
Fire == {"l"}    \* options.relative_mouse_fire_mask

\* the guest buttons a control can press, by any layer
Buttons(c) ==
  Button[c] \cup UNION {HoldMask(a) : a \in Prime[c]}
            \cup (IF c = "left" THEN Fire ELSE {})

\* start_mph_touch_action: pen up, down on the target, up again
TouchSteps == <<"up", "target", "up">>

CapturedOrPad(g) == g.cap \/ g.engaged
PrimeActive(g) == config.prime /\ CapturedOrPad(g)
StylusActive(g) == config.stylus /\ (g.pointer \/ g.padHold)

\* publish_keys
Published(g) ==
  [g EXCEPT !.keys = g.keyboard \cup g.controller \cup g.mouse
                       \cup g.prime \cup g.stick]

\* update_mph_prime_pressed: fire is the stylus tap while the stylus is held
WithActions(g, acts) ==
  LET live == IF "stylus" \in acts THEN acts \ {"shoot"} ELSE acts
  IN Published([g EXCEPT !.acts = acts,
                         !.prime = UNION {HoldMask(a) : a \in live}])

-----------------------------------------------------------------------------
(* Capture and release.                                                    *)

\* release_virtual_stylus_capture
StylusUncaptured(g) ==
  IF g.owned
  THEN [g EXCEPT !.owned = FALSE, !.relative = g.cap /\ g.relative]
  ELSE g

\* clear_virtual_stylus
ClearStylus(g) ==
  StylusUncaptured([g EXCEPT !.pointer = FALSE, !.padHold = FALSE,
                             !.tapHeld = FALSE, !.touch = "up"])

\* clear_mph_prime_controls
ClearPrime(g) == [g EXCEPT !.acts = {}, !.prime = {}, !.steps = <<>>]

\* release_relative_mouse
ReleaseRelative(g) ==
  LET uncaptured == IF g.cap
                    THEN [g EXCEPT !.cap = FALSE, !.relative = FALSE,
                                   !.touch = "up"]
                    ELSE g
      cleared == ClearStylus(ClearPrime([uncaptured EXCEPT !.mouse = {}]))
  IN [Published(cleared) EXCEPT !.delta = FALSE]

\* capture_relative_mouse
CaptureRelative(g) ==
  IF ~config.relative \/ g.cap THEN g
  ELSE LET silent == IF config.prime /\ g.keyboard # {}
                     THEN Published([g EXCEPT !.keyboard = {}]) ELSE g
       IN [silent EXCEPT !.cap = TRUE, !.relative = TRUE, !.touch = "relative"]

\* capture_virtual_stylus_mouse
CaptureStylus(g) ==
  IF g.owned \/ g.cap THEN g
  ELSE [g EXCEPT !.owned = TRUE, !.relative = TRUE]

\* set_virtual_stylus_pointer_hold
PointerHold(g, down) ==
  LET h == [g EXCEPT !.pointer = down]
  IN IF down THEN CaptureStylus(h)
     ELSE IF g.padHold THEN h
     ELSE [StylusUncaptured([h EXCEPT !.tapHeld = FALSE]) EXCEPT !.touch = "up"]

\* set_virtual_stylus_pad_hold
PadHold(g, down) ==
  LET h == [g EXCEPT !.padHold = down]
  IN IF down \/ g.pointer THEN h
     ELSE [h EXCEPT !.tapHeld = FALSE, !.touch = "up"]

\* The tap binding of a key or a mouse button is consumed even when no stylus
\* is shown.
PointerTap(g, down) ==
  [g EXCEPT !.tapHeld = down /\ (StylusActive(g) \/ g.tapHeld)]

-----------------------------------------------------------------------------
(* The layers a key, a pad button or a mouse button goes through.          *)

\* set_mph_prime_action for every action bound to the control
PrimeAction(g, c, down) ==
  LET holds == {a \in Prime[c] : HoldMask(a) # {} \/ a = "stylus"}
      taps == Prime[c] \ holds
      sequenced == IF down /\ taps # {} THEN [g EXCEPT !.steps = TouchSteps] ELSE g
  IN IF holds = {} THEN sequenced
     ELSE WithActions(sequenced, IF down THEN g.acts \cup holds
                                         ELSE g.acts \ holds)

\* process_mph_prime_key and process_mph_prime_pad
PrimeTakes(c) == config.prime /\ Prime[c] # {}
PrimePad(g, c, down) ==
  PrimeAction(IF down THEN [g EXCEPT !.engaged = TRUE, !.idle = 0] ELSE g, c, down)

\* process_virtual_stylus_key
StylusTakesKey(c) == Stylus[c] = "tap" \/ (Stylus[c] = "hold" /\ config.stylus)
StylusKey(g, c, down) ==
  IF Stylus[c] = "hold" THEN PointerHold(g, down) ELSE PointerTap(g, down)

\* process_virtual_stylus_pad
StylusTakesPad(g, c) ==
  \/ Stylus[c] = "hold" /\ config.stylus
  \/ Stylus[c] = "tap" /\ StylusActive(g)
StylusPad(g, c, down) ==
  IF Stylus[c] = "hold" THEN PadHold(g, down) ELSE [g EXCEPT !.tapHeld = down]

With(set, more, down) == IF down THEN set \cup more ELSE set \ more

\* SDL_KEYDOWN and SDL_KEYUP behind the menu
KeyEvent(g, c, down) ==
  CASE c = "esc" /\ down ->
         IF g.cap \/ StylusActive(g) THEN ReleaseRelative(g)
         ELSE [g EXCEPT !.running = FALSE]
    [] StylusTakesKey(c) -> StylusKey(g, c, down)
    [] PrimeTakes(c) /\ ~StylusTakesKey(c) -> PrimeAction(g, c, down)
    [] c = "tab" /\ config.turbo /\ ~StylusTakesKey(c) /\ ~PrimeTakes(c) ->
         [g EXCEPT !.turbo = down]
    [] OTHER ->
         IF PrimeActive(g) \/ Button[c] = {} THEN g
         ELSE Published([g EXCEPT !.keyboard = With(@, Button[c], down)])

\* SDL_CONTROLLERBUTTONDOWN and SDL_CONTROLLERBUTTONUP behind the menu
PadEvent(g, c, down) ==
  CASE StylusTakesPad(g, c) -> StylusPad(g, c, down)
    [] PrimeTakes(c) /\ ~StylusTakesPad(g, c) -> PrimePad(g, c, down)
    [] OTHER -> Published([g EXCEPT !.controller = With(@, Button[c], down)])

\* A mouse button on a region of a window: "top", "touch" (the bottom screen),
\* "margin" (beside it).  The stylus comes first and may consume the event.
StylusTakesMouse(g, c, down) ==
  \/ Stylus[c] = "hold" /\ config.stylus
  \/ Stylus[c] = "tap"
  \/ c = "left" /\ (IF down THEN StylusActive(g) ELSE g.tapHeld)
StylusMouse(g, c, down) ==
  CASE Stylus[c] = "hold" /\ config.stylus -> PointerHold(g, down)
    [] Stylus[c] = "tap" -> PointerTap(g, down)
    [] OTHER -> [g EXCEPT !.tapHeld = down]

TopWindow(where) == where = "top" \/ ~config.separate
BottomWindow(where) == where # "top" \/ ~config.separate

\* nds_route_stacked_relative_mouse_button
Route(g, where) ==
  IF g.cap THEN "captured"
  ELSE IF config.relative /\ where = "top" THEN "acquire"
  ELSE IF where = "touch" THEN "touchscreen" ELSE "none"

Relative(g, c, where) ==
  /\ c = "left" /\ config.relative
  /\ IF config.separate THEN TopWindow(where) \/ config.unified
     ELSE Route(g, where) \in {"acquire", "captured"}

\* The acquiring click only captures
RelativeDown(g, c) ==
  IF ~g.cap THEN CaptureRelative(g)
  ELSE IF config.prime /\ Prime[c] # {} THEN PrimeAction(g, c, TRUE)
  ELSE Published([g EXCEPT !.mouse = @ \cup Fire])

OtherButtonDown(g, c, where) ==
  IF c # "left" /\ (TopWindow(where) \/ config.unified) /\ PrimeActive(g)
  THEN PrimeAction(g, c, TRUE) ELSE g

Touched(before, g, c, where) ==
  IF /\ c = "left" /\ BottomWindow(where) /\ ~(config.unified /\ g.cap)
     /\ IF config.separate THEN where = "touch"
        ELSE Route(before, where) = "touchscreen"
  THEN [g EXCEPT !.mouseDown = TRUE, !.pending = FALSE, !.frames = 0,
                 !.touch = "click"]
  ELSE g

MouseDown(g, c, where) ==
  IF StylusTakesMouse(g, c, TRUE) THEN StylusMouse(g, c, TRUE)
  ELSE LET first == IF Relative(g, c, where) THEN RelativeDown(g, c) ELSE g
       IN Touched(g, OtherButtonDown(first, c, where), c, where)

\* A click that ends within two frames stays down until the guest saw it
ClickReleased(g) ==
  IF g.frames < 2 THEN [g EXCEPT !.mouseDown = FALSE, !.pending = TRUE]
  ELSE [g EXCEPT !.mouseDown = FALSE, !.touch = "up"]

MouseUp(g, c, where) ==
  IF StylusTakesMouse(g, c, FALSE) THEN StylusMouse(g, c, FALSE)
  ELSE LET mine == (TopWindow(where) \/ config.unified) /\ g.cap
           first == IF ~mine THEN g
                    ELSE IF config.prime /\ Prime[c] # {} THEN PrimeAction(g, c, FALSE)
                    ELSE IF c = "left" /\ g.mouse # {}
                         THEN Published([g EXCEPT !.mouse = @ \ Fire]) ELSE g
       IN IF c = "left" /\ BottomWindow(where) /\ g.mouseDown
          THEN ClickReleased(first) ELSE first

\* set_touch_from_mouse lifts the pen outside the bottom screen
MouseMotion(g, where) ==
  LET dragged == IF g.mouseDown /\ BottomWindow(where)
                 THEN [g EXCEPT !.touch = IF where = "touch" THEN "click" ELSE "up"]
                 ELSE g
      mine == g.cap /\ (TopWindow(where) \/ config.unified)
  IN IF StylusActive(g) \/ ~mine \/ (PrimeActive(g) /\ "stylus" \in g.acts)
     THEN dragged
     ELSE IF config.direct THEN [dragged EXCEPT !.delta = TRUE]
     ELSE [dragged EXCEPT !.touch = "relative"]

-----------------------------------------------------------------------------
(* The runtime menu.                                                       *)

\* clear_gameplay_input_for_runtime_menu
ClearGameplayKeepsPad(g) ==
  LET r == ReleaseRelative(g)
  IN Published([r EXCEPT !.keyboard = {}, !.stick = {}, !.turbo = FALSE,
                         !.engaged = FALSE, !.primeTrigger = FALSE,
                         !.stylusTrigger = FALSE, !.touch = "up"])
ClearGameplay(g) ==
  LET r == ReleaseRelative(g)
  IN Published([r EXCEPT !.keyboard = {}, !.controller = {}, !.stick = {},
                         !.turbo = FALSE, !.engaged = FALSE,
                         !.primeTrigger = FALSE, !.stylusTrigger = FALSE,
                         !.touch = "up"])

\* recomp_runtime_ui_handle_input takes the toggle always, the rest when open
MenuTakes(g, c, down) ==
  config.ui /\ (g.menu \/ (MenuInput[c] = "toggle" /\ down))

\* with finish_runtime_menu_input; accepting may resume, quit or do nothing
MenuEvent(g, c, down) ==
  IF ~g.menu THEN {ClearGameplay([g EXCEPT !.menu = TRUE])}
  ELSE CASE down /\ MenuInput[c] \in {"toggle", "back"} -> {[g EXCEPT !.menu = FALSE]}
         [] down /\ MenuInput[c] = "accept" ->
              {g, [g EXCEPT !.menu = FALSE], [g EXCEPT !.running = FALSE]}
         [] OTHER -> {g}

-----------------------------------------------------------------------------
(* The events of one poll.                                                 *)

Unseen == [keys |-> {}, touch |-> "up", fresh |-> FALSE]
NoClick == [frames |-> 2, clean |-> FALSE]

Init ==
  /\ config \in Configs
  /\ u = [keyboard |-> {}, controller |-> {}, mouse |-> {}, prime |-> {},
          stick |-> {}, keys |-> {}, touch |-> "up", acts |-> {}, steps |-> <<>>,
          cap |-> FALSE, engaged |-> FALSE, idle |-> 0, pointer |-> FALSE,
          padHold |-> FALSE, tapHeld |-> FALSE, owned |-> FALSE,
          relative |-> FALSE, primeTrigger |-> FALSE, stylusTrigger |-> FALSE,
          mouseDown |-> FALSE, pending |-> FALSE, frames |-> 0, delta |-> FALSE,
          turbo |-> FALSE, focus |-> {"top"}, refocus |-> FALSE,
          menu |-> FALSE, running |-> TRUE, pad |-> TRUE]
  /\ held = {} /\ swallowed = {}
  /\ tap = NoClick
  /\ guest = Unseen

Polled(next) ==
  /\ u.running
  /\ u' = next
  /\ guest' = Unseen
  /\ UNCHANGED config

\* The pen moved by something else than the click takes the click away
PenKept(click) ==
  tap' = IF click \/ u'.touch = u.touch THEN tap ELSE NoClick

\* A layer above the control's own may take its release
Hidden(c) ==
  IF c \in Mice THEN ~u.cap ELSE PrimeActive(u) \/ StylusActive(u)

\* A control stays swallowed while one of its buttons is published
Stuck(controls) == {c \in controls : Buttons(c) \cap u'.keys # {}}

Delivered(c) ==
  /\ held' = IF c \in held THEN held \ {c} ELSE held \cup {c}
  /\ swallowed' = Stuck(IF c \in held /\ Hidden(c) THEN swallowed \cup {c}
                                                   ELSE swallowed \ {c})

Key(c) ==
  LET down == c \notin held
  IN /\ u.focus # {}
     /\ IF MenuTakes(u, c, down)
        THEN \E g \in MenuEvent(u, c, down) : Polled(g)
        ELSE Polled(KeyEvent(u, c, down))
     /\ PenKept(FALSE) /\ Delivered(c)

PadButton(c) ==
  LET down == c \notin held
  IN /\ u.pad
     /\ IF MenuTakes(u, c, down)
        THEN \E g \in MenuEvent(u, c, down) : Polled(g)
        ELSE Polled(PadEvent(u, c, down))
     /\ PenKept(FALSE) /\ Delivered(c)

MouseButton(c, where) ==
  LET down == c \notin held
      g == IF down THEN MouseDown(u, c, where) ELSE MouseUp(u, c, where)
  IN /\ (IF config.separate THEN where ELSE "top") \in u.focus \cup
          (IF "bottom" \in u.focus THEN {"touch", "margin"} ELSE {})
     /\ Polled(IF u.menu THEN u ELSE g)
     /\ IF down /\ u'.mouseDown /\ ~u.mouseDown
        THEN tap' = [frames |-> 0, clean |-> TRUE]
        ELSE PenKept(~down /\ ~u'.mouseDown /\ u.mouseDown)
     /\ Delivered(c)

Motion(where) ==
  /\ ~u.menu
  /\ Polled(MouseMotion(u, where))
  /\ PenKept(FALSE) /\ swallowed' = Stuck(swallowed) /\ UNCHANGED held

\* SDL_EVENT_WINDOW_MOUSE_LEAVE
Leave ==
  /\ u.mouseDown
  /\ Polled(ClickReleased(u))
  /\ PenKept(TRUE) /\ swallowed' = Stuck(swallowed) /\ UNCHANGED held

\* SDL_EVENT_WINDOW_FOCUS_LOST; SDL delivers the key releases first
FocusLost(w) ==
  /\ w \in u.focus /\ held \cap Keys = {}
  /\ LET g == [u EXCEPT !.focus = @ \ {w}]
     IN Polled(IF config.unified THEN [g EXCEPT !.refocus = TRUE]
               ELSE [ReleaseRelative(g) EXCEPT !.turbo = FALSE])
  /\ PenKept(FALSE) /\ swallowed' = Stuck(swallowed) /\ UNCHANGED held

\* SDL_EVENT_WINDOW_FOCUS_GAINED: one window has the focus
FocusGained(w) ==
  /\ u.focus = {} /\ (w = "bottom" => config.separate)
  /\ Polled([u EXCEPT !.focus = {w}, !.refocus = FALSE])
  /\ PenKept(FALSE) /\ swallowed' = Stuck(swallowed) /\ UNCHANGED held

PadAdded ==
  /\ ~u.pad
  /\ Polled([u EXCEPT !.pad = TRUE])
  /\ PenKept(FALSE) /\ swallowed' = Stuck(swallowed) /\ UNCHANGED held

PadRemoved ==
  /\ u.pad
  /\ Polled(Published(ClearStylus(ClearPrime(
       [u EXCEPT !.pad = FALSE, !.controller = {}]))))
  /\ held' = held \ (Pads \cup {Trigger})
  /\ swallowed' = swallowed \ (Pads \cup {Trigger})
  /\ PenKept(FALSE)

\* A slot shortcut that loads: the guest's input registers are historical, the
\* host's controls are published again
Load ==
  /\ ~u.menu /\ u.focus # {}
  /\ Polled([Published(u) EXCEPT !.touch = IF u.mouseDown THEN "click" ELSE "up"])
  /\ PenKept(FALSE) /\ swallowed' = Stuck(swallowed) /\ UNCHANGED held

\* SDL_QUIT, or a window's close button
Quit ==
  /\ Polled([ReleaseRelative(u) EXCEPT !.running = FALSE])
  /\ PenKept(FALSE) /\ swallowed' = Stuck(swallowed) /\ UNCHANGED held

-----------------------------------------------------------------------------
(* The rest of the iteration: focus, the pad poll, the pen, the frame.     *)

\* A focus change between the two windows keeps the capture
Refocused(g) ==
  LET lost == g.refocus /\ g.focus = {}
  IN [(IF lost THEN [ReleaseRelative(g) EXCEPT !.turbo = FALSE] ELSE g)
        EXCEPT !.refocus = FALSE]

\* Left stick at 0 (below 0.35), 1 (below 0.5) or 2, with hysteresis
Stick(g, position) ==
  LET next == CASE g.menu -> {}
                [] position = 2 -> {"up"}
                [] position = 1 -> g.stick
                [] OTHER -> {}
  IN IF next = g.stick THEN g ELSE Published([g EXCEPT !.stick = next])

StylusTriggered(g, pulled) ==
  LET latched == [g EXCEPT !.stylusTrigger = pulled]
  IN IF ~config.stylus \/ pulled = g.stylusTrigger THEN g
     ELSE IF StylusTakesPad(latched, Trigger)
          THEN StylusPad(latched, Trigger, pulled) ELSE latched

PrimeTriggered(g, pulled) ==
  LET latched == [g EXCEPT !.primeTrigger = pulled]
  IN IF ~config.prime \/ pulled = g.primeTrigger THEN g
     ELSE IF PrimeTakes(Trigger) THEN PrimePad(latched, Trigger, pulled)
          ELSE latched

\* The pad engages while it aims or fires and idles out when it rests
Engaged(g, aiming, pulled) ==
  CASE ~config.prime -> g
    [] config.prime /\ (aiming \/ pulled) -> [g EXCEPT !.engaged = TRUE, !.idle = 0]
    [] config.prime /\ ~aiming /\ ~pulled /\ g.engaged /\ ~g.cap ->
         IF g.idle + 1 > MaxIdle
         THEN [g EXCEPT !.engaged = FALSE, !.touch = "up"]
         ELSE [g EXCEPT !.idle = @ + 1]
    [] OTHER -> g

PadPolled(g, position, aiming, pulled) ==
  LET s == Stick(g, position)
  IN IF g.menu THEN s
     ELSE Engaged(PrimeTriggered(StylusTriggered(s, pulled), pulled),
                  aiming, pulled)

\* Without a pad its triggers are released and its holds end
PadAbsent(g) ==
  LET s == IF g.stick # {} THEN Published([g EXCEPT !.stick = {}]) ELSE g
      t == StylusTriggered(PrimeTriggered(s, FALSE), FALSE)
      e == IF t.engaged
           THEN [t EXCEPT !.engaged = FALSE, !.touch = IF t.cap THEN @ ELSE "up"]
           ELSE t
  IN IF e.padHold THEN ClearStylus(e) ELSE e

\* Aim deltas go to the title's own fields
Aimed(g) ==
  IF CapturedOrPad(g) /\ config.direct
       /\ ~(PrimeActive(g) /\ "stylus" \in g.acts)
  THEN [g EXCEPT !.delta = FALSE] ELSE g

\* The layer that owns the pen writes it every frame; a boost of the morph ball,
\* which the title's own memory tells, lifts it
Pen(g, boost) ==
  CASE StylusActive(g) -> [g EXCEPT !.touch = IF g.tapHeld THEN "stylus" ELSE "up"]
    [] ~StylusActive(g) /\ PrimeActive(g) ->
         (CASE g.steps # <<>> -> [g EXCEPT !.touch = Head(g.steps),
                                           !.steps = Tail(g.steps)]
            [] g.steps = <<>> /\ "stylus" \in g.acts ->
                 [g EXCEPT !.touch = IF "shoot" \in g.acts THEN "stylus" ELSE "up"]
            [] OTHER -> [g EXCEPT !.touch = IF boost THEN "up" ELSE "center"])
    [] OTHER -> g

\* After the frame: a click that ended is released once it was held two frames
Settled(g) ==
  LET n == IF g.mouseDown \/ g.pending THEN (IF g.frames < 2 THEN g.frames + 1 ELSE 2)
                                       ELSE g.frames
  IN IF g.pending /\ n >= 2
     THEN [g EXCEPT !.frames = n, !.pending = FALSE, !.touch = "up"]
     ELSE [g EXCEPT !.frames = n]

Frame(position, aiming, pulled, boost) ==
  LET r == Refocused(u)
      p == IF u.pad THEN PadPolled(r, position, aiming, pulled) ELSE PadAbsent(r)
      shown == Pen(Aimed(p), boost)
  IN /\ u.running
     /\ u.pad \/ (position = 0 /\ ~aiming /\ ~pulled)
     /\ u' = Settled(shown)
     /\ held' = IF pulled THEN held \cup {Trigger} ELSE held \ {Trigger}
     /\ swallowed' = Stuck(swallowed \ {Trigger})
     /\ tap' = IF ~tap.clean \/ p.touch # u.touch \/ shown.touch # p.touch
               THEN NoClick
               ELSE [tap EXCEPT !.frames = IF shown.touch = "click" /\ @ < 2
                                           THEN @ + 1 ELSE @]
     /\ guest' = [keys |-> shown.keys, touch |-> shown.touch, fresh |-> TRUE]
     /\ UNCHANGED config

Next ==
  \/ \E c \in config.controls \cap Keys : Key(c)
  \/ \E c \in config.controls \cap Pads : PadButton(c)
  \/ \E c \in config.controls \cap Mice, w \in {"top", "touch", "margin"} :
       MouseButton(c, w)
  \/ \E w \in {"top", "touch", "margin"} : Motion(w)
  \/ Leave
  \/ \E w \in {"top", "bottom"} : FocusLost(w) \/ FocusGained(w)
  \/ PadAdded
  \/ PadRemoved
  \/ Load
  \/ Quit
  \/ \E position \in IF "stick" \in config.controls THEN 0..2 ELSE {0},
        aiming \in IF "aim" \in config.controls THEN BOOLEAN ELSE {FALSE},
        pulled \in IF Trigger \in config.controls THEN BOOLEAN ELSE {FALSE},
        boost \in IF "zoom" \in u.acts THEN BOOLEAN ELSE {FALSE} :
       Frame(position, aiming, pulled, boost)

Spec == Init /\ [][Next]_vars

-----------------------------------------------------------------------------
\* What the guest sees in a frame is meant for it: no button or pen while the
\* runtime menu is open; every button is backed by a control that is down, the
\* left stick, or a control whose release another layer took; with no window
\* focused the mouse is not captured; and SDL's relative mode has an owner
\* (clear_gameplay_input_for_runtime_menu, release_relative_mouse, publish_keys).
GuestInputIsMeant ==
  /\ guest.fresh =>
       /\ u.menu => guest.keys = {} /\ guest.touch = "up"
       /\ guest.keys \ (u.stick \cup UNION {Buttons(c) : c \in held \cup swallowed}) = {}
       /\ u.focus = {} => ~u.relative /\ ~u.turbo
  /\ u.relative = (u.cap \/ u.owned)

\* A click on the bottom screen that nothing interrupts is seen by the guest for
\* two frames, however short it was on the host (touch_release_pending).
ClickIsSeen ==
  tap.clean /\ ~u.mouseDown /\ ~u.pending => tap.frames = 2

-----------------------------------------------------------------------------
(***************************************************************************)
(* The performance governor (runner/src/perf_governor.cpp) and the part of *)
(* the frontend loop that samples it, applies its stage to the renderer    *)
(* and records its transitions (runner/src/frontend.cpp).  A sample keeps  *)
(* only the comparisons the decision makes; the renderer's rebuild is      *)
(* external and may fail whenever the scale really changes.                *)
(***************************************************************************)
CONSTANTS Sessions,   \* [mode, resolution, glTop]: the options of a session
          Engage,     \* engage_frames (30)
          Restore,    \* restore_frames (180)
          FlapLimit,  \* flap_engage_limit (2)
          FlapWindow, \* flap_window_frames (3600)
          Capacity,   \* kNdsPerfGovernorHistoryCapacity (64)
          MaxTotal    \* transitions recorded in a behaviour

VARIABLES
  session,   \* the session's options
  gov,       \* NdsPerfGovernorState
  installed, \* [scale, latency, sample, hd]: what the renderer runs with
  ring,      \* g_history: slot -> [from, to, failed]
  total,     \* g_history_total
  left,      \* stage 2 was left by a recovery
  below,     \* frames below stage 2 since, up to FlapWindow
  recovered  \* the last frame left stage 2 by a recovery, that early

governorVars == <<session, gov, installed, ring, total, left, below, recovered>>

Least(a, b) == IF a < b THEN a ELSE b

\* What a frame measures: underruns; emulation time above, inside or below the
\* margins of the budget; the pacing sleep absent, short or long; and whether
\* the sleep says anything about load
Samples == [underrun : BOOLEAN, emu : {"over", "near", "under"},
            drain : {"none", "short", "long"}, valid : BOOLEAN]

OverBudget(s) ==
  s.underrun \/ s.emu = "over" \/ (s.valid /\ s.drain = "none")
Recovered(s) ==
  ~s.underrun /\ s.emu = "under" /\ (s.valid => s.drain = "long")

-----------------------------------------------------------------------------
(* nds_perf_governor_update.                                               *)

\* The flap guard retires after a long stretch below stage 2
Decayed(g) ==
  CASE g.engagements = 0 \/ g.stage = 2 -> g
    [] g.engagements # 0 /\ g.stage # 2 /\ g.since + 1 >= FlapWindow ->
         [g EXCEPT !.engagements = 0, !.since = 0, !.held = FALSE]
    [] OTHER -> [g EXCEPT !.since = @ + 1]

Counted(g, s) ==
  CASE OverBudget(s) -> [g EXCEPT !.over = Least(@ + 1, Engage), !.under = 0]
    [] ~OverBudget(s) /\ Recovered(s) ->
         [g EXCEPT !.under = Least(@ + 1, Restore), !.over = 0]
    [] OTHER -> [g EXCEPT !.over = 0, !.under = 0]

\* Entering stage 2 counts an engagement, and the second one within the window
\* holds the stage
Raised(g) ==
  IF g.stage + 1 < 2 THEN [g EXCEPT !.stage = @ + 1, !.over = 0]
  ELSE [g EXCEPT !.stage = 2, !.over = 0, !.since = 0,
                 !.engagements = @ + 1,
                 !.held = @ \/ g.engagements + 1 >= FlapLimit]

Updated(g, s) ==
  LET c == Counted(Decayed(g), s)
  IN CASE g.failed -> g
       [] ~g.failed /\ session.mode # "auto" ->
            [g EXCEPT !.over = 0, !.under = 0,
                      !.stage = CASE session.mode = "off" -> 0
                                  [] session.mode = "stage1" -> 1
                                  [] session.mode = "stage2" -> 2]
       [] OTHER ->
            IF OverBudget(s) /\ c.over >= Engage /\ c.stage < 2 THEN Raised(c)
            ELSE IF /\ Recovered(s) /\ ~OverBudget(s) /\ c.under >= Restore
                    /\ c.stage > 0 /\ ~(c.stage = 2 /\ c.held)
            THEN [c EXCEPT !.stage = @ - 1, !.under = 0]
            ELSE c

\* nds_perf_governor_mark_apply_failed: nothing is decided any more
Disabled(g) == [g EXCEPT !.failed = TRUE, !.over = 0, !.under = 0]

-----------------------------------------------------------------------------
(* The frontend.                                                           *)

\* apply_performance_governor_stage
Wanted(stage) ==
  LET scale == IF stage >= 2 THEN 1 ELSE session.resolution
  IN [scale |-> scale, latency |-> stage >= 1, sample |-> stage < 2,
      hd |-> scale > 1 /\ session.glTop]

\* The rebuild comes first and is the only step that can fail
ApplyFails(stage) == Wanted(stage).scale # installed.scale

\* nds_perf_governor_record_transition
Recorded(from, to, failed) ==
  /\ total < MaxTotal
  /\ ring' = [ring EXCEPT ![total % Capacity] =
                [from |-> from, to |-> to, failed |-> failed]]
  /\ total' = total + 1

Empty == [from |-> 0, to |-> 0, failed |-> FALSE]

\* The scale, the emit flag and the latency come from the options; the governor's
\* first stage is applied over them, and a failure there is a failed start
GovernorInit ==
  /\ session \in Sessions
  /\ gov = [stage |-> CASE session.mode = "stage1" -> 1
                        [] session.mode = "stage2" -> 2
                        [] OTHER -> 0,
            over |-> 0, under |-> 0, engagements |-> 0, since |-> 0,
            held |-> FALSE, failed |-> FALSE]
  /\ installed = Wanted(gov.stage)
  /\ ring = [i \in 0..(Capacity - 1) |->
               IF i = 0 THEN [Empty EXCEPT !.to = gov.stage] ELSE Empty]
  /\ total = IF gov.stage # 0 THEN 1 ELSE 0
  /\ left = FALSE /\ below = 0 /\ recovered = FALSE

\* One frame of the loop: the sample, the decision, its application and the
\* record of the transition
Govern(s, works) ==
  LET g == Updated(gov, s)
      ok == works \/ ~ApplyFails(g.stage)
  IN /\ IF g.stage = gov.stage THEN gov' = g /\ UNCHANGED <<installed, ring, total>>
        ELSE IF ok
        THEN gov' = g /\ installed' = Wanted(g.stage)
             /\ Recorded(gov.stage, g.stage, FALSE)
        ELSE gov' = Disabled([g EXCEPT !.stage = gov.stage])
             /\ UNCHANGED installed
             /\ Recorded(gov.stage, gov.stage, TRUE)
     /\ recovered' = (gov.stage = 2 /\ gov'.stage < 2 /\ left /\ below < FlapWindow)
     /\ left' = (left \/ (gov.stage = 2 /\ gov'.stage < 2))
     /\ below' = IF gov.stage = 2 THEN (IF gov'.stage < 2 THEN 0 ELSE below)
                                  ELSE Least(below + 1, FlapWindow)
     /\ UNCHANGED session

\* A load clears the latency flag with the renderer's other products; the live
\* stage is established again unless the governor is off or disabled.  The scale
\* is the one already installed, so this apply rebuilds nothing and cannot fail.
LoadState ==
  /\ installed' = IF gov.failed \/ session.mode = "off"
                  THEN [installed EXCEPT !.latency = FALSE]
                  ELSE Wanted(gov.stage)
  /\ recovered' = FALSE
  /\ UNCHANGED <<session, gov, ring, total, left, below>>

GovernorNext ==
  \/ \E s \in Samples, works \in BOOLEAN : Govern(s, works)
  \/ LoadState


-----------------------------------------------------------------------------
(* Reading the ring, and the properties.                                   *)

\* nds_perf_governor_history: the newest entries, oldest first
History ==
  LET count == Least(total, Capacity)
  IN [i \in 1..count |-> ring[(total - count + (i - 1)) % Capacity]]

\* What runs is what the governor reports: scale, sample scale and emit flag are
\* always those of the reported stage, and so is the latency unless a load
\* followed a failed apply; the transition history is a chain that ends at that
\* stage and records no move to the same stage but a failure; and stage 2 is not
\* left twice without the flap window spent below it in between
\* (apply_performance_governor_stage, nds_perf_governor_update,
\* nds_perf_governor_record_transition).
StageIsInstalled ==
  /\ LET w == Wanted(gov.stage)
     IN /\ installed.scale = w.scale /\ installed.hd = w.hd
        /\ installed.sample = w.sample
        /\ gov.failed \/ installed.latency = w.latency
  /\ LET h == History
     IN /\ \A i \in 1..Len(h) :
             /\ i > 1 => h[i].from = h[i - 1].to
             /\ h[i].from = h[i].to <=> h[i].failed
        /\ gov.stage = IF total = 0 THEN 0 ELSE h[Len(h)].to
        /\ gov.failed <=> total > 0 /\ h[Len(h)].failed
  /\ ~recovered
=============================================================================
