------------------------------ MODULE FrontPanel ------------------------------
(***************************************************************************)
(* The front end on Win32: fingers on the host's keyboard and mouse send   *)
(* window messages; plat_poll (frontend/platform_win32.c) turns them into  *)
(* events in a ring; the loop of main (frontend/main.c) applies each event *)
(* to the machine and, when there are no more, runs a time slice.          *)
(*                                                                         *)
(* Of the machine only what a widget changes is here: the key matrix, the  *)
(* two switches, and for every button and switch whether a call is owed.   *)
(* Windows itself (focus, capture, message queue, the Alt key, the modal   *)
(* loops of DefWindowProc) is modelled from how wndproc uses it.           *)
(***************************************************************************)
EXTENDS Integers, Sequences

CONSTANTS
  Keys, Buttons, Switches,  \* widgets of the panel, by kind
  HostKeys,                 \* keys of the host's keyboard
  Legend,                   \* the widget each host key works (map_vk and KEYMAP)
  SystemKeys,               \* host keys that are system keys without Alt: F10
  EVQ_SIZE,                 \* slots of the event ring, one always free
  MaxWaiting,               \* bound on the messages waiting for plat_poll
  NONE                      \* no widget

Widgets   == Keys \cup Buttons \cup Switches
Actuators == Buttons \cup Switches

ASSUME PanelAssumption ==
  /\ Legend \in [HostKeys -> Widgets]
  /\ SystemKeys \subseteq HostKeys
  /\ EVQ_SIZE \in Nat /\ EVQ_SIZE > 1
  /\ MaxWaiting \in Nat
  /\ {NONE, "up"} \cap Widgets = {} /\ NONE # "up"
  /\ Keys \cap Actuators = {} /\ Buttons \cap Switches = {}

VARIABLES
  pressed,     \* host keys under a finger
  alt,         \* Alt is held
  pointer,     \* "up", or the widget (or NONE) the mouse button went down on
  focus,       \* the window receives the keyboard
  messages,    \* window messages not yet dispatched
  capture,     \* the window has captured the mouse
  g_evq,       \* the ring; a slot that holds no event is NONE
  g_ev_head, g_ev_tail,
  mouse_widget,
  held,        \* widgets drawn as pressed
  kbd,         \* keys pressed in the machine's matrix
  latch,       \* the switches that are latched
  pc,          \* where main is: "poll", "slice", "exit", or "modal" within plat_poll
  running,
  heard,       \* history: host keys still down whose press was a WM_KEYDOWN
  left,        \* history: keys of the matrix let go by a WM_SYSKEYUP only
  owed,        \* history: actuators pressed once more or once less than called
  lost         \* history: a message was dropped or did not go to this window

vars == <<pressed, alt, pointer, focus, messages, capture, g_evq, g_ev_head, g_ev_tail,
          mouse_widget, held, kbd, latch, pc, running, heard, left, owed, lost>>

fingers == <<pressed, alt, pointer, focus, heard, left>>
loop    == <<capture, g_evq, g_ev_head, g_ev_tail, mouse_widget, held, kbd, latch,
             pc, running>>

EventKind == {"QUIT", "KEYDOWN", "KEYUP", "MOUSEDOWN", "MOUSEUP"}
Event     == [kind : EventKind, widget : Widgets \cup {NONE}]
Message   == [kind : EventKind \cup {"REPEAT", "SYSKEYDOWN", "SYSKEYUP"},
              widget : Widgets \cup {NONE}]

Init ==
  /\ pressed = {} /\ alt = FALSE /\ pointer = "up" /\ focus = TRUE
  /\ messages = << >> /\ capture = FALSE
  /\ g_evq = [i \in 0 .. EVQ_SIZE - 1 |-> NONE]
  /\ g_ev_head = 0 /\ g_ev_tail = 0
  /\ mouse_widget = NONE
  /\ held = {} /\ kbd = {} /\ latch = {}
  /\ pc = "poll" /\ running = TRUE
  /\ heard = {} /\ left = {} /\ owed = {} /\ lost = FALSE

-----------------------------------------------------------------------------
(* Fingers.  A key goes to the window that has the focus, a click to the     *)
(* window under the pointer, a release of the mouse to the window that       *)
(* captured it or lies under the pointer.  In a modal loop of DefWindowProc  *)
(* the loop may keep a key or a release of the mouse for itself, and a click *)
(* ends it first.                                                            *)
Toggle(S, x) == IF x \in S THEN S \ {x} ELSE S \cup {x}
Owe(w) == IF w \in Actuators THEN Toggle(owed, w) ELSE owed

Post(kind, widget) ==
  /\ Len(messages) < MaxWaiting
  /\ messages' = Append(messages, [kind |-> kind, widget |-> widget])

(* Whether a message is WM_SYSKEY* is settled when it is sent: any key with   *)
(* Alt, and F10 without.  Alt's own messages say nothing to wndproc (map_vk   *)
(* gives 0), and a key pressed with Alt is a command to Windows: no call of  *)
(* the machine is owed.                                                      *)
Sys(k) == alt \/ k \in SystemKeys
Elsewhere == ~focus \/ pc = "modal"

AltDown == ~alt /\ alt' = TRUE
           /\ UNCHANGED <<pressed, pointer, focus, heard, left, messages, owed, lost, loop>>

AltUp == alt /\ alt' = FALSE
         /\ UNCHANGED <<pressed, pointer, focus, heard, left, messages, owed, lost, loop>>

KeyDown(k) ==
  /\ k \notin pressed
  /\ pressed' = pressed \cup {k}
  /\ \/ /\ focus
        /\ Post(IF Sys(k) THEN "SYSKEYDOWN" ELSE "KEYDOWN", Legend[k])
        /\ heard' = IF Sys(k) THEN heard ELSE heard \cup {k}
        /\ owed' = IF alt THEN owed ELSE Owe(Legend[k])
     \/ Elsewhere /\ UNCHANGED <<messages, heard, owed>>
  /\ UNCHANGED <<alt, pointer, focus, left, lost, loop>>

KeyRepeat(k) ==
  /\ k \in pressed /\ focus
  /\ Post(IF Sys(k) THEN "SYSKEYDOWN" ELSE "REPEAT", Legend[k])
  /\ UNCHANGED <<fingers, owed, lost, loop>>

KeyUp(k) ==
  /\ k \in pressed
  /\ pressed' = pressed \ {k} /\ heard' = heard \ {k}
  /\ \/ /\ focus
        /\ Post(IF Sys(k) THEN "SYSKEYUP" ELSE "KEYUP", Legend[k])
        /\ left' = IF ~Sys(k) THEN left \ {Legend[k]}
                   ELSE IF k \in heard THEN left \cup ({Legend[k]} \cap Keys)
                   ELSE left
        /\ UNCHANGED lost
     \/ Elsewhere /\ lost' = TRUE /\ UNCHANGED <<messages, left>>
  /\ UNCHANGED <<alt, pointer, focus, owed, loop>>

MouseDown(w) ==
  /\ pointer = "up" /\ pc # "modal"
  /\ pointer' = w /\ focus' = TRUE
  /\ Post("MOUSEDOWN", w)
  /\ owed' = Owe(w)
  /\ UNCHANGED <<pressed, alt, heard, left, lost, loop>>

(* The button goes up on the widget it went down on, beside every widget, or *)
(* outside the window.                                                       *)
MouseUp(at, inside) ==
  /\ pointer # "up" /\ at \in {pointer, NONE}
  /\ pointer' = "up"
  /\ \/ /\ inside \/ (capture /\ focus)
        /\ Post("MOUSEUP", at)
        /\ left' = left \ {pointer} /\ UNCHANGED lost
     \/ /\ pc = "modal" \/ ~(inside \/ (capture /\ focus))
        /\ lost' = TRUE /\ UNCHANGED <<messages, left>>
  /\ UNCHANGED <<pressed, alt, focus, heard, owed, loop>>

(* Another window takes the focus, which ends a capture, or gives it back. *)
SwitchAway ==
  /\ focus
  /\ focus' = FALSE /\ capture' = FALSE
  /\ UNCHANGED <<pressed, alt, pointer, messages, g_evq, g_ev_head, g_ev_tail,
                 mouse_widget, held, kbd, latch, pc, running, heard, left, owed, lost>>

SwitchBack ==
  /\ ~focus
  /\ focus' = TRUE
  /\ UNCHANGED <<pressed, alt, pointer, heard, left, messages, owed, lost, loop>>

Close ==
  /\ Post("QUIT", NONE)
  /\ UNCHANGED <<fingers, owed, lost, loop>>

-----------------------------------------------------------------------------
(* The statics of the platform layer and of main, and the machine. *)
Now == [capture |-> capture, evq |-> g_evq, head |-> g_ev_head, tail |-> g_ev_tail,
        mouse_widget |-> mouse_widget, held |-> held, kbd |-> kbd, latch |-> latch,
        running |-> running, owed |-> owed, lost |-> lost]

Becomes(f) ==
  /\ capture' = f.capture /\ g_evq' = f.evq /\ g_ev_head' = f.head /\ g_ev_tail' = f.tail
  /\ mouse_widget' = f.mouse_widget /\ held' = f.held /\ kbd' = f.kbd /\ latch' = f.latch
  /\ running' = f.running /\ owed' = f.owed /\ lost' = f.lost

Following_NoWrap(i) == i + 1   \* mutant: the ring does not wrap
Following(i) == (i + 1) % EVQ_SIZE

ev_push_Overrun(f, kind, widget) ==   \* mutant: the test for a full ring is missing
  [f EXCEPT !.evq[f.head] = [kind |-> kind, widget |-> widget], !.head = Following(f.head)]

ev_push(f, kind, widget) ==
  IF Following(f.head) = f.tail THEN [f EXCEPT !.lost = TRUE]
  ELSE [f EXCEPT !.evq[f.head] = [kind |-> kind, widget |-> widget],
                 !.head = Following(f.head)]

(* WM_LBUTTONDOWN captures the mouse, WM_LBUTTONUP lets it go. *)
Captured(f, kind) ==
  CASE kind = "MOUSEDOWN" -> [f EXCEPT !.capture = TRUE]
    [] kind = "MOUSEUP"   -> [f EXCEPT !.capture = FALSE]
    [] OTHER              -> f

wndproc_Repeats(f, msg) ==   \* mutant: auto-repeat is a press
  IF msg.kind = "REPEAT" THEN ev_push(f, "KEYDOWN", msg.widget)
  ELSE IF msg.kind \notin EventKind THEN f
  ELSE ev_push(Captured(f, msg.kind), msg.kind, msg.widget)

(* A repeated WM_KEYDOWN is ignored, WM_SYSKEY* is left to DefWindowProc. *)
wndproc(f, msg) ==
  IF msg.kind \notin EventKind THEN f
  ELSE ev_push(Captured(f, msg.kind), msg.kind, msg.widget)

(* The first half of plat_poll dispatches every message that waits: f after  *)
(* each of them.                                                             *)
Dispatched(f, msgs) ==
  LET done[n \in 0 .. Len(msgs)] == IF n = 0 THEN f ELSE wndproc(done[n - 1], msgs[n])
  IN  done

Pumped == Dispatched(Now, messages)[Len(messages)]

(* A widget goes down or up.  umk_reset, umk_interrupt and umk_press_step     *)
(* touch none of this state: what is left of them is that they were called.  *)
key_action(f, w, down) ==
  LET g == [f EXCEPT !.held = IF down /\ w \notin Switches THEN @ \cup {w} ELSE @ \ {w}]
  IN  IF w = NONE THEN f
      ELSE IF w \in Keys THEN [g EXCEPT !.kbd = IF down THEN @ \cup {w} ELSE @ \ {w}]
      ELSE IF ~down THEN g
      ELSE [g EXCEPT !.owed = Toggle(@, w),
                     !.latch = IF w \in Switches THEN Toggle(@, w) ELSE @]

(* The host keys of the switches act on the way down only. *)
host_key(f, w, down) == IF w \in Switches /\ ~down THEN f ELSE key_action(f, w, down)

handle_ReleaseUnderPointer(f, ev) ==   \* mutant: the widget under the pointer goes up
  CASE ev.kind = "QUIT"      -> [f EXCEPT !.running = FALSE]
    [] ev.kind = "KEYDOWN"   -> host_key(f, ev.widget, TRUE)
    [] ev.kind = "KEYUP"     -> host_key(f, ev.widget, FALSE)
    [] ev.kind = "MOUSEDOWN" -> key_action(f, ev.widget, TRUE)
    [] ev.kind = "MOUSEUP"   -> key_action(f, ev.widget, FALSE)

(* The switch of main on an event; a mouse event carries what panel_hit says  *)
(* of its place.                                                             *)
handle(f, ev) ==
  CASE ev.kind = "QUIT"      -> [f EXCEPT !.running = FALSE]
    [] ev.kind = "KEYDOWN"   -> host_key(f, ev.widget, TRUE)
    [] ev.kind = "KEYUP"     -> host_key(f, ev.widget, FALSE)
    [] ev.kind = "MOUSEDOWN" ->
         key_action([f EXCEPT !.mouse_widget = ev.widget], ev.widget, TRUE)
    [] ev.kind = "MOUSEUP"   ->
         [key_action(f, f.mouse_widget, FALSE) EXCEPT !.mouse_widget = NONE]

(* The second half of plat_poll takes an event out of a ring f that has one;  *)
(* the slot it leaves is never read again.                                   *)
Taken(f) == [f EXCEPT !.evq[f.tail] = NONE, !.tail = Following(f.tail)]

PollEvent ==
  /\ pc = "poll"
  /\ messages' = << >>
  /\ \E f \in {Pumped} :
       /\ f.head # f.tail
       /\ \E g \in {handle(Taken(f), f.evq[f.tail])} : Becomes(g)
  /\ UNCHANGED <<fingers, pc>>

(* plat_poll returns 0: the loop over events ends. *)
PollEmpty ==
  /\ pc = "poll"
  /\ messages' = << >>
  /\ \E f \in {Pumped} : f.head = f.tail /\ Becomes(f)
  /\ pc' = "slice"
  /\ UNCHANGED fingers

(* umk_run_cycles with the matrix as it stands, drawing, and round again. *)
TimeSlice ==
  /\ pc = "slice"
  /\ pc' = IF running THEN "poll" ELSE "exit"
  /\ UNCHANGED <<fingers, messages, capture, g_evq, g_ev_head, g_ev_tail, mouse_widget,
                 held, kbd, latch, running, owed, lost>>

(* DefWindowProc may run a loop of its own before plat_poll returns: the menu *)
(* that Alt or F10 opens when it is let go, or the move or the size of the    *)
(* window.  It ends a capture, and main waits until it ends.                 *)
EnterModalLoop ==
  /\ pc = "poll" /\ focus
  /\ messages' = << >>
  /\ \E f \in {Pumped} : Becomes([f EXCEPT !.capture = FALSE])
  /\ pc' = "modal"
  /\ UNCHANGED fingers

LeaveModalLoop ==
  /\ pc = "modal"
  /\ pc' = "poll"
  /\ UNCHANGED <<fingers, messages, capture, g_evq, g_ev_head, g_ev_tail, mouse_widget,
                 held, kbd, latch, running, owed, lost>>

(* A bound: what the operator does is of interest until a message is lost or  *)
(* the program leaves its loop; every property below is about that time.     *)
Operator ==
  /\ running /\ ~lost
  /\ \/ \E k \in HostKeys : KeyDown(k)
     \/ \E k \in HostKeys : KeyRepeat(k)
     \/ \E k \in HostKeys : KeyUp(k)
     \/ \E w \in Widgets \cup {NONE} : MouseDown(w)
     \/ \E at \in Widgets \cup {NONE}, inside \in BOOLEAN : MouseUp(at, inside)
     \/ AltDown \/ AltUp
     \/ SwitchAway \/ SwitchBack
     \/ EnterModalLoop \/ LeaveModalLoop
     \/ Close

Main == PollEvent \/ PollEmpty \/ TimeSlice

Next == Operator \/ Main

Spec == Init /\ [][Next]_vars

(* Outside a modal loop main never waits: plat_poll, umk_run_cycles and the   *)
(* sleep all return.  Nothing says that a modal loop ends.                   *)
FairSpec == Spec /\ WF_vars(Main)

-----------------------------------------------------------------------------
TypeOK ==
  /\ pressed \subseteq HostKeys
  /\ pointer \in Widgets \cup {NONE, "up"}
  /\ {alt, focus, capture, running, lost} \subseteq BOOLEAN
  /\ messages \in Seq(Message)
  /\ g_evq \in [0 .. EVQ_SIZE - 1 -> Event \cup {NONE}]
  /\ {g_ev_head, g_ev_tail} \subseteq 0 .. EVQ_SIZE - 1
  /\ mouse_widget \in Widgets \cup {NONE}
  /\ held \subseteq Keys \cup Buttons
  /\ kbd \subseteq Keys
  /\ latch \subseteq Switches
  /\ pc \in {"poll", "slice", "modal", "exit"}
  /\ heard \subseteq pressed /\ left \subseteq Keys
  /\ owed \subseteq Actuators

(* Nothing waits anywhere between the fingers and the machine. *)
Quiet == messages = << >> /\ g_ev_head = g_ev_tail

Fingered(w) == pointer = w \/ \E k \in pressed : Legend[k] = w

(* A key of the matrix is down without a finger on it only if a message was   *)
(* dropped or did not go to this window, or if the key was let go while Alt   *)
(* was held and no release has been heard since (WM_SYSKEYUP falls to the     *)
(* default of wndproc): no other order of clicks, keys that share a widget,   *)
(* drags, repeats and Alt leaves it stuck (key_action, main).                *)
StuckOnlyAfterLoss == Quiet /\ ~lost => \A w \in kbd : Fingered(w) \/ w \in left

(* Every press of a button or a switch has reached the machine exactly once,  *)
(* give or take an even number, however long the key repeats and from        *)
(* whichever source it comes, unless F10 works it; a press with Alt never    *)
(* does.                                                                     *)
OncePerPress == Quiet /\ ~lost => owed \subseteq {Legend[k] : k \in SystemKeys}

(* A key that is let go without Alt goes up in the matrix, even while other   *)
(* input keeps arriving, as long as no message is lost, Windows does not go   *)
(* into a modal loop again and again or stay in one, and the program is not   *)
(* closed.                                                                   *)
Released ==
  \A w \in Keys :
    w \in kbd /\ ~Fingered(w)
      ~> w \notin kbd \/ Fingered(w) \/ w \in left \/ lost \/ pc = "modal" \/ ~running

(* README.md: "`F10` | `КМ/ЦК` — makes each step one machine cycle": a press  *)
(* of a key of that table changes what it says it changes.                   *)
KeysOfTheTableWork == Quiet /\ ~lost => owed = {}
=============================================================================
