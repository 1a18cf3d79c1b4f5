------------------------------- MODULE Input -------------------------------
(***************************************************************************)
(* Input injection on the host (input/uinput.rs, windows.rs, window_win.rs *)
(* and macos.rs) and the client's touchpad reader that feeds it            *)
(* (input/touchpad_linux.rs).  An injector tracks what it holds down, to   *)
(* release it when control is revoked and when the session ends; the OS    *)
(* has its own view of it, and may refuse any event in silence.            *)
(*                                                                         *)
(* The app between the two, which drops events while control is revoked,   *)
(* is external; the reader's events reach the injector in order.           *)
(***************************************************************************)
EXTENDS Integers, FiniteSets

CONSTANTS
    Backends,    \* among "uinput", "sendinput", "window", "macos"
    Buttons,     \* ids of mouse buttons, u8
    Codes,       \* by backend: the evdev key codes its clients send, u32
    MaxDropped   \* bound on refused events

ASSUME InputAssumption ==
    /\ Backends \subseteq {"uinput", "sendinput", "window", "macos"}
    /\ Buttons \subseteq 0 .. 255 /\ Codes \in [Backends -> SUBSET Nat]

VARIABLES
    backend,
    held_buttons, held_keys, flags, caps_lock,   \* the injector's
    os_buttons, os_keys,   \* what the OS has down (the window, its app)
    astray,        \* history: inputs whose last event was refused
    dropped,       \* refused events
    control,       \* the app's gate on the host
    session,       \* an injector exists
    window_alive,  \* IsWindow of the target
    gate,          \* is_active of the touchpad reader
    reader         \* its thread

inputvars == <<backend, held_buttons, held_keys, flags, caps_lock,
               os_buttons, os_keys, astray, dropped, control, session,
               window_alive, gate, reader>>
injector == <<held_buttons, held_keys, flags, caps_lock>>
pipe == <<backend, control, session, window_alive>>

(* The button an id stands for: 1 right, 2 middle, any other left (0).     *)
Button(b) == IF b \in {1, 2} THEN b ELSE 0

(* What held_buttons (window_win: btn_mask) keeps of an id.                *)
Slot(b) == IF backend \in {"uinput", "window"} THEN Button(b) ELSE b

(* evdev_to_vk: rows of the two tables; Windows has one Enter for two.     *)
vk_windows ==
    [code \in {28, 30, 42, 54, 58, 96} |->
        CASE code \in {28, 96} -> 13 [] code = 30 -> 65 [] code = 42 -> 160
          [] code = 54 -> 161 [] code = 58 -> 20]
vk_macos ==
    [code \in {28, 30, 42, 54, 58, 96} |->
        CASE code = 28 -> 36 [] code = 30 -> 0 [] code = 42 -> 56
          [] code = 54 -> 60 [] code = 58 -> 57 [] code = 96 -> 76]

(* The OS key of a code, as a set of at most one.                          *)
KeyOf(code) ==
    IF backend = "uinput" THEN {code} \cap 1 .. 248
    ELSE LET table == IF backend = "macos" THEN vk_macos ELSE vk_windows
         IN  IF code \in DOMAIN table THEN {table[code]} ELSE {}

CapsVk == 57
Shifts == KeyOf(42) \cup KeyOf(54)

(* us_char_to_key: a key and whether it takes Shift; none beyond ASCII.    *)
Chars == {"a", "A", "other"}
us_char_to_key == [c \in {"a", "A"} |-> [key |-> 30, shift |-> c = "A"]]

NewReader == [pc |-> "fetch", active |-> FALSE, was_active |-> FALSE,
              held_left |-> FALSE, prev |-> "none", finger_down |-> FALSE,
              pressed |-> FALSE, sent |-> FALSE, jumped |-> FALSE]

InputInit ==
    /\ backend \in Backends
    /\ held_buttons = {} /\ held_keys = {} /\ flags = {} /\ caps_lock = FALSE
    /\ os_buttons = {} /\ os_keys = {} /\ astray = {} /\ dropped = 0
    /\ control = TRUE /\ session = TRUE /\ window_alive = TRUE
    /\ gate = FALSE /\ reader = NewReader

-----------------------------------------------------------------------------
(* The OS.                                                                 *)

Btn(b) == <<"button", b>>
Key(k) == <<"key", k>>

(* Events of a call: those for the inputs in `lost` are refused.           *)
Refused(lost) ==
    /\ dropped + Cardinality(lost) <= MaxDropped
    /\ dropped' = dropped + Cardinality(lost)

(* A closed window takes no message.                                       *)
Reaches == backend # "window" \/ window_alive

Put(set, elems, down) == IF down THEN set \cup elems ELSE set \ elems

(* The OS after events for buttons and keys, without the lost ones.        *)
Post(buttons, keys, down, lost) ==
    LET bs == {b \in buttons : Btn(b) \notin lost}
        ks == {k \in keys : Key(k) \notin lost}
        all == {Btn(b) : b \in buttons} \cup {Key(k) : k \in keys}
    IN  /\ Refused(lost)
        /\ os_buttons' = IF Reaches THEN Put(os_buttons, bs, down)
                         ELSE os_buttons
        /\ os_keys' = IF Reaches THEN Put(os_keys, ks, down) ELSE os_keys
        /\ astray' = (astray \ all) \cup lost

Quiet == UNCHANGED <<os_buttons, os_keys, astray, dropped>>

-----------------------------------------------------------------------------
(* The injector.                                                           *)

button(b, down, lost) ==
    /\ held_buttons' = Put(held_buttons, {Slot(b)}, down)
    /\ Post({Button(b)}, {}, down, lost)
    /\ UNCHANGED <<held_keys, flags, caps_lock>>

(* On macOS Caps Lock toggles on the first press, and the modifiers' mask  *)
(* is kept by hand.                                                        *)
Toggles(code, down) ==
    backend = "macos" /\ code = 58 /\ down /\ CapsVk \notin held_keys

key(code, down, lost) ==
    /\ caps_lock' = (caps_lock # Toggles(code, down))
    /\ flags' = IF Toggles(code, down) THEN Put(flags, {"caps"}, ~caps_lock)
                ELSE IF backend = "macos" /\ code \in {42, 54}
                THEN Put(flags, {"shift"}, down)
                ELSE flags
    /\ held_keys' = Put(held_keys, KeyOf(code), down)
    /\ Post({}, KeyOf(code), down, lost)
    /\ UNCHANGED held_buttons

(* Mutant: Shift is pressed and released around any shifted character.     *)
TapWithShift(c) ==
    {us_char_to_key[c].key} \cup IF us_char_to_key[c].shift THEN {42} ELSE {}

(* The keys uinput presses and releases for a character: no Shift of its   *)
(* own while the client holds one.                                         *)
Tap(c) ==
    {us_char_to_key[c].key} \cup
        IF us_char_to_key[c].shift /\ held_keys \cap Shifts = {}
        THEN {42} ELSE {}

(* type_char: on uinput one batch of taps; on macOS a press and a release  *)
(* of key 0 that carry the character; elsewhere no key.                    *)
type_char(c, lost) ==
    /\ CASE backend = "uinput" /\ c \in DOMAIN us_char_to_key ->
               IF lost THEN Quiet ELSE Post({}, Tap(c), FALSE, {})
         [] backend = "macos" ->
               IF lost THEN /\ Refused({Key(0)})
                            /\ os_keys' = os_keys \cup {0}
                            /\ astray' = astray \cup {Key(0)}
                            /\ UNCHANGED os_buttons
               ELSE Post({}, {0}, FALSE, {})
         [] OTHER -> Quiet
    /\ UNCHANGED injector

flush_held(lost) ==
    /\ held_buttons' = {} /\ held_keys' = {}
    /\ flags' = {} /\ caps_lock' = FALSE
    /\ Post({Button(b) : b \in held_buttons}, held_keys, FALSE, lost)

(* What the OS may refuse of a call's events.                              *)
Lost(inputs) == {{}} \cup {{i} : i \in inputs}
Held == {Btn(Button(b)) : b \in held_buttons} \cup {Key(k) : k \in held_keys}

(* Events of the client's mouse and keyboard, while it has control.        *)
Event ==
    /\ session /\ control
    /\ \/ \E b \in Buttons, down \in BOOLEAN :
             \E lost \in Lost({Btn(Button(b))}) : button(b, down, lost)
       \/ \E code \in Codes[backend], down \in BOOLEAN :
             \E lost \in Lost({Key(k) : k \in KeyOf(code)}) :
                key(code, down, lost)
       \/ \E c \in Chars, lost \in BOOLEAN : type_char(c, lost)
    /\ UNCHANGED <<pipe, gate, reader>>

(* Control is revoked: what is held is flushed; later events are dropped.  *)
Revoke ==
    /\ session /\ control /\ control' = FALSE
    /\ \E lost \in Lost(Held) : flush_held(lost)
    /\ UNCHANGED <<backend, session, window_alive, gate, reader>>

Grant ==
    /\ session /\ ~control /\ control' = TRUE
    /\ Quiet
    /\ UNCHANGED <<backend, session, window_alive, gate, reader, injector>>

(* Drop of the injector.  A closed window is left alone.  The reader stops *)
(* with its session.                                                       *)
DropInput ==
    /\ session /\ session' = FALSE
    /\ reader' = [reader EXCEPT !.pc = "exited"]
    /\ IF Reaches THEN \E lost \in Lost(Held) : flush_held(lost)
       ELSE Quiet /\ UNCHANGED injector
    /\ UNCHANGED <<backend, control, window_alive, gate>>

(* The next session, on the host as the last one left it.                  *)
NewSession ==
    /\ ~session /\ session' = TRUE /\ control' = TRUE
    /\ held_buttons' = {} /\ held_keys' = {} /\ flags' = {}
    /\ caps_lock' = FALSE
    /\ window_alive' = TRUE /\ reader' = NewReader
    /\ Quiet /\ UNCHANGED <<backend, gate>>

(* The target window closes, with all it had down.                         *)
WindowCloses ==
    /\ backend = "window" /\ window_alive /\ window_alive' = FALSE
    /\ os_buttons' = {} /\ os_keys' = {} /\ astray' = {}
    /\ UNCHANGED <<backend, control, session, injector, dropped, gate, reader>>

-----------------------------------------------------------------------------
(* The touchpad reader of the client.                                      *)

(* The pad's click, at the host.                                           *)
Forward(down) ==
    IF control THEN \E lost \in Lost({Btn(0)}) : button(0, down, lost)
    ELSE Quiet /\ UNCHANGED injector

Flip ==
    /\ gate' = ~gate
    /\ Quiet /\ UNCHANGED <<pipe, injector, reader>>

(* At an edge of the gate a held click is released, the seed of the motion *)
(* dropped.                                                                *)
Edge ==
    LET releases == ~gate /\ reader.held_left
    IN  /\ reader' = [reader EXCEPT
                         !.pc = "events", !.active = gate, !.was_active = gate,
                         !.prev = "none",
                         !.held_left = @ /\ ~releases,
                         !.sent = @ /\ ~releases]
        /\ IF releases THEN Forward(FALSE) ELSE Quiet /\ UNCHANGED injector

(* fetch_events returns a batch; the gate is read once for all of it.      *)
Fetch ==
    /\ session /\ reader.pc = "fetch"
    /\ IF gate # reader.was_active THEN Edge
       ELSE /\ reader' = [reader EXCEPT !.pc = "events", !.active = gate]
            /\ Quiet /\ UNCHANGED injector
    /\ UNCHANGED <<pipe, gate>>

(* BTN_LEFT.                                                               *)
Click ==
    LET down == ~reader.pressed
    IN  /\ reader' = [reader EXCEPT !.pressed = down, !.held_left = down,
                                    !.sent = IF reader.active THEN down ELSE @]
        /\ IF reader.active THEN Forward(down) ELSE Quiet /\ UNCHANGED injector

(* BTN_TOUCH.                                                              *)
Touch ==
    /\ reader' = [reader EXCEPT !.finger_down = ~@,
                                !.prev = IF reader.finger_down THEN "none" ELSE @]
    /\ Quiet /\ UNCHANGED injector

(* SYN_REPORT with both coordinates: the motion since prev is forwarded.   *)
(* The seed is kept as the state of the gate it was taken in.              *)
Motion ==
    /\ reader.finger_down
    /\ reader' = [reader EXCEPT
                     !.prev = IF reader.active THEN "live" ELSE "gated",
                     !.jumped = @ \/ (reader.active /\ reader.prev = "gated")]
    /\ Quiet /\ UNCHANGED injector

PadEvent ==
    /\ session /\ reader.pc = "events"
    /\ Click \/ Touch \/ Motion
    /\ UNCHANGED <<pipe, gate>>

EndBatch ==
    /\ reader.pc = "events" /\ reader' = [reader EXCEPT !.pc = "fetch"]
    /\ Quiet /\ UNCHANGED <<pipe, gate, injector>>

(* fetch_events fails: the pad was unplugged.                              *)
PadGone ==
    /\ reader.pc = "fetch" /\ reader' = [reader EXCEPT !.pc = "exited"]
    /\ Quiet /\ UNCHANGED <<pipe, gate, injector>>

InputNext ==
    \/ Event \/ Revoke \/ Grant \/ DropInput \/ NewSession \/ WindowCloses
    \/ Flip \/ Fetch \/ PadEvent \/ EndBatch \/ PadGone

InputSpec == InputInit /\ [][InputNext]_inputvars

-----------------------------------------------------------------------------
(* Properties.                                                             *)

(* "a held button/modifier stays stuck": nothing is down on the host that  *)
(* the injector does not know of, nothing at all once control is revoked   *)
(* or the session over, whatever was pressed, typed, closed or refused     *)
(* before (only an input whose own last event the OS refused is exempt).   *)
(* The injector's idea of Shift is the OS's, so a typed character never    *)
(* lets go of a Shift that the client holds; on macOS no modifier flag     *)
(* outlives its keys and the Caps bit is the latch.                        *)
NoneStuck ==
    LET up(i) == i \in astray
    IN  /\ \A b \in os_buttons :
              up(Btn(b)) \/ \E s \in held_buttons : Button(s) = b
        /\ \A k \in os_keys : up(Key(k)) \/ k \in held_keys
        /\ ~control \/ ~session =>
              /\ \A b \in os_buttons : up(Btn(b))
              /\ \A k \in os_keys : up(Key(k))
        /\ Reaches /\ session =>
              \A k \in Shifts : up(Key(k)) \/ (k \in held_keys <=> k \in os_keys)
        /\ "caps" \in flags <=> caps_lock
        /\ "shift" \in flags => held_keys \cap Shifts # {}

(* The touchpad's reader, from the batch on in which it saw its gate shut, *)
(* holds no click it has sent, and it never sends motion that spans a      *)
(* stretch it saw shut.  It reads the gate only when fetch_events returns: *)
(* a click outlives a gate that shuts until the pad's next event, and a    *)
(* reader that has exited lets go of nothing; neither is excluded here.    *)
PadGated ==
    /\ reader.pc # "exited" /\ ~reader.was_active => ~reader.sent
    /\ ~reader.jumped

(* What a session and its revocation leave on the host, nothing held that  *)
(* nobody will let go of, and what the reader sends past a gate it saw.    *)
NothingStuck == NoneStuck /\ PadGated
=============================================================================
