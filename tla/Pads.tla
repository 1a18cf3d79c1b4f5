-------------------------------- MODULE Pads --------------------------------
(***************************************************************************)
(* Virtual gamepads on Windows: ViGEmGamepad (input/vigem.rs) over the     *)
(* vigem-client crate (client.rs, x360.rs, ds4.rs, bus.rs).  Every pad has *)
(* its own connection to the bus driver; it looks for a free serial from 1 *)
(* up, waits until the device is ready, submits reports, and when it is    *)
(* dropped unplugs its target and then closes the connection: two calls.   *)
(* A rumble reader is a thread with a copy of the pad's handle and serial. *)
(*                                                                         *)
(* The driver is external, as its ioctls are used: it refuses a serial     *)
(* that is taken, aborts what waits on a target that is taken away or on a *)
(* handle that is closed, and any of its calls may fail.  A handle's value *)
(* may be given out again once it is closed.                               *)
(***************************************************************************)
EXTENDS Integers, FiniteSets

CONSTANTS
    PadIds,       \* pads the app may have at once
    Kinds,        \* among "xbox360", "ds4"
    MAX_SERIAL,   \* serials 1 .. MAX_SERIAL are tried (u16::MAX - 1)
    Handles,      \* values of handles
    MaxFailures   \* bound on failing ioctls

Serials == 1 .. MAX_SERIAL
Nobody == "nobody"
Stranger == "stranger"    \* a target of another program
NoHandle == "closed"

ASSUME PadsAssumption ==
    /\ MAX_SERIAL \in Nat \ {0} /\ {Nobody, Stranger} \cap PadIds = {}
    /\ NoHandle \notin Handles /\ Cardinality(PadIds) <= Cardinality(Handles)

VARIABLES
    bus,        \* by serial: whose target is plugged in, of which kind, whose
                \* report it shows, and whether it was left behind
    pad,        \* by pad: its target, and where its owner is
    listener,   \* by pad: its rumble reader
    failures

padvars == <<bus, pad, listener, failures>>

NoTarget == [pad |-> Nobody, kind |-> "none", shown |-> Nobody, left |-> FALSE]
Alien == [pad |-> Stranger, kind |-> "none", shown |-> Nobody, left |-> FALSE]

NoPad == [pc |-> "none", kind |-> "xbox360", serial |-> 0, handle |-> NoHandle]
NoListener ==
    [pc |-> "none", serial |-> 0, handle |-> NoHandle, got |-> Nobody]

PadsInit ==
    /\ bus \in [Serials -> {NoTarget, Alien}]
    /\ pad = [p \in PadIds |-> NoPad]
    /\ listener = [p \in PadIds |-> NoListener]
    /\ failures = 0

-----------------------------------------------------------------------------
Fault == failures < MaxFailures /\ failures' = failures + 1

(* The pad whose open handle has this value.                               *)
Owner(h) == {p \in PadIds : h # NoHandle /\ pad[p].handle = h}

(* Client::connect.                                                        *)
Connect(p, kind, h) ==
    /\ pad[p].pc = "none" /\ listener[p].pc \in {"none", "ended"}
    /\ Owner(h) = {}
    /\ pad' = [pad EXCEPT ![p] = [pc |-> "plugin", kind |-> kind,
                                  serial |-> 1, handle |-> h]]
    /\ listener' = [listener EXCEPT ![p] = NoListener]
    /\ UNCHANGED <<bus, failures>>

(* plugin: the driver takes a target under a free serial.  Any error, be   *)
(* the serial taken or not, leads to the next one, up to the last; then    *)
(* NoFreeSlot, and as no target was attached only the client is dropped.   *)
Plugin(p) ==
    LET s == pad[p].serial
    IN  /\ pad[p].pc = "plugin" /\ UNCHANGED listener
        /\ \/ /\ bus[s] = NoTarget
              /\ bus' = [bus EXCEPT ![s] = [pad |-> p, kind |-> pad[p].kind,
                                           shown |-> Nobody, left |-> FALSE]]
              /\ pad' = [pad EXCEPT ![p].pc = "ready"]
              /\ UNCHANGED failures
           \/ /\ IF bus[s] = NoTarget THEN Fault ELSE UNCHANGED failures
              /\ pad' = IF s < MAX_SERIAL
                        THEN [pad EXCEPT ![p].serial = s + 1]
                        ELSE [pad EXCEPT ![p].pc = "close"]
              /\ UNCHANGED bus

(* Mutant: an unready target is given up without being unplugged.          *)
ReadyAbandons(p, ok) ==
    /\ pad[p].pc = "ready"
    /\ pad' = [pad EXCEPT ![p].pc = IF ok THEN "live" ELSE "close"]
    /\ IF ok THEN UNCHANGED failures ELSE Fault
    /\ UNCHANGED <<bus, listener>>

(* wait_ready: an error drops the target, which unplugs it.                *)
Ready(p, ok) ==
    /\ pad[p].pc = "ready"
    /\ pad' = [pad EXCEPT ![p].pc = IF ok THEN "live" ELSE "unplug"]
    /\ IF ok THEN UNCHANGED failures ELSE Fault
    /\ UNCHANGED <<bus, listener>>

(* apply: the driver takes the report, for a DS4 the extended one or else  *)
(* the legacy one, or refuses them all, which the pad ignores: the target  *)
(* goes on showing what it showed.                                         *)
Apply(p, taken) ==
    /\ pad[p].pc = "live"
    /\ IF taken THEN /\ bus' = [bus EXCEPT ![pad[p].serial].shown = p]
                     /\ UNCHANGED failures
       ELSE Fault /\ UNCHANGED bus
    /\ UNCHANGED <<pad, listener>>

(* The pad is dropped.                                                     *)
DropPad(p) ==
    /\ pad[p].pc = "live" /\ pad' = [pad EXCEPT ![p].pc = "unplug"]
    /\ UNCHANGED <<bus, listener, failures>>

(* The driver aborts those of these readers that wait for a notification.  *)
Abort(readers) ==
    listener' = [q \in PadIds |->
        IF listener[q].pc = "waits" /\ q \in readers
        THEN [listener[q] EXCEPT !.pc = "ended"] ELSE listener[q]]

At(s) == {q \in PadIds : listener[q].serial = s}
On(h) == {q \in PadIds : listener[q].handle = h}

(* Its target's Drop: unplug.  An error is ignored and the target stays,   *)
(* left behind; either way the client is dropped next.                     *)
Unplug(p, ok) ==
    LET s == pad[p].serial
    IN  /\ pad[p].pc = "unplug" /\ pad' = [pad EXCEPT ![p].pc = "close"]
        /\ IF ok THEN /\ bus' = [bus EXCEPT ![s] = NoTarget]
                      /\ Abort(At(s)) /\ UNCHANGED failures
           ELSE /\ bus' = [bus EXCEPT ![s].left = TRUE]
                /\ Fault /\ UNCHANGED listener

(* The client's Drop: CloseHandle.  The driver may take away what is left  *)
(* behind at the connection's serial, or not.                              *)
Close(p, swept) ==
    LET s == pad[p].serial
        goes == swept /\ bus[s].left /\ bus[s].pad = p
    IN  /\ pad[p].pc = "close" /\ pad' = [pad EXCEPT ![p] = NoPad]
        /\ bus' = [bus EXCEPT ![s] = IF goes THEN NoTarget ELSE @]
        /\ Abort(On(pad[p].handle) \cup IF goes THEN At(s) ELSE {})
        /\ UNCHANGED failures

(* Another program's targets come and go.                                  *)
Foreigner(s) ==
    /\ bus[s] \in {NoTarget, Alien}
    /\ bus' = [bus EXCEPT ![s] = IF @ = NoTarget THEN Alien ELSE NoTarget]
    /\ UNCHANGED <<pad, listener, failures>>

-----------------------------------------------------------------------------
(* rumble_reader: a DS4's notifier, moved to a thread.                     *)
Listen(p) ==
    /\ pad[p].pc = "live" /\ pad[p].kind = "ds4" /\ listener[p].pc = "none"
    /\ listener' = [listener EXCEPT ![p] =
                       [pc |-> "idle", serial |-> pad[p].serial,
                        handle |-> pad[p].handle, got |-> Nobody]]
    /\ UNCHANGED <<bus, pad, failures>>

(* The request for a notification stays pending at a DS4's target of this  *)
(* program; it fails at once on a closed handle or at any other serial.    *)
Ds4AwaitNotification(n) ==
    Owner(n.handle) # {} /\ bus[n.serial].kind = "ds4"

(* await_notification: an error ends the reader.                           *)
Await(p) ==
    /\ listener[p].pc = "idle"
    /\ listener' = [listener EXCEPT
          ![p].pc = IF Ds4AwaitNotification(listener[p])
                    THEN "waits" ELSE "ended"]
    /\ UNCHANGED <<bus, pad, failures>>

(* The game rumbles the target at the serial; the reader passes it on and  *)
(* returns for the next.                                                   *)
Rumble(p) ==
    /\ listener[p].pc = "waits"
    /\ listener' = [listener EXCEPT ![p].pc = "idle",
                                    ![p].got = bus[listener[p].serial].pad]
    /\ UNCHANGED <<bus, pad, failures>>

PadsNext ==
    \/ \E p \in PadIds :
          \/ \E kind \in Kinds, h \in Handles : Connect(p, kind, h)
          \/ Plugin(p) \/ DropPad(p) \/ Listen(p) \/ Await(p) \/ Rumble(p)
          \/ \E ok \in BOOLEAN :
                Ready(p, ok) \/ Apply(p, ok) \/ Unplug(p, ok) \/ Close(p, ok)
    \/ \E s \in Serials : Foreigner(s)

PadsSpec == PadsInit /\ [][PadsNext]_padvars

-----------------------------------------------------------------------------
(* Properties.                                                             *)

Plugged(p) == pad[p].pc \in {"ready", "live", "unplug"}

(* Pads that are made and dropped side by side, beside other programs and  *)
(* a driver whose calls fail (new_target, Drop): a plugged pad has a       *)
(* serial of its own; every target of ours is a plugged pad's, or one      *)
(* whose unplug failed; a plugged pad's target shows no other pad's        *)
(* reports, and its reader has passed on no other pad's rumble.            *)
PadsRight ==
    /\ \A p \in PadIds :
          Plugged(p) => LET target == bus[pad[p].serial]
                        IN  /\ target.pad = p /\ ~target.left
                            /\ target.shown \in {Nobody, p}
                            /\ listener[p].got \in {Nobody, p}
    /\ \A s \in Serials :
          bus[s].pad \in PadIds /\ ~bus[s].left =>
              Plugged(bus[s].pad) /\ pad[bus[s].pad].serial = s

(* What the comment on Ds4Rumble::next says: the reader gets None when its *)
(* virtual pad is unplugged, so it never passes on rumble of another pad.  *)
RumbleOwn == \A p \in PadIds : listener[p].got \in {Nobody, p}
=============================================================================
