---------------------------- MODULE DeviceProofs ----------------------------
(***************************************************************************)
(* Proofs about what a device does around its sessions: virtual gamepads,  *)
(* the host's audio, the list of the LAN and injected input.  The four     *)
(* share no state; each has its inductive invariant and its theorems here, *)
(* for any number of pads, devices, formats, keys and table entries.       *)
(***************************************************************************)
EXTENDS HostAudio, Discovery, Input, Pads, FiniteSetTheorems, TLAPS

-----------------------------------------------------------------------------
(***************************************************************************)
(* Virtual gamepads.                                                       *)
(***************************************************************************)

TargetType == [pad : PadIds \cup {Nobody, Stranger}, kind : Kinds \cup {"none", "xbox360"},
               shown : PadIds \cup {Nobody}, left : BOOLEAN]
PadType == [pc : {"none", "plugin", "ready", "live", "unplug", "close"},
            kind : Kinds \cup {"xbox360"}, serial : 0 .. MAX_SERIAL,
            handle : Handles \cup {NoHandle}]
ListenerType == [pc : {"none", "idle", "waits", "ended"},
                 serial : 0 .. MAX_SERIAL, handle : Handles \cup {NoHandle},
                 got : PadIds \cup {Nobody, Stranger}]

\* A reader that is there has a serial.
ReaderAt(p) == listener[p].pc \in {"idle", "waits"} => listener[p].serial \in Serials

PadsTypeOK ==
    /\ bus \in [Serials -> TargetType]
    /\ pad \in [PadIds -> PadType]
    /\ listener \in [PadIds -> ListenerType]
    /\ \A p \in PadIds : ReaderAt(p)

\* A pad that is there has a serial.
PadOpen(p) == pad[p].pc # "none" => pad[p].serial \in Serials

\* The bus and the pads agree on who is plugged in where; only what failed to
\* go is there without its pad.
Seated(p) ==
    Plugged(p) => LET target == bus[pad[p].serial]
                  IN  target.pad = p /\ ~target.left /\ target.shown \in {Nobody, p}
SerialsOwn ==
    \A s \in Serials :
        bus[s].pad \in PadIds /\ ~bus[s].left =>
            Plugged(bus[s].pad) /\ pad[bus[s].pad].serial = s

\* Until its pad's target is unplugged a reader is at the pad's serial, and
\* there is none before the pad is live.  What comes after is not spoken of.
ReaderFaithful(p) ==
    pad[p].pc \in {"plugin", "ready", "live", "unplug"} =>
        /\ listener[p].got \in {Nobody, p}
        /\ listener[p].pc \in {"idle", "waits"} =>
              listener[p].serial = pad[p].serial /\ pad[p].pc \in {"live", "unplug"}

PadsInv ==
    /\ PadsTypeOK /\ SerialsOwn
    /\ \A p \in PadIds : PadOpen(p) /\ Seated(p) /\ ReaderFaithful(p)

\* What a step of another pad may do to reader q.
OnlyEnds(q) ==
    \/ listener'[q] = listener[q]
    \/ listener'[q].pc = "ended" /\ listener'[q].got = listener[q].got

\* The records that say that there is nothing are of their types.
LEMMA PadsConstants ==
    /\ NoPad \in PadType /\ NoPad.pc = "none"
    /\ NoListener \in ListenerType /\ NoListener.pc = "none" /\ NoListener.got = Nobody
    /\ NoTarget \in TargetType /\ NoTarget.pad = Nobody
    /\ Alien \in TargetType /\ Alien.pad = Stranger
BY PadsAssumption DEF NoPad, PadType, NoListener, ListenerType, NoTarget, Alien, TargetType

\* No pad is there at first.
LEMMA PadsInitInv == PadsInit => PadsInv
<1> SUFFICES ASSUME PadsInit PROVE PadsInv
  OBVIOUS
<1> USE PadsAssumption, PadsConstants DEF PadsInit
<1>1. PadsTypeOK
  BY DEF PadsTypeOK, ReaderAt
<1>2. \A s \in Serials : bus[s] \in {NoTarget, Alien}
  OBVIOUS
<1>3. SerialsOwn
  BY <1>2 DEF SerialsOwn
<1>4. \A p \in PadIds : PadOpen(p) /\ Seated(p) /\ ReaderFaithful(p)
  BY DEF PadOpen, Seated, Plugged, ReaderFaithful
<1> QED BY <1>1, <1>3, <1>4 DEF PadsInv

\* One pad moves on and leaves the bus alone: not among the plugged, or from one
\* of their states to the next.
LEMMA MovedInv ==
    ASSUME PadsInv, NEW p \in PadIds, NEW new \in PadType,
           pad' = [pad EXCEPT ![p] = new], UNCHANGED bus,
           new.pc # "none" => new.serial \in Serials,
           \/ ~Plugged(p) /\ new.pc \in {"none", "plugin", "close"}
           \/ Plugged(p) /\ new.pc \in {"ready", "live", "unplug"} /\ new.serial = pad[p].serial,
           listener' \in [PadIds -> ListenerType],
           ReaderAt(p)',
           \A q \in PadIds : q # p => OnlyEnds(q),
           ReaderFaithful(p)'
    PROVE  PadsInv'
<1> USE DEF PadsInv
<1>1. /\ pad'[p] = new /\ \A q \in PadIds : q # p => pad'[q] = pad[q]
      /\ pad' \in [PadIds -> PadType]
  BY DEF PadsTypeOK
<1>2. PadsTypeOK'
  BY <1>1 DEF PadsTypeOK, OnlyEnds, ReaderAt
<1>3. SerialsOwn'
  BY <1>1 DEF SerialsOwn, Plugged
<1>4. ASSUME NEW q \in PadIds PROVE PadOpen(q)' /\ Seated(q)'
  BY <1>1 DEF PadOpen, Seated, Plugged
<1>5. ASSUME NEW q \in PadIds PROVE ReaderFaithful(q)'
  <2>1. CASE q # p
    BY <1>1, <2>1 DEF ReaderFaithful, OnlyEnds
  <2> QED BY <2>1
<1> QED BY <1>2, <1>3, <1>4, <1>5

\* What the driver aborts keeps what it has passed on, and only ends.
LEMMA AbortEnds ==
    ASSUME PadsInv, NEW readers, Abort(readers), NEW q \in PadIds
    PROVE  listener' \in [PadIds -> ListenerType] /\ OnlyEnds(q)
<1> DEFINE gone(r) == [listener[r] EXCEPT !.pc = "ended"]
<1>1. ASSUME NEW r \in PadIds
      PROVE  listener[r] \in ListenerType /\ gone(r) \in ListenerType
             /\ gone(r).pc = "ended" /\ gone(r).got = listener[r].got
  <2>1. listener[r] \in ListenerType
    BY DEF PadsInv, PadsTypeOK
  <2> QED BY <2>1 DEF ListenerType
<1>2. listener' = [r \in PadIds |-> IF listener[r].pc = "waits" /\ r \in readers
                                    THEN gone(r) ELSE listener[r]]
  BY DEF Abort
<1> HIDE DEF gone
<1> QED BY <1>1, <1>2 DEF OnlyEnds

\* A pad is connected and has no reader yet.
LEMMA ConnectInv ==
    ASSUME PadsInv, NEW p \in PadIds, NEW kind \in Kinds, NEW h \in Handles,
           Connect(p, kind, h)
    PROVE  PadsInv'
<1> DEFINE new == [pc |-> "plugin", kind |-> kind, serial |-> 1, handle |-> h]
<1>1. new \in PadType /\ new.pc = "plugin" /\ new.serial \in Serials
  BY PadsAssumption DEF PadType, Serials
<1>2. pad' = [pad EXCEPT ![p] = new] /\ pad[p].pc = "none" /\ UNCHANGED bus
  BY DEF Connect
<1> HIDE DEF new
<1>3. /\ listener' \in [PadIds -> ListenerType] /\ listener'[p] = NoListener
      /\ \A q \in PadIds : q # p => listener'[q] = listener[q]
  BY PadsConstants DEF Connect, PadsInv, PadsTypeOK
<1>4. ReaderFaithful(p)'
  BY <1>3, PadsConstants DEF ReaderFaithful
<1>5. ReaderAt(p)'
  BY <1>3, PadsConstants DEF ReaderAt
<1> QED BY <1>1, <1>2, <1>3, <1>4, <1>5, MovedInv DEF Plugged, OnlyEnds

\* A free serial is taken, or one is passed over, or the last one was.
LEMMA PluginInv == ASSUME PadsInv, NEW p \in PadIds, Plugin(p) PROVE PadsInv'
<1> USE PadsAssumption DEF PadsInv
<1> DEFINE s == pad[p].serial
<1>1. /\ pad[p].pc = "plugin" /\ s \in Serials /\ pad[p] \in PadType
      /\ UNCHANGED listener /\ listener \in [PadIds -> ListenerType]
      /\ ReaderFaithful(p) /\ ~Plugged(p) /\ ReaderAt(p)'
  BY DEF Plugin, PadOpen, PadsTypeOK, Plugged, ReaderAt
<1>2. ASSUME bus[s] = NoTarget, pad' = [pad EXCEPT ![p].pc = "ready"],
             bus' = [bus EXCEPT ![s] = [pad |-> p, kind |-> pad[p].kind,
                                        shown |-> Nobody, left |-> FALSE]]
      PROVE  PadsInv'
  <2> DEFINE new == [pad[p] EXCEPT !.pc = "ready"]
             target == [pad |-> p, kind |-> pad[p].kind, shown |-> Nobody, left |-> FALSE]
  <2>1. new.pc = "ready" /\ new.serial = s /\ new \in PadType
    BY <1>1 DEF PadType
  <2>2. /\ target \in TargetType /\ target.pad = p /\ target.shown = Nobody
        /\ target.left = FALSE
    BY <1>1 DEF PadType, TargetType
  <2> HIDE DEF target
  <2>3. /\ bus'[s] = target /\ bus' \in [Serials -> TargetType]
        /\ \A t \in Serials : t # s => bus'[t] = bus[t]
    BY <1>1, <1>2, <2>2 DEF PadsTypeOK, target
  <2>4. /\ pad'[p] = new /\ \A q \in PadIds : q # p => pad'[q] = pad[q]
        /\ pad' \in [PadIds -> PadType]
    BY <1>2, <2>1 DEF PadsTypeOK
  <2> HIDE DEF new
  <2>5. PadsTypeOK'
    BY <1>1, <2>3, <2>4 DEF PadsTypeOK, ReaderAt
  <2>6. bus[s].pad = Nobody
    BY <1>2, PadsConstants
  <2> HIDE DEF s
  <2>7. ASSUME NEW q \in PadIds, q # p, Plugged(q)
        PROVE  pad[q].serial # s /\ pad[q].serial \in Serials
    BY <2>6, <2>7 DEF Seated, PadOpen, Plugged
  <2>8. SerialsOwn'
    <3>1. ASSUME NEW t \in Serials, bus'[t].pad \in PadIds, ~bus'[t].left
          PROVE  Plugged(bus[t].pad)' /\ pad'[bus'[t].pad].serial = t
      <4>1. CASE t = s
        BY <4>1, <2>1, <2>2, <2>3, <2>4 DEF Plugged
      <4>2. CASE t # s
        <5>1. bus'[t] = bus[t] /\ Plugged(bus[t].pad) /\ pad[bus[t].pad].serial = t
          BY <4>2, <3>1, <2>3 DEF SerialsOwn
        <5>2. bus[t].pad # p
          BY <5>1, <1>1
        <5> QED BY <5>1, <5>2, <3>1, <2>4 DEF Plugged
      <4> QED BY <4>1, <4>2
    <3> QED BY <3>1 DEF SerialsOwn
  <2>9. ASSUME NEW q \in PadIds PROVE PadOpen(q)' /\ Seated(q)' /\ ReaderFaithful(q)'
    <3>1. CASE q = p
      BY <3>1, <1>1, <2>1, <2>2, <2>3, <2>4 DEF PadOpen, Seated, ReaderFaithful
    <3>2. CASE q # p
      BY <3>2, <1>1, <2>3, <2>4, <2>7 DEF PadOpen, Seated, ReaderFaithful, Plugged
    <3> QED BY <3>1, <3>2
  <2> QED BY <2>5, <2>8, <2>9
<1>3. ASSUME UNCHANGED bus,
             pad' = IF s < MAX_SERIAL THEN [pad EXCEPT ![p].serial = s + 1]
                    ELSE [pad EXCEPT ![p].pc = "close"]
      PROVE  PadsInv'
  <2>1. CASE s < MAX_SERIAL
    <3> DEFINE new == [pad[p] EXCEPT !.serial = s + 1]
    <3>1. s + 1 \in Serials
      BY <2>1, <1>1 DEF Serials
    <3>2. new \in PadType /\ new.pc = "plugin" /\ new.serial \in Serials
      BY <3>1, <1>1 DEF PadType, Serials
    <3>3. pad' = [pad EXCEPT ![p] = new] /\ pad'[p] = new
      BY <2>1, <1>3 DEF PadsTypeOK
    <3> HIDE DEF new
    <3>4. ReaderFaithful(p)'
      BY <3>2, <3>3, <1>1 DEF ReaderFaithful
    <3> QED BY <1>1, <1>3, <3>2, <3>3, <3>4, MovedInv DEF OnlyEnds
  <2>2. CASE ~(s < MAX_SERIAL)
    <3> DEFINE new == [pad[p] EXCEPT !.pc = "close"]
    <3>1. new \in PadType /\ new.pc = "close" /\ new.serial \in Serials
      BY <1>1 DEF PadType
    <3>2. pad' = [pad EXCEPT ![p] = new] /\ pad'[p] = new
      BY <2>2, <1>3 DEF PadsTypeOK
    <3> HIDE DEF new
    <3>3. ReaderFaithful(p)'
      BY <3>1, <3>2 DEF ReaderFaithful
    <3> QED BY <1>1, <1>3, <3>1, <3>2, <3>3, MovedInv DEF OnlyEnds
  <2> QED BY <2>1, <2>2
<1> QED BY <1>2, <1>3 DEF Plugin

\* wait_ready and the start of a drop.
LEMMA OwnerInv ==
    ASSUME PadsInv, NEW p \in PadIds,
           DropPad(p) \/ \E ok \in BOOLEAN : Ready(p, ok)
    PROVE  PadsInv'
<1> USE DEF PadsInv
<1>1. pad[p] \in PadType /\ listener \in [PadIds -> ListenerType] /\ ReaderFaithful(p)
      /\ PadOpen(p)
  BY DEF PadsTypeOK
<1>2. ASSUME NEW to \in {"live", "unplug"}, pad[p].pc \in {"ready", "live"},
             pad' = [pad EXCEPT ![p].pc = to], UNCHANGED <<bus, listener>>
      PROVE  PadsInv'
  <2> DEFINE new == [pad[p] EXCEPT !.pc = to]
  <2>1. new.pc = to /\ new.serial = pad[p].serial /\ new \in PadType
    BY <1>1 DEF PadType
  <2>2. pad' = [pad EXCEPT ![p] = new] /\ pad'[p] = new
    BY <1>2 DEF PadsTypeOK
  <2> HIDE DEF new
  <2>3. ReaderFaithful(p)'
    BY <1>1, <1>2, <2>1, <2>2 DEF ReaderFaithful
  <2>4. Plugged(p) /\ pad[p].serial \in Serials /\ ReaderAt(p)'
    BY <1>1, <1>2 DEF Plugged, PadOpen, PadsTypeOK, ReaderAt
  <2> QED BY <1>1, <1>2, <2>1, <2>2, <2>3, <2>4, MovedInv DEF OnlyEnds
<1>3. CASE DropPad(p)
  BY <1>2, <1>3 DEF DropPad
<1>4. ASSUME NEW ok \in BOOLEAN, Ready(p, ok) PROVE PadsInv'
  <2> DEFINE to == IF ok THEN "live" ELSE "unplug"
  <2>1. to \in {"live", "unplug"}
    OBVIOUS
  <2>2. pad[p].pc = "ready" /\ pad' = [pad EXCEPT ![p].pc = to] /\ UNCHANGED <<bus, listener>>
    BY <1>4 DEF Ready
  <2> QED BY <1>2, <2>1, <2>2
<1> QED BY <1>3, <1>4

\* The target at p's serial changes and stays p's, or p's and left behind, or
\* goes: no plugged pad is at that serial afterwards but p.
LEMMA TargetInv ==
    ASSUME PadsInv, NEW p \in PadIds, NEW target \in TargetType,
           pad[p].serial \in Serials, bus[pad[p].serial].pad = p,
           bus' = [bus EXCEPT ![pad[p].serial] = target],
           pad' \in [PadIds -> PadType],
           \A q \in PadIds : q # p => pad'[q] = pad[q],
           listener' \in [PadIds -> ListenerType],
           ReaderAt(p)',
           \A q \in PadIds : q # p => OnlyEnds(q),
           pad'[p].serial = pad[p].serial \/ pad'[p].pc = "none",
           \/ target.pad \notin PadIds \/ target.left
           \/ Plugged(p)' /\ target.pad = p /\ pad'[p].serial = pad[p].serial,
           ~Plugged(p) => bus[pad[p].serial].left,
           Plugged(p)' => target.pad = p /\ ~target.left /\ target.shown \in {Nobody, p},
           ReaderFaithful(p)'
    PROVE  PadsInv'
<1> USE DEF PadsInv
<1> DEFINE s == pad[p].serial
<1>1. /\ bus'[s] = target /\ bus' \in [Serials -> TargetType]
      /\ \A t \in Serials : t # s => bus'[t] = bus[t]
  BY DEF PadsTypeOK
<1>2. PadsTypeOK'
  BY <1>1 DEF PadsTypeOK, OnlyEnds, ReaderAt
<1>3. ASSUME NEW q \in PadIds, q # p, Plugged(q)
      PROVE  pad[q].serial # s /\ pad[q].serial \in Serials
  BY <1>3 DEF Seated, PadOpen, Plugged
<1>4. SerialsOwn'
  <2>1. ASSUME NEW t \in Serials, bus'[t].pad \in PadIds, ~bus'[t].left
        PROVE  Plugged(bus[t].pad)' /\ pad'[bus'[t].pad].serial = t
    <3>1. CASE t = s
      BY <3>1, <2>1, <1>1 DEF Plugged
    <3>2. CASE t # s
      <4>1. bus'[t] = bus[t] /\ Plugged(bus[t].pad) /\ pad[bus[t].pad].serial = t
        BY <3>2, <2>1, <1>1 DEF SerialsOwn
      <4>2. bus[t].pad # p
        BY <4>1, <3>2
      <4> QED BY <4>1, <4>2, <2>1 DEF Plugged
    <3> QED BY <3>1, <3>2
  <2> QED BY <2>1 DEF SerialsOwn
<1>5. ASSUME NEW q \in PadIds PROVE PadOpen(q)' /\ Seated(q)' /\ ReaderFaithful(q)'
  <2>1. CASE q = p
    BY <2>1, <1>1 DEF PadOpen, Seated, Plugged
  <2>2. CASE q # p
    BY <2>2, <1>1, <1>3 DEF PadOpen, Seated, ReaderFaithful, Plugged, OnlyEnds
  <2> QED BY <2>1, <2>2
<1> QED BY <1>2, <1>4, <1>5

\* A report that the driver takes, or refuses.
LEMMA ApplyInv ==
    ASSUME PadsInv, NEW p \in PadIds, NEW taken \in BOOLEAN, Apply(p, taken)
    PROVE  PadsInv'
<1> USE DEF PadsInv
<1> DEFINE s == pad[p].serial
           target == [bus[s] EXCEPT !.shown = p]
<1>1. /\ pad[p].pc = "live" /\ s \in Serials /\ Plugged(p) /\ UNCHANGED <<pad, listener>>
      /\ pad \in [PadIds -> PadType] /\ listener \in [PadIds -> ListenerType]
      /\ bus[s] \in TargetType /\ bus[s].pad = p /\ ~bus[s].left /\ ReaderFaithful(p)
  BY DEF Apply, PadOpen, Plugged, Seated, PadsTypeOK
<1>2. CASE taken
  <2>1. target \in TargetType /\ target.pad = p /\ ~target.left /\ target.shown = p
    BY <1>1 DEF TargetType
  <2>2. bus' = [bus EXCEPT ![s] = target]
    BY <1>2 DEF Apply
  <2>3. ReaderFaithful(p)' /\ Plugged(p)' /\ ReaderAt(p)'
    BY <1>1 DEF ReaderFaithful, Plugged, PadsTypeOK, ReaderAt
  <2> HIDE DEF target
  <2> QED BY <1>1, <2>1, <2>2, <2>3, TargetInv DEF OnlyEnds
<1>3. CASE ~taken
  BY <1>1, <1>3 DEF Apply, PadsTypeOK, SerialsOwn, Plugged, PadOpen, Seated, ReaderFaithful,
      ReaderAt
<1> QED BY <1>2, <1>3

\* The target goes, or is left behind.
LEMMA UnplugInv ==
    ASSUME PadsInv, NEW p \in PadIds, NEW ok \in BOOLEAN, Unplug(p, ok) PROVE PadsInv'
<1> USE PadsAssumption DEF PadsInv
<1> DEFINE s == pad[p].serial
           new == [pad[p] EXCEPT !.pc = "close"]
           target == IF ok THEN NoTarget ELSE [bus[s] EXCEPT !.left = TRUE]
<1>1. /\ pad[p].pc = "unplug" /\ s \in Serials /\ Plugged(p) /\ pad[p] \in PadType
      /\ bus[s] \in TargetType /\ bus[s].pad = p
  BY DEF Unplug, PadOpen, Plugged, Seated, PadsTypeOK
<1>2. new \in PadType /\ new.pc = "close" /\ new.serial = s
  BY <1>1 DEF PadType
<1>3. /\ pad'[p] = new /\ \A q \in PadIds : q # p => pad'[q] = pad[q]
      /\ pad' \in [PadIds -> PadType]
  BY <1>2 DEF Unplug, PadsTypeOK
<1>4. target \in TargetType /\ (target.pad \notin PadIds \/ target.left)
  BY <1>1, PadsConstants DEF TargetType
<1>5. bus' = [bus EXCEPT ![s] = target]
  BY DEF Unplug
<1> HIDE DEF target, new
<1>6. /\ listener' \in [PadIds -> ListenerType]
      /\ \A q \in PadIds : OnlyEnds(q)
  <2>1. CASE ok
    BY <2>1, AbortEnds DEF Unplug
  <2>2. CASE ~ok
    BY <2>2 DEF Unplug, PadsTypeOK, OnlyEnds
  <2> QED BY <2>1, <2>2
<1>7. ReaderFaithful(p)' /\ ~Plugged(p)' /\ ReaderAt(p)'
  <2>1. ReaderFaithful(p)' /\ ~Plugged(p)'
    BY <1>2, <1>3 DEF ReaderFaithful, Plugged
  <2>2. ReaderAt(p)'
    BY <1>6 DEF OnlyEnds, ReaderAt, PadsTypeOK
  <2> QED BY <2>1, <2>2
<1> QED BY <1>1, <1>2, <1>3, <1>4, <1>5, <1>6, <1>7, TargetInv

\* The connection is closed, and what was left behind may go with it.
LEMMA CloseInv ==
    ASSUME PadsInv, NEW p \in PadIds, NEW swept \in BOOLEAN, Close(p, swept) PROVE PadsInv'
<1> USE PadsAssumption DEF PadsInv
<1> DEFINE s == pad[p].serial
           goes == swept /\ bus[s].left /\ bus[s].pad = p
<1>1. /\ pad[p].pc = "close" /\ s \in Serials /\ ~Plugged(p) /\ bus \in [Serials -> TargetType]
      /\ pad' = [pad EXCEPT ![p] = NoPad] /\ pad \in [PadIds -> PadType]
  BY DEF Close, PadOpen, Plugged, PadsTypeOK
<1>2. /\ pad'[p] = NoPad /\ \A q \in PadIds : q # p => pad'[q] = pad[q]
      /\ pad' \in [PadIds -> PadType]
  BY <1>1, PadsConstants
<1>3. /\ listener' \in [PadIds -> ListenerType]
      /\ \A q \in PadIds : OnlyEnds(q)
  BY AbortEnds DEF Close
<1>4. ReaderFaithful(p)' /\ ~Plugged(p)' /\ ReaderAt(p)'
  <2>1. ReaderFaithful(p)' /\ ~Plugged(p)'
    BY <1>2, PadsConstants DEF ReaderFaithful, Plugged
  <2>2. ReaderAt(p)'
    BY <1>3 DEF OnlyEnds, ReaderAt, PadsTypeOK
  <2> QED BY <2>1, <2>2
<1>5. CASE goes
  <2>1. bus' = [bus EXCEPT ![s] = NoTarget] /\ bus[s].left /\ bus[s].pad = p
    BY <1>5 DEF Close
  <2> QED BY <1>1, <1>2, <1>3, <1>4, <2>1, PadsConstants, TargetInv
<1>6. CASE ~goes
  <2>1. UNCHANGED bus
    BY <1>1, <1>6 DEF Close
  <2> QED BY <1>1, <1>3, <1>4, <2>1, PadsConstants, MovedInv
<1> QED BY <1>5, <1>6

\* Another program's target is never under a serial of ours.
LEMMA ForeignerInv == ASSUME PadsInv, NEW s \in Serials, Foreigner(s) PROVE PadsInv'
<1> USE PadsAssumption DEF PadsInv
<1> DEFINE target == IF bus[s] = NoTarget THEN Alien ELSE NoTarget
<1>1. /\ bus[s].pad \notin PadIds /\ target \in TargetType /\ target.pad \notin PadIds
      /\ bus' = [bus EXCEPT ![s] = target] /\ UNCHANGED <<pad, listener>>
  BY PadsConstants DEF Foreigner
<1> HIDE DEF target
<1>2. /\ bus'[s] = target /\ \A t \in Serials : t # s => bus'[t] = bus[t]
      /\ bus' \in [Serials -> TargetType]
  BY <1>1 DEF PadsTypeOK
<1>3. PadsTypeOK'
  BY <1>1, <1>2 DEF PadsTypeOK, ReaderAt
<1>4. SerialsOwn'
  BY <1>1, <1>2 DEF SerialsOwn, Plugged
<1>5. \A q \in PadIds : Plugged(q) => pad[q].serial # s /\ pad[q].serial \in Serials
  BY <1>1 DEF Seated, PadOpen, Plugged
<1>6. ASSUME NEW q \in PadIds PROVE PadOpen(q)' /\ Seated(q)' /\ ReaderFaithful(q)'
  BY <1>1, <1>2, <1>5 DEF PadOpen, Seated, ReaderFaithful, Plugged
<1> QED BY <1>3, <1>4, <1>6

\* A step of pad p's reader alone.
LEMMA ReaderStep ==
    ASSUME PadsInv, NEW p \in PadIds, NEW new \in ListenerType,
           listener' = [listener EXCEPT ![p] = new],
           new.pc \in {"idle", "waits"} => new.serial \in Serials,
           UNCHANGED <<bus, pad>>, ReaderFaithful(p)'
    PROVE  PadsInv'
<1> USE DEF PadsInv
<1>1. /\ \A q \in PadIds : q # p => listener'[q] = listener[q]
      /\ listener' \in [PadIds -> ListenerType]
  BY DEF PadsTypeOK
<1>2. PadsTypeOK' /\ SerialsOwn'
  BY <1>1 DEF PadsTypeOK, SerialsOwn, Plugged, ReaderAt
<1>3. \A q \in PadIds : PadOpen(q)' /\ Seated(q)'
  BY DEF PadOpen, Seated, Plugged
<1>4. \A q \in PadIds : q # p => ReaderFaithful(q)'
  BY <1>1 DEF ReaderFaithful
<1> QED BY <1>2, <1>3, <1>4

\* The reader starts at its pad's serial and passes on what the target there
\* gets.
LEMMA RumbleInv ==
    ASSUME PadsInv, NEW p \in PadIds, Listen(p) \/ Await(p) \/ Rumble(p) PROVE PadsInv'
<1> USE PadsAssumption DEF PadsInv
<1>1. /\ listener \in [PadIds -> ListenerType] /\ listener[p] \in ListenerType
      /\ pad[p] \in PadType /\ PadOpen(p) /\ Seated(p) /\ ReaderFaithful(p)
      /\ bus \in [Serials -> TargetType]
  BY DEF PadsTypeOK
<1>2. CASE Listen(p)
  <2> DEFINE new == [pc |-> "idle", serial |-> pad[p].serial,
                     handle |-> pad[p].handle, got |-> Nobody]
  <2>1. new \in ListenerType /\ new.serial = pad[p].serial /\ new.got = Nobody
    BY <1>1 DEF ListenerType, PadType
  <2>2. /\ listener' = [listener EXCEPT ![p] = new] /\ listener'[p] = new
        /\ UNCHANGED <<bus, pad>> /\ pad[p].pc = "live"
    BY <1>1, <1>2 DEF Listen
  <2> HIDE DEF new
  <2>3. ReaderFaithful(p)'
    BY <2>1, <2>2 DEF ReaderFaithful
  <2>4. new.serial \in Serials
    BY <1>1, <2>1, <2>2 DEF PadOpen
  <2> QED BY <2>1, <2>2, <2>3, <2>4, ReaderStep
<1>3. CASE Await(p)
  <2> DEFINE to == IF Ds4AwaitNotification(listener[p]) THEN "waits" ELSE "ended"
             new == [listener[p] EXCEPT !.pc = to]
  <2>1. to \in {"waits", "ended"}
    OBVIOUS
  <2>2. /\ listener[p].pc = "idle" /\ listener' = [listener EXCEPT ![p] = new]
        /\ UNCHANGED <<bus, pad>>
    BY <1>3 DEF Await
  <2> HIDE DEF to
  <2>3. new.pc = to /\ new.got = listener[p].got /\ new.serial = listener[p].serial
        /\ new \in ListenerType
    BY <1>1, <2>1 DEF ListenerType
  <2> HIDE DEF new
  <2>4. ReaderFaithful(p)'
    BY <1>1, <2>1, <2>2, <2>3 DEF ReaderFaithful
  <2>5. new.serial \in Serials
    BY <2>2, <2>3 DEF PadsTypeOK, ReaderAt
  <2> QED BY <2>2, <2>3, <2>4, <2>5, ReaderStep
<1>4. CASE Rumble(p)
  <2> DEFINE from == bus[listener[p].serial].pad
             n1 == [listener[p] EXCEPT !.pc = "idle"]
             new == [n1 EXCEPT !.got = from]
  <2>1. /\ listener[p].pc = "waits" /\ listener' = [listener EXCEPT ![p] = new]
        /\ UNCHANGED <<bus, pad>>
    BY <1>4 DEF Rumble
  <2>2. listener[p].serial \in Serials
    BY <2>1 DEF PadsTypeOK, ReaderAt
  <2>3. from \in PadIds \cup {Nobody, Stranger}
    BY <1>1, <2>2 DEF TargetType
  <2> HIDE DEF from
  <2>4. n1 \in ListenerType /\ n1.serial = listener[p].serial /\ n1.pc = "idle"
    BY <1>1 DEF ListenerType
  <2> HIDE DEF n1
  <2>5. new \in ListenerType /\ new.got = from /\ new.serial = listener[p].serial
    BY <2>3, <2>4 DEF ListenerType
  <2> HIDE DEF new
  <2>6. listener'[p] = new /\ new.serial \in Serials
    BY <1>1, <2>1, <2>2, <2>5
  <2>7. Plugged(p) => from \in {Nobody, p}
    BY <1>1, <2>1 DEF ReaderFaithful, Seated, Plugged, from
  <2>8. ReaderFaithful(p)'
    BY <1>1, <2>1, <2>5, <2>6, <2>7 DEF ReaderFaithful, Plugged
  <2> QED BY <2>1, <2>5, <2>6, <2>8, ReaderStep
<1> QED BY <1>2, <1>3, <1>4

\* Every step of the pads, their readers and other programs keeps the invariant.
LEMMA PadsNextInv == PadsInv /\ [PadsNext]_padvars => PadsInv'
<1> SUFFICES ASSUME PadsInv, [PadsNext]_padvars PROVE PadsInv'
  OBVIOUS
<1>1. CASE UNCHANGED padvars
  BY <1>1 DEF padvars, PadsInv, PadsTypeOK, ReaderAt, SerialsOwn, Plugged,
              PadOpen, Seated, ReaderFaithful
<1>2. CASE PadsNext
  BY <1>2, ConnectInv, PluginInv, OwnerInv, ApplyInv, UnplugInv, CloseInv,
     ForeignerInv, RumbleInv DEF PadsNext
<1> QED BY <1>1, <1>2

\* Pads made and dropped side by side, over a driver whose calls fail, keep to
\* their own serials; nothing of ours is on the bus but what is plugged or
\* failed to go; as long as a pad is plugged its target shows no other pad's
\* reports and its reader passes on no other pad's rumble: for any number of
\* pads, serials and handles (ViGEmGamepad, rumble_reader).
THEOREM PadsSafety == PadsSpec => []PadsRight
<1>1. PadsInv => PadsRight
  BY DEF PadsInv, PadsRight, SerialsOwn, Seated, ReaderFaithful, Plugged
<1> QED BY <1>1, PadsInitInv, PadsNextInv, PTL DEF PadsSpec

-----------------------------------------------------------------------------
(***************************************************************************)
(* The list of the LAN.                                                    *)
(***************************************************************************)

Row == [key : Others \ Foreign, id : Ids \cup {NoId}, age : 0 .. PEER_TTL]

\* Everything under way names its sender; the table holds what was last heard.
LanTypeOK ==
    /\ id \in [Keys -> Ids \cup {NoId}]
    /\ \A b \in air : b.key \in Keys /\ b.id \in Ids \cup {NoId}
    /\ IsFiniteSet(DOMAIN heard) /\ \A n \in DOMAIN heard : heard[n] \in Row
    /\ DOMAIN peers \subseteq DOMAIN heard
    /\ \A n \in DOMAIN peers : peers[n] = heard[n]

TableBounded == Cardinality(DOMAIN peers) <= MAX_PEERS

\* What left the table, pruned or to make room, is no younger than what stayed.
OutOlder ==
    \A m \in DOMAIN heard \ DOMAIN peers, n \in DOMAIN peers :
        heard[n].age <= heard[m].age

\* The entries no older than n.
NoOlder(n) == {m \in DOMAIN heard \ {n} : heard[m].age <= heard[n].age}

\* An entry leaves when its time is over, or for MAX_PEERS younger ones.
LeftForRoom ==
    \A n \in DOMAIN heard \ DOMAIN peers :
        heard[n].age = PEER_TTL \/ Cardinality(NoOlder(n)) >= MAX_PEERS

LanInv == LanTypeOK /\ TableBounded /\ OutOlder /\ LeftForRoom

\* Nothing was heard when the device comes online.
LEMMA LanInitInv == DiscoveryInit => LanInv
<1> SUFFICES ASSUME DiscoveryInit PROVE LanInv
  OBVIOUS
<1>1. DOMAIN peers = {} /\ DOMAIN heard = {} /\ air = {} /\ id \in [Keys -> Ids \cup {NoId}]
  BY DEF DiscoveryInit
<1>2. IsFiniteSet({}) /\ Cardinality({}) = 0
  BY FS_EmptySet
<1> QED BY <1>1, <1>2, DiscoveryAssumption
        DEF LanInv, LanTypeOK, TableBounded, OutOlder, LeftForRoom

\* Steps that leave table and history alone.
LEMMA LanQuiet ==
    ASSUME LanInv, UNCHANGED <<peers, heard>>, id' \in [Keys -> Ids \cup {NoId}],
           \A b \in air' : b.key \in Keys /\ b.id \in Ids \cup {NoId}
    PROVE  LanInv'
BY DEF LanInv, LanTypeOK, TableBounded, OutOlder, LeftForRoom, NoOlder

\* MAX_PEERS entries are still as many in a larger set.
LEMMA NoOlderGrows ==
    ASSUME NEW S, NEW T, IsFiniteSet(T), S \subseteq T, Cardinality(S) >= MAX_PEERS
    PROVE  Cardinality(T) >= MAX_PEERS
<1>1. IsFiniteSet(S) /\ Cardinality(S) <= Cardinality(T)
  BY FS_Subset
<1>2. Cardinality(S) \in Nat /\ Cardinality(T) \in Nat
  BY <1>1, FS_CardinalityType
<1> QED BY <1>1, <1>2, DiscoveryAssumption

\* Going online, and off; a change of what is announced; a beacon.
LEMMA LanDeviceInv ==
    ASSUME LanInv, NEW d \in Keys,
           GoOnline(d) \/ GoOffline(d) \/ Change(d) \/ SendAnnounce(d)
    PROVE  LanInv'
<1>1. id \in [Keys -> Ids \cup {NoId}] /\ \A b \in air : b.key \in Keys /\ b.id \in Ids \cup {NoId}
  BY DEF LanInv, LanTypeOK
<1>2. CASE GoOnline(d)
  <2>1. CASE d = Me
    <3>1. DOMAIN peers' = {} /\ DOMAIN heard' = {} /\ air' = air /\ id' = id
      BY <1>2, <2>1 DEF GoOnline
    <3>2. IsFiniteSet({}) /\ Cardinality({}) = 0
      BY FS_EmptySet
    <3> QED BY <1>1, <3>1, <3>2, DiscoveryAssumption
            DEF LanInv, LanTypeOK, TableBounded, OutOlder, LeftForRoom
  <2>2. CASE d # Me
    BY <1>1, <1>2, <2>2, LanQuiet DEF GoOnline
  <2> QED BY <2>1, <2>2
<1>3. CASE GoOffline(d)
  BY <1>1, <1>3, LanQuiet DEF GoOffline
<1>4. CASE Change(d)
  BY <1>1, <1>4, LanQuiet DEF Change
<1>5. CASE SendAnnounce(d)
  BY <1>1, <1>5, LanQuiet DEF SendAnnounce
<1> QED BY <1>2, <1>3, <1>4, <1>5

\* peers() prunes only what is over.
LEMMA LookInv == ASSUME LanInv, Look PROVE LanInv'
<1> USE DiscoveryAssumption DEF LanInv
<1>1. /\ UNCHANGED <<heard, id, air>>
      /\ DOMAIN peers' = {m \in DOMAIN peers : peers[m].age < PEER_TTL}
      /\ \A n \in DOMAIN peers' : peers'[n] = peers[n]
  BY DEF Look, Listed, Retained
<1>2. \A n \in DOMAIN heard : heard[n].age \in 0 .. PEER_TTL
  BY DEF LanTypeOK, Row
<1>3. LanTypeOK'
  BY <1>1 DEF LanTypeOK
<1>4. TableBounded'
  <2>1. IsFiniteSet(DOMAIN peers)
    BY FS_Subset DEF LanTypeOK
  <2>2. IsFiniteSet(DOMAIN peers') /\ Cardinality(DOMAIN peers') <= Cardinality(DOMAIN peers)
    BY <1>1, <2>1, FS_Subset
  <2> QED BY <2>1, <2>2, FS_CardinalityType DEF TableBounded
<1>5. \A n \in DOMAIN peers \ DOMAIN peers' : heard[n].age = PEER_TTL
  BY <1>1, <1>2 DEF LanTypeOK
<1>6. OutOlder'
  BY <1>1, <1>2, <1>5 DEF OutOlder, LanTypeOK
<1>7. LeftForRoom'
  BY <1>1, <1>5 DEF LeftForRoom, NoOlder
<1> QED BY <1>3, <1>4, <1>6, <1>7

\* Time passes for all alike.
LEMMA ElapseInv == ASSUME LanInv, Elapse PROVE LanInv'
<1> USE DiscoveryAssumption DEF LanInv
<1> DEFINE Aged(a) == IF a < PEER_TTL THEN a + 1 ELSE a
<1>1. /\ DOMAIN peers' = DOMAIN peers /\ DOMAIN heard' = DOMAIN heard
      /\ UNCHANGED <<id, air>>
      /\ \A n \in DOMAIN peers : peers'[n] = [peers[n] EXCEPT !.age = Aged(@)]
      /\ \A n \in DOMAIN heard : heard'[n] = [heard[n] EXCEPT !.age = Aged(@)]
  BY DEF Elapse, Older
<1>2. ASSUME NEW n \in DOMAIN heard
      PROVE  heard'[n] \in Row /\ heard'[n].age = Aged(heard[n].age)
  <2>1. heard[n] \in Row /\ heard[n].age \in 0 .. PEER_TTL
    BY DEF LanTypeOK, Row
  <2>2. Aged(heard[n].age) \in 0 .. PEER_TTL
    BY <2>1
  <2> HIDE DEF Aged
  <2> QED BY <1>1, <2>1, <2>2 DEF Row
<1>3. \A n \in DOMAIN heard : heard[n].age \in 0 .. PEER_TTL
  BY DEF LanTypeOK, Row
<1>4. \A n \in DOMAIN peers : peers'[n] = heard'[n]
  BY <1>1 DEF LanTypeOK
<1>5. LanTypeOK'
  BY <1>1, <1>2, <1>4 DEF LanTypeOK
<1>6. TableBounded'
  BY <1>1 DEF TableBounded
<1>7. \A m, n \in DOMAIN heard : heard[n].age <= heard[m].age => heard'[n].age <= heard'[m].age
  BY <1>2, <1>3
<1>8. OutOlder'
  BY <1>1, <1>7 DEF OutOlder, LanTypeOK
<1>9. ASSUME NEW n \in DOMAIN heard \ DOMAIN peers
      PROVE  heard'[n].age = PEER_TTL \/ Cardinality(NoOlder(n)') >= MAX_PEERS
  <2>1. CASE heard[n].age = PEER_TTL
    BY <2>1, <1>2
  <2>2. CASE Cardinality(NoOlder(n)) >= MAX_PEERS
    <3>1. NoOlder(n) \subseteq NoOlder(n)' /\ NoOlder(n)' \subseteq DOMAIN heard
      BY <1>1, <1>7 DEF NoOlder
    <3>2. IsFiniteSet(NoOlder(n)')
      BY <3>1, FS_Subset DEF LanTypeOK
    <3> QED BY <2>2, <3>1, <3>2, NoOlderGrows
  <2> QED BY <2>1, <2>2 DEF LeftForRoom
<1>10. LeftForRoom'
  BY <1>1, <1>9 DEF LeftForRoom
<1> QED BY <1>5, <1>6, <1>8, <1>10

\* What is left of the table once there is room for n: rows of before, at most
\* MAX_PEERS with n; a row that went was over, or n and MAX_PEERS - 1 rows that
\* are no older stay.
LEMMA RoomMade ==
    ASSUME LanInv, NEW n, NEW table \in Room(Retained(peers), n)
    PROVE  /\ DOMAIN table \subseteq DOMAIN peers
           /\ \A m \in DOMAIN table : table[m] = peers[m]
           /\ Cardinality(DOMAIN table \cup {n}) <= MAX_PEERS
           /\ \A m \in DOMAIN peers \ DOMAIN table :
                 \/ peers[m].age = PEER_TTL
                 \/ /\ m # n /\ Cardinality(DOMAIN table \cup {n}) >= MAX_PEERS
                    /\ \A q \in DOMAIN table : peers[q].age <= peers[m].age
<1> USE DiscoveryAssumption
<1> DEFINE kept == Retained(peers)
           R == DOMAIN kept
<1>1. /\ R = {m \in DOMAIN peers : peers[m].age < PEER_TTL}
      /\ \A m \in R : kept[m] = peers[m]
  BY DEF Retained
<1>2. \A m \in DOMAIN peers : peers[m].age \in 0 .. PEER_TTL
  BY DEF LanInv, LanTypeOK, Row
<1>3. IsFiniteSet(DOMAIN peers)
  BY FS_Subset DEF LanInv, LanTypeOK
<1>4. IsFiniteSet(R) /\ Cardinality(R) <= Cardinality(DOMAIN peers)
  BY <1>1, <1>3, FS_Subset
<1>5. Cardinality(R) \in Nat /\ Cardinality(R) <= MAX_PEERS
  BY <1>3, <1>4, FS_CardinalityType DEF LanInv, TableBounded
<1>6. table \in IF n \in R \/ Cardinality(R) < MAX_PEERS THEN {kept}
                ELSE {Without(kept, m) : m \in
                        {o \in R : \A q \in R : kept[o].age >= kept[q].age}}
  BY DEF Room
<1> HIDE DEF kept, R
<1>7. CASE n \in R \/ Cardinality(R) < MAX_PEERS
  <2>1. table = kept /\ DOMAIN table = R
    BY <1>6, <1>7 DEF R
  <2>2. Cardinality(R \cup {n}) = IF n \in R THEN Cardinality(R) ELSE Cardinality(R) + 1
    BY <1>4, FS_AddElement
  <2>3. Cardinality(R \cup {n}) <= MAX_PEERS
    BY <1>5, <1>7, <2>2
  <2> QED BY <1>1, <1>2, <2>1, <2>3
<1>8. CASE ~(n \in R \/ Cardinality(R) < MAX_PEERS)
  <2>1. PICK o \in R : /\ \A q \in R : kept[o].age >= kept[q].age
                       /\ table = Without(kept, o)
    BY <1>6, <1>8
  <2>2. DOMAIN table = R \ {o} /\ \A m \in DOMAIN table : table[m] = kept[m]
    BY <2>1 DEF Without, R
  <2>3. IsFiniteSet(R \ {o}) /\ Cardinality(R \ {o}) = Cardinality(R) - 1
    BY <1>4, FS_RemoveElement
  <2>4. Cardinality((R \ {o}) \cup {n}) = Cardinality(R)
    BY <1>5, <1>8, <2>3, FS_AddElement
  <2>5. Cardinality(R) = MAX_PEERS /\ o # n
    BY <1>5, <1>8
  <2>6. \A q \in R : peers[q].age <= peers[o].age
    BY <1>1, <1>2, <2>1
  <2>7. \A m \in DOMAIN peers \ DOMAIN table : m = o \/ peers[m].age = PEER_TTL
    BY <1>1, <1>2, <2>2
  <2>8. Cardinality(DOMAIN table \cup {n}) = MAX_PEERS
    BY <2>2, <2>4, <2>5
  <2>9. DOMAIN table \subseteq R /\ R \subseteq DOMAIN peers /\ MAX_PEERS <= MAX_PEERS
    BY <1>1, <2>2
  <2>10. \A m \in DOMAIN table : table[m] = peers[m] /\ peers[m].age <= peers[o].age
    BY <1>1, <2>2, <2>6, <2>9
  <2> QED BY <2>5, <2>7, <2>8, <2>9, <2>10
<1> QED BY <1>7, <1>8

\* A beacon that is taken gets its row; nobody younger loses one.
LEMMA DatagramInv ==
    ASSUME LanInv, NEW b \in air, NEW again \in BOOLEAN, OnDatagram(b, again)
    PROVE  LanInv'
<1> USE DiscoveryAssumption DEF LanInv
<1>1. UNCHANGED id /\ id \in [Keys -> Ids \cup {NoId}] /\ b.key \in Keys /\ b.id \in Ids \cup {NoId}
      /\ \A c \in air' : c.key \in Keys /\ c.id \in Ids \cup {NoId}
  BY DEF OnDatagram, LanTypeOK
<1>2. CASE ~Taken(b)
  BY <1>1, <1>2, LanQuiet DEF OnDatagram
<1>3. CASE Taken(b)
  <2> DEFINE n == b.nonce
             row == [key |-> b.key, id |-> b.id, age |-> 0]
  <2>1. row \in Row /\ row.age = 0
    BY <1>1, <1>3 DEF Row, Taken, Keys
  <2>2. PICK table \in Room(Retained(peers), n) :
            peers' = With(table, n, row) /\ heard' = With(heard, n, row)
    BY <1>3 DEF OnDatagram
  <2> HIDE DEF n, row
  <2>3. /\ DOMAIN peers' = DOMAIN table \cup {n} /\ DOMAIN heard' = DOMAIN heard \cup {n}
        /\ peers'[n] = row /\ heard'[n] = row
        /\ \A m \in DOMAIN table : m # n => peers'[m] = table[m]
        /\ \A m \in DOMAIN heard : m # n => heard'[m] = heard[m]
    BY <2>2 DEF With
  <2>4. /\ DOMAIN table \subseteq DOMAIN peers
        /\ \A m \in DOMAIN table : table[m] = peers[m]
        /\ Cardinality(DOMAIN table \cup {n}) <= MAX_PEERS
        /\ \A m \in DOMAIN peers \ DOMAIN table :
              \/ peers[m].age = PEER_TTL
              \/ /\ m # n /\ Cardinality(DOMAIN table \cup {n}) >= MAX_PEERS
                 /\ \A q \in DOMAIN table : peers[q].age <= peers[m].age
    BY <2>2, RoomMade
  <2>5. IsFiniteSet(DOMAIN heard')
    BY <2>3, FS_AddElement DEF LanTypeOK
  <2>6. LanTypeOK'
    BY <1>1, <2>1, <2>3, <2>4, <2>5 DEF LanTypeOK
  <2>7. TableBounded'
    BY <2>3, <2>4 DEF TableBounded
  <2>8. \A m \in DOMAIN heard : heard[m].age \in 0 .. PEER_TTL
    BY DEF LanTypeOK, Row
  <2>9. ASSUME NEW m \in DOMAIN heard' \ DOMAIN peers', NEW q \in DOMAIN peers'
        PROVE  heard'[q].age <= heard'[m].age
    <3>1. m # n /\ m \in DOMAIN heard /\ heard'[m] = heard[m]
      BY <2>3
    <3>2. CASE q = n
      BY <3>1, <3>2, <2>1, <2>3, <2>8
    <3>3. CASE q # n
      <4>1. q \in DOMAIN table /\ heard'[q] = heard[q] /\ q \in DOMAIN peers /\ peers[q] = heard[q] /\ q \in DOMAIN heard
        BY <3>3, <2>3, <2>4 DEF LanTypeOK
      <4>2. CASE m \in DOMAIN peers
        BY <4>1, <4>2, <3>1, <2>3, <2>4, <2>8 DEF LanTypeOK
      <4>3. CASE m \notin DOMAIN peers
        BY <4>1, <4>3, <3>1 DEF OutOlder
      <4> QED BY <4>2, <4>3
    <3> QED BY <3>2, <3>3
  <2>10. OutOlder'
    BY <2>9 DEF OutOlder
  <2>11. ASSUME NEW m \in DOMAIN heard' \ DOMAIN peers'
         PROVE  heard'[m].age = PEER_TTL \/ Cardinality(NoOlder(m)') >= MAX_PEERS
    <3>1. m # n /\ m \in DOMAIN heard /\ heard'[m] = heard[m]
      BY <2>3
    <3>2. NoOlder(m)' \subseteq DOMAIN heard'
      BY DEF NoOlder
    <3>3. IsFiniteSet(NoOlder(m)')
      BY <2>5, <3>2, FS_Subset
    <3>4. CASE m \notin DOMAIN peers
      <4>1. NoOlder(m) \subseteq NoOlder(m)'
        BY <2>1, <2>3, <2>8, <3>1 DEF NoOlder
      <4> QED BY <3>1, <3>3, <3>4, <4>1, NoOlderGrows DEF LeftForRoom
    <3>5. CASE m \in DOMAIN peers
      <4>1. m \notin DOMAIN table /\ peers[m] = heard[m]
        BY <2>3, <3>5 DEF LanTypeOK
      <4>2. ASSUME \A q \in DOMAIN table : peers[q].age <= peers[m].age
            PROVE  DOMAIN table \cup {n} \subseteq NoOlder(m)'
        <5>1. n \in NoOlder(m)'
          BY <2>1, <2>3, <2>8, <3>1 DEF NoOlder
        <5>2. ASSUME NEW q \in DOMAIN table, q # n PROVE q \in NoOlder(m)'
          BY <2>3, <2>4, <3>1, <4>1, <4>2, <5>2 DEF NoOlder, LanTypeOK
        <5> QED BY <5>1, <5>2
      <4> QED BY <2>4, <3>1, <3>3, <3>5, <4>1, <4>2, NoOlderGrows
    <3> QED BY <3>4, <3>5
  <2>12. LeftForRoom'
    BY <2>11 DEF LeftForRoom
  <2> QED BY <2>6, <2>7, <2>10, <2>12
<1> QED BY <1>2, <1>3

\* Every step of the devices, of the network and of time keeps the invariant.
LEMMA LanNextInv == LanInv /\ [DiscoveryNext]_dvars => LanInv'
<1> SUFFICES ASSUME LanInv, [DiscoveryNext]_dvars PROVE LanInv'
  OBVIOUS
<1>1. id \in [Keys -> Ids \cup {NoId}] /\ \A b \in air : b.key \in Keys /\ b.id \in Ids \cup {NoId}
  BY DEF LanInv, LanTypeOK
<1>2. CASE UNCHANGED dvars
  BY <1>1, <1>2, LanQuiet DEF dvars
<1>3. ASSUME NEW b \in air, Lose(b) PROVE LanInv'
  BY <1>1, <1>3, LanQuiet DEF Lose
<1>4. CASE DiscoveryNext
  BY <1>3, <1>4, LanDeviceInv, DatagramInv, LookInv, ElapseInv DEF DiscoveryNext
<1> QED BY <1>2, <1>4

\* The invariant holds throughout.
LEMMA LanInvariant == DiscoverySpec => []LanInv
BY LanInitInv, LanNextInv, PTL DEF DiscoverySpec

\* What peers() answers is what was heard: the last beacon of its nonce, fresh,
\* of the newest nonce of its device, never our own, and within MAX_PEERS: for
\* any devices, capacity and TTL (on_datagram, peers).
THEOREM PeersSafety == DiscoverySpec => []PeersRight
<1>1. LanInv => PeersRight
  <2> SUFFICES ASSUME LanInv PROVE PeersRight
    OBVIOUS
  <2> USE DiscoveryAssumption DEF LanInv
  <2> DEFINE table == Listed(peers)
  <2>1. /\ DOMAIN table = {m \in DOMAIN peers : peers[m].age < PEER_TTL}
        /\ \A n \in DOMAIN table : table[n] = peers[n] /\ table[n] = heard[n] /\ n \in DOMAIN heard
    BY DEF Listed, Retained, LanTypeOK
  <2>2. \A n \in DOMAIN heard : heard[n].age \in 0 .. PEER_TTL /\ heard[n].key \in Others \ Foreign
    BY DEF LanTypeOK, Row
  <2> HIDE DEF table
  <2>3. ASSUME NEW n \in Rows(table), NEW m \in DOMAIN heard, heard[m].key = table[n].key
        PROVE  table[n].age <= heard[m].age
    <3>1. n \in DOMAIN table
      BY DEF Rows
    <3>2. CASE m \in DOMAIN table
      BY <3>1, <3>2, <2>1, <2>3 DEF Rows
    <3>3. CASE m \in DOMAIN peers \ DOMAIN table
      BY <3>1, <3>3, <2>1, <2>2 DEF LanTypeOK
    <3>4. CASE m \notin DOMAIN peers
      BY <3>1, <3>4, <2>1 DEF OutOlder
    <3> QED BY <3>2, <3>3, <3>4
  <2>4. ASSUME NEW n \in Rows(table)
        PROVE  /\ table[n].key \notin Foreign \cup {Me} /\ table[n].age < PEER_TTL
               /\ n \in DOMAIN heard /\ heard[n] = table[n]
    BY <2>1, <2>2 DEF Rows
  <2> QED BY <2>3, <2>4 DEF PeersRight, TableBounded, table
<1> QED BY <1>1, LanInvariant, PTL

\* A device heard within PEER_TTL is listed unless MAX_PEERS other nonces were
\* heard since: a restart or a refresh takes nobody else's place.
THEOREM LivePeersSafety == DiscoverySpec => []LivePeersKept
<1>1. LanInv => LivePeersKept
  <2> SUFFICES ASSUME LanInv, NEW n \in DOMAIN heard, heard[n].age < PEER_TTL,
                      Cardinality(NoOlder(n)) < MAX_PEERS
               PROVE  n \in DOMAIN Listed(peers)
    BY DEF LivePeersKept, NoOlder
  <2>1. NoOlder(n) \subseteq DOMAIN heard /\ IsFiniteSet(DOMAIN heard)
    BY DEF NoOlder, LanInv, LanTypeOK
  <2>2. Cardinality(NoOlder(n)) \in Nat
    BY <2>1, FS_Subset, FS_CardinalityType
  <2>3. heard[n].age \in 0 .. PEER_TTL
    BY DEF LanInv, LanTypeOK, Row
  <2>4. n \in DOMAIN peers
    BY <2>2, <2>3, DiscoveryAssumption DEF LanInv, LeftForRoom
  <2> QED BY <2>4 DEF Listed, Retained, LanInv, LanTypeOK
<1> QED BY <1>1, LanInvariant, PTL

-----------------------------------------------------------------------------
(***************************************************************************)
(* The host's audio.                                                       *)
(***************************************************************************)

AudioTypeOK ==
    /\ os \in Systems /\ default \in [Roles -> Devices] /\ fmt \in [Devices -> Formats]
    /\ pc \in {"idle", "consume", "unload", "save", "mark", "load", "switch",
               "live", "putback", "unmark", "restore", "unmute", "unmuting"}
    /\ goal \in {"none", "start", "arm", "drop"}
    /\ saved \in Devices \cup {NoDev, Empty}
    /\ marker \in Devices \cup {NoDev, Empty}
    /\ pc = "unload" => goal # "none"
    /\ pc = "putback" => goal = "drop"
    /\ pc \in {"mark", "load", "switch", "live"} => saved \in Devices \cup {NoDev}
    /\ pc \in {"restore", "putback"} => saved \in Devices

Redirected == \E r \in Roles : default[r] = Virtual
Backed == os = "linux" \/ marker \in Real

\* Where the guard's thread is when the host is redirected, and who keeps the
\* original meanwhile: the thread, the marker, or on Linux the sink's unload.
Sound ==
    /\ muted => mmark \/ pc = "unmuting"
    /\ ~up => pc = "idle"
    /\ marker # Virtual /\ saved # Virtual
    /\ Redirected => pc \in {"idle", "unload", "consume", "restore", "live", "putback"}
    /\ pc = "idle" /\ up => ~Redirected /\ marker = NoDev
    /\ pc = "idle" /\ ~up /\ Redirected => Backed
    /\ pc = "unload" => os = "linux" /\ (goal = "arm" => marker = NoDev)
    /\ pc = "consume" => goal \in {"start", "arm"} /\ (Redirected => marker \in Real)
    /\ pc \in {"restore", "save", "mark", "unmute", "unmuting"} => marker = NoDev
    /\ pc \in {"mark", "switch", "live"} => os = "linux" \/ saved \in Real
    /\ pc = "load" => os = "linux"
    /\ pc \in {"switch", "live", "putback"} => Backed

AudioInv == AudioTypeOK /\ (excused \/ Sound)

\* Setting the default leaves a device for every role; if no role failed, that one.
LEMMA DefaultSet ==
    ASSUME default \in [Roles -> Devices], NEW d \in Devices, NEW failing, set_default(d, failing)
    PROVE  /\ default' \in [Roles -> Devices]
           /\ failing = {} => \A r \in Roles : default'[r] = d
           /\ failing = Roles => \A r \in Roles : default'[r] = default[r]
BY DEF set_default

\* Every device, marker and place of the guard's thread keeps its type.
LEMMA AudioTypes ==
    ASSUME AudioTypeOK, [AudioNext]_avars PROVE AudioTypeOK'
<1> USE HostAudioAssumption DEF AudioTypeOK, osvars
<1>1. ASSUME NEW d \in Real, Repick(d) PROVE AudioTypeOK'
  BY <1>1 DEF Repick, Devices
<1>2. ASSUME NEW d \in Devices, NEW f \in Formats, SetFormat(d, f) PROVE AudioTypeOK'
  BY <1>2 DEF SetFormat
<1>3. CASE Arm
  BY <1>3 DEF Arm
<1>4. ASSUME NEW refuses \in BOOLEAN, Unload(refuses) PROVE AudioTypeOK'
  <2>1. default' \in [Roles -> Devices]
    BY <1>4 DEF Unload, Devices
  <2>2. pc' \in {"consume", "save", "unmark"} /\ UNCHANGED <<os, fmt, goal, saved, marker>>
    BY <1>4 DEF Unload, Go
  <2> QED BY <2>1, <2>2
<1>5. ASSUME NEW refuses \in BOOLEAN, Mark(refuses) PROVE AudioTypeOK'
  BY <1>5 DEF Mark, Go
<1>6. ASSUME NEW refuses \in BOOLEAN, Load(refuses) PROVE AudioTypeOK'
  BY <1>6 DEF Load, Go
<1>7. ASSUME NEW refuses \in BOOLEAN, ConsumeMute \/ Unmute(refuses) PROVE AudioTypeOK'
  BY <1>7 DEF ConsumeMute, Unmute, Go
<1>8. CASE Consume
  BY <1>8 DEF Consume, Go, Recovered, Devices
<1>9. ASSUME NEW failing, Restore(failing) PROVE AudioTypeOK'
  <2>1. default' \in [Roles -> Devices]
    BY <1>9, DefaultSet DEF Restore
  <2> QED BY <1>9, <2>1 DEF Restore, Go, Recovered
<1>10. ASSUME NEW failing, Switch(failing) PROVE AudioTypeOK'
  <2>1. default' \in [Roles -> Devices]
    BY <1>10, DefaultSet DEF Switch, Devices
  <2> QED BY <1>10, <2>1 DEF Switch
<1>11. ASSUME NEW failing, PutBack(failing) PROVE AudioTypeOK'
  <2>1. default' \in [Roles -> Devices]
    BY <1>11, DefaultSet DEF PutBack
  <2> QED BY <1>11, <2>1 DEF PutBack, Go
<1>12. ASSUME NEW failing, Reassert(failing) PROVE AudioTypeOK'
  <2>1. default' \in [Roles -> Devices]
    BY <1>12, DefaultSet DEF Reassert, Devices
  <2> QED BY <1>12, <2>1 DEF Reassert, capframe
<1>13. ASSUME NEW outcome, Save(outcome) PROVE AudioTypeOK'
  BY <1>13 DEF Save, Go
<1>14. CASE Drop
  BY <1>14 DEF Drop
<1>15. CASE Unmark \/ Crash \/ Launch
  BY <1>15 DEF Unmark, Crash, Launch
<1>16. ASSUME NEW on, MuteHost(on) PROVE AudioTypeOK'
  BY <1>16 DEF MuteHost
<1>17. ASSUME UNCHANGED <<capframe, default>> PROVE AudioTypeOK'
  BY <1>17 DEF capframe
<1>18. ASSUME NEW mode, NEW tracking, NEW ok, NEW outcome,
              \/ StartCapture(mode, tracking) \/ StartProcess \/ ProcessOpens \/ ProcessEnds
              \/ Open(ok) \/ CaptureEnds(ok) \/ Start(outcome)
       PROVE  AudioTypeOK'
  <2>1. UNCHANGED <<capframe, default>>
    BY <1>18 DEF StartCapture, StartProcess, ProcessOpens, ProcessEnds, Open, CaptureEnds, Start
  <2> QED BY <1>17, <2>1
<1>19. CASE UNCHANGED avars
  BY <1>19 DEF avars
<1> QED BY <1>1, <1>2, <1>3, <1>4, <1>5, <1>6, <1>7, <1>8, <1>9, <1>10, <1>11, <1>12, <1>13,
           <1>14, <1>15, <1>16, <1>18, <1>19, Zenon DEF AudioNext

\* A step that excuses nothing keeps the original with somebody.
LEMMA SoundKept ==
    ASSUME AudioTypeOK, ~excused => Sound, [AudioNext]_avars, ~excused' PROVE Sound'
<1> USE HostAudioAssumption DEF Sound, Redirected, Backed, osvars, mutevars
<1>0. default \in [Roles -> Devices]
  BY DEF AudioTypeOK
<1>1. ASSUME NEW d \in Real, Repick(d) PROVE Sound'
  <2>1. ~excused /\ UNCHANGED <<os, marker, up, pc, goal, saved, muted, mmark>>
        /\ \A r \in Roles : default'[r] # Virtual
    BY <1>1 DEF Repick
  <2> QED BY <2>1
<1>2. ASSUME UNCHANGED <<os, default, marker, up, pc, goal, saved, muted, mmark, excused>>
      PROVE  Sound'
  BY <1>2
<1>3. CASE Arm
  <2>1. ~excused /\ UNCHANGED <<os, default, marker, up, saved, muted, mmark>> /\ goal' = "arm"
        /\ up /\ pc = "idle" /\ pc' \in {"consume", "unload", "save"}
        /\ (pc' = "unload" => os = "linux")
    BY <1>3 DEF Arm, AudioTypeOK
  <2> QED BY <2>1
<1>4. ASSUME NEW refuses \in BOOLEAN, Unload(refuses) PROVE Sound'
  <2>1. /\ ~excused /\ UNCHANGED <<os, marker, up, goal, saved, muted, mmark>>
        /\ \A r \in Roles : default'[r] # Virtual
    BY <1>0, <1>4 DEF Unload, Go
  <2>2. /\ pc = "unload" /\ pc' \in {"consume", "save", "unmark"}
        /\ pc' = "consume" => goal = "start"
        /\ pc' = "save" => goal = "arm"
    BY <1>4 DEF Unload, Go, AudioTypeOK
  <2> QED BY <2>1, <2>2
<1>5. ASSUME NEW refuses \in BOOLEAN, Mark(refuses) PROVE Sound'
  <2>1. /\ ~excused /\ UNCHANGED <<os, default, up, goal, saved, muted, mmark>> /\ pc = "mark"
        /\ marker' = IF saved = NoDev THEN Empty ELSE saved
        /\ pc' = IF os = "linux" THEN "load" ELSE "switch"
    BY <1>5 DEF Mark, Go
  <2> QED BY <2>1 DEF Devices
<1>6. ASSUME NEW refuses \in BOOLEAN, Load(refuses) PROVE Sound'
  BY <1>6 DEF Load, Go
<1>7. ASSUME NEW refuses \in BOOLEAN, Unmute(refuses) PROVE Sound'
  <2>1. /\ ~excused /\ ~refuses /\ UNCHANGED <<os, default, marker, up, saved>>
        /\ pc = "unmuting" /\ pc' = "idle"
    BY <1>7 DEF Unmute
  <2>2. ~muted'
    BY <1>7, <2>1 DEF Unmute
  <2> QED BY <2>1, <2>2 DEF Devices
<1>8. CASE Consume
  <2>1. /\ ~excused /\ UNCHANGED <<os, default, up, goal, muted, mmark>> /\ pc = "consume"
        /\ marker' = NoDev /\ saved' = marker /\ NoDev \notin Devices
        /\ pc' = IF marker \in Real \/ (marker = Virtual /\ os # "macos") THEN "restore" ELSE Recovered
    BY <1>8 DEF Consume, Go
  <2>2. Recovered \in {"unmute", "save"} /\ NoDev # Virtual
    BY DEF Recovered, Devices
  <2> QED BY <2>1, <2>2
<1>9. ASSUME NEW failing, Restore(failing) PROVE Sound'
  <2>1. ~excused /\ failing = {} /\ pc = "restore" /\ set_default(saved, failing) /\ saved \in Devices
    BY <1>9 DEF Restore, AudioTypeOK
  <2>2. \A r \in Roles : default'[r] = saved
    BY <1>0, <2>1, DefaultSet
  <2>3. UNCHANGED <<os, marker, up, goal, saved, muted, mmark>> /\ pc' \in {"unmute", "save"}
    BY <1>9 DEF Restore, Go, Recovered
  <2> QED BY <2>1, <2>2, <2>3
<1>10. ASSUME NEW failing, Switch(failing) PROVE Sound'
  <2>1. ~excused /\ pc = "switch" /\ UNCHANGED <<os, marker, up, saved, muted, mmark>>
    BY <1>10 DEF Switch
  <2>2. CASE failing # Roles
    <3>1. pc' = "live"
      BY <1>10, <2>2 DEF Switch
    <3> QED BY <2>1, <3>1
  <2>3. CASE failing = Roles
    <3>1. goal' = "drop" /\ pc' = IF os = "linux" THEN "unload" ELSE "unmark"
      BY <1>10, <2>3 DEF Switch
    <3>2. \A r \in Roles : default'[r] = default[r]
      BY <1>10, <2>3 DEF Switch, set_default
    <3> QED BY <2>1, <3>1, <3>2
  <2> QED BY <2>2, <2>3
<1>11. ASSUME NEW failing, PutBack(failing) PROVE Sound'
  <2>1. /\ ~excused /\ pc = "putback" /\ UNCHANGED <<os, marker, up, goal, saved, muted, mmark>>
        /\ failing = {} \/ os = "linux"
        /\ set_default(saved, failing) /\ saved \in Devices /\ goal = "drop"
        /\ pc' = IF os = "linux" THEN "unload" ELSE "unmark"
    BY <1>11 DEF PutBack, Go, AudioTypeOK
  <2>2. failing = {} => \A r \in Roles : default'[r] = saved
    BY <1>0, <2>1, DefaultSet
  <2> QED BY <2>1, <2>2
<1>12. ASSUME NEW failing, Reassert(failing) PROVE Sound'
  <2>1. ~excused /\ UNCHANGED <<os, marker, up, pc, goal, saved, muted, mmark>>
        /\ (UNCHANGED default \/ pc = "live")
    BY <1>12 DEF Reassert, capframe
  <2> QED BY <2>1
<1>13. ASSUME NEW outcome, Save(outcome) PROVE Sound'
  <2>0. pc = "save" /\ UNCHANGED <<os, default, marker, up, goal, muted, mmark>>
    BY <1>13 DEF Save, Go
  <2>1. ~excused
    <3>1. UNCHANGED excused \/ excused' = (excused \/ os # "linux")
      BY <1>13, Zenon DEF Save
    <3> QED BY <3>1
  <2>2. default[Console] \in Real
    BY <1>0, <2>0, <2>1 DEF Devices
  <2>3. \/ pc' = "mark" /\ saved' \in Real
        \/ pc' = "mark" /\ saved' = NoDev /\ os = "linux"
        \/ pc' = "idle" /\ saved' = NoDev
    BY <1>13, <2>2 DEF Save, Go
  <2> QED BY <2>0, <2>1, <2>3 DEF Devices
<1>14. CASE Drop
  <2>1. /\ ~excused /\ pc = "live" /\ UNCHANGED <<os, default, marker, up, saved, muted, mmark>>
        /\ goal' = "drop" /\ NoDev \notin Real
        /\ pc' = IF saved # NoDev THEN "putback" ELSE IF os = "linux" THEN "unload" ELSE "unmark"
    BY <1>14 DEF Drop, Devices
  <2> QED BY <2>1
<1>15. CASE Unmark
  <2>1. /\ ~excused /\ pc = "unmark" /\ UNCHANGED <<os, default, up, muted, mmark>>
        /\ marker' = NoDev /\ saved' = NoDev /\ pc' = "idle" /\ NoDev # Virtual
    BY <1>15 DEF Unmark, Devices
  <2> QED BY <2>1
<1>16. CASE Crash
  <2>1. /\ ~excused /\ pc \notin {"restore", "unmuting"} /\ UNCHANGED <<os, default, marker, muted, mmark>>
        /\ ~up' /\ pc' = "idle" /\ saved' = NoDev /\ NoDev # Virtual
    BY <1>16 DEF Crash, Devices
  <2> QED BY <2>1 DEF AudioTypeOK
<1>17. CASE Launch
  <2>1. /\ ~excused /\ ~up /\ up' /\ UNCHANGED <<os, default, marker, saved, muted, mmark>>
        /\ goal' = "start" /\ pc' = IF os = "linux" THEN "unload" ELSE "consume"
    BY <1>17 DEF Launch
  <2> QED BY <2>1
<1>18. ASSUME NEW on \in BOOLEAN, MuteHost(on) PROVE Sound'
  BY <1>18 DEF MuteHost
<1>19. ASSUME NEW mode, NEW tracking, NEW ok, NEW outcome, NEW d, NEW f,
              \/ StartCapture(mode, tracking) \/ StartProcess \/ ProcessOpens \/ ProcessEnds
              \/ Open(ok) \/ CaptureEnds(ok) \/ Start(outcome) \/ SetFormat(d, f)
       PROVE  Sound'
  <2>1. UNCHANGED <<os, default, marker, up, pc, goal, saved, muted, mmark, excused>>
    BY <1>19 DEF StartCapture, StartProcess, ProcessOpens, ProcessEnds, Open, CaptureEnds, Start,
                 SetFormat, capframe
  <2> QED BY <1>2, <2>1
<1>20. CASE ConsumeMute
  <2>1. /\ ~excused /\ pc = "unmute" /\ UNCHANGED <<os, default, marker, up, muted>>
        /\ saved' = NoDev /\ pc' = (IF mmark THEN "unmuting" ELSE "idle")
    BY <1>20 DEF ConsumeMute, Go
  <2> QED BY <2>1 DEF Devices
<1>21. CASE UNCHANGED avars
  BY <1>2, <1>21 DEF avars
<1> QED BY <1>1, <1>3, <1>4, <1>5, <1>6, <1>7, <1>8, <1>9, <1>10, <1>11, <1>12, <1>13,
           <1>14, <1>15, <1>16, <1>17, <1>18, <1>19, <1>20, <1>21, Zenon DEF AudioNext

\* The guard is at rest and the default is real at first.
LEMMA AudioInitInv == AudioInit => AudioInv
<1> SUFFICES ASSUME AudioInit PROVE AudioInv
  OBVIOUS
<1> USE HostAudioAssumption DEF AudioInit
<1>1. AudioTypeOK
  BY DEF AudioTypeOK, Devices
<1>2. Sound
  BY DEF Sound, Redirected, Backed, Devices
<1> QED BY <1>1, <1>2 DEF AudioInv

\* Every step of the guard, the capture, the user and the OS keeps both parts.
LEMMA AudioNextInv == AudioInv /\ [AudioNext]_avars => AudioInv'
BY AudioTypes, SoundKept DEF AudioInv

\* The host is never left on the sinkless device or muted with nobody to undo
\* it, but for the excuses NeverStranded names: for any devices, roles, crashes,
\* refusals and moves of the user (sink.rs, sink_unix.rs, mute.rs).
THEOREM AudioSafety == AudioSpec => []NeverStranded
<1>1. AudioInv => NeverStranded
  BY DEF AudioInv, NeverStranded, Stranded, Sound, Redirected, Backed
<1> QED BY <1>1, AudioInitInv, AudioNextInv, PTL DEF AudioSpec

-----------------------------------------------------------------------------
(***************************************************************************)
(* Injected input.                                                         *)
(***************************************************************************)

\* The parts of NoneStuck: what is down is known or went astray; nothing but
\* strays is down without control or session; the injector's Shift is the OS's.
ButtonsKnown ==
    \A b \in os_buttons : Btn(b) \in astray \/ \E s \in held_buttons : Button(s) = b
KeysKnown == \A k \in os_keys : Key(k) \in astray \/ k \in held_keys
OnlyStrays ==
    /\ \A b \in os_buttons : Btn(b) \in astray
    /\ \A k \in os_keys : Key(k) \in astray
ShiftsTrue ==
    Reaches /\ session =>
        \A k \in Shifts : Key(k) \in astray \/ (k \in held_keys <=> k \in os_keys)
OsInv ==
    /\ ButtonsKnown /\ KeysKnown /\ ShiftsTrue
    /\ ~control \/ ~session => OnlyStrays
    /\ ~Reaches => os_buttons = {} /\ os_keys = {}

\* The modifiers' mask is kept on macOS only.
FlagsInv ==
    /\ caps_lock \in BOOLEAN
    /\ "caps" \in flags <=> caps_lock
    /\ "shift" \in flags => backend = "macos" /\ held_keys \cap Shifts # {}

ReaderType ==
    [pc : {"fetch", "events", "exited"}, active : BOOLEAN, was_active : BOOLEAN,
     held_left : BOOLEAN, prev : {"none", "live", "gated"},
     finger_down : BOOLEAN, pressed : BOOLEAN, sent : BOOLEAN, jumped : BOOLEAN]

\* Within a batch the gate is the one of its start; a click that was sent is
\* held, and a seed taken while the gate was shut belongs to this stretch.
ReaderInv ==
    /\ reader \in ReaderType
    /\ reader.pc = "events" => reader.active = reader.was_active
    /\ reader.pc # "exited" /\ reader.prev = "gated" => ~reader.was_active
    /\ reader.pc # "exited" /\ reader.sent => reader.held_left
    /\ ~session => reader.pc = "exited"

InputInv == backend \in Backends /\ gate \in BOOLEAN /\ OsInv /\ FlagsInv /\ ReaderInv /\ PadGated

\* Inputs are told apart, and a slot stands for its button.
LEMMA InputNames ==
    /\ \A a, b : Btn(a) = Btn(b) => a = b
    /\ \A a, b : Key(a) = Key(b) => a = b
    /\ \A a, b : Btn(a) # Key(b)
    /\ \A b : Button(Slot(b)) = Button(b) /\ Button(Button(b)) = Button(b)
BY DEF Btn, Key, Slot, Button

\* The rows of the tables that matter: on macOS only the two Shifts' codes give
\* a Shift, and none of the keys that are typed with is one.
LEMMA ShiftKeys ==
    /\ backend = "macos" =>
          /\ KeyOf(42) = {56} /\ KeyOf(54) = {60} /\ Shifts = {56, 60}
          /\ \A code : KeyOf(code) \cap Shifts # {} => code \in {42, 54}
    /\ backend = "uinput" => Shifts = {42, 54}
    /\ us_char_to_key["a"].key = 30 /\ us_char_to_key["A"].key = 30
    /\ DOMAIN us_char_to_key = {"a", "A"}
<1>1. DOMAIN vk_macos = {28, 30, 42, 54, 58, 96}
      /\ vk_macos[28] = 36 /\ vk_macos[30] = 0 /\ vk_macos[42] = 56 /\ vk_macos[54] = 60
      /\ vk_macos[58] = 57 /\ vk_macos[96] = 76
  BY DEF vk_macos
<1>2. backend = "macos" => \A code : KeyOf(code) = IF code \in DOMAIN vk_macos THEN {vk_macos[code]} ELSE {}
  BY DEF KeyOf
<1>3. ASSUME backend = "macos" PROVE KeyOf(42) = {56} /\ KeyOf(54) = {60} /\ Shifts = {56, 60}
  BY <1>1, <1>2, <1>3 DEF Shifts
<1>4. ASSUME backend = "macos", NEW code, KeyOf(code) \cap Shifts # {} PROVE code \in {42, 54}
  BY <1>1, <1>2, <1>3, <1>4
<1>5. backend = "uinput" => Shifts = {42, 54}
  BY DEF Shifts, KeyOf
<1>6. us_char_to_key["a"].key = 30 /\ us_char_to_key["A"].key = 30 /\ DOMAIN us_char_to_key = {"a", "A"}
  BY DEF us_char_to_key
<1> QED BY <1>3, <1>4, <1>5, <1>6

\* What is astray after a call's events.
LEMMA Strayed ==
    ASSUME NEW buttons, NEW keys, NEW lost,
           astray' = (astray \ ({Btn(b) : b \in buttons} \cup {Key(k) : k \in keys})) \cup lost
    PROVE  /\ \A b : Btn(b) \in astray' <=> Btn(b) \in lost \/ (Btn(b) \in astray /\ b \notin buttons)
           /\ \A k : Key(k) \in astray' <=> Key(k) \in lost \/ (Key(k) \in astray /\ k \notin keys)
BY InputNames

\* One button's event.
LEMMA ButtonInv ==
    ASSUME OsInv, control, session, NEW b, NEW down \in BOOLEAN, NEW lost, button(b, down, lost),
           UNCHANGED <<backend, control, session, window_alive>>
    PROVE  OsInv'
<1> USE DEF OsInv
<1>1. /\ held_buttons' = Put(held_buttons, {Slot(b)}, down) /\ UNCHANGED held_keys
      /\ Post({Button(b)}, {}, down, lost) /\ (Reaches' <=> Reaches) /\ Shifts' = Shifts
  BY DEF button, Reaches, Shifts, KeyOf
<1>2. /\ \A c : c \in os_buttons' <=>
            IF Reaches /\ c = Button(b) /\ Btn(c) \notin lost THEN down ELSE c \in os_buttons
      /\ os_keys' = os_keys
      /\ \A c : Btn(c) \in astray' <=> Btn(c) \in lost \/ (Btn(c) \in astray /\ c # Button(b))
      /\ \A k : Key(k) \in astray => Key(k) \in astray'
  <2>1. /\ os_buttons' = IF Reaches THEN Put(os_buttons, {c \in {Button(b)} : Btn(c) \notin lost}, down)
                         ELSE os_buttons
        /\ os_keys' = IF Reaches THEN Put(os_keys, {k \in {} : Key(k) \notin lost}, down) ELSE os_keys
        /\ astray' = (astray \ ({Btn(c) : c \in {Button(b)}} \cup {Key(k) : k \in {}})) \cup lost
    BY <1>1 DEF Post
  <2>2. \A c : c \in os_buttons' <=>
            IF Reaches /\ c = Button(b) /\ Btn(c) \notin lost THEN down ELSE c \in os_buttons
    BY <2>1 DEF Put
  <2>3. os_keys' = os_keys
    BY <2>1 DEF Put
  <2>4. /\ \A c : Btn(c) \in astray' <=> Btn(c) \in lost \/ (Btn(c) \in astray /\ c # Button(b))
        /\ \A k : Key(k) \in astray => Key(k) \in astray'
    BY <2>1, InputNames
  <2> QED BY <2>2, <2>3, <2>4
<1>3. ButtonsKnown'
  <2> SUFFICES ASSUME NEW c \in os_buttons', Btn(c) \notin astray'
               PROVE  \E s \in held_buttons' : Button(s) = c
    BY DEF ButtonsKnown
  <2>1. CASE c = Button(b)
    <3>1. down
      BY <1>2, <2>1
    <3>2. Slot(b) \in held_buttons' /\ Button(Slot(b)) = c
      BY <1>1, <2>1, <3>1, InputNames DEF Put
    <3> QED BY <3>2
  <2>2. CASE c # Button(b)
    <3>1. PICK s \in held_buttons : Button(s) = c
      BY <1>2, <2>2 DEF ButtonsKnown
    <3>2. s \in held_buttons'
      BY <1>1, <2>2, <3>1, InputNames DEF Put
    <3> QED BY <3>1, <3>2
  <2> QED BY <2>1, <2>2
<1>4. KeysKnown' /\ ShiftsTrue'
  BY <1>1, <1>2 DEF KeysKnown, ShiftsTrue
<1>5. ~Reaches' => os_buttons' = {} /\ os_keys' = {}
  BY <1>1, <1>2
<1> QED BY <1>3, <1>4, <1>5

\* One key's event.
LEMMA KeyInv ==
    ASSUME OsInv, control, session, NEW code, NEW down \in BOOLEAN, NEW lost, key(code, down, lost),
           UNCHANGED <<backend, control, session, window_alive>>
    PROVE  OsInv'
<1> USE DEF OsInv
<1> DEFINE K == KeyOf(code)
<1>1. /\ held_keys' = Put(held_keys, K, down) /\ UNCHANGED held_buttons
      /\ Post({}, K, down, lost) /\ (Reaches' <=> Reaches) /\ Shifts' = Shifts
  BY DEF key, Reaches, Shifts, KeyOf
<1> HIDE DEF K
<1>2. /\ \A k : k \in os_keys' <=>
            IF Reaches /\ k \in K /\ Key(k) \notin lost THEN down ELSE k \in os_keys
      /\ \A k : Key(k) \in astray' <=> Key(k) \in lost \/ (Key(k) \in astray /\ k \notin K)
      /\ \A c : Btn(c) \in astray => Btn(c) \in astray'
      /\ os_buttons' = os_buttons
  <2>1. /\ os_buttons' = IF Reaches THEN Put(os_buttons, {c \in {} : Btn(c) \notin lost}, down)
                         ELSE os_buttons
        /\ os_keys' = IF Reaches THEN Put(os_keys, {k \in K : Key(k) \notin lost}, down) ELSE os_keys
        /\ astray' = (astray \ ({Btn(c) : c \in {}} \cup {Key(k) : k \in K})) \cup lost
    BY <1>1 DEF Post
  <2>2. \A k : k \in os_keys' <=>
            IF Reaches /\ k \in K /\ Key(k) \notin lost THEN down ELSE k \in os_keys
    BY <2>1 DEF Put
  <2>3. os_buttons' = os_buttons
    BY <2>1 DEF Put
  <2>4. /\ \A k : Key(k) \in astray' <=> Key(k) \in lost \/ (Key(k) \in astray /\ k \notin K)
        /\ \A c : Btn(c) \in astray => Btn(c) \in astray'
    BY <2>1, InputNames
  <2> QED BY <2>2, <2>3, <2>4
<1>4. \A k : k \in held_keys' <=> IF k \in K THEN down ELSE k \in held_keys
  BY <1>1 DEF Put
<1>5. ButtonsKnown'
  BY <1>1, <1>2 DEF ButtonsKnown
<1>6. ~Reaches' => os_buttons' = {} /\ os_keys' = {}
  BY <1>1, <1>2
<1>7. KeysKnown'
  BY <1>1, <1>2, <1>4 DEF KeysKnown
<1>8. ShiftsTrue'
  BY <1>1, <1>2, <1>4 DEF ShiftsTrue
<1> QED BY <1>5, <1>6, <1>7, <1>8

\* A flush leaves only what the OS refused to let go of.
LEMMA FlushStrays ==
    ASSUME OsInv, NEW lost, flush_held(lost), UNCHANGED <<backend, window_alive>>
    PROVE  OnlyStrays' /\ held_keys' = {} /\ held_buttons' = {}
           /\ (~Reaches' => os_buttons' = {} /\ os_keys' = {})
<1> USE DEF OsInv
<1>1. /\ held_keys' = {} /\ held_buttons' = {} /\ (Reaches' <=> Reaches)
      /\ Post({Button(b) : b \in held_buttons}, held_keys, FALSE, lost)
  BY DEF flush_held, Reaches
<1> DEFINE B == {Button(b) : b \in held_buttons}
<1>2. \A b \in os_buttons : Btn(b) \in astray \/ b \in B
  BY DEF ButtonsKnown
<1> HIDE DEF B
<1>3. /\ \A b : b \in os_buttons' <=>
            ~(Reaches /\ b \in B /\ Btn(b) \notin lost) /\ b \in os_buttons
      /\ \A k : k \in os_keys' <=>
            ~(Reaches /\ k \in held_keys /\ Key(k) \notin lost) /\ k \in os_keys
      /\ \A b : Btn(b) \in astray' <=> Btn(b) \in lost \/ (Btn(b) \in astray /\ b \notin B)
      /\ \A k : Key(k) \in astray' <=> Key(k) \in lost \/ (Key(k) \in astray /\ k \notin held_keys)
  <2>1. /\ os_buttons' = IF Reaches THEN Put(os_buttons, {c \in B : Btn(c) \notin lost}, FALSE)
                         ELSE os_buttons
        /\ os_keys' = IF Reaches THEN Put(os_keys, {k \in held_keys : Key(k) \notin lost}, FALSE)
                      ELSE os_keys
        /\ astray' = (astray \ ({Btn(c) : c \in B} \cup {Key(k) : k \in held_keys})) \cup lost
    BY <1>1 DEF Post, B
  <2>2. /\ \A b : b \in os_buttons' <=>
              ~(Reaches /\ b \in B /\ Btn(b) \notin lost) /\ b \in os_buttons
        /\ \A k : k \in os_keys' <=>
              ~(Reaches /\ k \in held_keys /\ Key(k) \notin lost) /\ k \in os_keys
    BY <2>1 DEF Put
  <2> QED BY <2>1, <2>2, Strayed
<1>4. OnlyStrays'
  BY <1>2, <1>3 DEF OnlyStrays, KeysKnown
<1> QED BY <1>1, <1>3, <1>4

\* With nothing held and only strays down, any session may begin or end.
LEMMA StraysInv ==
    ASSUME OnlyStrays', held_keys' = {}, ~Reaches' => os_buttons' = {} /\ os_keys' = {}
    PROVE  OsInv'
BY DEF OsInv, OnlyStrays, ButtonsKnown, KeysKnown, ShiftsTrue

\* A typed character presses and releases: it lets go of no Shift that is held.
LEMMA TypedInv ==
    ASSUME OsInv, control, session, NEW c \in Chars, NEW lost \in BOOLEAN, type_char(c, lost),
           UNCHANGED <<backend, control, session, window_alive>>
    PROVE  OsInv'
<1> USE DEF OsInv
<1>1. UNCHANGED <<held_buttons, held_keys>> /\ (Reaches' <=> Reaches) /\ Shifts' = Shifts
  BY DEF type_char, injector, Reaches, Shifts, KeyOf
<1>2. ASSUME Quiet PROVE OsInv'
  BY <1>1, <1>2 DEF Quiet, ButtonsKnown, KeysKnown, ShiftsTrue
<1>3. ASSUME Reaches, NEW T, Post({}, T, FALSE, {}), \A k \in T \cap Shifts : k \notin held_keys
      PROVE  OsInv'
  <2>1. /\ os_buttons' = Put(os_buttons, {b \in {} : Btn(b) \notin {}}, FALSE)
        /\ os_keys' = Put(os_keys, {k \in T : Key(k) \notin {}}, FALSE)
        /\ astray' = (astray \ ({Btn(b) : b \in {}} \cup {Key(k) : k \in T})) \cup {}
    BY <1>3 DEF Post
  <2>2. os_buttons' = os_buttons /\ os_keys' = os_keys \ T
    BY <2>1 DEF Put
  <2>3. /\ \A b : Btn(b) \in astray => Btn(b) \in astray'
        /\ \A k : k \notin T /\ Key(k) \in astray => Key(k) \in astray'
    BY <2>1, InputNames
  <2>4. ButtonsKnown' /\ KeysKnown'
    BY <1>1, <2>2, <2>3 DEF ButtonsKnown, KeysKnown
  <2>5. ShiftsTrue'
    BY <1>1, <1>3, <2>2, <2>3 DEF ShiftsTrue
  <2> QED BY <1>1, <1>3, <2>4, <2>5
<1>4. CASE backend = "uinput" /\ c \in DOMAIN us_char_to_key /\ Post({}, Tap(c), FALSE, {})
  <2>1. Tap(c) \subseteq {30, 42} /\ (42 \in Tap(c) => held_keys \cap Shifts = {})
    BY <1>4, ShiftKeys DEF Tap
  <2>2. \A k \in Tap(c) \cap Shifts : k \notin held_keys
    BY <1>4, <2>1, ShiftKeys
  <2> QED BY <1>3, <1>4, <2>2 DEF Reaches
<1>5. CASE backend = "macos" /\ Post({}, {0}, FALSE, {})
  <2>1. \A k \in {0} \cap Shifts : k \notin held_keys
    BY <1>5, ShiftKeys
  <2> QED BY <1>3, <1>5, <2>1 DEF Reaches
<1>6. CASE /\ backend = "macos" /\ os_keys' = os_keys \cup {0}
           /\ astray' = astray \cup {Key(0)} /\ UNCHANGED os_buttons
  <2>1. 0 \notin Shifts /\ Reaches
    BY <1>6, ShiftKeys DEF Reaches
  <2>2. \A k : k # 0 => (k \in os_keys' <=> k \in os_keys)
    BY <1>6
  <2> QED BY <1>1, <1>6, <2>1, <2>2 DEF ButtonsKnown, KeysKnown, ShiftsTrue
<1>7. \/ Quiet
      \/ backend = "uinput" /\ c \in DOMAIN us_char_to_key /\ Post({}, Tap(c), FALSE, {})
      \/ backend = "macos" /\ Post({}, {0}, FALSE, {})
      \/ /\ backend = "macos" /\ os_keys' = os_keys \cup {0}
         /\ astray' = astray \cup {Key(0)} /\ UNCHANGED os_buttons
  BY DEF type_char
<1> QED BY <1>2, <1>4, <1>5, <1>6, <1>7

\* Nothing moves on the host, nor in who has control.
LEMMA StillInv ==
    ASSUME OsInv, FlagsInv, Quiet, UNCHANGED injector, UNCHANGED pipe PROVE OsInv' /\ FlagsInv'
<1>1. /\ UNCHANGED <<os_buttons, os_keys, astray, held_buttons, held_keys, flags, caps_lock,
                     control, session, backend>>
      /\ (Reaches' <=> Reaches) /\ Shifts' = Shifts
  BY DEF Quiet, injector, pipe, Reaches, Shifts, KeyOf
<1> QED BY <1>1 DEF OsInv, FlagsInv, ButtonsKnown, KeysKnown, ShiftsTrue, OnlyStrays

\* The mask follows the keys.
LEMMA KeyFlags ==
    ASSUME FlagsInv, NEW code, NEW down \in BOOLEAN, NEW lost, key(code, down, lost), UNCHANGED backend
    PROVE  FlagsInv'
<1> DEFINE T == Toggles(code, down)
<1>1. /\ caps_lock' = (caps_lock # T) /\ Shifts' = Shifts
      /\ flags' = IF T THEN Put(flags, {"caps"}, ~caps_lock)
                  ELSE IF backend = "macos" /\ code \in {42, 54} THEN Put(flags, {"shift"}, down)
                  ELSE flags
      /\ held_keys' = Put(held_keys, KeyOf(code), down)
  BY DEF key, Shifts, KeyOf
<1>2. T => backend = "macos" /\ code = 58 /\ down
  BY DEF Toggles
<1>3. T \in BOOLEAN /\ caps_lock' \in BOOLEAN
  BY <1>1, Zenon DEF Toggles
<1> HIDE DEF T
<1>4. "caps" \in flags' <=> caps_lock'
  <2>1. CASE T
    BY <1>1, <2>1 DEF FlagsInv, Put
  <2>2. CASE ~T
    <3>1. caps_lock \in BOOLEAN /\ T = FALSE
      BY <1>3, <2>2 DEF FlagsInv
    <3>2. caps_lock' = caps_lock
      BY <1>1, <3>1
    <3>3. "caps" \in flags' <=> "caps" \in flags
      BY <1>1, <2>2 DEF Put
    <3> QED BY <3>2, <3>3 DEF FlagsInv
  <2> QED BY <2>1, <2>2
<1>5. ASSUME "shift" \in flags' PROVE backend' = "macos" /\ held_keys' \cap Shifts' # {}
  <2>1. backend = "macos"
    BY <1>1, <1>2, <1>5 DEF FlagsInv, Put
  <2>2. KeyOf(42) = {56} /\ KeyOf(54) = {60} /\ Shifts = {56, 60}
        /\ (KeyOf(code) \cap Shifts # {} => code \in {42, 54})
    BY <2>1, ShiftKeys
  <2>3. CASE code \in {42, 54}
    <3>1. ~T /\ down
      BY <1>1, <1>2, <1>5, <2>1, <2>3 DEF Put
    <3> QED BY <1>1, <2>1, <2>2, <2>3, <3>1 DEF Put
  <2>4. CASE code \notin {42, 54}
    <3>1. "shift" \in flags
      BY <1>1, <1>5, <2>4 DEF Put
    <3>2. PICK k \in held_keys : k \in Shifts /\ k \notin KeyOf(code)
      BY <2>2, <2>4, <3>1 DEF FlagsInv
    <3>3. k \in held_keys'
      BY <1>1, <3>2 DEF Put
    <3> QED BY <1>1, <2>1, <3>2, <3>3
  <2> QED BY <2>3, <2>4
<1> QED BY <1>3, <1>4, <1>5 DEF FlagsInv

\* The client's events.
LEMMA EventInv == ASSUME OsInv, FlagsInv, Event PROVE OsInv' /\ FlagsInv'
<1>1. control /\ session /\ UNCHANGED <<backend, control, session, window_alive>>
  BY DEF Event, pipe
<1>2. ASSUME NEW b, NEW down \in BOOLEAN, NEW lost, button(b, down, lost) PROVE OsInv' /\ FlagsInv'
  <2>1. FlagsInv'
    BY <1>1, <1>2 DEF button, FlagsInv, Shifts, KeyOf
  <2> QED BY <1>1, <1>2, <2>1, ButtonInv
<1>3. ASSUME NEW code, NEW down \in BOOLEAN, NEW lost, key(code, down, lost) PROVE OsInv' /\ FlagsInv'
  BY <1>1, <1>3, KeyInv, KeyFlags
<1>4. ASSUME NEW c \in Chars, NEW lost \in BOOLEAN, type_char(c, lost) PROVE OsInv' /\ FlagsInv'
  <2>1. FlagsInv'
    BY <1>1, <1>4 DEF type_char, injector, FlagsInv, Shifts, KeyOf
  <2> QED BY <1>1, <1>4, <2>1, TypedInv
<1> QED BY <1>2, <1>3, <1>4 DEF Event

\* The touchpad's click, while the client has control.
LEMMA ForwardInv ==
    ASSUME OsInv, FlagsInv, session, NEW down \in BOOLEAN, Forward(down), UNCHANGED pipe
    PROVE  OsInv' /\ FlagsInv'
<1>1. UNCHANGED <<backend, control, session, window_alive>>
  BY DEF pipe
<1>2. CASE control
  <2>1. PICK lost : button(0, down, lost)
    BY <1>2 DEF Forward
  <2>2. FlagsInv'
    BY <1>1, <2>1 DEF button, FlagsInv, Shifts, KeyOf
  <2> QED BY <1>1, <1>2, <2>1, <2>2, ButtonInv
<1>3. CASE ~control
  BY <1>3, StillInv DEF Forward
<1> QED BY <1>2, <1>3

\* A flush clears the mask with the keys.
LEMMA FlushInv ==
    ASSUME OsInv, FlagsInv, NEW lost, flush_held(lost), UNCHANGED <<backend, window_alive>>
    PROVE  OsInv' /\ FlagsInv'
<1>1. FlagsInv'
  BY DEF flush_held, FlagsInv
<1> QED BY <1>1, FlushStrays, StraysInv

\* What begins and ends a session, or the control in it.
LEMMA SessionInv ==
    ASSUME OsInv, FlagsInv, Revoke \/ Grant \/ DropInput \/ NewSession \/ WindowCloses
    PROVE  OsInv' /\ FlagsInv'
<1>1. CASE Revoke
  BY <1>1, FlushInv DEF Revoke
<1>2. CASE Grant
  <2>1. /\ UNCHANGED <<os_buttons, os_keys, astray, held_buttons, held_keys, flags, caps_lock,
                       session, backend>> /\ session /\ control'
        /\ (Reaches' <=> Reaches) /\ Shifts' = Shifts
    BY <1>2 DEF Grant, Quiet, injector, Reaches, Shifts, KeyOf
  <2> QED BY <2>1 DEF OsInv, FlagsInv, ButtonsKnown, KeysKnown, ShiftsTrue
<1>3. CASE DropInput
  <2>1. CASE Reaches
    BY <1>3, <2>1, FlushInv DEF DropInput
  <2>2. CASE ~Reaches
    <3>1. /\ UNCHANGED <<os_buttons, os_keys, astray, held_buttons, held_keys, flags, caps_lock, backend>>
          /\ ~session' /\ os_buttons = {} /\ os_keys = {} /\ Shifts' = Shifts
      BY <1>3, <2>2 DEF DropInput, Quiet, injector, OsInv, Shifts, KeyOf
    <3> QED BY <3>1 DEF OsInv, FlagsInv, ButtonsKnown, KeysKnown, ShiftsTrue, OnlyStrays
  <2> QED BY <2>1, <2>2
<1>4. CASE NewSession
  <2>1. /\ UNCHANGED <<os_buttons, os_keys, astray>> /\ OnlyStrays /\ held_keys' = {}
        /\ flags' = {} /\ caps_lock' = FALSE /\ Reaches'
    BY <1>4 DEF NewSession, Quiet, OsInv, Reaches
  <2>2. OnlyStrays'
    BY <2>1 DEF OnlyStrays
  <2>3. FlagsInv'
    BY <2>1 DEF FlagsInv
  <2> QED BY <2>1, <2>2, <2>3, StraysInv
<1>5. CASE WindowCloses
  <2>1. /\ UNCHANGED <<held_keys, flags, caps_lock, backend>> /\ os_buttons' = {} /\ os_keys' = {}
        /\ ~Reaches' /\ Shifts' = Shifts
    BY <1>5 DEF WindowCloses, injector, Reaches, Shifts, KeyOf
  <2> QED BY <2>1 DEF OsInv, FlagsInv, ButtonsKnown, KeysKnown, ShiftsTrue, OnlyStrays
<1> QED BY <1>1, <1>2, <1>3, <1>4, <1>5

\* The touchpad's steps, as the host sees them.
LEMMA PadStepInv ==
    ASSUME OsInv, FlagsInv, Flip \/ Fetch \/ PadEvent \/ EndBatch \/ PadGone
    PROVE  OsInv' /\ FlagsInv'
<1>1. CASE Flip \/ EndBatch \/ PadGone
  BY <1>1, StillInv DEF Flip, EndBatch, PadGone
<1>2. CASE Fetch
  <2>1. UNCHANGED pipe /\ session /\ (Forward(FALSE) \/ (Quiet /\ UNCHANGED injector))
    BY <1>2 DEF Fetch, Edge
  <2> QED BY <2>1, ForwardInv, StillInv
<1>3. CASE PadEvent
  <2>1. UNCHANGED pipe /\ session
    BY <1>3 DEF PadEvent
  <2>2. CASE Click
    <3>1. Forward(~reader.pressed) \/ (Quiet /\ UNCHANGED injector)
      BY <2>2 DEF Click
    <3>2. (~reader.pressed) \in BOOLEAN
      OBVIOUS
    <3> QED BY <2>1, <3>1, <3>2, ForwardInv, StillInv
  <2>3. CASE Touch \/ Motion
    BY <2>1, <2>3, StillInv DEF Touch, Motion
  <2> QED BY <1>3, <2>2, <2>3 DEF PadEvent
<1> QED BY <1>1, <1>2, <1>3

\* The reader: what its edge, its clicks and its motions leave.
LEMMA ReaderFits ==
    ASSUME gate \in BOOLEAN, ReaderInv, PadGated, [InputNext]_inputvars
    PROVE  gate' \in BOOLEAN /\ ReaderInv' /\ PadGated'
<1> USE DEF ReaderInv, PadGated
<1> DEFINE Fits == ReaderInv /\ PadGated
<1>1. ASSUME UNCHANGED <<reader, session>> PROVE Fits'
  BY <1>1
<1>2. ASSUME NEW to \in {"fetch", "exited"}, reader' = [reader EXCEPT !.pc = to],
             to = "fetch" => reader.pc = "events" /\ session' = session
      PROVE  Fits'
  <2>1. /\ reader' \in ReaderType /\ reader'.pc = to /\ reader'.was_active = reader.was_active
        /\ reader'.prev = reader.prev /\ reader'.sent = reader.sent
        /\ reader'.held_left = reader.held_left /\ reader'.jumped = reader.jumped
    BY <1>2 DEF ReaderType
  <2> QED BY <1>2, <2>1
<1>3. ASSUME NewSession PROVE Fits'
  BY <1>3 DEF NewSession, NewReader, ReaderType
<1>4. ASSUME Fetch PROVE Fits'
  <2>0. session /\ session' = session /\ reader.pc = "fetch"
    BY <1>4 DEF Fetch, pipe
  <2>1. CASE gate # reader.was_active
    <3> DEFINE rel == ~gate /\ reader.held_left
               r1 == [reader EXCEPT !.pc = "events"]
               r2 == [r1 EXCEPT !.active = gate]
               r3 == [r2 EXCEPT !.was_active = gate]
               r4 == [r3 EXCEPT !.prev = "none"]
               r5 == [r4 EXCEPT !.held_left = @ /\ ~rel]
               r6 == [r5 EXCEPT !.sent = @ /\ ~rel]
    <3>1. reader' = r6 /\ rel \in BOOLEAN
      BY <1>4, <2>1 DEF Fetch, Edge
    <3>2. r1 \in ReaderType /\ r1.pc = "events" /\ r1.held_left = reader.held_left
          /\ r1.sent = reader.sent /\ r1.jumped = reader.jumped
      BY DEF ReaderType
    <3> HIDE DEF r1
    <3>3. r2 \in ReaderType /\ r2.pc = "events" /\ r2.held_left = r1.held_left
          /\ r2.sent = r1.sent /\ r2.jumped = r1.jumped /\ r2.active = gate
      BY <3>2 DEF ReaderType
    <3> HIDE DEF r2
    <3>4. r3 \in ReaderType /\ r3.pc = "events" /\ r3.held_left = r2.held_left
          /\ r3.sent = r2.sent /\ r3.jumped = r2.jumped /\ r3.active = gate /\ r3.was_active = gate
      BY <3>3 DEF ReaderType
    <3> HIDE DEF r3
    <3>5. r4 \in ReaderType /\ r4.pc = "events" /\ r4.held_left = r3.held_left
          /\ r4.sent = r3.sent /\ r4.jumped = r3.jumped /\ r4.active = gate /\ r4.was_active = gate
          /\ r4.prev = "none"
      BY <3>4 DEF ReaderType
    <3> HIDE DEF r4, rel
    <3>6. (r4.held_left /\ ~rel) \in BOOLEAN /\ (r4.sent /\ ~rel) \in BOOLEAN
      OBVIOUS
    <3>7. r5 \in ReaderType /\ r5.pc = "events" /\ r5.held_left = (r4.held_left /\ ~rel)
          /\ r5.sent = r4.sent /\ r5.jumped = r4.jumped /\ r5.active = gate /\ r5.was_active = gate
          /\ r5.prev = "none"
      BY <3>5, <3>6 DEF ReaderType
    <3> HIDE DEF r5
    <3>8. r6 \in ReaderType /\ r6.pc = "events" /\ r6.held_left = r5.held_left
          /\ r6.sent = (r5.sent /\ ~rel) /\ r6.jumped = r5.jumped /\ r6.active = gate
          /\ r6.was_active = gate /\ r6.prev = "none"
      BY <3>6, <3>7 DEF ReaderType
    <3> HIDE DEF r6
    <3>9. /\ reader'.held_left = (reader.held_left /\ ~rel) /\ reader'.sent = (reader.sent /\ ~rel)
          /\ reader'.jumped = reader.jumped
      BY <3>1, <3>2, <3>3, <3>4, <3>5, <3>7, <3>8
    <3>10. reader'.sent => reader'.held_left
      BY <2>0, <3>9
    <3>11. ~gate => ~reader'.sent
      BY <2>0, <3>9 DEF rel
    <3> QED BY <2>0, <3>1, <3>8, <3>9, <3>10, <3>11
  <2>2. CASE gate = reader.was_active
    <3> DEFINE r1 == [reader EXCEPT !.pc = "events"]
               r2 == [r1 EXCEPT !.active = gate]
    <3>1. reader' = r2
      BY <1>4, <2>2 DEF Fetch
    <3>2. r1 \in ReaderType /\ r1.pc = "events" /\ r1.held_left = reader.held_left /\ r1.prev = reader.prev
          /\ r1.sent = reader.sent /\ r1.jumped = reader.jumped /\ r1.was_active = reader.was_active
      BY DEF ReaderType
    <3> HIDE DEF r1
    <3>3. r2 \in ReaderType /\ r2.pc = "events" /\ r2.held_left = r1.held_left /\ r2.prev = r1.prev
          /\ r2.sent = r1.sent /\ r2.jumped = r1.jumped /\ r2.was_active = r1.was_active /\ r2.active = gate
      BY <3>2 DEF ReaderType
    <3> HIDE DEF r2
    <3> QED BY <2>0, <2>2, <3>1, <3>2, <3>3
  <2> QED BY <2>1, <2>2
<1>5. ASSUME PadEvent PROVE Fits'
  <2>0. session /\ session' = session /\ reader.pc = "events" /\ reader.active = reader.was_active
    BY <1>5 DEF PadEvent, pipe
  <2>1. CASE Click
    <3> DEFINE down == ~reader.pressed
               out == IF reader.active THEN down ELSE reader.sent
               r1 == [reader EXCEPT !.pressed = down]
               r2 == [r1 EXCEPT !.held_left = down]
               r3 == [r2 EXCEPT !.sent = out]
    <3>1. reader' = [reader EXCEPT !.pressed = down, !.held_left = down, !.sent = out]
      BY <2>1 DEF Click
    <3>2. reader' = r3 /\ down \in BOOLEAN
      BY <3>1
    <3>3. out \in BOOLEAN
      BY DEF ReaderType
    <3> HIDE DEF down, out
    <3>4. r1 \in ReaderType /\ r1.pc = reader.pc /\ r1.active = reader.active /\ r1.prev = reader.prev
          /\ r1.jumped = reader.jumped /\ r1.was_active = reader.was_active
      BY <3>2 DEF ReaderType
    <3> HIDE DEF r1
    <3>5. r2 \in ReaderType /\ r2.pc = r1.pc /\ r2.active = r1.active /\ r2.prev = r1.prev
          /\ r2.jumped = r1.jumped /\ r2.was_active = r1.was_active /\ r2.held_left = down
      BY <3>2, <3>4 DEF ReaderType
    <3> HIDE DEF r2
    <3>6. r3 \in ReaderType /\ r3.pc = r2.pc /\ r3.active = r2.active /\ r3.prev = r2.prev
          /\ r3.jumped = r2.jumped /\ r3.was_active = r2.was_active /\ r3.held_left = r2.held_left
          /\ r3.sent = out
      BY <3>3, <3>5 DEF ReaderType
    <3> HIDE DEF r3
    <3>7. /\ reader' \in ReaderType /\ reader'.pc = reader.pc /\ reader'.active = reader.active
          /\ reader'.prev = reader.prev /\ reader'.jumped = reader.jumped
          /\ reader'.was_active = reader.was_active /\ reader'.held_left = down /\ reader'.sent = out
      BY <3>2, <3>4, <3>5, <3>6
    <3>8. (out => down) /\ (~reader.was_active => ~out)
      BY <2>0 DEF out
    <3> QED BY <2>0, <3>7, <3>8
  <2>2. CASE Touch
    <3> DEFINE r1 == [reader EXCEPT !.finger_down = ~@]
               seed == IF reader.finger_down THEN "none" ELSE reader.prev
               r2 == [r1 EXCEPT !.prev = seed]
    <3>1. reader' = [reader EXCEPT !.finger_down = ~@, !.prev = seed]
      BY <2>2 DEF Touch
    <3>2. reader' = r2 /\ seed \in {"none", "live", "gated"} /\ (seed = "gated" => reader.prev = "gated")
      BY <3>1 DEF ReaderType
    <3>3. (~reader.finger_down) \in BOOLEAN
      OBVIOUS
    <3> HIDE DEF seed
    <3>4. r1 \in ReaderType /\ r1.pc = reader.pc /\ r1.active = reader.active /\ r1.sent = reader.sent
          /\ r1.jumped = reader.jumped /\ r1.was_active = reader.was_active /\ r1.held_left = reader.held_left
      BY <3>3 DEF ReaderType
    <3> HIDE DEF r1
    <3>5. r2 \in ReaderType /\ r2.pc = r1.pc /\ r2.active = r1.active /\ r2.sent = r1.sent
          /\ r2.jumped = r1.jumped /\ r2.was_active = r1.was_active /\ r2.held_left = r1.held_left
          /\ r2.prev = seed
      BY <3>2, <3>4 DEF ReaderType
    <3> HIDE DEF r2
    <3> QED BY <2>0, <3>2, <3>4, <3>5
  <2>3. CASE Motion
    <3> DEFINE seed == IF reader.active THEN "live" ELSE "gated"
               jump == reader.jumped \/ (reader.active /\ reader.prev = "gated")
               r1 == [reader EXCEPT !.prev = seed]
               r2 == [r1 EXCEPT !.jumped = jump]
    <3>1. reader' = [reader EXCEPT !.prev = seed, !.jumped = jump]
      BY <2>3 DEF Motion
    <3>2. reader' = r2 /\ seed \in {"none", "live", "gated"} /\ (seed = "gated" => ~reader.active)
      BY <3>1
    <3>3. jump = FALSE
      BY <2>0
    <3> HIDE DEF seed, jump
    <3>4. r1 \in ReaderType /\ r1.pc = reader.pc /\ r1.active = reader.active /\ r1.sent = reader.sent
          /\ r1.was_active = reader.was_active /\ r1.held_left = reader.held_left /\ r1.prev = seed
      BY <3>2 DEF ReaderType
    <3> HIDE DEF r1
    <3>5. r2 \in ReaderType /\ r2.pc = r1.pc /\ r2.active = r1.active /\ r2.sent = r1.sent
          /\ r2.jumped = FALSE /\ r2.was_active = r1.was_active /\ r2.held_left = r1.held_left
          /\ r2.prev = r1.prev
      BY <3>3, <3>4 DEF ReaderType
    <3> HIDE DEF r2
    <3> QED BY <2>0, <3>2, <3>4, <3>5
  <2> QED BY <1>5, <2>1, <2>2, <2>3 DEF PadEvent
<1>6. gate' \in BOOLEAN
  <2>1. ASSUME UNCHANGED gate PROVE gate' \in BOOLEAN
    BY <2>1
  <2>2. CASE Flip
    BY <2>2, Zenon DEF Flip
  <2> QED
    BY <2>1, <2>2 DEF InputNext, inputvars, Event, Revoke, Grant, DropInput, NewSession,
       WindowCloses, Fetch, PadEvent, EndBatch, PadGone
<1>7. CASE Event \/ Revoke \/ Grant \/ WindowCloses \/ Flip \/ UNCHANGED inputvars
  BY <1>1, <1>7 DEF Event, Revoke, Grant, WindowCloses, Flip, pipe, inputvars
<1>8. CASE DropInput \/ EndBatch \/ PadGone
  BY <1>2, <1>8 DEF DropInput, EndBatch, PadGone, pipe
<1> QED BY <1>3, <1>4, <1>5, <1>6, <1>7, <1>8 DEF InputNext

\* Nothing is down when the host starts.
LEMMA InputInitInv == InputInit => InputInv
<1> SUFFICES ASSUME InputInit PROVE InputInv
  OBVIOUS
<1> USE DEF InputInit
<1>1. OsInv
  BY DEF OsInv, ButtonsKnown, KeysKnown, ShiftsTrue, OnlyStrays
<1>2. FlagsInv
  BY DEF FlagsInv
<1>3. ReaderInv /\ PadGated
  BY DEF ReaderInv, PadGated, NewReader, ReaderType
<1> QED BY <1>1, <1>2, <1>3 DEF InputInv

\* Every step of the client, the app, the pad and the OS keeps the invariant.
LEMMA InputNextInv == InputInv /\ [InputNext]_inputvars => InputInv'
<1> SUFFICES ASSUME InputInv, [InputNext]_inputvars PROVE InputInv'
  OBVIOUS
<1>1. gate' \in BOOLEAN /\ ReaderInv' /\ PadGated'
  BY ReaderFits DEF InputInv
<1>2. UNCHANGED backend
  BY DEF InputNext, inputvars, Event, Revoke, Grant, DropInput, NewSession, WindowCloses, Flip,
         Fetch, PadEvent, EndBatch, PadGone, pipe
<1>3. CASE UNCHANGED inputvars
  <2>1. Quiet /\ UNCHANGED injector /\ UNCHANGED pipe
    BY <1>3 DEF inputvars, Quiet, injector, pipe
  <2> QED BY <1>1, <1>2, <2>1, StillInv DEF InputInv
<1>4. CASE InputNext
  <2>1. OsInv' /\ FlagsInv'
    BY <1>4, EventInv, SessionInv, PadStepInv DEF InputInv, InputNext
  <2> QED BY <1>1, <1>2, <2>1 DEF InputInv
<1> QED BY <1>3, <1>4

\* A session, its revocation and the pad's gate leave nothing held that nobody
\* will let go of: for any buttons, any key codes and any number of refused
\* events (uinput.rs, windows.rs, window_win.rs, macos.rs, touchpad_linux.rs).
THEOREM InputSafety == InputSpec => []NothingStuck
<1>1. InputInv => NoneStuck
  BY DEF InputInv, NoneStuck, OsInv, ButtonsKnown, KeysKnown, ShiftsTrue, OnlyStrays, FlagsInv
<1>2. InputInv => NothingStuck
  BY <1>1 DEF NothingStuck, InputInv
<1> QED BY <1>2, InputInitInv, InputNextInv, PTL DEF InputSpec
=============================================================================
