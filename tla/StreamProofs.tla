----------------------------- MODULE StreamProofs ----------------------------
(***************************************************************************)
(* Proofs about a session after its handshake: the host's serve loop, the  *)
(* controller of the stream's rate and the forward error correction of its *)
(* video, for any constants.                                               *)
(*                                                                         *)
(* While the host serves, what the loop measures is the client's silence:  *)
(* that makes SilentDropped and OnlySilentDropped follow.                  *)
(*                                                                         *)
(* For the controller every method is a function of its record, so that    *)
(* each has a lemma: it keeps the bounds (CtlOK), it does not lose what    *)
(* was earned (Earned), and its waits end (CountOK).  The steps of the     *)
(* specification are compositions of them.                                 *)
(*                                                                         *)
(* For error correction a group of datagrams is a run of numbers (Run).    *)
(* FecInv says that the encoder's group, every parity under way and every  *)
(* word in the block table is one; where one number names one datagram     *)
(* (OneName) the decoder's look-ups then find the group's own datagrams    *)
(* and RepairExact follows.  TurnInv shows that within one turn of the     *)
(* numbers it does.  HeardInv adds that what was heard of a group is in    *)
(* one block of the table, from which RepairComplete follows.              *)
(***************************************************************************)
EXTENDS ServeLoop, RateController, Fec, FiniteSetTheorems, SequenceTheorems,
        WellFoundedInduction, TLAPS

-----------------------------------------------------------------------------
(* The serve loop.                                                         *)


\* The loop's clock and the client's silence are the same.
ClockTrue == serving => quiet = elapsed

IInv == ServeTypeOK /\ ClockTrue

\* Both hold when serve_with is entered.
LEMMA InitInv == ServeInit => IInv
BY ServeAssumption DEF ServeInit, IInv, ServeTypeOK, ClockTrue, ToHost, ToClient

\* Every step of the host, of the client and of the network keeps them.
LEMMA NextInv == IInv /\ [ServeNext]_servevars => IInv'
<1> SUFFICES ASSUME IInv, [ServeNext]_servevars PROVE IInv'
  OBVIOUS
<1> USE ServeAssumption DEF IInv, ServeTypeOK, ClockTrue
<1>1. ASSUME NEW m \in ToHost, ServeRecv(m) PROVE IInv'
  <2>1. Answer(m) \subseteq ToClient
    BY DEF Answer, ToClient, ToHost
  <2> QED BY <1>1, <2>1 DEF ServeRecv, clientVars
<1>2. CASE ServeOut
  BY <1>2 DEF ServeOut, hostVars, clientVars, ToClient
<1>3. CASE OutboundClosed
  BY <1>3 DEF OutboundClosed, clientVars
<1>4. CASE ServeSilent
  BY <1>4 DEF ServeSilent, clientVars
<1>5. CASE TimePasses
  BY <1>5 DEF TimePasses, clientVars
<1>6. CASE HostKicks
  BY <1>6 DEF HostKicks, hostVars, clientVars, ToClient
<1>7. ASSUME NEW m \in {"Ping", "Launch", "Data", "Unknown", "Bye"}, ClientSends(m) PROVE IInv'
  BY <1>7 DEF ClientSends, hostVars, ToHost
<1>8. CASE ClientDies
  <2>1. UNCHANGED <<toHost, toClient, serving, elapsed, outbound, quiet>> /\ req' = 0
    BY <1>8 DEF ClientDies, hostVars
  <2>2. held' \in BOOLEAN
    BY <1>8, Zenon DEF ClientDies
  <2> QED BY <2>1, <2>2
<1>9. CASE RequestStart
  BY <1>9 DEF RequestStart, hostVars, ToHost
<1>10. CASE RequestTimeout
  BY <1>10 DEF RequestTimeout, hostVars
<1>11. ASSUME NEW m \in ToClient, RequestRecv(m) PROVE IInv'
  BY <1>11 DEF RequestRecv, hostVars
<1>12. ASSUME NEW m \in ToClient, ClientHold(m) PROVE IInv'
  BY <1>12 DEF ClientHold, hostVars
<1>13. CASE Lose
  BY <1>13 DEF Lose, hostVars, clientVars
<1>14. CASE UNCHANGED servevars
  BY <1>14 DEF servevars, hostVars, clientVars
<1> QED
  BY <1>1, <1>2, <1>3, <1>4, <1>5, <1>6, <1>7, <1>8, <1>9, <1>10, <1>11, <1>12, <1>13, <1>14 DEF ServeNext

\* The variables keep their types and a request its budget.
THEOREM ServeTypeCorrect == ServeSpec => []ServeTypeOK
<1>1. IInv => ServeTypeOK
  BY DEF IInv
<1> QED BY <1>1, InitInv, NextInv, PTL DEF ServeSpec

\* Whatever the host sends, no client silent for longer than PEER_TIMEOUT is
\* still served.
THEOREM SilentAlwaysDropped == ServeSpec => []SilentDropped
<1>1. IInv => SilentDropped
  BY ServeAssumption DEF IInv, ServeTypeOK, ClockTrue, SilentDropped
<1> QED BY <1>1, InitInv, NextInv, PTL DEF ServeSpec

\* No step leaves the serve loop but on a Bye or on a silence of PEER_TIMEOUT.
THEOREM OnlySilentOnesDropped == ServeSpec => OnlySilentDropped
<1>1. IInv /\ [ServeNext]_servevars =>
        [serving /\ ~serving' => quiet >= PEER_TIMEOUT \/ toHost \ toHost' = {"Bye"}]_servevars
  <2> SUFFICES ASSUME IInv, ServeNext, serving, ~serving'
               PROVE  quiet >= PEER_TIMEOUT \/ toHost \ toHost' = {"Bye"}
    BY DEF servevars, hostVars, clientVars
  <2> USE ServeAssumption DEF IInv, ServeTypeOK, ClockTrue
  <2>1. ASSUME NEW m \in ToHost, ServeRecv(m) PROVE toHost \ toHost' = {"Bye"}
    BY <2>1 DEF ServeRecv
  <2>2. CASE ServeSilent
    BY <2>2 DEF ServeSilent
  <2> QED
    BY <2>1, <2>2 DEF ServeNext, ServeOut, OutboundClosed, TimePasses, HostKicks, ClientSends, ClientDies,
          RequestStart, RequestTimeout, RequestRecv, ClientHold, Lose, hostVars
<1> QED BY <1>1, InitInv, NextInv, PTL DEF ServeSpec, OnlySilentDropped

-----------------------------------------------------------------------------
(* The controller: its bounds and its ceiling.                              *)

\* The fields of the controller and of a probe-down.
CtlFields == {"target", "ceiling", "clean", "at_ceiling", "probe_wait",
  "probe_age", "since_step", "over", "lossy", "noise_loss", "probe_down",
  "deadband", "recovered", "startup_left", "point", "point_age",
  "clean_at_point", "manual", "queue_cuts", "point_cap", "at_point_cap",
  "point_retry", "drain_left", "encoder", "fec", "clean_at_target",
  "last_good"}

ProbeFields == {"on", "from", "pre_loss", "windows", "loss_acc", "fec"}

\* The rates a controller may have.
RateRange == FLOOR_KBPS .. CAP

\* A probe-down under way knows the rate it started from.
ProbeOK(p) ==
    /\ DOMAIN p = ProbeFields
    /\ p.on \in BOOLEAN
    /\ p.on => p.from \in RateRange

\* The bounds of RateBounded for any record, with what keeps them: a probe-down
\* restores a rate within the bounds, and FEC leaves the encoder something.
CtlOK(d) ==
    /\ DOMAIN d = CtlFields
    /\ d.target \in RateRange /\ d.ceiling \in RateRange
    /\ d.encoder \in Int /\ d.encoder <= d.target
    /\ d.point_cap \in 1 .. Lowest /\ d.point \in d.point_cap .. Lowest
    /\ d.fec \in Nat
    /\ ProbeOK(d.probe_down)

\* The ceiling that punish leaves.
Cut(r) == Clamp((r * 85) \div 100)

\* What earns CeilingEarned: the target is under the ceiling and, while a
\* probe-down is judged, neither verdict can put it above.
Earned(d) ==
    /\ d.target <= d.ceiling
    /\ d.probe_down.on => /\ d.probe_down.from <= d.ceiling
                          /\ d.target <= Cut(d.probe_down.from)

\* e differs from d in counters only.
SameCore(d, e) ==
    /\ DOMAIN e = CtlFields
    /\ e.target = d.target /\ e.ceiling = d.ceiling /\ e.encoder = d.encoder
    /\ e.point = d.point /\ e.point_cap = d.point_cap /\ e.fec = d.fec
    /\ e.probe_down = d.probe_down

\* A set of numbers that is not empty has a least one, so that pick and
\* step_down_host_bound choose a member.
LEMMA Least ==
  ASSUME NEW S, S \subseteq Nat, S # {}
  PROVE  LET m == CHOOSE i \in S : \A j \in S : i <= j
         IN  m \in S /\ \A j \in S : m <= j
<1>1. \E i \in S : \A j \in S : ~ (<<j, i>> \in OpToRel(<, Nat))
  BY WFMin, NatLessThanWellFounded
<1>2. PICK i \in S : \A j \in S : ~ (<<j, i>> \in OpToRel(<, Nat))
  BY <1>1
<1>3. ASSUME NEW j \in S PROVE i <= j
  <2>1. <<j, i>> \in Nat \X Nat /\ <<j, i>>[1] = j /\ <<j, i>>[2] = i
    OBVIOUS
  <2>2. ~ (j < i)
    BY <1>2, <2>1, Zenon DEF OpToRel
  <2> QED BY <2>2
<1> QED BY <1>3

\* The ladder has a lowest point.
LEMMA Ladder == Lowest \in Nat \ {0}
BY RateAssumption DEF Lowest

\* pick names a point of the ladder, whatever the budget.
LEMMA Picked ==
  ASSUME NEW b, NEW n, NEW m
  PROVE  pick(b, n, m) \in 1 .. Lowest
<1> DEFINE fits == {i \in 1 .. Lowest : Points[i].min * m <= b * n}
<1>1. CASE fits = {}
  BY <1>1, Ladder DEF pick
<1>2. CASE fits # {}
  <2>1. fits \subseteq Nat
    BY Ladder
  <2>2. (CHOOSE i \in fits : \A j \in fits : i <= j) \in fits
    <3> HIDE DEF fits
    <3> QED BY <1>2, <2>1, Least
  <2> QED BY <1>2, <2>2 DEF pick
<1> QED BY <1>1, <1>2

\* Rates are numbers.
LEMMA RateNat == \A r \in RateRange : r \in Nat
BY RateAssumption DEF RateRange

\* The bounds of a rate, in numbers.
LEMMA RateBounds ==
  /\ FLOOR_KBPS \in Nat /\ CAP \in Nat /\ 10 <= FLOOR_KBPS /\ FLOOR_KBPS <= CAP
  /\ \A r : r \in RateRange <=> r \in Nat /\ FLOOR_KBPS <= r /\ r <= CAP
BY RateAssumption DEF RateRange

\* A clamped rate is a rate; clamping changes no rate, and passes none that
\* bounds its argument.
LEMMA Clamped ==
  ASSUME NEW r \in Int
  PROVE  /\ Clamp(r) \in RateRange
         /\ r \in RateRange => Clamp(r) = r
         /\ \A c \in RateRange : r <= c => Clamp(r) <= c
BY RateAssumption DEF Clamp, Lower, Upper, RateRange

\* Clamping keeps the order.
LEMMA Monotone ==
  ASSUME NEW r \in Int, NEW s \in Int, r <= s
  PROVE  Clamp(r) <= Clamp(s)
BY RateAssumption DEF Clamp, Lower, Upper

\* The encoder's share beside FEC is no more than the target.
LEMMA Share ==
  ASSUME NEW t \in RateRange, NEW f \in Nat
  PROVE  encoder_rate(t, f) \in Int /\ encoder_rate(t, f) <= t
BY RateAssumption DEF encoder_rate, Upper, Lower, RateRange

\* Counters matter neither to the bounds nor to the ceiling.
LEMMA SameOK ==
  ASSUME NEW d, NEW e, CtlOK(d), SameCore(d, e)
  PROVE  CtlOK(e) /\ (Earned(d) => Earned(e))
BY DEF CtlOK, SameCore, Earned

\* apply_rate moves the target to the clamped rate, and the encoder with it.
LEMMA ApplyRate ==
  ASSUME NEW d, CtlOK(d), NEW k \in Int
  PROVE  LET e == apply_rate(d, k)
         IN  /\ CtlOK(e)
             /\ e.target = Clamp(k) /\ e.ceiling = d.ceiling
             /\ e.probe_down = d.probe_down
<1> DEFINE to == Clamp(k)
           e == apply_rate(d, k)
<1>1. to \in RateRange
  BY Clamped
<1>2. encoder_rate(to, d.fec) \in Int /\ encoder_rate(to, d.fec) <= to
  <2> HIDE DEF to
  <2> QED BY <1>1, Share DEF CtlOK
<1>3. /\ DOMAIN e = CtlFields
      /\ e.target = to /\ e.ceiling = d.ceiling
      /\ e.encoder = encoder_rate(to, d.fec)
      /\ e.point = d.point /\ e.point_cap = d.point_cap /\ e.fec = d.fec
      /\ e.probe_down = d.probe_down
  BY DEF apply_rate, CtlOK, CtlFields
<1> HIDE DEF e, to
<1>4. CtlOK(e)
  BY <1>1, <1>2, <1>3 DEF CtlOK
<1> QED BY <1>3, <1>4 DEF e, to

\* punish lowers the ceiling to the cut rate and leaves the target.
LEMMA Punished ==
  ASSUME NEW d, CtlOK(d), NEW bad \in RateRange
  PROVE  LET e == punish(d, bad)
         IN  /\ CtlOK(e)
             /\ e.target = d.target /\ e.ceiling = Cut(bad)
             /\ e.probe_down = d.probe_down
<1> DEFINE e == punish(d, bad)
<1>1. Cut(bad) \in RateRange
  <2>1. (bad * 85) \div 100 \in Int
    BY RateAssumption DEF RateRange
  <2> QED BY <2>1, Clamped DEF Cut
<1>2. /\ DOMAIN e = CtlFields
      /\ e.target = d.target /\ e.ceiling = Cut(bad)
      /\ e.encoder = d.encoder
      /\ e.point = d.point /\ e.point_cap = d.point_cap /\ e.fec = d.fec
      /\ e.probe_down = d.probe_down
  BY DEF punish, Cut, CtlOK, CtlFields
<1> HIDE DEF e
<1>3. CtlOK(e)
  BY <1>1, <1>2 DEF CtlOK
<1> QED BY <1>2, <1>3 DEF e

\* A step down the ladder leaves the rates.
LEMMA SteppedDown ==
  ASSUME NEW d, CtlOK(d), Lighter(d) # {}
  PROVE  LET e == StepDown(d)
         IN  /\ CtlOK(e)
             /\ e.target = d.target /\ e.ceiling = d.ceiling
             /\ e.probe_down = d.probe_down
<1> DEFINE next == CHOOSE i \in Lighter(d) : \A j \in Lighter(d) : i <= j
           e == StepDown(d)
<1>1. Lighter(d) \subseteq d.point + 1 .. Lowest
  BY DEF Lighter
<1>2. next \in Lighter(d)
  <2>1. Lighter(d) \subseteq Nat
    BY <1>1, Ladder DEF CtlOK
  <2> QED BY <2>1, Least
<1>3. next \in 1 .. Lowest
  BY <1>1, <1>2, Ladder DEF CtlOK
<1>4. /\ DOMAIN e = CtlFields
      /\ e.target = d.target /\ e.ceiling = d.ceiling
      /\ e.encoder = d.encoder
      /\ e.point = next /\ e.point_cap = next /\ e.fec = d.fec
      /\ e.probe_down = d.probe_down
  BY DEF StepDown, CtlOK, CtlFields
<1> HIDE DEF e, next
<1>5. CtlOK(e)
  BY <1>3, <1>4, Ladder DEF CtlOK
<1> QED BY <1>4, <1>5 DEF e

\* A queue-driven cut, by fifteen per cent or more, stays under the ceiling it
\* leaves: the ceiling is the cut rate, or higher.
LEMMA QueueCut ==
  ASSUME NEW d, CtlOK(d), NEW to \in Int, to <= (d.target * 85) \div 100
  PROVE  LET e == queue_cut(d, to)
         IN  /\ CtlOK(e) /\ e.probe_down = d.probe_down
             /\ d.target <= d.ceiling => e.target <= e.ceiling
<1> DEFINE cuts == Lower(d.queue_cuts + 1, Upper(HOST_BOUND_CUTS, 2))
           counted == [d EXCEPT !.queue_cuts = cuts]
           cut == punish(counted, d.target)
           kept == IF cuts > 1
                   THEN [cut EXCEPT !.ceiling = Upper(@, d.ceiling)] ELSE cut
           e == queue_cut(d, to)
<1> SUFFICES /\ CtlOK(e) /\ e.probe_down = d.probe_down
             /\ d.target <= d.ceiling => e.target <= e.ceiling
  BY Zenon
<1> HIDE DEF cuts
<1>1. CtlOK(counted) /\ counted.target = d.target
      /\ counted.ceiling = d.ceiling /\ counted.probe_down = d.probe_down
  <2>1. SameCore(d, counted)
    BY DEF SameCore, CtlOK, CtlFields
  <2> HIDE DEF counted
  <2> QED BY <2>1, SameOK DEF SameCore
<1>2. CASE Lighter(counted) # {} /\ e = StepDown(counted)
  <2> HIDE DEF counted, e
  <2> QED BY <1>1, <1>2, SteppedDown
<1>3. CASE e = apply_rate(kept, to)
  <2>1. CtlOK(cut) /\ cut.target = d.target /\ cut.ceiling = Cut(d.target)
        /\ cut.probe_down = d.probe_down
    <3> HIDE DEF counted
    <3> QED BY <1>1, Punished DEF CtlOK
  <2> HIDE DEF cut
  <2>2. CtlOK(kept) /\ kept.target = d.target
        /\ kept.probe_down = d.probe_down /\ Cut(d.target) <= kept.ceiling
    <3>1. Upper(cut.ceiling, d.ceiling) \in RateRange
          /\ Cut(d.target) <= Upper(cut.ceiling, d.ceiling)
      <4>1. cut.ceiling \in RateRange /\ d.ceiling \in RateRange
        BY <2>1 DEF CtlOK
      <4> QED BY <4>1, <2>1, RateNat DEF Upper
    <3>2. CASE cuts > 1
      <4>1. /\ DOMAIN kept = CtlFields
            /\ kept.target = cut.target
            /\ kept.ceiling = Upper(cut.ceiling, d.ceiling)
            /\ kept.encoder = cut.encoder /\ kept.point = cut.point
            /\ kept.point_cap = cut.point_cap /\ kept.fec = cut.fec
            /\ kept.probe_down = cut.probe_down
        BY <3>2, <2>1 DEF CtlOK, CtlFields
      <4> HIDE DEF kept
      <4> QED BY <4>1, <3>1, <2>1 DEF CtlOK
    <3>3. CASE ~(cuts > 1)
      <4>1. kept = cut /\ cut.ceiling \in Nat
        BY <3>3, <2>1, RateNat DEF CtlOK
      <4> HIDE DEF kept
      <4> QED BY <4>1, <2>1
    <3> QED BY <3>2, <3>3
  <2> HIDE DEF kept
  <2>3. CtlOK(e) /\ e.target = Clamp(to) /\ e.ceiling = kept.ceiling
        /\ e.probe_down = kept.probe_down
    BY <2>2, <1>3, ApplyRate
  <2>4. Clamp(to) <= Cut(d.target)
    BY <2>1, Monotone, RateBounds DEF Cut, CtlOK
  <2>5. Clamp(to) \in Int /\ Cut(d.target) \in Int /\ kept.ceiling \in Int
    <3>1. d.target \in Nat /\ kept.ceiling \in Nat
      BY <2>2, RateNat DEF CtlOK
    <3>2. (d.target * 85) \div 100 \in Int
      BY <3>1
    <3> QED BY <3>1, <3>2, Clamped, RateNat DEF Cut
  <2>6. e.target <= e.ceiling
    BY <2>2, <2>3, <2>4, <2>5
  <2> HIDE DEF e
  <2> QED BY <2>2, <2>3, <2>6
<1>4. \/ Lighter(counted) # {} /\ e = StepDown(counted)
      \/ e = apply_rate(kept, to)
  BY DEF queue_cut, cuts
<1> QED BY <1>2, <1>3, <1>4

\* A move to a point that the host can keep up with.
LEMMA Moved ==
  ASSUME NEW d, CtlOK(d), NEW i \in d.point_cap .. Lowest
  PROVE  LET e == [d EXCEPT !.point = i, !.point_age = 0, !.clean_at_point = 0]
         IN  /\ CtlOK(e)
             /\ e.target = d.target /\ e.ceiling = d.ceiling
             /\ e.probe_down = d.probe_down
<1> DEFINE e == [d EXCEPT !.point = i, !.point_age = 0, !.clean_at_point = 0]
<1>1. /\ DOMAIN e = CtlFields
      /\ e.target = d.target /\ e.ceiling = d.ceiling
      /\ e.encoder = d.encoder
      /\ e.point = i /\ e.point_cap = d.point_cap /\ e.fec = d.fec
      /\ e.probe_down = d.probe_down
  BY DEF CtlOK, CtlFields
<1> HIDE DEF e
<1>2. CtlOK(e)
  BY <1>1 DEF CtlOK
<1> QED BY <1>1, <1>2 DEF e

\* apply_ladder chooses such points only.
LEMMA Laddered ==
  ASSUME NEW d, CtlOK(d), NEW urgent
  PROVE  LET e == apply_ladder(d, urgent)
         IN  /\ CtlOK(e)
             /\ e.target = d.target /\ e.ceiling = d.ceiling
             /\ e.probe_down = d.probe_down
<1> DEFINE moved(i) == [d EXCEPT !.point = i, !.point_age = 0,
                                 !.clean_at_point = 0]
           e == apply_ladder(d, urgent)
           down == Lower(Upper(pick(d.target, 85, 100), d.point + 1), Lowest)
<1> SUFFICES /\ CtlOK(e)
             /\ e.target = d.target /\ e.ceiling = d.ceiling
             /\ e.probe_down = d.probe_down
  BY Zenon
<1>1. CASE e = d
  BY <1>1
<1>2. CASE Starved(d) /\ e = moved(down)
  <2>1. down \in d.point_cap .. Lowest
    BY <1>2, Picked, Ladder DEF Starved, CtlOK, Lower, Upper
  <2> HIDE DEF e, down
  <2> QED BY <1>2, <2>1, Moved
<1>3. CASE MayStepUp(d) /\ e = moved(Roomy(d))
  <2>1. Roomy(d) \in d.point_cap .. Lowest
    BY <1>3, Picked, Ladder DEF MayStepUp, Roomy, CtlOK, Upper
  <2> HIDE DEF e
  <2> QED BY <1>3, <2>1, Moved
<1>4. \/ e = d
      \/ Starved(d) /\ e = moved(down)
      \/ MayStepUp(d) /\ e = moved(Roomy(d))
  <2>1. apply_ladder(d, urgent) =
          IF d.manual \/ Lowest < 2 THEN d
          ELSE IF Starved(d)
          THEN IF MayStepDown(d, urgent) THEN moved(down) ELSE d
          ELSE IF MayStepUp(d) THEN moved(Roomy(d)) ELSE d
    BY Zenon DEF apply_ladder
  <2> HIDE DEF moved, down
  <2> QED BY <2>1
<1> QED BY <1>1, <1>2, <1>3, <1>4

\* The step from d to e keeps the bounds, and what was earned.
Sound(d, e) == CtlOK(e) /\ (Earned(d) => Earned(e))

\* The end of a window.
LEMMA Finished ==
  ASSUME NEW d, CtlOK(d)
  PROVE  Sound(d, finish(d))
<1> DEFINE c == [d EXCEPT !.startup_left = Upper(@ - 1, 0),
                          !.drain_left = Upper(@ - 1, 0)]
           l == apply_ladder(c, FALSE)
           e == [l EXCEPT !.encoder = encoder_rate(l.target, l.fec)]
<1>1. SameCore(d, c)
  BY DEF SameCore, CtlOK, CtlFields
<1> HIDE DEF c
<1>2. CtlOK(c) /\ (Earned(d) => Earned(c))
  BY <1>1, SameOK
<1>3. CtlOK(l) /\ (Earned(c) => Earned(l))
  BY <1>2, Laddered DEF Earned
<1> HIDE DEF l
<1>4. encoder_rate(l.target, l.fec) \in Int
      /\ encoder_rate(l.target, l.fec) <= l.target
  BY <1>3, Share DEF CtlOK
<1>5. /\ DOMAIN e = CtlFields
      /\ e.target = l.target /\ e.ceiling = l.ceiling
      /\ e.encoder = encoder_rate(l.target, l.fec)
      /\ e.point = l.point /\ e.point_cap = l.point_cap /\ e.fec = l.fec
      /\ e.probe_down = l.probe_down
  BY <1>3 DEF CtlOK, CtlFields
<1>6. finish(d) = e
  BY DEF finish, c, l
<1> HIDE DEF e
<1>7. CtlOK(e) /\ (Earned(l) => Earned(e))
  BY <1>3, <1>4, <1>5 DEF CtlOK, Earned
<1> QED BY <1>2, <1>3, <1>6, <1>7 DEF Sound

\* The counters of a window's beginning.
LEMMA OpenedSame ==
  ASSUME NEW s, CtlOK(ctl)
  PROVE  SameCore(ctl, Opened(s))
BY DEF SameCore, CtlOK, CtlFields, Opened

\* The end of a run of queue-driven cuts.
LEMMA RestedSame ==
  ASSUME NEW d, CtlOK(d), NEW s
  PROVE  SameCore(d, Rested(d, s))
BY DEF SameCore, CtlOK, CtlFields, Rested

\* A window in the deadband moves counters and the noise floor only.
LEMMA HeldSame ==
  ASSUME NEW d, CtlOK(d), NEW s
  PROVE  SameCore(d, HoldWindow(d, s))
<1> DEFINE idle == [d EXCEPT !.over = 0, !.clean = 0, !.at_ceiling = 0]
           a == [idle EXCEPT !.deadband = 0]
           b == [idle EXCEPT !.deadband = 0, !.noise_loss = Upper(@, s.loss)]
           c == [idle EXCEPT !.deadband = @ + 1]
<1>1. SameCore(d, idle)
  BY DEF SameCore, CtlOK, CtlFields
<1>2. HoldWindow(d, s) = a \/ HoldWindow(d, s) = b \/ HoldWindow(d, s) = c
  BY DEF HoldWindow
<1> HIDE DEF idle
<1>3. SameCore(d, a) /\ SameCore(d, b) /\ SameCore(d, c)
  BY <1>1 DEF SameCore, CtlFields
<1> HIDE DEF a, b, c
<1> QED BY <1>2, <1>3

\* The verdict on a probe-down: the restored rate was under the ceiling when
\* the probe began, and the ceiling the other verdict leaves is above the probed
\* rate.
LEMMA JudgedSound ==
  ASSUME NEW d, CtlOK(d), d.probe_down.on, NEW s
  PROVE  Sound(d, Judged(d, s))
<1> DEFINE pd == [d.probe_down EXCEPT !.windows = @ + 1, !.loss_acc = @ + s.loss]
           after == pd.loss_acc \div pd.windows
           over == [d EXCEPT !.probe_down = NoProbe]
           loud == [over EXCEPT !.noise_loss = Upper(@, after)]
           wait == [d EXCEPT !.probe_down = pd]
           e == Judged(d, s)
<1>1. /\ DOMAIN pd = ProbeFields /\ pd.on = d.probe_down.on
      /\ pd.from = d.probe_down.from /\ pd.from \in RateRange
  BY DEF CtlOK, ProbeOK, ProbeFields
<1>2. \/ e = wait
      \/ e = apply_rate(over, pd.from)
      \/ e = punish(over, pd.from)
      \/ e = apply_rate(loud, pd.from)
  BY DEF Judged
<1> HIDE DEF pd
<1>3. Sound(d, wait)
  <2>1. /\ DOMAIN wait = CtlFields
        /\ wait.target = d.target /\ wait.ceiling = d.ceiling
        /\ wait.encoder = d.encoder /\ wait.point = d.point
        /\ wait.point_cap = d.point_cap /\ wait.fec = d.fec
        /\ wait.probe_down = pd
    BY DEF CtlOK, CtlFields
  <2> HIDE DEF wait
  <2> QED BY <1>1, <2>1 DEF Sound, CtlOK, ProbeOK, Earned
<1>4. /\ CtlOK(over) /\ over.target = d.target /\ over.ceiling = d.ceiling
      /\ over.probe_down = NoProbe
  <2>1. /\ DOMAIN over = CtlFields
        /\ over.target = d.target /\ over.ceiling = d.ceiling
        /\ over.encoder = d.encoder /\ over.point = d.point
        /\ over.point_cap = d.point_cap /\ over.fec = d.fec
        /\ over.probe_down = NoProbe
    BY DEF CtlOK, CtlFields
  <2>2. ProbeOK(NoProbe)
    BY DEF ProbeOK, NoProbe, ProbeFields
  <2> HIDE DEF over
  <2> QED BY <2>1, <2>2 DEF CtlOK
<1> HIDE DEF over
<1>5. SameCore(over, loud)
  BY <1>4 DEF CtlOK, SameCore, CtlFields
<1> HIDE DEF loud, after
<1>6. CtlOK(loud)
  BY <1>4, <1>5, SameOK
<1>7. ~NoProbe.on
  BY DEF NoProbe
<1>8. ASSUME NEW o, CtlOK(o), o.ceiling = d.ceiling, o.probe_down = NoProbe,
             e = apply_rate(o, pd.from)
      PROVE  Sound(d, e)
  <2>1. pd.from \in Int
    BY <1>1, RateNat
  <2>2. /\ CtlOK(e) /\ e.target = Clamp(pd.from) /\ e.ceiling = o.ceiling
        /\ e.probe_down = o.probe_down
    BY <1>8, <2>1, ApplyRate
  <2>3. Clamp(pd.from) = pd.from
    BY <1>1, <2>1, Clamped
  <2> QED BY <1>1, <1>7, <1>8, <2>2, <2>3 DEF Sound, Earned
<1>9. CASE e = punish(over, pd.from)
  <2>1. /\ CtlOK(e) /\ e.target = over.target /\ e.ceiling = Cut(pd.from)
        /\ e.probe_down = over.probe_down
    BY <1>9, <1>1, <1>4, Punished
  <2> QED BY <1>1, <1>4, <1>7, <2>1 DEF Sound, Earned
<1>10. loud.ceiling = d.ceiling /\ loud.probe_down = NoProbe
  BY <1>4, <1>5 DEF SameCore
<1> HIDE DEF wait, e
<1> QED BY <1>2, <1>3, <1>4, <1>6, <1>8, <1>9, <1>10 DEF e

\* Four fifths of a rate, seven tenths and the half are below the cut one.
LEMMA Cuts ==
  ASSUME NEW r \in RateRange
  PROVE  /\ (r * 85) \div 100 \in Int /\ (r * 4) \div 5 \in Int
         /\ (r * 7) \div 10 \in Int /\ r \div 2 \in Int
         /\ (r * 4) \div 5 <= (r * 85) \div 100
         /\ (r * 7) \div 10 <= (r * 85) \div 100
         /\ r \div 2 <= (r * 85) \div 100
         /\ Cut(r) <= r /\ Cut(r) \in RateRange
<1>1. r \in Nat
  BY RateNat
<1>2. /\ (r * 85) \div 100 \in Int /\ (r * 4) \div 5 \in Int
      /\ (r * 7) \div 10 \in Int /\ r \div 2 \in Int
      /\ (r * 4) \div 5 <= (r * 85) \div 100
      /\ (r * 7) \div 10 <= (r * 85) \div 100
      /\ r \div 2 <= (r * 85) \div 100
      /\ (r * 85) \div 100 <= r
  BY <1>1
<1>3. Cut(r) <= r /\ Cut(r) \in RateRange
  BY <1>2, Clamped DEF Cut
<1> QED BY <1>2, <1>3

\* A punished rate that is cut to less than its ceiling.
LEMMA PunishedCut ==
  ASSUME NEW d, CtlOK(d), ~d.probe_down.on,
         NEW to \in Int, to <= (d.target * 85) \div 100
  PROVE  Sound(d, apply_rate(punish(d, d.target), to))
<1> DEFINE p == punish(d, d.target)
           e == apply_rate(p, to)
<1>1. CtlOK(p) /\ p.ceiling = Cut(d.target) /\ p.probe_down = d.probe_down
  BY Punished DEF CtlOK
<1> HIDE DEF p
<1>2. /\ CtlOK(e) /\ e.target = Clamp(to) /\ e.ceiling = p.ceiling
      /\ e.probe_down = p.probe_down
  BY <1>1, ApplyRate
<1>3. Clamp(to) <= Cut(d.target)
  BY Cuts, Monotone DEF Cut, CtlOK
<1> HIDE DEF e
<1>4. Sound(d, e)
  BY <1>1, <1>2, <1>3 DEF Sound, Earned
<1> QED BY <1>4 DEF e, p

\* A lossy window punishes and cuts, or begins a probe-down whose rate is
\* below what a verdict could leave as the ceiling.
LEMMA LossSound ==
  ASSUME NEW d, CtlOK(d), ~d.probe_down.on, NEW s
  PROVE  Sound(d, LossWindow(d, s))
<1> DEFINE hit == [d EXCEPT !.over = Lower(@ + 1, 2), !.clean = 0,
                            !.at_ceiling = 0, !.clean_at_point = 0]
           pd == [on |-> TRUE, from |-> hit.target, pre_loss |-> s.loss,
                  windows |-> 0, loss_acc |-> 0, fec |-> hit.fec]
           tried == [hit EXCEPT !.over = 0, !.probe_down = pd]
           e == LossWindow(d, s)
<1>1. SameCore(d, hit)
  BY DEF SameCore, CtlOK, CtlFields
<1>2. \/ e = hit
      \/ e = apply_rate(punish(hit, hit.target), (hit.target * 7) \div 10)
      \/ e = apply_rate(tried, (hit.target * 4) \div 5)
  BY DEF LossWindow
<1> HIDE DEF hit
<1>3. CtlOK(hit) /\ (Earned(d) => Earned(hit)) /\ ~hit.probe_down.on
  BY <1>1, SameOK DEF SameCore
<1>4. hit.target \in RateRange
  BY <1>3 DEF CtlOK
<1>5. CASE e = hit
  BY <1>3, <1>5 DEF Sound
<1>6. CASE e = apply_rate(punish(hit, hit.target), (hit.target * 7) \div 10)
  <2> HIDE DEF e
  <2>1. Sound(hit, e)
    BY <1>3, <1>4, <1>6, Cuts, PunishedCut
  <2> QED BY <1>3, <2>1 DEF Sound, e
<1>7. CASE e = apply_rate(tried, (hit.target * 4) \div 5)
  <2>1. /\ DOMAIN tried = CtlFields
        /\ tried.target = hit.target /\ tried.ceiling = hit.ceiling
        /\ tried.encoder = hit.encoder /\ tried.point = hit.point
        /\ tried.point_cap = hit.point_cap /\ tried.fec = hit.fec
        /\ tried.probe_down = pd
    BY <1>3 DEF CtlOK, CtlFields
  <2>2. ProbeOK(pd) /\ pd.from = hit.target
    BY <1>4 DEF ProbeOK, ProbeFields
  <2> HIDE DEF tried, pd, e
  <2>3. CtlOK(tried)
    BY <1>3, <2>1, <2>2 DEF CtlOK
  <2>4. (hit.target * 4) \div 5 \in Int
        /\ (hit.target * 4) \div 5 <= (hit.target * 85) \div 100
        /\ (hit.target * 85) \div 100 \in Int
    BY <1>4, Cuts
  <2>5. /\ CtlOK(e) /\ e.target = Clamp((hit.target * 4) \div 5)
        /\ e.ceiling = hit.ceiling /\ e.probe_down = pd
    BY <1>7, <2>1, <2>3, <2>4, ApplyRate
  <2>6. e.target <= Cut(hit.target)
    BY <2>4, <2>5, Monotone DEF Cut
  <2>7. e.target \in Nat /\ Cut(hit.target) \in Nat /\ hit.target \in Nat
        /\ hit.ceiling \in Nat /\ Cut(hit.target) <= hit.target
    BY <1>3, <1>4, <2>5, Cuts, RateNat DEF CtlOK
  <2>8. Earned(hit) => Earned(e)
    BY <2>2, <2>5, <2>6, <2>7 DEF Earned
  <2> QED BY <1>3, <2>5, <2>8 DEF Sound, e
<1> QED BY <1>2, <1>5, <1>6, <1>7

\* A clean window's credits; the heaviest point is retried one at a time.
LEMMA CreditedOK ==
  ASSUME NEW d, CtlOK(d)
  PROVE  LET e == Credited(d)
         IN  /\ CtlOK(e)
             /\ e.target = d.target /\ e.ceiling = d.ceiling
             /\ e.probe_down = d.probe_down
<1> DEFINE capped == d.point_cap > 1 /\ d.point = d.point_cap
           retry == capped /\ d.at_point_cap + 1 >= d.point_retry
           e == Credited(d)
<1>1. /\ DOMAIN e = CtlFields
      /\ e.target = d.target /\ e.ceiling = d.ceiling
      /\ e.encoder = d.encoder
      /\ e.point = d.point
      /\ e.point_cap = IF retry THEN d.point_cap - 1 ELSE d.point_cap
      /\ e.fec = d.fec /\ e.probe_down = d.probe_down
  BY DEF CtlOK, CtlFields, Credited
<1>2. /\ e.point_cap \in 1 .. Lowest
      /\ e.point \in e.point_cap .. Lowest
  <2> HIDE DEF e
  <2> QED BY <1>1, Ladder DEF CtlOK
<1> HIDE DEF e
<1>3. CtlOK(e)
  BY <1>1, <1>2 DEF CtlOK
<1> QED BY <1>1, <1>3 DEF e

\* A climb stops at the ceiling.
LEMMA ClimbSound ==
  ASSUME NEW d, CtlOK(d), ~d.probe_down.on
  PROVE  Sound(d, Climb(d))
<1> DEFINE counted == [d EXCEPT !.clean = @ + 1, !.at_ceiling = 0]
           ready == [counted EXCEPT !.clean = 0]
           up == (d.target * 3) \div 2
           some == (d.target * 5) \div 4
           e == Climb(d)
<1>1. SameCore(d, counted)
  BY DEF SameCore, CtlOK, CtlFields
<1>2. \/ e = counted
      \/ e = apply_rate(ready, Lower(up, d.ceiling))
      \/ e = apply_rate(ready, Lower(some, d.ceiling))
  BY DEF Climb
<1> HIDE DEF counted
<1>3. SameCore(d, ready)
  BY <1>1 DEF SameCore, CtlFields
<1> HIDE DEF ready, e
<1>4. CtlOK(ready) /\ ready.ceiling = d.ceiling
      /\ ready.probe_down = d.probe_down
  BY <1>3, SameOK DEF SameCore
<1>5. d.target \in Nat /\ d.ceiling \in Nat /\ d.ceiling \in RateRange
  BY RateNat DEF CtlOK
<1>6. ASSUME NEW k \in Int, e = apply_rate(ready, Lower(k, d.ceiling))
      PROVE  Sound(d, e)
  <2>1. Lower(k, d.ceiling) \in Int /\ Lower(k, d.ceiling) <= d.ceiling
    BY <1>5 DEF Lower
  <2>2. /\ CtlOK(e) /\ e.target = Clamp(Lower(k, d.ceiling))
        /\ e.ceiling = d.ceiling /\ e.probe_down = d.probe_down
    BY <1>4, <1>6, <2>1, ApplyRate
  <2>3. e.target <= d.ceiling
    BY <1>5, <2>1, <2>2, Clamped
  <2> QED BY <2>2, <2>3 DEF Sound, Earned
<1>7. CASE e = counted
  BY <1>1, <1>7, SameOK DEF Sound, e
<1>8. up \in Int /\ some \in Int
  BY <1>5
<1> HIDE DEF up, some
<1> QED BY <1>2, <1>6, <1>7, <1>8 DEF e

\* A probe lifts the ceiling with the target.
LEMMA ProbeSound ==
  ASSUME NEW d, CtlOK(d), ~d.probe_down.on
  PROVE  Sound(d, Probe(d))
<1> DEFINE waited == [d EXCEPT !.clean = 0,
                               !.at_ceiling = Lower(@ + 1, PROBE_WAIT_MAX)]
           next == Lower((d.target * 11) \div 10, CAP)
           raised == [waited EXCEPT !.at_ceiling = 0, !.probe_age = 0,
                                    !.ceiling = Upper(next, @)]
           e == Probe(d)
<1>1. SameCore(d, waited)
  BY DEF SameCore, CtlOK, CtlFields
<1>2. e = waited \/ e = apply_rate(raised, next)
  BY DEF Probe
<1> HIDE DEF waited
<1>3. CASE e = waited
  BY <1>1, <1>3, SameOK DEF Sound
<1>4. CASE e = apply_rate(raised, next)
  <2>1. d.target \in Nat /\ d.ceiling \in Nat
    BY RateNat DEF CtlOK
  <2>2. next \in RateRange /\ next \in Nat
    <3>1. /\ (d.target * 11) \div 10 \in Nat
          /\ d.target <= (d.target * 11) \div 10
      BY <2>1
    <3>2. FLOOR_KBPS <= d.target /\ CAP \in Nat /\ FLOOR_KBPS \in Nat
          /\ FLOOR_KBPS <= CAP
      BY RateAssumption DEF RateRange, CtlOK
    <3> QED BY <2>1, <3>1, <3>2 DEF Lower, RateRange
  <2> HIDE DEF next
  <2>3. Upper(next, d.ceiling) \in RateRange /\ next <= Upper(next, d.ceiling)
    BY <2>1, <2>2 DEF Upper, CtlOK
  <2>4. /\ DOMAIN raised = CtlFields
        /\ raised.target = d.target
        /\ raised.ceiling = Upper(next, d.ceiling)
        /\ raised.encoder = d.encoder /\ raised.point = d.point
        /\ raised.point_cap = d.point_cap /\ raised.fec = d.fec
        /\ raised.probe_down = d.probe_down
    BY <1>1 DEF SameCore, CtlFields
  <2> HIDE DEF raised, e
  <2>5. CtlOK(raised)
    BY <2>3, <2>4 DEF CtlOK
  <2>6. /\ CtlOK(e) /\ e.target = Clamp(next)
        /\ e.ceiling = raised.ceiling /\ e.probe_down = d.probe_down
    BY <1>4, <2>2, <2>4, <2>5, ApplyRate
  <2>7. Clamp(next) = next
    BY <2>2, Clamped
  <2>8. e.target <= e.ceiling
    BY <2>3, <2>4, <2>6, <2>7
  <2> QED BY <2>6, <2>8 DEF Sound, Earned, e
<1> QED BY <1>2, <1>3, <1>4

\* A clean window climbs or probes.
LEMMA CleanSound ==
  ASSUME NEW d, CtlOK(d), ~d.probe_down.on
  PROVE  Sound(d, CleanWindow(d))
<1> DEFINE c == Credited(d)
<1>1. CtlOK(c) /\ ~c.probe_down.on /\ (Earned(d) => Earned(c))
  BY CreditedOK DEF Earned
<1>2. CleanWindow(d) = Climb(c) \/ CleanWindow(d) = Probe(c)
  BY DEF CleanWindow
<1> HIDE DEF c
<1>3. Sound(c, Climb(c)) /\ Sound(c, Probe(c))
  BY <1>1, ClimbSound, ProbeSound
<1> QED BY <1>1, <1>2, <1>3 DEF Sound

\* Whatever branch a window takes.
LEMMA WindowedSound ==
  ASSUME NEW d, CtlOK(d), NEW s
  PROVE  Sound(d, Windowed(d, s))
<1> DEFINE b == Branch(d, s)
           r == Rested(d, s)
           e == Windowed(d, s)
<1>1. CASE d.probe_down.on
  <2>1. e = Judged(d, s)
    BY <1>1 DEF Windowed, Branch
  <2> QED BY <1>1, <2>1, JudgedSound
<1>2. CASE ~d.probe_down.on
  <2>1. b # "judge"
    BY <1>2 DEF Branch
  <2>2. \/ e = queue_cut(d, (d.target * 85) \div 100)
        \/ e = queue_cut(d, d.target \div 2)
        \/ e = queue_cut(d, (d.target * 7) \div 10)
        \/ e = apply_rate(punish(r, r.target), r.target \div 2)
        \/ e = LossWindow(r, s)
        \/ e = CleanWindow(r)
        \/ e = HoldWindow(r, s)
    <3> HIDE DEF b, r
    <3>1. Windowed(d, s) =
            IF b = "judge" THEN Judged(d, s)
            ELSE IF b = "overuse" THEN queue_cut(d, (d.target * 85) \div 100)
            ELSE IF b = "bloat"
            THEN queue_cut(d, IF s.excess >= RTT_BAD_MS THEN d.target \div 2
                              ELSE (d.target * 7) \div 10)
            ELSE IF b = "severe" THEN apply_rate(punish(r, r.target),
                                                 r.target \div 2)
            ELSE IF b = "lossy" THEN LossWindow(r, s)
            ELSE IF b = "clean" THEN CleanWindow(r)
            ELSE HoldWindow(r, s)
      BY Zenon DEF Windowed, b, r
    <3>2. CASE s.excess >= RTT_BAD_MS
      BY <2>1, <3>1, <3>2
    <3>3. CASE ~(s.excess >= RTT_BAD_MS)
      BY <2>1, <3>1, <3>3
    <3> QED BY <3>2, <3>3
  <2> HIDE DEF e
  <2>3. d.target \in RateRange
    BY DEF CtlOK
  <2>4. ASSUME NEW to \in Int, to <= (d.target * 85) \div 100,
               e = queue_cut(d, to)
        PROVE  Sound(d, e)
    <3>1. /\ CtlOK(e) /\ e.probe_down = d.probe_down
          /\ d.target <= d.ceiling => e.target <= e.ceiling
      BY <2>4, QueueCut
    <3> QED BY <1>2, <3>1 DEF Sound, Earned
  <2>5. /\ e = queue_cut(d, (d.target * 85) \div 100) => Sound(d, e)
        /\ e = queue_cut(d, d.target \div 2) => Sound(d, e)
        /\ e = queue_cut(d, (d.target * 7) \div 10) => Sound(d, e)
    BY <2>3, <2>4, Cuts
  <2>6. SameCore(d, r)
    BY RestedSame
  <2> HIDE DEF r
  <2>7. CtlOK(r) /\ (Earned(d) => Earned(r)) /\ ~r.probe_down.on
        /\ r.target \in RateRange
    BY <1>2, <2>6, SameOK DEF SameCore, CtlOK
  <2>8. Sound(r, apply_rate(punish(r, r.target), r.target \div 2))
    BY <2>7, Cuts, PunishedCut
  <2>9. Sound(r, LossWindow(r, s)) /\ Sound(r, CleanWindow(r))
    BY <2>7, LossSound, CleanSound
  <2>10. Sound(r, HoldWindow(r, s))
    BY <2>7, HeldSame, SameOK DEF Sound
  <2> QED BY <2>2, <2>5, <2>7, <2>8, <2>9, <2>10 DEF Sound, e
<1> QED BY <1>1, <1>2

\* The inductive invariant of both properties.  An excuse is needed only as long
\* as the controller has not settled.
RateInv ==
    /\ CtlOK(ctl)
    /\ pinned \in BOOLEAN /\ undone \in BOOLEAN
    /\ Earned(ctl) \/ pinned \/ undone

\* A new controller starts at its cap.
LEMMA RateInitInv == RateInit => RateInv
<1> SUFFICES ASSUME RateInit PROVE RateInv
  OBVIOUS
<1>1. PICK start \in Starts, ladder \in Ladders :
        ctl = NewController(start, ladder)
  BY DEF RateInit
<1>2. start \in RateRange /\ CAP \in RateRange
  BY RateAssumption DEF RateRange
<1>3. /\ DOMAIN ctl = CtlFields
      /\ ctl.target = start /\ ctl.ceiling = CAP
      /\ ctl.encoder = encoder_rate(start, 0)
      /\ ctl.point = IF ladder THEN pick(start, 85, 100) ELSE 1
      /\ ctl.point_cap = 1 /\ ctl.fec = 0
      /\ ctl.probe_down = NoProbe
  BY <1>1 DEF NewController, CtlFields
<1>4. encoder_rate(start, 0) \in Int /\ encoder_rate(start, 0) <= start
  BY <1>2, Share
<1>5. ctl.point \in 1 .. Lowest
  BY <1>3, Picked, Ladder
<1>6. ProbeOK(NoProbe) /\ ~NoProbe.on
  BY DEF ProbeOK, NoProbe, ProbeFields
<1>7. CtlOK(ctl)
  BY <1>2, <1>3, <1>4, <1>5, <1>6, Ladder DEF CtlOK
<1>8. Earned(ctl)
  <2>1. start <= CAP
    BY <1>2, RateAssumption DEF RateRange
  <2> QED BY <1>3, <1>6, <2>1 DEF Earned
<1> QED BY <1>7, <1>8, Zenon DEF RateInit, RateInv

\* What the history of a step keeps: an excuse lasts until the controller has
\* settled, so that the new record need only have earned its ceiling when the
\* old one had and the step brings no excuse of its own.
LEMMA NotedInv ==
  ASSUME RateInv, NEW d, CtlOK(d), NEW pin \in BOOLEAN, NEW undo \in BOOLEAN,
         Noted(d, pin, undo),
         Earned(ctl) /\ ~pin /\ ~undo => Earned(d)
  PROVE  RateInv'
<1> DEFINE settled == d.target <= d.ceiling /\ ~d.probe_down.on
<1>1. /\ ctl' = d
      /\ pinned' = ((pinned \/ pin) /\ ~settled)
      /\ undone' = ((undone \/ undo) /\ ~settled)
  BY DEF Noted
<1>2. settled => Earned(d)
  BY DEF Earned
<1> HIDE DEF settled
<1>3. pinned' \in BOOLEAN /\ undone' \in BOOLEAN
  BY <1>1, Zenon
<1>4. Earned(d) \/ pinned' \/ undone'
  BY <1>1, <1>2, Zenon DEF RateInv
<1>5. CtlOK(ctl') /\ (Earned(d) => Earned(ctl'))
  BY <1>1
<1> QED BY <1>3, <1>4, <1>5, Zenon DEF RateInv

\* Every window, fast cut, pin and setting keeps the invariant.
LEMMA RateNextInv == RateInv /\ [RateNext]_rvars => RateInv'
<1> SUFFICES ASSUME RateInv, [RateNext]_rvars PROVE RateInv'
  OBVIOUS
<1>0. CtlOK(ctl)
  BY DEF RateInv
<1>1. ASSUME NEW s \in Samples, Tick(s) PROVE RateInv'
  <2> DEFINE o == Opened(s)
             w == Windowed(o, s)
             d == finish(w)
  <2>1. Noted(d, FALSE, FALSE)
    BY <1>1, Zenon DEF Tick
  <2>2. CtlOK(o) /\ (Earned(ctl) => Earned(o))
    BY <1>0, OpenedSame, SameOK
  <2> HIDE DEF o
  <2>3. CtlOK(w) /\ (Earned(o) => Earned(w))
    BY <2>2, WindowedSound DEF Sound
  <2> HIDE DEF w
  <2>4. CtlOK(d) /\ (Earned(w) => Earned(d))
    BY <2>3, Finished DEF Sound
  <2> HIDE DEF d
  <2> QED BY <2>1, <2>2, <2>3, <2>4, NotedInv
<1>2. ASSUME NEW signal, OnFrame(signal) PROVE RateInv'
  BY <1>2 DEF OnFrame, RateInv
<1>3. CASE StreamRestart
  BY <1>3 DEF StreamRestart, RateInv
<1>4. CASE PollFast
  <2> DEFINE q == queue_cut(ctl, (ctl.target * 85) \div 100)
             d == apply_ladder(q, TRUE)
  <2>1. Noted(d, FALSE, ctl.probe_down.on)
    BY <1>4, Zenon DEF PollFast
  <2>2. (ctl.target * 85) \div 100 \in Int
    BY <1>0, Cuts DEF CtlOK
  <2>3. /\ CtlOK(q) /\ q.probe_down = ctl.probe_down
        /\ ctl.target <= ctl.ceiling => q.target <= q.ceiling
    BY <1>0, <2>2, QueueCut
  <2> HIDE DEF q
  <2>4. /\ CtlOK(d) /\ d.target = q.target /\ d.ceiling = q.ceiling
        /\ d.probe_down = q.probe_down
    BY <2>3, Laddered
  <2> HIDE DEF d
  <2>5. Earned(ctl) /\ ~ctl.probe_down.on => Earned(d)
    BY <2>3, <2>4 DEF Earned
  <2>6. ctl.probe_down.on = TRUE \/ ctl.probe_down.on = FALSE
    BY <1>0 DEF CtlOK, ProbeOK
  <2>7. CASE ctl.probe_down.on = TRUE
    <3>1. Noted(d, FALSE, TRUE)
      BY <2>1, <2>7
    <3> QED BY <2>4, <3>1, NotedInv
  <2>8. CASE ctl.probe_down.on = FALSE
    <3>1. Noted(d, FALSE, FALSE)
      BY <2>1, <2>8
    <3> QED BY <2>4, <2>5, <2>8, <3>1, NotedInv
  <2> QED BY <2>6, <2>7, <2>8
<1>5. ASSUME NEW kbps \in Starts, SetTarget(kbps) PROVE RateInv'
  <2> DEFINE to == Clamp(kbps)
             d == [ctl EXCEPT !.target = to, !.since_step = 0,
                              !.encoder = encoder_rate(to, ctl.fec)]
  <2>1. Noted(d, TRUE, ctl.probe_down.on)
    BY <1>5, Zenon DEF SetTarget
  <2>2. to \in RateRange
    BY Clamped, RateAssumption
  <2> HIDE DEF to
  <2>3. encoder_rate(to, ctl.fec) \in Int /\ encoder_rate(to, ctl.fec) <= to
    BY <1>0, <2>2, Share DEF CtlOK
  <2>4. /\ DOMAIN d = CtlFields
        /\ d.target = to /\ d.ceiling = ctl.ceiling
        /\ d.encoder = encoder_rate(to, ctl.fec)
        /\ d.point = ctl.point /\ d.point_cap = ctl.point_cap
        /\ d.fec = ctl.fec /\ d.probe_down = ctl.probe_down
    BY <1>0 DEF CtlOK, CtlFields
  <2> HIDE DEF d
  <2>5. CtlOK(d)
    BY <1>0, <2>2, <2>3, <2>4 DEF CtlOK
  <2>6. ctl.probe_down.on = TRUE \/ ctl.probe_down.on = FALSE
    BY <1>0 DEF CtlOK, ProbeOK
  <2>7. Noted(d, TRUE, TRUE) \/ Noted(d, TRUE, FALSE)
    BY <2>1, <2>6
  <2> QED BY <2>5, <2>7, NotedInv
<1>6. ASSUME NEW manual \in BOOLEAN, SetManualPoint(manual) PROVE RateInv'
  <2> DEFINE p == Upper(pick(ctl.target, 85, 100), ctl.point_cap)
             on == [ctl EXCEPT !.manual = TRUE]
             off == [ctl EXCEPT !.manual = FALSE, !.point_age = 0, !.point = p]
  <2>1. Noted(on, FALSE, FALSE) \/ Noted(off, FALSE, FALSE)
    BY <1>6 DEF SetManualPoint
  <2>2. SameCore(ctl, on)
    BY <1>0 DEF SameCore, CtlOK, CtlFields
  <2>3. p \in ctl.point_cap .. Lowest
    BY <1>0, Picked, Ladder DEF Upper, CtlOK
  <2> HIDE DEF p
  <2>4. /\ DOMAIN off = CtlFields
        /\ off.target = ctl.target /\ off.ceiling = ctl.ceiling
        /\ off.encoder = ctl.encoder
        /\ off.point = p /\ off.point_cap = ctl.point_cap
        /\ off.fec = ctl.fec /\ off.probe_down = ctl.probe_down
    BY <1>0 DEF CtlOK, CtlFields
  <2> HIDE DEF on, off
  <2>5. CtlOK(on) /\ (Earned(ctl) => Earned(on))
    BY <1>0, <2>2, SameOK
  <2>6. CtlOK(off) /\ (Earned(ctl) => Earned(off))
    BY <1>0, <2>3, <2>4 DEF CtlOK, Earned
  <2> QED BY <2>1, <2>5, <2>6, NotedInv
<1>7. ASSUME NEW r \in Overheads, SetFecOverhead(r) PROVE RateInv'
  <2> DEFINE d == [ctl EXCEPT !.fec = r]
  <2>1. Noted(d, FALSE, FALSE)
    BY <1>7 DEF SetFecOverhead
  <2>2. /\ DOMAIN d = CtlFields
        /\ d.target = ctl.target /\ d.ceiling = ctl.ceiling
        /\ d.encoder = ctl.encoder
        /\ d.point = ctl.point /\ d.point_cap = ctl.point_cap
        /\ d.fec = r /\ d.probe_down = ctl.probe_down
    BY <1>0 DEF CtlOK, CtlFields
  <2>3. r \in Nat
    BY RateAssumption
  <2> HIDE DEF d
  <2>4. CtlOK(d) /\ (Earned(ctl) => Earned(d))
    BY <1>0, <2>2, <2>3 DEF CtlOK, Earned
  <2> QED BY <2>1, <2>4, NotedInv
<1>8. CASE UNCHANGED rvars
  BY <1>8 DEF rvars, RateInv
<1> QED
  BY <1>1, <1>2, <1>3, <1>4, <1>5, <1>6, <1>7, <1>8, Zenon DEF RateNext

\* For every floor, cap, ladder and set of thresholds, however cuts, probes,
\* restores, pins and FEC changes follow each other, target and ceiling stay in
\* their bounds, the encoder gets no more than the target, and the ladder is no
\* heavier than the host was found to keep up with.
THEOREM RateSafety == RateSpec => []RateBounded
<1>1. RateInv => RateBounded
  BY DEF RateInv, CtlOK, RateBounded, RateRange
<1> QED BY <1>1, RateInitInv, RateNextInv, PTL DEF RateSpec

\* The controller itself never runs above its punished ceiling: only a rate the
\* user pinned, or the restore of a probe-down that was cut short, does.
THEOREM CeilingSafety == RateSpec => []CeilingEarned
<1>1. RateInv => CeilingEarned
  <2> SUFFICES ASSUME RateInv, ctl.target > ctl.ceiling
               PROVE  pinned \/ undone
    BY DEF CeilingEarned
  <2>1. ctl.target \in Nat /\ ctl.ceiling \in Nat
    BY RateNat DEF RateInv, CtlOK
  <2>2. ~Earned(ctl)
    BY <2>1 DEF Earned
  <2> QED BY <2>2, Zenon DEF RateInv
<1> QED BY <1>1, RateInitInv, RateNextInv, PTL DEF RateSpec

-----------------------------------------------------------------------------
(* The controller: its waits, and the way back to the cap.                 *)

\* The bounds of the waits: each ends, at the latest where its counter does.
CountOK(d) ==
    /\ d.noise_loss \in Nat
    /\ d.clean \in 0 .. Upper(CLEAN_WINDOWS_UP, 2)
    /\ d.at_ceiling \in 0 .. PROBE_WAIT_MAX
    /\ d.probe_wait \in 0 .. PROBE_WAIT_MAX
    /\ d.probe_down.on => /\ d.probe_down.windows \in 0 .. PROBE_DOWN_WINDOWS - 1
                          /\ d.probe_down.loss_acc \in Nat

\* e's waits are d's.
SameWaits(d, e) ==
    /\ e.noise_loss = d.noise_loss /\ e.clean = d.clean
    /\ e.at_ceiling = d.at_ceiling /\ e.probe_wait = d.probe_wait
    /\ e.probe_down = d.probe_down

\* Same waits, same bounds.
LEMMA SameWaitsOK ==
  ASSUME NEW d, NEW e, CountOK(d), SameWaits(d, e)
  PROVE  CountOK(e)
BY DEF CountOK, SameWaits

\* apply_rate touches no wait.
LEMMA ApplyWaits ==
  ASSUME NEW d, CtlOK(d), NEW k
  PROVE  SameWaits(d, apply_rate(d, k))
BY DEF SameWaits, CtlOK, CtlFields, apply_rate

\* Nor does a step down the ladder,
LEMMA StepWaits ==
  ASSUME NEW d, CtlOK(d)
  PROVE  SameWaits(d, StepDown(d))
BY DEF SameWaits, CtlOK, CtlFields, StepDown

\* nor the end of a run of cuts,
LEMMA RestedWaits ==
  ASSUME NEW d, CtlOK(d), NEW s
  PROVE  SameWaits(d, Rested(d, s))
BY DEF SameWaits, CtlOK, CtlFields, Rested

\* nor apply_ladder.
LEMMA LadderWaits ==
  ASSUME NEW d, CtlOK(d), NEW urgent
  PROVE  SameWaits(d, apply_ladder(d, urgent))
<1> DEFINE moved(i) == [d EXCEPT !.point = i, !.point_age = 0,
                                 !.clean_at_point = 0]
           e == apply_ladder(d, urgent)
           down == Lower(Upper(pick(d.target, 85, 100), d.point + 1), Lowest)
<1>1. \A i : SameWaits(d, moved(i))
  BY DEF SameWaits, CtlOK, CtlFields
<1>2. e = d \/ \E i : e = moved(i)
  <2>1. apply_ladder(d, urgent) =
          IF d.manual \/ Lowest < 2 THEN d
          ELSE IF Starved(d)
          THEN IF MayStepDown(d, urgent) THEN moved(down) ELSE d
          ELSE IF MayStepUp(d) THEN moved(Roomy(d)) ELSE d
    BY Zenon DEF apply_ladder
  <2> HIDE DEF moved, down
  <2> QED BY <2>1
<1>3. SameWaits(d, d)
  BY DEF SameWaits
<1> HIDE DEF moved, e
<1> QED BY <1>1, <1>2, <1>3 DEF e

\* The end of a window touches neither waits nor rates.
LEMMA FinishWaits ==
  ASSUME NEW d, CtlOK(d)
  PROVE  LET e == finish(d)
         IN  SameWaits(d, e) /\ e.target = d.target /\ e.ceiling = d.ceiling
<1> DEFINE c == [d EXCEPT !.startup_left = Upper(@ - 1, 0),
                          !.drain_left = Upper(@ - 1, 0)]
           l == apply_ladder(c, FALSE)
           e == [l EXCEPT !.encoder = encoder_rate(l.target, l.fec)]
<1>1. SameCore(d, c) /\ SameWaits(d, c)
  BY DEF SameCore, SameWaits, CtlOK, CtlFields
<1> HIDE DEF c
<1>2. CtlOK(c)
  BY <1>1, SameOK
<1>3. CtlOK(l) /\ SameWaits(c, l) /\ l.target = c.target
      /\ l.ceiling = c.ceiling
  BY <1>2, Laddered, LadderWaits
<1> HIDE DEF l
<1>4. SameWaits(l, e) /\ e.target = l.target /\ e.ceiling = l.ceiling
  BY <1>3 DEF SameWaits, CtlOK, CtlFields
<1>5. finish(d) = e
  BY DEF finish, c, l
<1> HIDE DEF e
<1> QED BY <1>1, <1>3, <1>4, <1>5 DEF SameWaits, SameCore

\* punish doubles the wait of a failed probe, up to its maximum.
LEMMA PunishWaits ==
  ASSUME NEW d, CtlOK(d), CountOK(d), NEW bad
  PROVE  CountOK(punish(d, bad))
<1> DEFINE e == punish(d, bad)
<1>1. /\ e.noise_loss = d.noise_loss /\ e.clean = 0 /\ e.at_ceiling = 0
      /\ e.probe_wait = IF d.probe_age \in 0 .. PROBE_PUNISH_WINDOWS
                        THEN Lower(d.probe_wait * 2, PROBE_WAIT_MAX)
                        ELSE d.probe_wait
      /\ e.probe_down = d.probe_down
  BY DEF punish, CtlOK, CtlFields
<1>2. e.probe_wait \in 0 .. PROBE_WAIT_MAX
  BY <1>1, WindowAssumption DEF Lower, CountOK
<1>3. 0 \in 0 .. Upper(CLEAN_WINDOWS_UP, 2) /\ 0 \in 0 .. PROBE_WAIT_MAX
  BY WindowAssumption DEF Upper
<1> HIDE DEF e
<1>4. CountOK(e)
  BY <1>1, <1>2, <1>3 DEF CountOK
<1> QED BY <1>4 DEF e

\* A queue-driven cut keeps the waits in their bounds.
LEMMA QueueWaits ==
  ASSUME NEW d, CtlOK(d), CountOK(d), NEW to \in Int
  PROVE  CountOK(queue_cut(d, to))
<1> DEFINE cuts == Lower(d.queue_cuts + 1, Upper(HOST_BOUND_CUTS, 2))
           counted == [d EXCEPT !.queue_cuts = cuts]
           cut == punish(counted, d.target)
           up == [cut EXCEPT !.ceiling = Upper(@, d.ceiling)]
           kept == IF cuts > 1 THEN up ELSE cut
           e == queue_cut(d, to)
<1>1. e = StepDown(counted) \/ e = apply_rate(up, to) \/ e = apply_rate(cut, to)
  <2>1. e = IF cuts >= HOST_BOUND_CUTS /\ Lighter(counted) # {}
            THEN StepDown(counted) ELSE apply_rate(kept, to)
    BY Zenon DEF queue_cut
  <2> HIDE DEF e, counted, cuts, cut, up
  <2> QED BY <2>1
<1> HIDE DEF cuts
<1>2. SameCore(d, counted) /\ SameWaits(d, counted)
  BY DEF SameCore, SameWaits, CtlOK, CtlFields
<1> HIDE DEF counted
<1>3. CtlOK(counted) /\ CountOK(counted)
  BY <1>2, SameOK, SameWaitsOK
<1>4. CountOK(StepDown(counted))
  BY <1>3, StepWaits, SameWaitsOK
<1>5. CtlOK(cut) /\ CountOK(cut) /\ cut.ceiling \in RateRange
  BY <1>3, PunishWaits, Punished DEF CtlOK
<1> HIDE DEF cut
<1>6. CtlOK(up) /\ SameWaits(cut, up)
  <2>1. Upper(cut.ceiling, d.ceiling) \in RateRange
    BY <1>5 DEF Upper, CtlOK
  <2>2. /\ DOMAIN up = CtlFields
        /\ up.target = cut.target
        /\ up.ceiling = Upper(cut.ceiling, d.ceiling)
        /\ up.encoder = cut.encoder /\ up.point = cut.point
        /\ up.point_cap = cut.point_cap /\ up.fec = cut.fec
        /\ up.probe_down = cut.probe_down /\ SameWaits(cut, up)
    BY <1>5 DEF CtlOK, CtlFields, SameWaits
  <2> HIDE DEF up
  <2> QED BY <1>5, <2>1, <2>2 DEF CtlOK
<1> HIDE DEF up
<1>7. CountOK(up)
  BY <1>5, <1>6, SameWaitsOK
<1>8. CountOK(apply_rate(up, to)) /\ CountOK(apply_rate(cut, to))
  BY <1>5, <1>6, <1>7, ApplyWaits, SameWaitsOK
<1> QED BY <1>1, <1>4, <1>8

\* A window without loss forgets the learned noise.
LEMMA OpenWaits ==
  ASSUME CtlOK(ctl), CountOK(ctl), NEW s \in Samples
  PROVE  LET o == Opened(s)
         IN  /\ CountOK(o) /\ o.clean = ctl.clean
             /\ o.at_ceiling = ctl.at_ceiling
             /\ s.loss = 0 => o.noise_loss = 0
<1> DEFINE o == Opened(s)
<1>1. /\ o.noise_loss = Lower(ctl.noise_loss, s.loss)
      /\ o.clean = ctl.clean /\ o.at_ceiling = ctl.at_ceiling
      /\ o.probe_wait = ctl.probe_wait /\ o.probe_down = ctl.probe_down
  BY DEF Opened, CtlOK, CtlFields
<1>2. s.loss \in Nat
  BY WindowAssumption
<1>3. /\ o.noise_loss \in Nat
      /\ s.loss = 0 => o.noise_loss = 0
  <2> HIDE DEF o
  <2> QED BY <1>1, <1>2 DEF Lower, CountOK
<1> HIDE DEF o
<1>4. CountOK(o)
  BY <1>1, <1>3 DEF CountOK
<1> QED BY <1>1, <1>3, <1>4 DEF o

\* A probe-down is judged in PROBE_DOWN_WINDOWS windows.
LEMMA JudgedWaits ==
  ASSUME NEW d, CtlOK(d), CountOK(d), d.probe_down.on, NEW s \in Samples
  PROVE  CountOK(Judged(d, s))
<1> DEFINE pd == [d.probe_down EXCEPT !.windows = @ + 1, !.loss_acc = @ + s.loss]
           after == pd.loss_acc \div pd.windows
           over == [d EXCEPT !.probe_down = NoProbe]
           loud == [over EXCEPT !.noise_loss = Upper(@, after)]
           wait == [d EXCEPT !.probe_down = pd]
           e == Judged(d, s)
<1>0. s.loss \in Nat
  BY WindowAssumption
<1>1. /\ DOMAIN pd = ProbeFields /\ pd.on = d.probe_down.on
      /\ pd.from = d.probe_down.from
      /\ pd.windows = d.probe_down.windows + 1
      /\ pd.loss_acc = d.probe_down.loss_acc + s.loss
  BY DEF CtlOK, ProbeOK, ProbeFields
<1>2. pd.windows \in Nat \ {0} /\ pd.loss_acc \in Nat
  <2> HIDE DEF pd
  <2> QED BY <1>0, <1>1, WindowAssumption DEF CountOK
<1>3. \/ pd.windows < PROBE_DOWN_WINDOWS /\ e = wait
      \/ e = apply_rate(over, pd.from)
      \/ e = punish(over, pd.from)
      \/ e = apply_rate(loud, pd.from)
  BY DEF Judged
<1> HIDE DEF pd
<1>4. after \in Nat
  BY <1>2
<1> HIDE DEF after
<1>5. ASSUME pd.windows < PROBE_DOWN_WINDOWS PROVE CountOK(wait)
  <2>1. /\ wait.noise_loss = d.noise_loss /\ wait.clean = d.clean
        /\ wait.at_ceiling = d.at_ceiling /\ wait.probe_wait = d.probe_wait
        /\ wait.probe_down = pd
    BY DEF CtlOK, CtlFields
  <2>2. pd.windows \in 0 .. PROBE_DOWN_WINDOWS - 1
    BY <1>2, <1>5, WindowAssumption
  <2> HIDE DEF wait
  <2> QED BY <1>2, <2>1, <2>2 DEF CountOK
<1>6. CtlOK(over) /\ CountOK(over)
  <2>1. /\ DOMAIN over = CtlFields
        /\ over.target = d.target /\ over.ceiling = d.ceiling
        /\ over.encoder = d.encoder /\ over.point = d.point
        /\ over.point_cap = d.point_cap /\ over.fec = d.fec
        /\ over.probe_down = NoProbe
        /\ over.noise_loss = d.noise_loss /\ over.clean = d.clean
        /\ over.at_ceiling = d.at_ceiling /\ over.probe_wait = d.probe_wait
    BY DEF CtlOK, CtlFields
  <2>2. ProbeOK(NoProbe) /\ ~NoProbe.on
    BY DEF ProbeOK, NoProbe, ProbeFields
  <2> HIDE DEF over
  <2> QED BY <2>1, <2>2 DEF CtlOK, CountOK
<1> HIDE DEF over
<1>7. CtlOK(loud) /\ CountOK(loud)
  <2>1. /\ SameCore(over, loud)
        /\ loud.noise_loss = Upper(over.noise_loss, after)
        /\ loud.clean = over.clean /\ loud.at_ceiling = over.at_ceiling
        /\ loud.probe_wait = over.probe_wait
    BY <1>6 DEF CtlOK, CtlFields, SameCore
  <2> HIDE DEF loud
  <2>2. Upper(over.noise_loss, after) \in Nat
    BY <1>4, <1>6 DEF Upper, CountOK
  <2>3. CtlOK(loud)
    BY <1>6, <2>1, SameOK
  <2> QED BY <1>6, <2>1, <2>2, <2>3 DEF CountOK, SameCore
<1> HIDE DEF loud, wait, e
<1>8. /\ CountOK(apply_rate(over, pd.from)) /\ CountOK(punish(over, pd.from))
      /\ CountOK(apply_rate(loud, pd.from))
  BY <1>6, <1>7, ApplyWaits, SameWaitsOK, PunishWaits
<1> QED BY <1>3, <1>5, <1>8 DEF e

\* Waits may start over.
LEMMA Zeros == 0 \in 0 .. Upper(CLEAN_WINDOWS_UP, 2) /\ 0 \in 0 .. PROBE_WAIT_MAX
BY WindowAssumption DEF Upper

\* A lossy window starts the waits over.
LEMMA LossWaits ==
  ASSUME NEW d, CtlOK(d), CountOK(d), NEW s
  PROVE  CountOK(LossWindow(d, s))
<1> DEFINE hit == [d EXCEPT !.over = Lower(@ + 1, 2), !.clean = 0,
                            !.at_ceiling = 0, !.clean_at_point = 0]
           pd == [on |-> TRUE, from |-> hit.target, pre_loss |-> s.loss,
                  windows |-> 0, loss_acc |-> 0, fec |-> hit.fec]
           tried == [hit EXCEPT !.over = 0, !.probe_down = pd]
           e == LossWindow(d, s)
<1>1. SameCore(d, hit) /\ hit.noise_loss = d.noise_loss /\ hit.clean = 0
      /\ hit.at_ceiling = 0 /\ hit.probe_wait = d.probe_wait
  BY DEF SameCore, CtlOK, CtlFields
<1>2. \/ e = hit
      \/ e = apply_rate(punish(hit, hit.target), (hit.target * 7) \div 10)
      \/ e = apply_rate(tried, (hit.target * 4) \div 5)
  BY DEF LossWindow
<1> HIDE DEF hit, e
<1>3. CtlOK(hit) /\ CountOK(hit)
  BY <1>1, SameOK, Zeros DEF SameCore, CountOK
<1>4. hit.target \in RateRange
  BY <1>3 DEF CtlOK
<1>5. CtlOK(punish(hit, hit.target)) /\ CountOK(punish(hit, hit.target))
  BY <1>3, <1>4, Punished, PunishWaits
<1>6. CtlOK(tried) /\ CountOK(tried)
  <2>1. /\ DOMAIN tried = CtlFields
        /\ tried.target = hit.target /\ tried.ceiling = hit.ceiling
        /\ tried.encoder = hit.encoder /\ tried.point = hit.point
        /\ tried.point_cap = hit.point_cap /\ tried.fec = hit.fec
        /\ tried.probe_down = pd
        /\ tried.noise_loss = hit.noise_loss /\ tried.clean = hit.clean
        /\ tried.at_ceiling = hit.at_ceiling
        /\ tried.probe_wait = hit.probe_wait
    BY <1>3 DEF CtlOK, CtlFields
  <2>2. ProbeOK(pd) /\ pd.windows = 0 /\ pd.loss_acc = 0
    BY <1>4 DEF ProbeOK, ProbeFields
  <2>3. 0 \in 0 .. PROBE_DOWN_WINDOWS - 1
    BY WindowAssumption
  <2> HIDE DEF tried, pd
  <2> QED BY <1>3, <2>1, <2>2, <2>3 DEF CtlOK, CountOK
<1> HIDE DEF tried
<1>7. /\ CountOK(apply_rate(punish(hit, hit.target), (hit.target * 7) \div 10))
      /\ CountOK(apply_rate(tried, (hit.target * 4) \div 5))
  BY <1>5, <1>6, ApplyWaits, SameWaitsOK
<1> QED BY <1>2, <1>3, <1>7 DEF e

\* So does the deadband, which may learn a noise.
LEMMA HoldWaits ==
  ASSUME NEW d, CtlOK(d), CountOK(d), NEW s \in Samples
  PROVE  CountOK(HoldWindow(d, s))
<1> DEFINE idle == [d EXCEPT !.over = 0, !.clean = 0, !.at_ceiling = 0]
           a == [idle EXCEPT !.deadband = 0]
           b == [idle EXCEPT !.deadband = 0, !.noise_loss = Upper(@, s.loss)]
           c == [idle EXCEPT !.deadband = @ + 1]
           e == HoldWindow(d, s)
<1>1. /\ DOMAIN idle = CtlFields
      /\ idle.noise_loss = d.noise_loss /\ idle.clean = 0
      /\ idle.at_ceiling = 0 /\ idle.probe_wait = d.probe_wait
      /\ idle.probe_down = d.probe_down
  BY DEF CtlOK, CtlFields
<1>2. e = a \/ e = b \/ e = c
  BY DEF HoldWindow
<1> HIDE DEF idle, e
<1>3. CountOK(idle)
  BY <1>1, Zeros DEF CountOK
<1>4. SameWaits(idle, a) /\ SameWaits(idle, c)
  BY <1>1 DEF SameWaits, CtlFields
<1>5. CountOK(b)
  <2>1. /\ b.noise_loss = Upper(idle.noise_loss, s.loss)
        /\ b.clean = idle.clean /\ b.at_ceiling = idle.at_ceiling
        /\ b.probe_wait = idle.probe_wait /\ b.probe_down = idle.probe_down
    BY <1>1 DEF CtlFields
  <2>2. s.loss \in Nat
    BY WindowAssumption
  <2>3. Upper(idle.noise_loss, s.loss) \in Nat
    BY <1>3, <2>2 DEF Upper, CountOK
  <2> HIDE DEF b
  <2> QED BY <1>3, <2>1, <2>3 DEF CountOK
<1> HIDE DEF a, b, c
<1> QED BY <1>2, <1>3, <1>4, <1>5, SameWaitsOK DEF e

\* A probe that survived halves the wait, down to its minimum.
LEMMA CreditWaits ==
  ASSUME NEW d, CtlOK(d), CountOK(d)
  PROVE  LET e == Credited(d)
         IN  CountOK(e) /\ e.clean = d.clean /\ e.at_ceiling = d.at_ceiling
<1> DEFINE survived == d.probe_age >= PROBE_PUNISH_WINDOWS
           e == Credited(d)
<1>1. /\ e.noise_loss = d.noise_loss /\ e.clean = d.clean
      /\ e.at_ceiling = d.at_ceiling /\ e.probe_down = d.probe_down
      /\ e.probe_wait = IF survived
                        THEN Upper(d.probe_wait \div 2, PROBE_WAIT_MIN)
                        ELSE d.probe_wait
  BY DEF CtlOK, CtlFields, Credited
<1>2. e.probe_wait \in 0 .. PROBE_WAIT_MAX
  <2>1. d.probe_wait \in 0 .. PROBE_WAIT_MAX
    BY DEF CountOK
  <2>2. Upper(d.probe_wait \div 2, PROBE_WAIT_MIN) \in 0 .. PROBE_WAIT_MAX
    BY <2>1, WindowAssumption DEF Upper
  <2> HIDE DEF e, survived
  <2> QED BY <1>1, <2>1, <2>2
<1> HIDE DEF e
<1>3. CountOK(e)
  BY <1>1, <1>2 DEF CountOK
<1> QED BY <1>1, <1>3 DEF e

\* The measure of ClimbsBack, of any record.
Distance(d) ==
    IF d.probe_down.on
    THEN Wait * (2 * CAP + 1) + PROBE_DOWN_WINDOWS - d.probe_down.windows
    ELSE Wait * (2 * CAP - d.target - d.ceiling)
         + Wait - (IF d.target < d.ceiling THEN d.clean ELSE d.at_ceiling)

\* Nothing is left to climb.
AtCap(d) == d.target = CAP /\ d.ceiling = CAP

\* Wait is longer than every wait of the controller.
LEMMA WaitLong ==
  /\ Wait \in Nat
  /\ Upper(CLEAN_WINDOWS_UP, 2) < Wait /\ PROBE_WAIT_MAX < Wait
  /\ Upper(CLEAN_WINDOWS_UP, 2) \in Nat /\ PROBE_WAIT_MAX \in Nat
BY WindowAssumption DEF Wait, Upper

\* One unit less of the one factor is the other factor less.
LEMMA Product ==
  ASSUME NEW w \in Nat, NEW a \in Int, NEW b \in Int, b < a
  PROVE  w * b + w <= w * a /\ w * a \in Int /\ w * b \in Int
<1>1. PICK k \in Nat : a = b + 1 + k
  <2>1. a - b - 1 \in Nat /\ a = b + 1 + (a - b - 1)
    OBVIOUS
  <2> QED BY <2>1
<1>2. w * a = w * b + w + w * k
  BY <1>1
<1>3. w * k \in Nat
  BY <1>1
<1> QED BY <1>2, <1>3

\* A step that brings the sum of the two rates up outweighs every wait.
LEMMA Closer ==
  ASSUME NEW d, NEW e, CtlOK(d), CtlOK(e), CountOK(d), CountOK(e),
         ~d.probe_down.on, ~e.probe_down.on, e.clean = 0, e.at_ceiling = 0,
         d.target + d.ceiling < e.target + e.ceiling
  PROVE  Distance(e) < Distance(d)
<1> DEFINE a == 2 * CAP - d.target - d.ceiling
           b == 2 * CAP - e.target - e.ceiling
           x == IF d.target < d.ceiling THEN d.clean ELSE d.at_ceiling
<1>1. /\ d.target \in Nat /\ d.ceiling \in Nat /\ e.target \in Nat
      /\ e.ceiling \in Nat /\ CAP \in Nat
  BY RateNat, RateAssumption DEF CtlOK
<1>2. a \in Int /\ b \in Int /\ b < a
  BY <1>1
<1>3. x \in Nat /\ x < Wait
  BY WaitLong DEF CountOK
<1>4. Distance(d) = Wait * a + Wait - x /\ Distance(e) = Wait * b + Wait
  <2>1. Distance(e) = Wait * b + Wait - (IF e.target < e.ceiling THEN e.clean ELSE e.at_ceiling)
    BY DEF Distance
  <2>2. (IF e.target < e.ceiling THEN e.clean ELSE e.at_ceiling) = 0
    OBVIOUS
  <2>3. Wait * b \in Int
    BY <1>2, WaitLong
  <2>4. Distance(d) = Wait * a + Wait - x
    BY DEF Distance
  <2> QED BY <2>1, <2>2, <2>3, <2>4, WaitLong
<1> HIDE DEF a, b, x
<1>5. Wait * b + Wait <= Wait * a /\ Wait * a \in Int /\ Wait * b \in Int
  BY <1>2, Product, WaitLong
<1> QED BY <1>3, <1>4, <1>5, WaitLong

\* Below the ceiling a clean window counts, or climbs.
LEMMA ClimbCloser ==
  ASSUME NEW d, CtlOK(d), CountOK(d), ~d.probe_down.on,
         d.target < d.ceiling
  PROVE  CountOK(Climb(d)) /\ Distance(Climb(d)) < Distance(d)
<1> DEFINE counted == [d EXCEPT !.clean = @ + 1, !.at_ceiling = 0]
           ready == [counted EXCEPT !.clean = 0]
           far == d.target * 2 < d.ceiling
           fast == far \/ d.startup_left > 0
           need == IF d.startup_left > 0 THEN 1 ELSE IF far THEN 2
                   ELSE CLEAN_WINDOWS_UP
           up == IF fast THEN (d.target * 3) \div 2 ELSE (d.target * 5) \div 4
           to == Lower(up, d.ceiling)
           e == Climb(d)
<1>1. SameCore(d, counted) /\ counted.clean = d.clean + 1
      /\ counted.at_ceiling = 0 /\ counted.noise_loss = d.noise_loss
      /\ counted.probe_wait = d.probe_wait
  BY DEF SameCore, CtlOK, CtlFields
<1>2. e = IF counted.clean < need THEN counted ELSE apply_rate(ready, to)
  BY Zenon DEF Climb
<1>3. /\ d.target \in Nat /\ d.ceiling \in Nat /\ CAP \in Nat
      /\ d.ceiling \in RateRange /\ 10 <= d.target
  BY RateBounds DEF CtlOK
<1>4. d.clean \in Nat /\ d.clean < Wait /\ need <= Upper(CLEAN_WINDOWS_UP, 2)
      /\ need \in Nat
  BY WindowAssumption, WaitLong DEF CountOK, Upper
<1>5. up \in Nat /\ d.target < up
  <2>1. /\ (d.target * 3) \div 2 \in Nat /\ d.target < (d.target * 3) \div 2
        /\ (d.target * 5) \div 4 \in Nat /\ d.target < (d.target * 5) \div 4
    BY <1>3
  <2> QED BY <2>1
<1> HIDE DEF counted, need, up, e
<1>6. CtlOK(counted)
  BY <1>1, SameOK
<1>7. CASE counted.clean < need
  <2>1. e = counted
    BY <1>2, <1>7
  <2>2. e.clean \in 0 .. Upper(CLEAN_WINDOWS_UP, 2)
    BY <1>1, <1>4, <1>7, <2>1, WaitLong
  <2>3. CountOK(e)
    BY <1>1, <2>1, <2>2, Zeros DEF CountOK, SameCore
  <2>4. Wait * (2 * CAP - d.target - d.ceiling) \in Int
    BY <1>3, WaitLong
  <2>5. /\ Distance(d) = Wait * (2 * CAP - d.target - d.ceiling) + Wait - d.clean
        /\ Distance(e) =
             Wait * (2 * CAP - d.target - d.ceiling) + Wait - (d.clean + 1)
    BY <1>1, <2>1 DEF Distance, SameCore
  <2>6. Distance(e) < Distance(d)
    BY <1>4, <2>4, <2>5, WaitLong
  <2> QED BY <2>3, <2>6 DEF e
<1>8. CASE ~(counted.clean < need)
  <2>1. e = apply_rate(ready, to)
    BY <1>2, <1>8
  <2>2. SameCore(d, ready) /\ ready.clean = 0 /\ ready.at_ceiling = 0
        /\ ready.noise_loss = d.noise_loss /\ ready.probe_wait = d.probe_wait
    BY <1>1 DEF SameCore, CtlFields
  <2> HIDE DEF ready
  <2>3. CtlOK(ready) /\ CountOK(ready)
    BY <2>2, SameOK, Zeros DEF SameCore, CountOK
  <2>4. to \in Nat /\ d.target < to /\ to <= d.ceiling
    BY <1>3, <1>5 DEF Lower
  <2>5. to \in RateRange
    BY <1>3, <2>4, RateBounds DEF CtlOK
  <2> HIDE DEF to
  <2>6. Clamp(to) = to
    BY <2>4, <2>5, Clamped
  <2>7. /\ CtlOK(e) /\ e.target = to /\ e.ceiling = d.ceiling
        /\ ~e.probe_down.on
    BY <2>1, <2>2, <2>3, <2>4, <2>6, ApplyRate DEF SameCore
  <2>8. CountOK(e) /\ e.clean = 0 /\ e.at_ceiling = 0
    BY <2>1, <2>2, <2>3, ApplyWaits, SameWaitsOK DEF SameWaits
  <2>9. d.target + d.ceiling < e.target + e.ceiling
    BY <1>3, <2>4, <2>7
  <2>10. Distance(e) < Distance(d)
    BY <2>7, <2>8, <2>9, Closer
  <2> QED BY <2>8, <2>10 DEF e
<1> QED BY <1>7, <1>8

\* At the ceiling it counts, probes, or is at the cap: no wait is longer than
\* what at_ceiling reaches.
LEMMA ProbeCloser ==
  ASSUME NEW d, CtlOK(d), CountOK(d), ~d.probe_down.on,
         ~(d.target < d.ceiling)
  PROVE  /\ CountOK(Probe(d))
         /\ Distance(Probe(d)) < Distance(d) \/ AtCap(Probe(d))
<1> DEFINE waited == [d EXCEPT !.clean = 0,
                               !.at_ceiling = Lower(@ + 1, PROBE_WAIT_MAX)]
           next == Lower((d.target * 11) \div 10, CAP)
           raised == [waited EXCEPT !.at_ceiling = 0, !.probe_age = 0,
                                    !.ceiling = Upper(next, @)]
           e == Probe(d)
<1>1. SameCore(d, waited) /\ waited.clean = 0
      /\ waited.at_ceiling = Lower(d.at_ceiling + 1, PROBE_WAIT_MAX)
      /\ waited.noise_loss = d.noise_loss /\ waited.probe_wait = d.probe_wait
  BY DEF SameCore, CtlOK, CtlFields
<1>2. e = IF waited.at_ceiling < d.probe_wait \/ d.ceiling >= CAP THEN waited
          ELSE apply_rate(raised, next)
  BY Zenon DEF Probe
<1>3. /\ d.target \in Nat /\ d.ceiling \in Nat /\ CAP \in Nat
      /\ 10 <= d.target /\ d.target <= CAP /\ d.ceiling <= CAP
      /\ FLOOR_KBPS \in Nat /\ FLOOR_KBPS <= d.target
  BY RateBounds DEF CtlOK
<1>4. /\ d.at_ceiling \in Nat /\ d.at_ceiling <= PROBE_WAIT_MAX
      /\ d.probe_wait \in Nat /\ d.probe_wait <= PROBE_WAIT_MAX
  BY WindowAssumption DEF CountOK
<1> HIDE DEF waited, e
<1>5. CountOK(waited)
  <2>1. waited.at_ceiling \in 0 .. PROBE_WAIT_MAX
    BY <1>1, <1>4, WaitLong DEF Lower
  <2> QED BY <1>1, <2>1, Zeros DEF CountOK, SameCore
<1>6. CASE d.ceiling >= CAP
  <2>1. e = waited
    BY <1>2, <1>6
  <2>2. d.target = CAP /\ d.ceiling = CAP
    BY <1>3, <1>6
  <2> QED BY <1>1, <1>5, <2>1, <2>2 DEF AtCap, SameCore, e
<1>7. CASE waited.at_ceiling < d.probe_wait
  <2>1. e = waited
    BY <1>2, <1>7
  <2>2. waited.at_ceiling = d.at_ceiling + 1
    BY <1>1, <1>4, <1>7, WaitLong DEF Lower
  <2>3. Wait * (2 * CAP - d.target - d.ceiling) \in Int
    BY <1>3, WaitLong
  <2>4. /\ Distance(d) =
             Wait * (2 * CAP - d.target - d.ceiling) + Wait - d.at_ceiling
        /\ Distance(e) =
             Wait * (2 * CAP - d.target - d.ceiling) + Wait
               - (d.at_ceiling + 1)
    BY <1>1, <2>1, <2>2 DEF Distance, SameCore
  <2>5. Distance(e) < Distance(d)
    BY <1>4, <2>3, <2>4, WaitLong
  <2> QED BY <1>5, <2>1, <2>5 DEF e
<1>8. CASE ~(d.ceiling >= CAP) /\ ~(waited.at_ceiling < d.probe_wait)
  <2>1. e = apply_rate(raised, next)
    BY <1>2, <1>8
  <2>2. /\ next \in Nat /\ d.target <= next /\ next <= CAP
        /\ d.target < CAP => d.target < next
    <3>1. /\ (d.target * 11) \div 10 \in Nat
          /\ d.target < (d.target * 11) \div 10
      BY <1>3
    <3> QED BY <1>3, <3>1 DEF Lower
  <2>3. next \in RateRange
    BY <1>3, <2>2 DEF RateRange
  <2> HIDE DEF next
  <2>4. /\ Upper(next, d.ceiling) = next
        /\ d.target + d.ceiling < next + next
    BY <1>3, <1>8, <2>2 DEF Upper
  <2>5. /\ DOMAIN raised = CtlFields
        /\ raised.target = d.target /\ raised.ceiling = next
        /\ raised.encoder = d.encoder /\ raised.point = d.point
        /\ raised.point_cap = d.point_cap /\ raised.fec = d.fec
        /\ raised.probe_down = d.probe_down
        /\ raised.clean = 0 /\ raised.at_ceiling = 0
        /\ raised.noise_loss = d.noise_loss
        /\ raised.probe_wait = d.probe_wait
    BY <1>1, <2>4 DEF SameCore, CtlFields
  <2> HIDE DEF raised
  <2>6. CtlOK(raised) /\ CountOK(raised)
    BY <2>3, <2>5, Zeros DEF CtlOK, CountOK
  <2>7. Clamp(next) = next
    BY <2>2, <2>3, Clamped
  <2>8. /\ CtlOK(e) /\ e.target = next /\ e.ceiling = next
        /\ ~e.probe_down.on
    BY <2>1, <2>2, <2>5, <2>6, <2>7, ApplyRate
  <2>9. CountOK(e) /\ e.clean = 0 /\ e.at_ceiling = 0
    BY <2>1, <2>5, <2>6, ApplyWaits, SameWaitsOK DEF SameWaits
  <2>10. Distance(e) < Distance(d)
    BY <2>4, <2>8, <2>9, Closer
  <2> QED BY <2>9, <2>10 DEF e
<1> QED BY <1>6, <1>7, <1>8

\* A clean window brings the cap nearer.
LEMMA CleanCloser ==
  ASSUME NEW d, CtlOK(d), CountOK(d), ~d.probe_down.on
  PROVE  /\ CountOK(CleanWindow(d))
         /\ Distance(CleanWindow(d)) < Distance(d) \/ AtCap(CleanWindow(d))
<1> DEFINE c == Credited(d)
<1>1. /\ CtlOK(c) /\ CountOK(c) /\ ~c.probe_down.on
      /\ c.target = d.target /\ c.ceiling = d.ceiling
      /\ c.probe_down = d.probe_down
      /\ c.clean = d.clean /\ c.at_ceiling = d.at_ceiling
  BY CreditedOK, CreditWaits
<1>2. CleanWindow(d) = IF c.target < c.ceiling THEN Climb(c) ELSE Probe(c)
  BY Zenon DEF CleanWindow
<1> HIDE DEF c
<1>3. Distance(c) = Distance(d)
  BY <1>1 DEF Distance
<1>4. CASE c.target < c.ceiling
  BY <1>1, <1>2, <1>3, <1>4, ClimbCloser
<1>5. CASE ~(c.target < c.ceiling)
  BY <1>1, <1>2, <1>3, <1>5, ProbeCloser
<1> QED BY <1>4, <1>5

\* A window of a probe-down brings its verdict nearer; the verdict ends it.
LEMMA JudgedCloser ==
  ASSUME NEW d, CtlOK(d), CountOK(d), d.probe_down.on, NEW s \in Samples
  PROVE  Distance(Judged(d, s)) < Distance(d)
<1> DEFINE pd == [d.probe_down EXCEPT !.windows = @ + 1, !.loss_acc = @ + s.loss]
           wait == [d EXCEPT !.probe_down = pd]
           e == Judged(d, s)
<1>1. pd.on = d.probe_down.on /\ pd.windows = d.probe_down.windows + 1
  BY DEF CtlOK, ProbeOK, ProbeFields
<1>2. /\ d.probe_down.windows \in Nat
      /\ d.probe_down.windows < PROBE_DOWN_WINDOWS
      /\ PROBE_DOWN_WINDOWS \in Nat /\ Wait * (2 * CAP + 1) \in Int
  <2>1. d.probe_down.windows \in 0 .. PROBE_DOWN_WINDOWS - 1
    BY DEF CountOK
  <2>2. CAP \in Nat /\ Wait \in Nat
    BY RateAssumption, WaitLong
  <2>3. Wait * (2 * CAP + 1) \in Int
    BY <2>2
  <2> QED BY <2>1, <2>3, WindowAssumption
<1>3. Distance(d) = Wait * (2 * CAP + 1) + PROBE_DOWN_WINDOWS
                      - d.probe_down.windows
  BY DEF Distance
<1>4. CASE e = wait
  <2>1. wait.probe_down = pd
    BY DEF CtlOK, CtlFields
  <2>2. Distance(wait) = Wait * (2 * CAP + 1) + PROBE_DOWN_WINDOWS
                           - (d.probe_down.windows + 1)
    <3> HIDE DEF wait, pd
    <3> QED BY <1>1, <2>1 DEF Distance
  <2> HIDE DEF wait, e
  <2> QED BY <1>2, <1>3, <1>4, <2>2 DEF e
<1>5. CASE ~e.probe_down.on
  <2>1. CtlOK(e) /\ CountOK(e)
    BY JudgedSound, JudgedWaits DEF Sound
  <2> DEFINE x == IF e.target < e.ceiling THEN e.clean ELSE e.at_ceiling
             b == 2 * CAP - e.target - e.ceiling
  <2> HIDE DEF e
  <2>2. /\ e.target \in Nat /\ e.ceiling \in Nat /\ CAP \in Nat
        /\ e.clean \in Nat /\ e.at_ceiling \in Nat
    <3>1. /\ e.target \in RateRange /\ e.ceiling \in RateRange
          /\ e.clean \in 0 .. Upper(CLEAN_WINDOWS_UP, 2)
          /\ e.at_ceiling \in 0 .. PROBE_WAIT_MAX
      BY <2>1 DEF CtlOK, CountOK
    <3> QED BY <3>1, RateNat, RateAssumption, WaitLong
  <2>3. x \in Nat /\ b \in Int /\ b < 2 * CAP + 1 /\ 2 * CAP + 1 \in Int
    BY <2>2
  <2>4. Distance(e) = Wait * b + Wait - x
    BY <1>5 DEF Distance
  <2> HIDE DEF x, b
  <2>5. Wait * b + Wait <= Wait * (2 * CAP + 1) /\ Wait * b \in Int
    BY <2>3, Product, WaitLong
  <2>6. Distance(e) < Distance(d)
    BY <1>2, <1>3, <2>3, <2>4, <2>5, WaitLong
  <2> QED BY <2>6 DEF e
<1>6. e = wait \/ ~e.probe_down.on
  <2> DEFINE after == pd.loss_acc \div pd.windows
             over == [d EXCEPT !.probe_down = NoProbe]
             loud == [over EXCEPT !.noise_loss = Upper(@, after)]
  <2>1. \/ e = wait
        \/ e = apply_rate(over, pd.from)
        \/ e = punish(over, pd.from)
        \/ e = apply_rate(loud, pd.from)
    BY DEF Judged
  <2>2. /\ DOMAIN over = CtlFields /\ over.probe_down = NoProbe
        /\ DOMAIN loud = CtlFields /\ loud.probe_down = NoProbe
    BY DEF CtlOK, CtlFields
  <2> HIDE DEF over, loud, wait, e, pd, after
  <2>3. /\ apply_rate(over, pd.from).probe_down = NoProbe
        /\ apply_rate(loud, pd.from).probe_down = NoProbe
        /\ punish(over, pd.from).probe_down = NoProbe
    BY <2>2 DEF apply_rate, punish, CtlFields
  <2> QED BY <2>1, <2>3 DEF NoProbe
<1> QED BY <1>4, <1>5, <1>6

\* Whatever branch a window takes, the waits keep their bounds.
LEMMA WindowWaits ==
  ASSUME NEW d, CtlOK(d), CountOK(d), NEW s \in Samples
  PROVE  CountOK(Windowed(d, s))
<1> DEFINE b == Branch(d, s)
           r == Rested(d, s)
           e == Windowed(d, s)
<1>1. CASE d.probe_down.on
  <2>1. e = Judged(d, s)
    BY <1>1 DEF Windowed, Branch
  <2> QED BY <1>1, <2>1, JudgedWaits
<1>2. CASE ~d.probe_down.on
  <2>1. b # "judge"
    BY <1>2 DEF Branch
  <2>2. \/ \E to : to \in Int /\ e = queue_cut(d, to)
        \/ e = apply_rate(punish(r, r.target), r.target \div 2)
        \/ e = LossWindow(r, s)
        \/ e = CleanWindow(r)
        \/ e = HoldWindow(r, s)
    <3> DEFINE to1 == (d.target * 85) \div 100
               to2 == IF s.excess >= RTT_BAD_MS THEN d.target \div 2
                      ELSE (d.target * 7) \div 10
    <3>1. Windowed(d, s) =
            IF b = "judge" THEN Judged(d, s)
            ELSE IF b = "overuse" THEN queue_cut(d, to1)
            ELSE IF b = "bloat" THEN queue_cut(d, to2)
            ELSE IF b = "severe" THEN apply_rate(punish(r, r.target),
                                                 r.target \div 2)
            ELSE IF b = "lossy" THEN LossWindow(r, s)
            ELSE IF b = "clean" THEN CleanWindow(r)
            ELSE HoldWindow(r, s)
      BY Zenon DEF Windowed
    <3>2. to1 \in Int /\ to2 \in Int
      BY Cuts DEF CtlOK
    <3> HIDE DEF b, r, to1, to2
    <3> QED BY <2>1, <3>1, <3>2
  <2> HIDE DEF e, b
  <2>3. ASSUME NEW to \in Int, e = queue_cut(d, to) PROVE CountOK(e)
    BY <2>3, QueueWaits
  <2>4. SameCore(d, r) /\ SameWaits(d, r)
    BY RestedSame, RestedWaits
  <2> HIDE DEF r
  <2>5. CtlOK(r) /\ CountOK(r) /\ ~r.probe_down.on /\ r.target \in RateRange
    BY <1>2, <2>4, SameOK, SameWaitsOK DEF SameCore, CtlOK
  <2>6. CountOK(apply_rate(punish(r, r.target), r.target \div 2))
    <3>1. CtlOK(punish(r, r.target)) /\ CountOK(punish(r, r.target))
      BY <2>5, Punished, PunishWaits
    <3> QED BY <3>1, ApplyWaits, SameWaitsOK
  <2>7. CountOK(LossWindow(r, s)) /\ CountOK(HoldWindow(r, s))
        /\ CountOK(CleanWindow(r))
    BY <2>5, LossWaits, HoldWaits, CleanCloser
  <2> QED BY <2>2, <2>3, <2>6, <2>7 DEF e
<1> QED BY <1>1, <1>2

\* The inductive invariant of ClimbsBack.
CountInv == RateInv /\ CountOK(ctl)

\* A new controller waits for nothing.
LEMMA CountInitInv == RateInit => CountInv
<1> SUFFICES ASSUME RateInit PROVE CountOK(ctl)
  BY RateInitInv DEF CountInv
<1>1. PICK start \in Starts, ladder \in Ladders :
        ctl = NewController(start, ladder)
  BY DEF RateInit
<1>2. /\ ctl.noise_loss = 0 /\ ctl.clean = 0 /\ ctl.at_ceiling = 0
      /\ ctl.probe_wait = PROBE_WAIT_MIN /\ ~ctl.probe_down.on
  BY <1>1 DEF NewController, NoProbe
<1>3. PROBE_WAIT_MIN \in 0 .. PROBE_WAIT_MAX
  BY WindowAssumption
<1> QED BY <1>2, <1>3, Zeros DEF CountOK

\* Every step keeps the bounds of the waits.
LEMMA CountNextInv == CountInv /\ [RateNext]_rvars => CountInv'
<1> SUFFICES ASSUME CountInv, [RateNext]_rvars PROVE CountOK(ctl')
  BY RateNextInv DEF CountInv
<1>0. CtlOK(ctl) /\ CountOK(ctl)
  BY DEF CountInv, RateInv
<1>1. ASSUME NEW s \in Samples, Tick(s) PROVE CountOK(ctl')
  <2> DEFINE o == Opened(s)
             w == Windowed(o, s)
             d == finish(w)
  <2>1. ctl' = d
    BY <1>1, Zenon DEF Tick, Noted
  <2>2. CtlOK(o) /\ CountOK(o)
    BY <1>0, OpenedSame, SameOK, OpenWaits
  <2> HIDE DEF o
  <2>3. CtlOK(w) /\ CountOK(w)
    BY <2>2, WindowedSound, WindowWaits DEF Sound
  <2> HIDE DEF w
  <2>4. CountOK(d)
    BY <2>3, FinishWaits, SameWaitsOK
  <2> QED BY <2>1, <2>4
<1>2. ASSUME UNCHANGED ctl PROVE CountOK(ctl')
  BY <1>0, <1>2
<1>3. CASE PollFast
  <2> DEFINE to == (ctl.target * 85) \div 100
             q == queue_cut(ctl, to)
             d == apply_ladder(q, TRUE)
  <2>1. ctl' = d
    BY <1>3, Zenon DEF PollFast, Noted
  <2>2. to \in Int
    BY <1>0, Cuts DEF CtlOK
  <2>3. CtlOK(q)
    BY <1>0, <2>2, QueueCut
  <2> HIDE DEF to
  <2>4. CountOK(q)
    BY <1>0, <2>2, QueueWaits
  <2> HIDE DEF q
  <2>5. CountOK(d)
    BY <2>3, <2>4, LadderWaits, SameWaitsOK
  <2> QED BY <2>1, <2>5
<1>4. ASSUME NEW kbps \in Starts, SetTarget(kbps) PROVE CountOK(ctl')
  <2>1. ctl' = [ctl EXCEPT !.target = Clamp(kbps), !.since_step = 0,
                           !.encoder = encoder_rate(Clamp(kbps), ctl.fec)]
    BY <1>4, Zenon DEF SetTarget, Noted
  <2>2. SameWaits(ctl, ctl')
    BY <1>0, <2>1 DEF SameWaits, CtlOK, CtlFields
  <2> QED BY <1>0, <2>2, SameWaitsOK
<1>5. ASSUME NEW manual \in BOOLEAN, SetManualPoint(manual) PROVE CountOK(ctl')
  <2>1. \/ ctl' = [ctl EXCEPT !.manual = TRUE]
        \/ ctl' = [ctl EXCEPT !.manual = FALSE, !.point_age = 0,
                              !.point = Upper(pick(ctl.target, 85, 100),
                                              ctl.point_cap)]
    BY <1>5 DEF SetManualPoint, Noted
  <2>2. SameWaits(ctl, ctl')
    BY <1>0, <2>1 DEF SameWaits, CtlOK, CtlFields
  <2> QED BY <1>0, <2>2, SameWaitsOK
<1>6. ASSUME NEW r \in Overheads, SetFecOverhead(r) PROVE CountOK(ctl')
  <2>1. ctl' = [ctl EXCEPT !.fec = r]
    BY <1>6, Zenon DEF SetFecOverhead, Noted
  <2>2. SameWaits(ctl, ctl')
    BY <1>0, <2>1 DEF SameWaits, CtlOK, CtlFields
  <2> QED BY <1>0, <2>2, SameWaitsOK
<1>7. ASSUME NEW signal, OnFrame(signal) PROVE CountOK(ctl')
  BY <1>2, <1>7 DEF OnFrame
<1>8. CASE StreamRestart
  BY <1>2, <1>8 DEF StreamRestart
<1>9. CASE UNCHANGED rvars
  BY <1>2, <1>9 DEF rvars
<1> QED
  BY <1>1, <1>3, <1>4, <1>5, <1>6, <1>7, <1>8, <1>9, Zenon DEF RateNext

\* A calm window, its noise forgotten, is a clean one unless a probe-down is
\* being judged.
LEMMA CalmBranch ==
  ASSUME NEW d, d.noise_loss = 0, ~d.probe_down.on, NEW s \in Samples,
         s.total > 0, s.loss = 0, s.excess = 0, delay.state = "Normal"
  PROVE  Branch(d, s) = "clean" /\ ~Queued(s)
<1>1. /\ ~(s.excess >= RTT_OK_MS) /\ ~(s.excess >= RTT_EXCESS_MS)
      /\ ~(s.loss > LOSS_SEVERE) /\ ~(0 > LOSS_DOWN) /\ 0 < LOSS_CLEAN
  BY WindowAssumption
<1>2. Effective(d, s) = 0
  BY DEF Effective, Upper
<1>3. ~Draining(s) /\ ~Queued(s)
  BY <1>1 DEF Draining, Queued
<1> QED BY <1>1, <1>2, <1>3 DEF Branch

\* A calm window brings the target nearer to the cap.
LEMMA CalmTick ==
  ASSUME CountInv, NEW s \in Samples, s.total > 0, s.loss = 0, s.excess = 0,
         delay.state = "Normal", Tick(s)
  PROVE  Distance(ctl') < Distance(ctl) \/ AtCap(ctl')
<1> DEFINE o == Opened(s)
           w == Windowed(o, s)
           d == finish(w)
<1>0. CtlOK(ctl) /\ CountOK(ctl)
  BY DEF CountInv, RateInv
<1>1. ctl' = d
  BY Zenon DEF Tick, Noted
<1>2. /\ SameCore(ctl, o) /\ CountOK(o) /\ o.noise_loss = 0
      /\ o.clean = ctl.clean /\ o.at_ceiling = ctl.at_ceiling
  BY <1>0, OpenedSame, OpenWaits
<1> HIDE DEF o
<1>3. CtlOK(o)
  BY <1>0, <1>2, SameOK
<1>4. Distance(o) = Distance(ctl)
  BY <1>2 DEF Distance, SameCore
<1>5. Distance(w) < Distance(o) \/ AtCap(w)
  <2>1. CASE o.probe_down.on
    <3>1. w = Judged(o, s)
      BY <2>1 DEF Windowed, Branch
    <3> QED BY <1>2, <1>3, <2>1, <3>1, JudgedCloser
  <2>2. CASE ~o.probe_down.on
    <3> DEFINE r == Rested(o, s)
    <3>1. w = CleanWindow(r)
      BY <1>2, <2>2, CalmBranch DEF Windowed
    <3>2. SameCore(o, r) /\ SameWaits(o, r)
      BY <1>3, RestedSame, RestedWaits
    <3> HIDE DEF r, w
    <3>3. CtlOK(r) /\ CountOK(r) /\ ~r.probe_down.on
      BY <1>2, <1>3, <2>2, <3>2, SameOK, SameWaitsOK DEF SameCore
    <3>4. Distance(r) = Distance(o)
      BY <3>2 DEF Distance, SameCore, SameWaits
    <3> QED BY <3>1, <3>3, <3>4, CleanCloser
  <2> QED BY <2>1, <2>2
<1>6. CtlOK(w)
  BY <1>3, WindowedSound DEF Sound
<1> HIDE DEF w
<1>7. SameWaits(w, d) /\ d.target = w.target /\ d.ceiling = w.ceiling
  BY <1>6, FinishWaits
<1> HIDE DEF d
<1>8. Distance(d) = Distance(w) /\ (AtCap(w) => AtCap(d))
  BY <1>7 DEF Distance, SameWaits, AtCap
<1> QED BY <1>1, <1>4, <1>5, <1>8

\* No rate is a trap: every window without loss or delay brings the target
\* nearer to the cap, until it is there.
THEOREM ClimbsBackAlways == RateSpec => ClimbsBack
<1>1. ToGo = Distance(ctl)
  BY DEF ToGo, Distance
<1>2. ToGo' = Distance(ctl')
  BY DEF ToGo, Distance
<1> DEFINE Step == rvars' # rvars =>
             \A s \in Samples :
               /\ s.total > 0 /\ s.loss = 0 /\ s.excess = 0
               /\ delay.state = "Normal" /\ Tick(s)
               => \/ ToGo' < ToGo
                  \/ ctl'.target = CAP /\ ctl'.ceiling = CAP
<1>3. CountInv /\ [RateNext]_rvars => [Step]_rvars
  BY <1>1, <1>2, CalmTick DEF AtCap
<1> HIDE DEF Step
<1>4. CountInv /\ [][RateNext]_rvars => [][Step]_rvars
  BY <1>3, CountNextInv, PTL
<1>5. RateSpec => CountInv
  BY CountInitInv DEF RateSpec
<1>6. RateSpec => [][Step]_rvars
  BY <1>4, <1>5, PTL DEF RateSpec
<1> QED BY <1>6 DEF ClimbsBack, Step

-----------------------------------------------------------------------------
(* Forward error correction.                                               *)

\* A set of naturals has a least element, and a greatest if it is bounded.
LEMMA LeastNat ==
    ASSUME NEW T, T \subseteq Nat, T # {}
    PROVE  /\ \E x \in T : \A y \in T : x <= y
           /\ Min(T) \in T /\ \A y \in T : Min(T) <= y
<1>1. PICK x \in T : \A y \in T : ~(<<y, x>> \in OpToRel(<, Nat))
  BY WFMin, NatLessThanWellFounded
<1>2. \A y \in T : ~(y < x)
  BY <1>1 DEF OpToRel
<1>3. \A y \in T : x <= y
  BY <1>2
<1> QED BY <1>3 DEF Min

LEMMA GreatestNat ==
    ASSUME NEW T, T \subseteq Nat, T # {}, NEW n \in Nat, \A y \in T : y <= n
    PROVE  Max(T) \in T /\ \A y \in T : Max(T) >= y
<1> DEFINE U == {n - y : y \in T}
<1>1. U \subseteq Nat /\ U # {}
  <2>1. ASSUME NEW y \in T PROVE n - y \in Nat
    <3>1. y \in Nat /\ y <= n
      OBVIOUS
    <3> QED BY <3>1
  <2> QED BY <2>1
<1>2. PICK u \in U : \A v \in U : u <= v
  BY <1>1, LeastNat
<1>3. PICK x \in T : u = n - x
  BY <1>2
<1>4. \A y \in T : x >= y
  BY <1>2, <1>3
<1> QED BY <1>4 DEF Max

LEMMA MaxOfTwo ==
    ASSUME NEW a \in Int, NEW b \in Int
    PROVE  Max({a, b}) = IF a >= b THEN a ELSE b
<1> DEFINE m == IF a >= b THEN a ELSE b
<1>1. m \in {a, b} /\ \A y \in {a, b} : m >= y
  OBVIOUS
<1>2. \A x \in {a, b} : (\A y \in {a, b} : x >= y) => x = m
  OBVIOUS
<1> QED BY <1>1, <1>2 DEF Max

LEMMA MinOfTwo ==
    ASSUME NEW a \in Int, NEW b \in Int
    PROVE  Min({a, b}) = IF a <= b THEN a ELSE b
<1> DEFINE m == IF a <= b THEN a ELSE b
<1>1. m \in {a, b} /\ \A y \in {a, b} : m <= y
  OBVIOUS
<1>2. \A x \in {a, b} : (\A y \in {a, b} : x <= y) => x = m
  OBVIOUS
<1> QED BY <1>1, <1>2 DEF Min

-----------------------------------------------------------------------------
\* What is left of a sequence without one of its elements.
LEMMA RemovedAt ==
    ASSUME NEW S, NEW s \in Seq(S), NEW i \in 1 .. Len(s)
    PROVE  /\ RemoveAt(s, i) \in Seq(S)
           /\ Len(RemoveAt(s, i)) = Len(s) - 1
           /\ \A j \in 1 .. Len(s) - 1 :
                 RemoveAt(s, i)[j] = IF j < i THEN s[j] ELSE s[j + 1]
<1> DEFINE a == SubSeq(s, 1, i - 1)
           b == SubSeq(s, i + 1, Len(s))
<1>1. a \in Seq(S) /\ Len(a) = i - 1 /\ \A j \in 1 .. i - 1 : a[j] = s[j]
  <2>1. \A j \in 1 .. i - 1 : s[j] \in S
    BY ElementOfSeq
  <2> QED BY <2>1, SubSeqProperties
<1>2. b \in Seq(S) /\ Len(b) = Len(s) - i
      /\ \A j \in 1 .. Len(s) - i : b[j] = s[i + j]
  <2>1. \A j \in i + 1 .. Len(s) : s[j] \in S
    BY ElementOfSeq
  <2>2. i + 1 \in Int /\ Len(s) \in Int
    OBVIOUS
  <2>3. /\ b \in Seq(S)
        /\ Len(b) = IF i + 1 <= Len(s) THEN Len(s) - (i + 1) + 1 ELSE 0
        /\ \A j \in 1 .. Len(s) - (i + 1) + 1 : b[j] = s[(i + 1) + j - 1]
    BY <2>1, <2>2, SubSeqProperties
  <2>4. Len(s) - (i + 1) + 1 = Len(s) - i
    BY <2>2
  <2>5. Len(b) = Len(s) - i
    BY <2>2, <2>3
  <2>6. ASSUME NEW j \in 1 .. Len(s) - i PROVE b[j] = s[i + j]
    <3>1. (i + 1) + j - 1 = i + j
      OBVIOUS
    <3> QED BY <3>1, <2>3, <2>4
  <2> QED BY <2>3, <2>5, <2>6
<1> HIDE DEF a, b
<1>3. /\ a \o b \in Seq(S) /\ Len(a \o b) = Len(a) + Len(b)
      /\ \A j \in 1 .. Len(a) + Len(b) : (a \o b)[j] = IF j <= Len(a) THEN a[j] ELSE b[j - Len(a)]
  BY <1>1, <1>2, ConcatProperties
<1>4. RemoveAt(s, i) = a \o b
  BY DEF RemoveAt, a, b
<1>5. Len(a \o b) = Len(s) - 1
  BY <1>1, <1>2, <1>3
<1>6. ASSUME NEW j \in 1 .. Len(s) - 1
      PROVE  (a \o b)[j] = IF j < i THEN s[j] ELSE s[j + 1]
  <2>1. (a \o b)[j] = IF j <= i - 1 THEN a[j] ELSE b[j - (i - 1)]
    BY <1>1, <1>2, <1>3
  <2>2. CASE j < i
    BY <2>1, <2>2, <1>1
  <2>3. CASE ~(j < i)
    <3>1. j - (i - 1) \in 1 .. Len(s) - i
      BY <2>3
    <3>2. b[j - (i - 1)] = s[i + (j - (i - 1))]
      BY <3>1, <1>2
    <3> QED BY <2>1, <2>3, <3>2
  <2> QED BY <2>2, <2>3
<1> QED BY <1>3, <1>4, <1>5, <1>6

\* The ring holds nothing that was not in it or put into it.
LEMMA Remembered ==
    ASSUME NEW S, NEW r \in Seq(S), NEW list \in Seq(S)
    PROVE  /\ Remember(r, list) \in Seq(S)
           /\ ToSet(Remember(r, list)) \subseteq ToSet(r) \cup ToSet(list)
<1> DEFINE all == r \o list
           from == Max({1, Len(all) - RING + 1})
<1>1. all \in Seq(S) /\ Len(all) = Len(r) + Len(list) /\ Len(all) \in Nat
      /\ \A j \in 1 .. Len(all) : all[j] = IF j <= Len(r) THEN r[j] ELSE list[j - Len(r)]
  BY ConcatProperties
<1>2. from \in Nat \ {0}
  BY <1>1, FecAssumption, MaxOfTwo
<1>3. Remember(r, list) = SubSeq(all, from, Len(all))
  BY DEF Remember
<1> HIDE DEF all, from
<1>4. \A j \in from .. Len(all) : all[j] \in S
  BY <1>1, <1>2, ElementOfSeq
<1>5. /\ SubSeq(all, from, Len(all)) \in Seq(S)
      /\ Len(SubSeq(all, from, Len(all))) = IF from <= Len(all) THEN Len(all) - from + 1 ELSE 0
      /\ \A j \in 1 .. Len(all) - from + 1 : SubSeq(all, from, Len(all))[j] = all[from + j - 1]
  BY <1>1, <1>2, <1>4, SubSeqProperties
<1>6. ASSUME NEW j \in 1 .. Len(all) PROVE all[j] \in ToSet(r) \cup ToSet(list)
  BY <1>1 DEF ToSet
<1> DEFINE new == SubSeq(all, from, Len(all))
<1>7. DOMAIN new = 1 .. Len(new)
  BY <1>5
<1>8. ASSUME NEW j \in DOMAIN new PROVE new[j] \in ToSet(r) \cup ToSet(list)
  <2>1. j \in 1 .. Len(all) - from + 1 /\ from + j - 1 \in 1 .. Len(all)
    BY <1>1, <1>2, <1>5, <1>7
  <2> QED BY <2>1, <1>5, <1>6
<1> QED BY <1>3, <1>5, <1>8 DEF ToSet

-----------------------------------------------------------------------------
\* Arithmetic modulo SEQ.
LEMMA ModSEQ ==
    ASSUME NEW a \in Int
    PROVE  /\ a % SEQ \in 0 .. SEQ - 1
           /\ a \div SEQ \in Int
           /\ a = SEQ * (a \div SEQ) + (a % SEQ)
BY FecAssumption

LEMMA ModIs ==
    ASSUME NEW a \in Int, NEW q \in Int, NEW r \in 0 .. SEQ - 1, a = SEQ * q + r
    PROVE  a % SEQ = r
BY FecAssumption

\* Naming by number is unique within SEQ neighbours.
LEMMA ModSame ==
    ASSUME NEW a \in Int, NEW b \in Int, a % SEQ = b % SEQ, a - b < SEQ, b - a < SEQ
    PROVE  a = b
<1> DEFINE d == (a \div SEQ) - (b \div SEQ)
<1>1. a \div SEQ \in Int /\ b \div SEQ \in Int /\ SEQ \in Nat \ {0}
  BY ModSEQ, FecAssumption
<1>2. d \in Int
  BY <1>1
<1>3. a - b = SEQ * d
  <2>1. /\ a = SEQ * (a \div SEQ) + (a % SEQ) /\ a % SEQ \in Int
        /\ b = SEQ * (b \div SEQ) + (b % SEQ)
    BY ModSEQ
  <2> QED BY <1>1, <2>1
<1> HIDE DEF d
<1>4. ~(d >= 1)
  <2> SUFFICES ASSUME d >= 1 PROVE FALSE
    OBVIOUS
  <2>1. d - 1 \in Nat
    BY <1>2
  <2>2. SEQ * (d - 1) >= 0
    BY <2>1, <1>1
  <2>3. SEQ * d = SEQ * (d - 1) + SEQ
    BY <1>1, <1>2
  <2> QED BY <1>1, <1>2, <1>3, <2>2, <2>3
<1>5. ~(d <= -1)
  <2> SUFFICES ASSUME d <= -1 PROVE FALSE
    OBVIOUS
  <2>1. -1 - d \in Nat
    BY <1>2
  <2>2. SEQ * (-1 - d) >= 0
    BY <2>1, <1>1
  <2>3. SEQ * d = 0 - SEQ * (-1 - d) - SEQ
    BY <1>1, <1>2
  <2> QED BY <1>1, <1>2, <1>3, <2>2, <2>3
<1>6. d = 0
  BY <1>2, <1>4, <1>5
<1> QED BY <1>3, <1>6, <1>1

LEMMA ModAdd ==
    ASSUME NEW a \in Int, NEW b \in Int
    PROVE  ((a % SEQ) + b) % SEQ = (a + b) % SEQ
<1>1. PICK q \in Int, r \in 0 .. SEQ - 1 : a = SEQ * q + r /\ a % SEQ = r
  BY ModSEQ
<1>2. SEQ \in Nat /\ r \in Int /\ r + b \in Int /\ a + b \in Int
  BY <1>1, FecAssumption
<1>3. PICK p \in Int, t \in 0 .. SEQ - 1 :
         r + b = SEQ * p + t /\ (r + b) % SEQ = t
  BY <1>2, ModSEQ
<1>4. q + p \in Int /\ a + b = SEQ * (q + p) + t
  BY <1>1, <1>2, <1>3
<1>5. (a + b) % SEQ = t
  BY <1>2, <1>4, ModIs
<1> QED BY <1>1, <1>3, <1>5

-----------------------------------------------------------------------------
\* A finite, nonempty set of naturals has a greatest element.
LEMMA FiniteGreatest ==
    ASSUME NEW T, T \subseteq Nat, T # {}, IsFiniteSet(T)
    PROVE  Max(T) \in T /\ \A y \in T : Max(T) >= y
<1> DEFINE Bounded(S) == \E b \in Nat : \A y \in S : y <= b
           Bad == {n \in Nat : \E S \in SUBSET Nat :
                      IsFiniteSet(S) /\ Cardinality(S) = n /\ ~Bounded(S)}
<1>1. Bad = {}
  <2> SUFFICES ASSUME Bad # {} PROVE FALSE
    OBVIOUS
  <2>1. PICK n \in Bad : \A k \in Bad : n <= k
    BY LeastNat
  <2>2. PICK S \in SUBSET Nat :
           IsFiniteSet(S) /\ Cardinality(S) = n /\ ~Bounded(S)
    BY <2>1
  <2>3. PICK x \in S : TRUE
    BY <2>2
  <2>4. IsFiniteSet(S \ {x}) /\ Cardinality(S \ {x}) = n - 1
    BY <2>2, <2>3, FS_RemoveElement
  <2>5. n \in Nat /\ n - 1 \in Nat
    BY <2>1, <2>4, FS_CardinalityType
  <2>6. n - 1 \notin Bad
    BY <2>1, <2>5
  <2>7. Bounded(S \ {x})
    BY <2>4, <2>5, <2>6
  <2>8. PICK b \in Nat : \A y \in S \ {x} : y <= b
    BY <2>7
  <2>9. x \in Nat /\ b + x \in Nat /\ \A y \in S : y <= b + x
    <3>1. x \in Nat
      BY <2>3
    <3>2. ASSUME NEW y \in S PROVE y <= b + x
      <4>1. y \in Nat
        BY <3>2
      <4>2. CASE y = x
        BY <3>1, <4>2
      <4>3. CASE y # x
        <5>1. y <= b
          BY <2>8, <4>3
        <5> QED BY <5>1, <4>1, <3>1
      <4> QED BY <4>2, <4>3
    <3> QED BY <3>1, <3>2
  <2> QED BY <2>2, <2>9
<1>2. Bounded(T)
  BY <1>1, FS_CardinalityType
<1> QED BY <1>2, GreatestNat

\* A finite set of naturals has an element with any number of others below
\* it, and only one.
LEMMA Ranked ==
    ASSUME NEW T, T \subseteq Nat, IsFiniteSet(T)
    PROVE  /\ \A j \in 1 .. Cardinality(T) :
                 \E x \in T : Cardinality({y \in T : y < x}) = j - 1
           /\ \A x \in T : Cardinality({y \in T : y < x}) + 1
                              \in 1 .. Cardinality(T)
           /\ \A x, z \in T : Cardinality({y \in T : y < x})
                                = Cardinality({y \in T : y < z}) => x = z
<1> DEFINE Below(S, x) == {y \in S : y < x}
           Full(S) == \A j \in 1 .. Cardinality(S) :
                         \E x \in S : Cardinality(Below(S, x)) = j - 1
           Bad == {n \in Nat : \E S \in SUBSET Nat :
                      IsFiniteSet(S) /\ Cardinality(S) = n /\ ~Full(S)}
<1>1. Bad = {}
  <2> SUFFICES ASSUME Bad # {} PROVE FALSE
    OBVIOUS
  <2>1. PICK n \in Bad : \A k \in Bad : n <= k
    BY LeastNat
  <2>2. PICK S \in SUBSET Nat :
           IsFiniteSet(S) /\ Cardinality(S) = n /\ ~Full(S)
    BY <2>1
  <2>3. S # {}
    <3>1. SUFFICES ASSUME S = {} PROVE Full(S)
      BY <2>2
    <3>2. Cardinality(S) = 0
      BY <3>1, FS_EmptySet
    <3> QED BY <3>2
  <2>4. PICK x \in S : \A y \in S : x >= y
    BY <2>2, <2>3, FiniteGreatest
  <2> DEFINE R == S \ {x}
  <2>5. IsFiniteSet(R) /\ Cardinality(R) = n - 1 /\ R \in SUBSET Nat
    BY <2>2, <2>4, FS_RemoveElement
  <2>6. n \in Nat /\ n - 1 \in Nat
    BY <2>1, <2>5, FS_CardinalityType
  <2>7. Full(R)
    <3>1. n - 1 \notin Bad
      BY <2>1, <2>6
    <3> HIDE DEF Full, R
    <3> QED BY <3>1, <2>5, <2>6
  <2>8. Below(S, x) = R
    <3>1. S \subseteq Nat
      BY <2>2
    <3>2. \A y \in S : y < x <=> y # x
      BY <3>1, <2>4
    <3> QED BY <3>2, <2>4
  <2>9. \A z \in R : Below(S, z) = Below(R, z)
    BY <2>4
  <2>10. ASSUME NEW j \in 1 .. n PROVE \E z \in S : Cardinality(Below(S, z)) = j - 1
    <3>1. CASE j = n
      BY <3>1, <2>5, <2>8
    <3>2. CASE j # n
      <4>1. j \in 1 .. n - 1
        BY <2>6, <3>2
      <4>2. PICK z \in R : Cardinality(Below(R, z)) = j - 1
        BY <4>1, <2>5, <2>7
      <4> QED BY <4>2, <2>9
    <3> QED BY <3>1, <3>2
  <2> QED BY <2>2, <2>10
<1>2. Full(T)
  <2>1. Cardinality(T) \in Nat /\ Cardinality(T) \notin Bad
    BY <1>1, FS_CardinalityType
  <2> HIDE DEF Full
  <2> QED BY <2>1
<1>3. \A x \in T : /\ IsFiniteSet(Below(T, x)) /\ Cardinality(Below(T, x)) \in Nat
                   /\ Below(T, x) \subseteq T
  BY FS_Subset, FS_CardinalityType
<1>4. ASSUME NEW x \in T PROVE Cardinality(Below(T, x)) + 1 \in 1 .. Cardinality(T)
  <2>1. x \notin Below(T, x) /\ x \in Nat
    OBVIOUS
  <2>2. Cardinality(Below(T, x)) <= Cardinality(T)
        /\ Cardinality(Below(T, x)) # Cardinality(T)
    BY <2>1, <1>3, FS_Subset
  <2>3. Cardinality(T) \in Nat
    BY FS_CardinalityType
  <2> QED BY <2>2, <2>3, <1>3
<1>5. ASSUME NEW x \in T, NEW z \in T, x < z
      PROVE  Cardinality(Below(T, x)) # Cardinality(Below(T, z))
  <2>1. x \in Nat /\ z \in Nat
    BY <1>5
  <2>2. /\ Below(T, x) \subseteq Below(T, z)
        /\ x \in Below(T, z) /\ x \notin Below(T, x)
    <3>1. \A y \in T : y \in Nat
      OBVIOUS
    <3>2. \A y \in T : y < x => y < z
      BY <3>1, <2>1, <1>5
    <3>3. x < z /\ ~(x < x)
      BY <2>1, <1>5
    <3> QED BY <3>2, <3>3
  <2> QED BY <2>2, <1>3, FS_Subset
<1>6. ASSUME NEW x \in T, NEW z \in T,
             Cardinality(Below(T, x)) = Cardinality(Below(T, z))
      PROVE  x = z
  <2>1. x \in Nat /\ z \in Nat
    BY <1>6
  <2>2. ~(x < z) /\ ~(z < x)
    BY <1>5, <1>6
  <2> QED BY <2>1, <2>2
<1> QED BY <1>2, <1>4, <1>6

\* InOrder lists exactly the elements of the set.
LEMMA AscendingSeq ==
    ASSUME NEW T, T \subseteq Nat, IsFiniteSet(T)
    PROVE  /\ InOrder(T) \in Seq(T)
           /\ Len(InOrder(T)) = Cardinality(T)
           /\ DOMAIN InOrder(T) = 1 .. Cardinality(T)
           /\ ToSet(InOrder(T)) = T
<1> DEFINE s == InOrder(T)
           Rank(x) == Cardinality({y \in T : y < x})
<1>1. Cardinality(T) \in Nat
  BY FS_CardinalityType
<1>2. /\ \A j \in 1 .. Cardinality(T) : \E x \in T : Rank(x) = j - 1
      /\ \A x \in T : Rank(x) + 1 \in 1 .. Cardinality(T)
      /\ \A x, z \in T : Rank(x) = Rank(z) => x = z
  BY Ranked
<1>3. s = [j \in 1 .. Cardinality(T) |-> CHOOSE x \in T : Rank(x) = j - 1]
  BY DEF InOrder
<1> HIDE DEF s, Rank
<1>4. \A j \in 1 .. Cardinality(T) : s[j] \in T /\ Rank(s[j]) = j - 1
  BY <1>2, <1>3
<1>5. s \in Seq(T) /\ Len(s) = Cardinality(T) /\ DOMAIN s = 1 .. Cardinality(T)
  BY <1>1, <1>3, <1>4
<1>6. ASSUME NEW x \in T PROVE x \in ToSet(s)
  <2>1. PICK j \in 1 .. Cardinality(T) : j = Rank(x) + 1
    BY <1>2
  <2>2. Rank(x) \in Nat
    BY FS_Subset, FS_CardinalityType DEF Rank
  <2>3. Rank(s[j]) = Rank(x)
    BY <2>1, <2>2, <1>4
  <2>4. s[j] = x
    BY <2>3, <1>2, <1>4
  <2> QED BY <2>4, <1>5 DEF ToSet
<1>7. \A j \in DOMAIN s : s[j] \in T
  BY <1>4, <1>5
<1>8. ToSet(s) = T
  BY <1>6, <1>7 DEF ToSet
<1> QED BY <1>5, <1>8 DEF s

-----------------------------------------------------------------------------
Packet == [id : Nat \ {0}, seq : 0 .. SEQ - 1, size : Nat]

\* A group of datagrams, numbered upwards from base, each newer than the last.
Run(base, w) ==
    /\ w \in Seq(Packet)
    /\ \A i \in 1 .. Len(w) : w[i].seq = Wrap(base + i - 1)
    /\ \A i, j \in 1 .. Len(w) : i < j => w[i].id < w[j].id

DataItem == [kind : {"data"}, pkt : Packet]
RestartItem == [kind : {"restart"}]
XorItem == {p \in [kind : {"xor"}, base : 0 .. SEQ - 1, n : Nat,
                   pkts : Seq(Packet)] :
               Run(p.base, p.pkts) /\ p.n = Len(p.pkts)}
RsItem == {p \in [kind : {"rs"}, base : 0 .. SEQ - 1, k : Nat, m : Nat,
                  idx : Nat, len : Nat, pkts : Seq(Packet)] :
              /\ Run(p.base, p.pkts) /\ p.k = Len(p.pkts)
              /\ p.k # 0 /\ p.idx < p.m
              /\ p.len = Max({q.size : q \in ToSet(p.pkts)})}
Item == DataItem \cup RestartItem \cup XorItem \cup RsItem

Encoder == [rate : Nat, group : Seq(Packet), base : 0 .. SEQ - 1,
            next : -1 .. SEQ - 1, ts : Int]

\* The open group: what follows it is the datagram numbered next, and its
\* datagrams were made before the one numbered id.
EncOk(e, id) ==
    /\ e \in Encoder
    /\ Run(e.base, e.group)
    /\ e.group # <<>> => e.next = Wrap(e.base + Len(e.group))
    /\ \A i \in 1 .. Len(e.group) : e.group[i].id < id

LEMMA WrapType ==
    ASSUME NEW a \in Int
    PROVE  Wrap(a) \in 0 .. SEQ - 1 /\ (a \in 0 .. SEQ - 1 => Wrap(a) = a)
<1>1. Wrap(a) \in 0 .. SEQ - 1
  BY ModSEQ DEF Wrap
<1>2. ASSUME a \in 0 .. SEQ - 1 PROVE Wrap(a) = a
  <2>1. 0 \in Int /\ a = SEQ * 0 + a
    BY FecAssumption
  <2> QED BY <2>1, <1>2, ModIs DEF Wrap
<1> QED BY <1>1, <1>2

LEMMA WrapAdd ==
    ASSUME NEW a \in Int, NEW b \in Int
    PROVE  Wrap(Wrap(a) + b) = Wrap(a + b)
BY ModAdd DEF Wrap

LEMMA EmptyRun ==
    ASSUME NEW base \in Int
    PROVE  Run(base, <<>>)
BY DEF Run

LEMMA EmptiedOk ==
    ASSUME NEW e, NEW id, EncOk(e, id)
    PROVE  EncOk(Emptied(e), id) /\ Emptied(e).group = <<>>
<1>1. e \in Encoder
  BY DEF EncOk
<1>2. /\ Emptied(e) \in Encoder /\ Emptied(e).group = <<>>
      /\ Emptied(e).base \in Int
  <2>1. <<>> \in Seq(Packet)
    BY EmptySeq
  <2>2. Emptied(e) = [e EXCEPT !.group = <<>>]
    BY DEF Emptied
  <2>3. e.base \in Int
    BY <1>1, FecAssumption DEF Encoder
  <2> QED BY <1>1, <2>1, <2>2, <2>3 DEF Encoder
<1>3. Run(Emptied(e).base, Emptied(e).group)
  BY <1>2, EmptyRun
<1> QED BY <1>2, <1>3 DEF EncOk

\* The group of e with p behind it.
Joined(e, p, a) ==
    /\ EncOk(a, p.id + 1) /\ a.group # <<>> /\ a.rate = e.rate
    /\ ToSet(a.group) = ToSet(e.group) \cup {p}
    /\ a.next = Wrap(p.seq + 1)

\* Pushing the next datagram leaves the group in order.
LEMMA AppendedOk ==
    ASSUME NEW e, NEW p \in Packet, EncOk(e, p.id), NEW ts \in Int,
           e.group = <<>> \/ e.next = p.seq
    PROVE  Joined(e, p, Appended(e, p, ts))
<1>0. PICK id \in Nat \ {0} : id = p.id
  BY DEF Packet
<1> DEFINE g == e.group
           h == Append(g, p)
           b == IF g = <<>> THEN p.seq ELSE e.base
           a == Appended(e, p, ts)
<1>1. /\ e \in Encoder /\ g \in Seq(Packet) /\ e.base \in 0 .. SEQ - 1
      /\ p.seq \in 0 .. SEQ - 1 /\ SEQ \in Nat
  BY FecAssumption DEF EncOk, Encoder, Packet
<1>2. /\ a.group = h /\ a.base = b /\ a.next = Wrap(p.seq + 1)
      /\ a.rate = e.rate /\ a \in Encoder
  <2>1. h \in Seq(Packet) /\ b \in 0 .. SEQ - 1
    BY <1>1, AppendProperties
  <2>2. Wrap(p.seq + 1) \in -1 .. SEQ - 1
    <3>1. p.seq + 1 \in Int
      BY <1>1
    <3>2. Wrap(p.seq + 1) \in 0 .. SEQ - 1
      BY <3>1, WrapType
    <3> QED BY <3>2, <1>1
  <2>3. a = [e EXCEPT !.base = b, !.next = Wrap(p.seq + 1), !.ts = ts,
                      !.group = h]
    BY DEF Appended
  <2> HIDE DEF h, b, a
  <2> QED BY <1>1, <2>1, <2>2, <2>3 DEF Encoder
<1>3. /\ h \in Seq(Packet) /\ h # <<>> /\ Len(h) = Len(g) + 1
      /\ \A i \in 1 .. Len(g) : h[i] = g[i]
      /\ h[Len(g) + 1] = p
      /\ Len(g) \in Nat
  BY <1>1, AppendProperties
<1>4. /\ \A i \in 1 .. Len(g) : g[i].seq = Wrap(e.base + i - 1)
      /\ \A i, j \in 1 .. Len(g) : i < j => g[i].id < g[j].id
      /\ g # <<>> => e.next = Wrap(e.base + Len(g))
      /\ \A i \in 1 .. Len(g) : g[i].id < id
  BY <1>0 DEF EncOk, Run
<1>5. \A i \in 1 .. Len(g) : g[i] \in Packet /\ g[i].id \in Nat
  <2>1. \A i \in 1 .. Len(g) : g[i] \in Packet
    BY <1>1, ElementOfSeq
  <2>2. \A q \in Packet : q.id \in Nat
    BY DEF Packet
  <2> QED BY <2>1, <2>2
<1>6. p.seq = Wrap(b + Len(g)) /\ b \in Int
  <2>1. CASE g = <<>>
    BY <2>1, <1>1, WrapType
  <2>2. CASE g # <<>>
    BY <2>2, <1>1, <1>4
  <2> QED BY <2>1, <2>2
<1>7. \A i \in 1 .. Len(g) : b = e.base
  BY <1>1
<1> HIDE DEF h, b, a
<1>8. ASSUME NEW i \in 1 .. Len(h) PROVE h[i].seq = Wrap(b + i - 1)
  <2>1. CASE i = Len(g) + 1
    <3>1. b + i - 1 = b + Len(g)
      BY <2>1, <1>3, <1>6
    <3> QED BY <2>1, <3>1, <1>3, <1>6
  <2>2. CASE i # Len(g) + 1
    <3>1. i \in 1 .. Len(g)
      BY <2>2, <1>3
    <3> QED BY <3>1, <1>3, <1>4, <1>7
  <2> QED BY <2>1, <2>2
<1>9. ASSUME NEW i \in 1 .. Len(h), NEW j \in 1 .. Len(h), i < j
      PROVE  h[i].id < h[j].id
  <2>1. i \in 1 .. Len(g)
    BY <1>3, <1>9
  <2>2. CASE j = Len(g) + 1
    BY <2>1, <2>2, <1>0, <1>3, <1>4
  <2>3. CASE j # Len(g) + 1
    <3>1. j \in 1 .. Len(g)
      BY <2>3, <1>3
    <3> QED BY <2>1, <3>1, <1>3, <1>4, <1>9
  <2> QED BY <2>2, <2>3
<1>10. ASSUME NEW i \in 1 .. Len(h) PROVE h[i].id < id + 1
  <2>1. CASE i = Len(g) + 1
    BY <2>1, <1>0, <1>3
  <2>2. CASE i # Len(g) + 1
    <3>1. i \in 1 .. Len(g)
      BY <2>2, <1>3
    <3>2. h[i].id \in Nat /\ h[i].id < id
      BY <3>1, <1>3, <1>4, <1>5
    <3> QED BY <3>2
  <2> QED BY <2>1, <2>2
<1>11. Wrap(p.seq + 1) = Wrap(b + Len(h))
  <2>1. b + Len(g) \in Int /\ b + Len(h) = (b + Len(g)) + 1
    BY <1>3, <1>6
  <2>2. \A x \in Int : Wrap(Wrap(x) + 1) = Wrap(x + 1)
    BY WrapAdd
  <2> QED BY <2>1, <2>2, <1>6
<1>12. Run(b, h)
  BY <1>3, <1>8, <1>9 DEF Run
<1>13. ToSet(h) = ToSet(g) \cup {p}
  <2>1. DOMAIN h = 1 .. Len(h) /\ DOMAIN g = 1 .. Len(g)
    BY <1>1, <1>3
  <2>2. DOMAIN h = DOMAIN g \cup {Len(g) + 1}
    BY <2>1, <1>3
  <2> QED BY <2>1, <2>2, <1>3 DEF ToSet
<1>14. EncOk(a, id + 1)
  BY <1>2, <1>10, <1>11, <1>12 DEF EncOk
<1> QED BY <1>0, <1>2, <1>3, <1>13, <1>14 DEF Joined, a

LEMMA ParityCountType ==
    ASSUME NEW k \in 1 .. RS_MAX_DATA, NEW rate \in Nat
    PROVE  ParityCount(k, rate) \in Nat \ {0}
<1> DEFINE wanted == (k * rate + 99) \div 100
           atLeast == Max({wanted, 1})
<1>1. k \in Nat /\ SHARDS - k \in Nat \ {0}
  BY FecAssumption
<1>2. k * rate \in Nat
  BY <1>1
<1>3. wanted \in Int
  BY <1>2
<1> HIDE DEF wanted
<1>4. atLeast \in Nat \ {0}
  BY <1>3, MaxOfTwo
<1> HIDE DEF atLeast
<1>5. Min({atLeast, SHARDS - k}) \in Nat \ {0}
  BY <1>1, <1>4, MinOfTwo
<1> QED BY <1>5 DEF ParityCount, wanted, atLeast

\* The length of a block's shards is that of its longest datagram.
LEMMA Longest ==
    ASSUME NEW w \in Seq(Packet), w # <<>>
    PROVE  LET len == Max({q.size : q \in ToSet(w)})
           IN  len \in Nat /\ \A i \in 1 .. Len(w) : w[i].size <= len
<1> DEFINE T == {q.size : q \in ToSet(w)}
           f == [i \in 1 .. Len(w) |-> w[i].size]
<1>1. DOMAIN w = 1 .. Len(w) /\ Len(w) \in Nat \ {0}
  BY EmptySeq, LenProperties
<1>2. \A i \in 1 .. Len(w) : w[i] \in Packet
  BY ElementOfSeq
<1>3. \A q \in Packet : q.size \in Nat
  BY DEF Packet
<1>4. ToSet(w) = {w[i] : i \in 1 .. Len(w)}
  BY <1>1 DEF ToSet
<1>5. f \in Surjection(1 .. Len(w), T)
  BY <1>4 DEF Surjection
<1>6. IsFiniteSet(T)
  <2>1. IsFiniteSet(1 .. Len(w))
    BY <1>1, FS_Interval
  <2> QED BY <2>1, <1>5, FS_Surjection
<1>7. T \subseteq Nat /\ T # {}
  <2>1. w[1] \in ToSet(w)
    BY <1>1, <1>4
  <2> QED BY <2>1, <1>2, <1>3, <1>4
<1>8. Max(T) \in T /\ \A y \in T : Max(T) >= y
  BY <1>6, <1>7, FiniteGreatest
<1>9. Max(T) \in Nat
  BY <1>7, <1>8
<1>10. ASSUME NEW i \in 1 .. Len(w) PROVE w[i].size <= Max(T)
  <2>1. w[i].size \in T
    BY <1>4
  <2>2. w[i].size \in Nat
    BY <2>1, <1>7
  <2> QED BY <2>1, <2>2, <1>8, <1>9
<1> QED BY <1>9, <1>10

\* The parity of one block.
BlockParity(base, w, rate) ==
    LET m == ParityCount(Len(w), rate)
        s == rs_parity_frames(base, w, rate)
    IN  /\ m \in Nat \ {0} /\ Len(s) = m /\ DOMAIN s = 1 .. m
        /\ \A j \in 1 .. m : s[j] \in RsItem /\ s[j].pkts = w /\ s[j].m = m

LEMMA FramesOk ==
    ASSUME NEW base \in 0 .. SEQ - 1, NEW w, Run(base, w),
           Len(w) \in 1 .. RS_MAX_DATA, NEW rate \in Nat
    PROVE  BlockParity(base, w, rate)
<1> DEFINE m == ParityCount(Len(w), rate)
           s == rs_parity_frames(base, w, rate)
           len == Max({q.size : q \in ToSet(w)})
<1>1. w \in Seq(Packet) /\ w # <<>> /\ Len(w) \in Nat \ {0}
  BY FecAssumption, EmptySeq DEF Run
<1>2. m \in Nat \ {0}
  BY ParityCountType
<1>3. len \in Nat
  BY <1>1, Longest
<1>4. s = [j \in 1 .. m |->
              [kind |-> "rs", base |-> base, k |-> Len(w), m |-> m,
               idx |-> j - 1, len |-> len, pkts |-> w]]
  BY DEF rs_parity_frames
<1>5. len = Max({q.size : q \in ToSet(w)})
  OBVIOUS
<1> HIDE DEF m, s, len
<1>6. ASSUME NEW j \in 1 .. m
      PROVE  s[j] \in RsItem /\ s[j].pkts = w /\ s[j].m = m
  <2>1. j - 1 \in Nat /\ j - 1 < m
    BY <1>2
  <2>2. s[j] = [kind |-> "rs", base |-> base, k |-> Len(w), m |-> m,
                idx |-> j - 1, len |-> len, pkts |-> w]
    BY <1>4
  <2>3. s[j] \in [kind : {"rs"}, base : 0 .. SEQ - 1, k : Nat, m : Nat,
                  idx : Nat, len : Nat, pkts : Seq(Packet)]
    BY <2>1, <2>2, <1>1, <1>2, <1>3
  <2>4. /\ s[j].base = base /\ s[j].pkts = w /\ s[j].k = Len(w)
        /\ s[j].idx = j - 1 /\ s[j].m = m /\ s[j].len = len
    BY <2>2
  <2> QED BY <2>1, <2>3, <2>4, <1>1, <1>5 DEF RsItem
<1>7. Len(s) = m /\ DOMAIN s = 1 .. m
  BY <1>2, <1>4
<1> QED BY <1>2, <1>6, <1>7 DEF m, s, BlockParity

\* Multiples of n, in order.
LEMMA Multiples ==
    ASSUME NEW n \in Nat, NEW a \in Int, NEW b \in Int, a <= b
    PROVE  a * n \in Int /\ b * n \in Int /\ a * n <= b * n
<1>1. (b - a) * n >= 0
  OBVIOUS
<1>2. (b - a) * n = b * n - a * n
  OBVIOUS
<1> QED BY <1>1, <1>2

LEMMA DivMod ==
    ASSUME NEW a \in Int, NEW n \in Nat \ {0}
    PROVE  /\ a \div n \in Int /\ a % n \in 0 .. n - 1
           /\ a = n * (a \div n) + (a % n)
OBVIOUS

\* Part of a group, numbered from its own first datagram.
LEMMA SubRun ==
    ASSUME NEW base \in Int, NEW w, Run(base, w),
           NEW a \in Nat, NEW b \in Nat, a <= b, b <= Len(w)
    PROVE  LET v == SubSeq(w, a + 1, b)
           IN  /\ Run(Wrap(base + a), v) /\ Len(v) = b - a
               /\ ToSet(v) \subseteq ToSet(w)
<1> DEFINE v == SubSeq(w, a + 1, b)
           W == Wrap(base + a)
<1>1. w \in Seq(Packet) /\ Len(w) \in Nat
  BY LenProperties DEF Run
<1>2. \A i \in a + 1 .. b : w[i] \in Packet
  BY <1>1, ElementOfSeq
<1>3. a + 1 \in Int /\ b \in Int
  OBVIOUS
<1>4. /\ v \in Seq(Packet)
      /\ Len(v) = IF a + 1 <= b THEN b - (a + 1) + 1 ELSE 0
      /\ \A i \in 1 .. b - (a + 1) + 1 : v[i] = w[(a + 1) + i - 1]
  BY <1>2, <1>3, SubSeqProperties
<1> HIDE DEF v
<1>5. Len(v) = b - a
  BY <1>4
<1>6. \A i \in 1 .. Len(v) : v[i] = w[a + i] /\ a + i \in 1 .. Len(w)
  BY <1>4, <1>5, <1>1
<1>7. /\ \A i \in 1 .. Len(w) : w[i].seq = Wrap(base + i - 1)
      /\ \A i, j \in 1 .. Len(w) : i < j => w[i].id < w[j].id
  BY DEF Run
<1>8. ASSUME NEW i \in 1 .. Len(v) PROVE v[i].seq = Wrap(W + i - 1)
  <2>0. a + i \in 1 .. Len(w) /\ v[i] = w[a + i]
    BY <1>6
  <2>1. v[i].seq = Wrap(base + (a + i) - 1) /\ i \in Int
    <3>1. PICK j \in 1 .. Len(w) : j = a + i
      BY <2>0
    <3>2. w[j].seq = Wrap(base + j - 1)
      BY <1>7
    <3> QED BY <2>0, <3>1, <3>2, <1>5
  <2>2. base + a \in Int /\ i - 1 \in Int
    BY <2>1
  <2>3. Wrap(Wrap(base + a) + (i - 1)) = Wrap((base + a) + (i - 1))
    BY <2>2, WrapAdd
  <2>4. W \in Int
    BY <2>2, WrapType
  <2>5. (base + a) + (i - 1) = base + (a + i) - 1 /\ W + i - 1 = W + (i - 1)
    BY <2>1, <2>4
  <2> QED BY <2>1, <2>3, <2>5
<1>9. ASSUME NEW i \in 1 .. Len(v), NEW j \in 1 .. Len(v), i < j
      PROVE  v[i].id < v[j].id
  <2>1. a + i < a + j
    BY <1>5, <1>9
  <2> QED BY <2>1, <1>6, <1>7
<1>10. Run(W, v)
  BY <1>4, <1>8, <1>9 DEF Run
<1>11. ToSet(v) \subseteq ToSet(w)
  <2>1. DOMAIN v = 1 .. Len(v) /\ DOMAIN w = 1 .. Len(w)
    BY <1>1, <1>4, LenProperties
  <2> QED BY <2>1, <1>6 DEF ToSet
<1> QED BY <1>5, <1>10, <1>11 DEF v

\* flush sends parity over consecutive parts of the group.
LEMMA FlushedOk ==
    ASSUME NEW id, NEW e, EncOk(e, id)
    PROVE  /\ Flushed(e) \in Seq(RsItem)
           /\ \A f \in ToSet(Flushed(e)) :
                 /\ f \in RsItem
                 /\ ToSet(f.pkts) \subseteq ToSet(e.group)
                 /\ f.m = ParityCount(Len(f.pkts), e.rate)
<1>1. CASE e.rate = 0 \/ e.group = <<>>
  <2>1. Flushed(e) = <<>>
    BY <1>1 DEF Flushed, ChunkFrames
  <2> QED BY <2>1, EmptySeq DEF ToSet
<1>2. CASE ~(e.rate = 0 \/ e.group = <<>>)
  <2> DEFINE R == RS_MAX_DATA
             L == Len(e.group)
             n == (L + R - 1) \div R
             chunk(c) == SubSeq(e.group, (c - 1) * R + 1, Min({c * R, L}))
             frames(c) == rs_parity_frames(Wrap(e.base + (c - 1) * R),
                                           chunk(c), e.rate)
             each == ParityCount(R, e.rate)
             early == (n - 1) * each
             s == Flushed(e)
             Good(f) == /\ f \in RsItem
                        /\ ToSet(f.pkts) \subseteq ToSet(e.group)
                        /\ f.m = ParityCount(Len(f.pkts), e.rate)
  <2>1. s = [x \in 1 .. early + Len(frames(n)) |->
                IF x > early THEN frames(n)[x - early]
                ELSE frames((x - 1) \div each + 1)[((x - 1) % each) + 1]]
    BY <1>2 DEF Flushed, ChunkFrames
  <2>2. /\ R \in Nat \ {0} /\ e.rate \in Nat /\ e.group \in Seq(Packet)
        /\ e.base \in Int /\ Run(e.base, e.group)
    BY FecAssumption DEF EncOk, Encoder
  <2>3. L \in Nat \ {0}
    BY <1>2, <2>2, EmptySeq
  <2>4. each \in Nat \ {0}
    <3>1. R \in 1 .. RS_MAX_DATA
      BY <2>2
    <3> QED BY <3>1, <2>2, ParityCountType
  <2> HIDE DEF s, each, L, R
  <2>5. n \in Nat \ {0} /\ n * R >= L /\ (n - 1) * R < L
    <3>1. L + R - 1 \in Int
      BY <2>2, <2>3
    <3>2. /\ n \in Int /\ (L + R - 1) % R \in 0 .. R - 1
          /\ L + R - 1 = R * n + ((L + R - 1) % R)
      BY <3>1, <2>2, DivMod
    <3> HIDE DEF n
    <3>3. PICK t \in 0 .. R - 1 : L + R - 1 = R * n + t
      BY <3>2
    <3>4. R * n = n * R /\ (n - 1) * R = n * R - R /\ n * R \in Int
      BY <2>2, <3>2
    <3>5. n * R >= L /\ (n - 1) * R < L
      BY <3>3, <3>4, <2>2, <2>3
    <3>6. n > 0
      <4>1. SUFFICES ASSUME n <= 0 PROVE FALSE
        BY <3>2
      <4>2. n * R <= 0 * R
        BY <4>1, <3>2, <2>2, Multiples
      <4>3. 0 * R = 0
        BY <2>2
      <4> QED BY <4>2, <4>3, <3>4, <3>5, <2>3
    <3> QED BY <3>2, <3>5, <3>6
  <2> HIDE DEF n
  <2>6. ASSUME NEW c \in 1 .. n
        PROVE  LET w == chunk(c)
                   b == Wrap(e.base + (c - 1) * R)
               IN  /\ Run(b, w) /\ b \in 0 .. SEQ - 1
                   /\ ToSet(w) \subseteq ToSet(e.group)
                   /\ Len(w) \in 1 .. R /\ (c < n => Len(w) = R)
    <3> DEFINE from == (c - 1) * R
               to == Min({c * R, L})
    <3>1. c \in Int /\ c - 1 \in Int /\ n - 1 \in Int /\ c - 1 <= n - 1
      BY <2>5
    <3>2. /\ from \in Int /\ from <= (n - 1) * R /\ (n - 1) * R \in Int
          /\ c * R \in Int /\ c * R = from + R
      BY <3>1, <2>2, Multiples
    <3>3. from >= 0
      <4>1. 0 * R <= (c - 1) * R /\ 0 * R = 0
        BY <3>1, <2>2, Multiples
      <4> QED BY <4>1
    <3>4. to = IF c * R <= L THEN c * R ELSE L
      BY <3>2, <2>3, MinOfTwo
    <3> HIDE DEF from, to
    <3>5. from < L
      BY <3>2, <2>3, <2>5
    <3>6. from \in Nat /\ to \in Nat /\ from <= to /\ to <= L /\ to - from \in 1 .. R
      BY <3>2, <3>3, <3>4, <3>5, <2>2, <2>3
    <3>7. ASSUME c < n PROVE to = from + R
      <4>1. c <= n - 1 /\ c \in Int /\ n - 1 \in Int
        BY <3>1, <3>7, <2>5
      <4>2. c * R <= (n - 1) * R
        BY <4>1, <2>2, Multiples
      <4>3. c * R <= L
        BY <4>2, <3>2, <2>3, <2>5
      <4> QED BY <4>3, <3>2, <3>4
    <3>8. chunk(c) = SubSeq(e.group, from + 1, to)
      BY DEF from, to
    <3>9. LET v == SubSeq(e.group, from + 1, to)
          IN  /\ Run(Wrap(e.base + from), v) /\ Len(v) = to - from
              /\ ToSet(v) \subseteq ToSet(e.group)
      BY <3>6, <2>2, SubRun DEF L
    <3>10. Wrap(e.base + from) \in 0 .. SEQ - 1
      BY <3>6, <2>2, WrapType
    <3>11. c < n => to - from = R
      BY <3>6, <3>7, <2>2
    <3> HIDE DEF chunk
    <3> QED BY <3>6, <3>8, <3>9, <3>10, <3>11 DEF from
  <2>7. ASSUME NEW c \in 1 .. n
        PROVE  /\ Len(frames(c)) \in Nat \ {0}
               /\ c < n => Len(frames(c)) = each
               /\ \A j \in 1 .. Len(frames(c)) : Good(frames(c)[j])
    <3>1. PICK w, b : w = chunk(c) /\ b = Wrap(e.base + (c - 1) * R)
      OBVIOUS
    <3>2. /\ Run(b, w) /\ b \in 0 .. SEQ - 1
          /\ ToSet(w) \subseteq ToSet(e.group)
          /\ Len(w) \in 1 .. R /\ (c < n => Len(w) = R)
      BY <2>6, <3>1
    <3>3. frames(c) = rs_parity_frames(b, w, e.rate)
      BY <3>1
    <3>4. BlockParity(b, w, e.rate)
      <4>1. Len(w) \in 1 .. RS_MAX_DATA
        BY <3>2 DEF R
      <4> QED BY <4>1, <3>2, <2>2, FramesOk
    <3> HIDE DEF frames
    <3> QED BY <3>2, <3>3, <3>4 DEF each, BlockParity
  <2> HIDE DEF frames, Good
  <2>8. n \in 1 .. n /\ early \in Nat
    <3>1. n - 1 \in Nat
      BY <2>5
    <3> QED BY <3>1, <2>4, <2>5
  <2>9. Len(frames(n)) \in Nat
    BY <2>7, <2>8
  <2>10. early = (n - 1) * each
    OBVIOUS
  <2> HIDE DEF early
  <2>11. ASSUME NEW x \in 1 .. early + Len(frames(n)) PROVE Good(s[x])
    <3>1. CASE x > early
      <4>1. x - early \in 1 .. Len(frames(n))
        BY <3>1, <2>8, <2>9
      <4>2. s[x] = frames(n)[x - early]
        BY <3>1, <2>1
      <4> QED BY <4>1, <4>2, <2>7, <2>8
    <3>2. CASE ~(x > early)
      <4> DEFINE q == (x - 1) \div each
                 t == (x - 1) % each
      <4>1. x \in Int /\ x - 1 \in Nat /\ x - 1 < early
        BY <3>2, <2>8, <2>9
      <4>2. q \in Int /\ t \in 0 .. each - 1 /\ x - 1 = each * q + t
        BY <4>1, <2>4, DivMod
      <4>3. s[x] = frames(q + 1)[t + 1]
        BY <3>2, <2>1
      <4> HIDE DEF q, t
      <4>4. each * q = q * each /\ q * each \in Int
        BY <4>2, <2>4
      <4>5. q < n - 1
        <5>1. SUFFICES ASSUME n - 1 <= q PROVE FALSE
          BY <4>2, <2>5
        <5>2. (n - 1) * each <= q * each
          BY <5>1, <4>2, <2>4, <2>5, Multiples
        <5> QED BY <5>2, <4>1, <4>2, <4>4, <2>4, <2>8, <2>10
      <4>6. q >= 0
        <5>1. SUFFICES ASSUME q <= -1 PROVE FALSE
          BY <4>2
        <5>2. q * each <= (-1) * each
          BY <5>1, <4>2, <2>4, Multiples
        <5>3. (-1) * each = 0 - each
          BY <2>4
        <5> QED BY <5>2, <5>3, <4>1, <4>2, <4>4, <2>4
      <4>7. q + 1 \in 1 .. n /\ q + 1 < n
        BY <4>2, <4>5, <4>6, <2>5
      <4>8. t + 1 \in 1 .. Len(frames(q + 1))
        BY <4>2, <4>7, <2>4, <2>7
      <4> QED BY <4>3, <4>7, <4>8, <2>7
    <3> QED BY <3>1, <3>2
  <2>12. /\ s \in Seq(RsItem)
         /\ DOMAIN s = 1 .. early + Len(frames(n))
    <3>1. early + Len(frames(n)) \in Nat
      BY <2>8, <2>9
    <3>2. \A x \in 1 .. early + Len(frames(n)) : s[x] \in RsItem
      BY <2>11 DEF Good
    <3> QED BY <3>1, <3>2, <2>1
  <2> QED BY <2>11, <2>12 DEF ToSet, Good, s
<1> QED BY <1>1, <1>2

-----------------------------------------------------------------------------
\* The group that goes on with datagram p: all of it follows on each other.
Follows(e, p) == {p} \cup (IF e.next = p.seq THEN ToSet(e.group) ELSE {})

\* What push leaves in the encoder, and the parity it sends.
PushOk(e, p, d) ==
    /\ EncOk(d.enc, p.id + 1) /\ d.enc.rate = e.rate
    /\ code = "xor" /\ e.rate = 0 => d.enc = e
    /\ d.sent \in Seq(IF code = "xor" THEN XorItem ELSE RsItem)
    /\ \A f \in ToSet(d.sent) :
          /\ f \in IF code = "xor" THEN XorItem ELSE RsItem
          /\ ToSet(f.pkts) \subseteq Follows(e, p)
          /\ ToSet(f.pkts) \cap ToSet(d.enc.group) = {}
          /\ code # "xor" => f.m = ParityCount(Len(f.pkts), e.rate)
    /\ ToSet(d.enc.group) \subseteq {p} \cup ToSet(e.group)
    /\ \/ ToSet(d.enc.group) \subseteq Follows(e, p)
             /\ d.enc.next = Wrap(p.seq + 1)
       \/ /\ code = "xor" /\ (e.rate = 0 \/ ~(p.size <= FEC_MAX_PACKET))
          /\ d.enc = e

LEMMA EncOkLater ==
    ASSUME NEW e, NEW id \in Nat, EncOk(e, id)
    PROVE  EncOk(e, id + 1)
<1>1. e.group \in Seq(Packet) /\ \A i \in 1 .. Len(e.group) : e.group[i].id < id
  BY DEF EncOk, Encoder
<1>2. ASSUME NEW i \in 1 .. Len(e.group) PROVE e.group[i].id < id + 1
  <2>1. e.group[i] \in Packet
    BY <1>1, ElementOfSeq
  <2>2. e.group[i].id \in Nat
    BY <2>1 DEF Packet
  <2> QED BY <2>2, <1>1
<1> QED BY <1>2 DEF EncOk

LEMMA EmptySet ==
    ToSet(<<>>) = {}
BY DEF ToSet

\* The group p joins: the open one when p follows it, else a new one.
LEMMA OpenOk ==
    ASSUME NEW e, NEW p \in Packet, EncOk(e, p.id), NEW ts \in Int, NEW e0,
           e0 = e \/ e0 = Emptied(e), e0 # Emptied(e) => e.next = p.seq
    PROVE  /\ Joined(e0, p, Appended(e0, p, ts))
           /\ e0.rate = e.rate
           /\ e0.group = <<>> \/ (e0 = e /\ e.next = p.seq)
<1>1. /\ EncOk(e0, p.id) /\ (e0.group = <<>> \/ e0.next = p.seq)
      /\ e0.rate = e.rate
      /\ e0.group = <<>> \/ (e0 = e /\ e.next = p.seq)
  <2>1. EncOk(Emptied(e), p.id) /\ Emptied(e).group = <<>>
    BY EmptiedOk
  <2>2. Emptied(e).rate = e.rate
    BY DEF EncOk, Encoder, Emptied
  <2> QED BY <2>1, <2>2
<1>2. Joined(e0, p, Appended(e0, p, ts))
  BY <1>1, AppendedOk
<1> QED BY <1>1, <1>2

LEMMA JoinedFollows ==
    ASSUME NEW e, NEW p, NEW e0, NEW a, Joined(e0, p, a),
           e0.group = <<>> \/ (e0 = e /\ e.next = p.seq)
    PROVE  ToSet(a.group) \subseteq Follows(e, p)
<1>1. CASE e0.group = <<>>
  BY <1>1, EmptySet DEF Follows, Joined
<1>2. CASE e0 = e /\ e.next = p.seq
  BY <1>2 DEF Follows, Joined
<1> QED BY <1>1, <1>2

LEMMA XorPushed ==
    ASSUME NEW e, NEW p \in Packet, EncOk(e, p.id), NEW ts \in Int,
           NEW marker \in BOOLEAN, code = "xor"
    PROVE  PushOk(e, p, XorPush(e, p, ts, marker))
<1> DEFINE fits == e.rate # 0 /\ p.size <= FEC_MAX_PACKET
           e0 == IF e.next # p.seq THEN Emptied(e) ELSE e
           a == Appended(e0, p, ts)
           full == Len(a.group) >= a.rate
           f == parity_frame(a.base, a.group)
           d == XorPush(e, p, ts, marker)
<1>1. d = IF ~fits THEN [enc |-> e, sent |-> <<>>]
          ELSE IF ~full THEN [enc |-> a, sent |-> <<>>]
          ELSE [enc |-> Emptied(a), sent |-> <<f>>]
  BY DEF XorPush
<1>2. e0 = e \/ e0 = Emptied(e)
  OBVIOUS
<1>3. e0 # Emptied(e) => e.next = p.seq
  OBVIOUS
<1>4. p.id \in Nat
  BY DEF Packet
<1>5. a = Appended(e0, p, ts)
  OBVIOUS
<1> HIDE DEF e0, a, d
<1>6. /\ EncOk(a, p.id + 1) /\ a.rate = e.rate
      /\ ToSet(a.group) \subseteq Follows(e, p)
      /\ a.next = Wrap(p.seq + 1)
  <2>1. /\ Joined(e0, p, a) /\ e0.rate = e.rate
        /\ e0.group = <<>> \/ (e0 = e /\ e.next = p.seq)
    BY <1>2, <1>3, <1>5, OpenOk
  <2>2. ToSet(a.group) \subseteq Follows(e, p)
    BY <2>1, JoinedFollows
  <2> QED BY <2>1, <2>2 DEF Joined
<1>7. /\ <<>> \in Seq(XorItem) /\ ToSet(<<>>) = {}
      /\ Follows(e, p) \subseteq {p} \cup ToSet(e.group)
  BY EmptySeq, EmptySet DEF Follows
<1>8. CASE ~fits
  <2>1. d.enc = e /\ d.sent = <<>>
    BY <1>1, <1>8
  <2>2. EncOk(e, p.id + 1)
    BY <1>4, EncOkLater
  <2> QED BY <2>1, <2>2, <1>7, <1>8 DEF PushOk, d
<1>9. CASE fits /\ ~full
  <2>1. d.enc = a /\ d.sent = <<>>
    BY <1>1, <1>9
  <2> QED BY <2>1, <1>6, <1>7, <1>9 DEF PushOk, d
<1>10. CASE fits /\ full
  <2>1. d.enc = Emptied(a) /\ d.sent = <<f>>
    BY <1>1, <1>10
  <2>2. /\ EncOk(Emptied(a), p.id + 1) /\ Emptied(a).group = <<>>
        /\ Emptied(a).rate = e.rate /\ Emptied(a).next = Wrap(p.seq + 1)
    <3>1. EncOk(Emptied(a), p.id + 1) /\ Emptied(a).group = <<>>
      BY <1>6, EmptiedOk
    <3>2. a \in Encoder
      BY <1>6 DEF EncOk
    <3>3. Emptied(a).rate = a.rate /\ Emptied(a).next = a.next
      BY <3>2 DEF Emptied, Encoder
    <3> QED BY <3>1, <3>3, <1>6
  <2>3. f \in XorItem /\ f.pkts = a.group
    <3>1. a.base \in 0 .. SEQ - 1 /\ a.group \in Seq(Packet) /\ Run(a.base, a.group)
      BY <1>6 DEF EncOk, Encoder
    <3>2. Len(a.group) \in Nat
      BY <3>1, LenProperties
    <3> QED BY <3>1, <3>2 DEF parity_frame, XorItem
  <2>4. <<f>> \in Seq(XorItem) /\ ToSet(<<f>>) = {f}
    BY <2>3 DEF ToSet
  <2> HIDE DEF f
  <2>5. ToSet(d.enc.group) = {}
    BY <2>1, <2>2, EmptySet
  <2> QED BY <2>1, <2>2, <2>3, <2>4, <2>5, <1>6, <1>10 DEF PushOk, d
<1> QED BY <1>8, <1>9, <1>10

\* One sequence behind another.
Chained(S, s, t, u) == u \in Seq(S) /\ ToSet(u) = ToSet(s) \cup ToSet(t)

LEMMA ConcatSet ==
    ASSUME NEW S, NEW s \in Seq(S), NEW t \in Seq(S)
    PROVE  Chained(S, s, t, s \o t)
<1>1. /\ s \o t \in Seq(S) /\ Len(s \o t) = Len(s) + Len(t)
      /\ \A i \in 1 .. Len(s) + Len(t) :
            (s \o t)[i] = IF i <= Len(s) THEN s[i] ELSE t[i - Len(s)]
  BY ConcatProperties
<1>2. /\ DOMAIN s = 1 .. Len(s) /\ DOMAIN t = 1 .. Len(t)
      /\ DOMAIN (s \o t) = 1 .. Len(s) + Len(t)
      /\ Len(s) \in Nat /\ Len(t) \in Nat
  BY <1>1, LenProperties
<1> HIDE <1>1
<1>3. ASSUME NEW i \in DOMAIN s PROVE s[i] \in ToSet(s \o t)
  <2>1. i \in 1 .. Len(s) + Len(t) /\ i <= Len(s)
    BY <1>2
  <2> QED BY <2>1, <1>1, <1>2 DEF ToSet
<1>4. ASSUME NEW i \in DOMAIN t PROVE t[i] \in ToSet(s \o t)
  <2>1. PICK j \in 1 .. Len(s) + Len(t) : j = i + Len(s)
    BY <1>2
  <2>2. (s \o t)[j] = t[i]
    <3>1. ~(j <= Len(s)) /\ j - Len(s) = i
      BY <2>1, <1>2
    <3> QED BY <3>1, <1>1
  <2> QED BY <2>2, <1>2 DEF ToSet
<1>5. ASSUME NEW i \in DOMAIN (s \o t) PROVE (s \o t)[i] \in ToSet(s) \cup ToSet(t)
  <2>1. i \in 1 .. Len(s) + Len(t)
    BY <1>2
  <2>2. CASE i <= Len(s)
    BY <2>1, <2>2, <1>1, <1>2 DEF ToSet
  <2>3. CASE ~(i <= Len(s))
    <3>1. i - Len(s) \in DOMAIN t
      BY <2>1, <2>3, <1>2
    <3> QED BY <2>1, <2>3, <3>1, <1>1 DEF ToSet
  <2> QED BY <2>2, <2>3
<1>6. ToSet(s \o t) = ToSet(s) \cup ToSet(t)
  BY <1>3, <1>4, <1>5 DEF ToSet
<1> QED BY <1>1, <1>6 DEF Chained

\* A datagram is not in a group of older ones.
LEMMA NotAmong ==
    ASSUME NEW e, NEW p, EncOk(e, p.id), p \in Packet
    PROVE  p \notin ToSet(e.group)
<1>1. e.group \in Seq(Packet) /\ \A i \in 1 .. Len(e.group) : e.group[i].id < p.id
  BY DEF EncOk, Encoder
<1>2. DOMAIN e.group = 1 .. Len(e.group)
  BY <1>1, LenProperties
<1>3. p.id \in Nat /\ ~(p.id < p.id)
  BY DEF Packet
<1> QED BY <1>1, <1>2, <1>3 DEF ToSet

\* The parity of a frame that ended without a marker, and of one that ends.
Sends(e, p, sent) ==
    /\ sent \in Seq(RsItem)
    /\ \A f \in ToSet(sent) :
          /\ f \in RsItem /\ ToSet(f.pkts) \subseteq Follows(e, p)
          /\ f.m = ParityCount(Len(f.pkts), e.rate)

LEMMA RsPushed ==
    ASSUME NEW e, NEW p \in Packet, EncOk(e, p.id), NEW ts \in Int,
           NEW marker \in BOOLEAN, code # "xor"
    PROVE  PushOk(e, p, RsPush(e, p, ts, marker))
<1> DEFINE fits == e.rate # 0 /\ p.size <= FEC_MAX_PACKET
           gap == e.next # p.seq
           closes == ~gap /\ e.ts # ts
           e0 == IF gap \/ closes THEN Emptied(e) ELSE e
           a == Appended(e0, p, ts)
           before == IF closes THEN Flushed(e) ELSE <<>>
           off == [Emptied(e) EXCEPT !.next = Wrap(p.seq + 1)]
           d == RsPush(e, p, ts, marker)
<1>1. d = IF ~fits THEN [enc |-> off, sent |-> <<>>]
          ELSE IF ~marker THEN [enc |-> a, sent |-> before]
          ELSE [enc |-> Emptied(a), sent |-> before \o Flushed(a)]
  BY DEF RsPush
<1>2. /\ e0 = e \/ e0 = Emptied(e)
      /\ e0 # Emptied(e) => e.next = p.seq
      /\ closes => e0 = Emptied(e) /\ e.next = p.seq
  OBVIOUS
<1>3. a = Appended(e0, p, ts) /\ (closes => before = Flushed(e))
      /\ (~closes => before = <<>>)
  OBVIOUS
<1>4. p.id \in Nat /\ p.seq + 1 \in Int
  BY FecAssumption DEF Packet
<1> HIDE DEF e0, a, d, before, closes
<1>5. /\ Joined(e0, p, a) /\ e0.rate = e.rate
      /\ e0.group = <<>> \/ (e0 = e /\ e.next = p.seq)
  BY <1>2, <1>3, OpenOk
<1>6. /\ EncOk(a, p.id + 1) /\ a.rate = e.rate
      /\ ToSet(a.group) \subseteq Follows(e, p)
      /\ a.next = Wrap(p.seq + 1)
      /\ ToSet(a.group) = ToSet(e0.group) \cup {p}
  <2>1. ToSet(a.group) \subseteq Follows(e, p)
    BY <1>5, JoinedFollows
  <2> QED BY <2>1, <1>5 DEF Joined
<1>7. /\ <<>> \in Seq(RsItem) /\ ToSet(<<>>) = {}
      /\ Follows(e, p) \subseteq {p} \cup ToSet(e.group)
  BY EmptySeq, EmptySet DEF Follows
<1>8. /\ Sends(e, p, before)
      /\ \A f \in ToSet(before) : p \notin ToSet(f.pkts)
      /\ before # <<>> => ToSet(a.group) = {p}
  <2>1. CASE ~closes
    BY <2>1, <1>3, <1>7 DEF Sends
  <2>2. CASE closes
    <3>1. /\ Flushed(e) \in Seq(RsItem)
          /\ \A f \in ToSet(Flushed(e)) :
                /\ f \in RsItem
                /\ ToSet(f.pkts) \subseteq ToSet(e.group)
                /\ f.m = ParityCount(Len(f.pkts), e.rate)
      BY FlushedOk
    <3>2. ToSet(e.group) \subseteq Follows(e, p)
      BY <2>2, <1>2 DEF Follows
    <3>3. p \notin ToSet(e.group)
      BY NotAmong
    <3>4. ToSet(a.group) = {p}
      <4>1. e0.group = <<>>
        BY <2>2, <1>2, EmptiedOk
      <4> QED BY <4>1, <1>6, EmptySet
    <3>5. before = Flushed(e)
      BY <2>2, <1>3
    <3> QED BY <3>1, <3>2, <3>3, <3>4, <3>5 DEF Sends
  <2> QED BY <2>1, <2>2
<1>9. CASE ~fits
  <2>1. d.enc = off /\ d.sent = <<>>
    BY <1>1, <1>9
  <2>2. EncOk(Emptied(e), p.id) /\ Emptied(e).group = <<>>
    BY EmptiedOk
  <2>3. /\ off \in Encoder /\ off.group = <<>> /\ off.next = Wrap(p.seq + 1)
        /\ off.rate = e.rate /\ off.base \in 0 .. SEQ - 1
    <3>1. Wrap(p.seq + 1) \in -1 .. SEQ - 1
      <4>1. Wrap(p.seq + 1) \in 0 .. SEQ - 1
        BY <1>4, WrapType
      <4> QED BY <4>1, FecAssumption
    <3>2. e \in Encoder /\ <<>> \in Seq(Packet)
      BY EmptySeq DEF EncOk
    <3>3. off = [e EXCEPT !.group = <<>>, !.next = Wrap(p.seq + 1)]
      BY <3>2 DEF Emptied
    <3> HIDE DEF off
    <3> QED BY <3>1, <3>2, <3>3 DEF Encoder
  <2> HIDE DEF off
  <2>4. EncOk(off, p.id + 1)
    <3>1. Run(off.base, off.group)
      BY <2>3, EmptyRun, FecAssumption
    <3> QED BY <3>1, <2>3 DEF EncOk
  <2> QED BY <2>1, <2>3, <2>4, <1>7 DEF PushOk, d
<1>10. CASE fits /\ ~marker
  <2>1. d.enc = a /\ d.sent = before
    BY <1>1, <1>10
  <2>2. \A f \in ToSet(before) : ToSet(f.pkts) \cap ToSet(a.group) = {}
    <3>1. CASE before = <<>>
      BY <3>1, <1>7
    <3>2. CASE before # <<>>
      BY <3>2, <1>8
    <3> QED BY <3>1, <3>2
  <2>3. ToSet(a.group) \subseteq {p} \cup ToSet(e.group)
    BY <1>6, <1>7
  <2> QED BY <2>1, <2>2, <2>3, <1>6, <1>8 DEF PushOk, Sends, d
<1>11. CASE fits /\ marker
  <2>1. d.enc = Emptied(a) /\ d.sent = before \o Flushed(a)
    BY <1>1, <1>11
  <2>2. /\ EncOk(Emptied(a), p.id + 1) /\ ToSet(Emptied(a).group) = {}
        /\ Emptied(a).rate = e.rate /\ Emptied(a).next = Wrap(p.seq + 1)
    <3>1. EncOk(Emptied(a), p.id + 1) /\ Emptied(a).group = <<>>
      BY <1>6, EmptiedOk
    <3>2. a \in Encoder
      BY <1>6 DEF EncOk
    <3>3. Emptied(a).rate = a.rate /\ Emptied(a).next = a.next
      BY <3>2 DEF Emptied, Encoder
    <3> QED BY <3>1, <3>3, <1>6, EmptySet
  <2>3. Sends(e, p, Flushed(a))
    <3>1. /\ Flushed(a) \in Seq(RsItem)
          /\ \A f \in ToSet(Flushed(a)) :
                /\ f \in RsItem
                /\ ToSet(f.pkts) \subseteq ToSet(a.group)
                /\ f.m = ParityCount(Len(f.pkts), a.rate)
      BY <1>6, FlushedOk
    <3> QED BY <3>1, <1>6 DEF Sends
  <2>4. Sends(e, p, before \o Flushed(a))
    <3>1. PICK s, t : s = before /\ t = Flushed(a)
      OBVIOUS
    <3>2. s \in Seq(RsItem) /\ t \in Seq(RsItem)
      BY <3>1, <1>8, <2>3 DEF Sends
    <3>3. s \o t \in Seq(RsItem) /\ ToSet(s \o t) = ToSet(s) \cup ToSet(t)
      BY <3>2, ConcatSet DEF Chained
    <3> QED BY <3>1, <3>3, <1>8, <2>3 DEF Sends
  <2> QED BY <2>1, <2>2, <2>4, <1>6 DEF PushOk, Sends, d
<1> QED BY <1>9, <1>10, <1>11

-----------------------------------------------------------------------------
\* The decoders.

\* No two datagrams of N have the same number.
Distinct(N) == \A x, y \in N : x.seq = y.seq => x = y

LEMMA SetOfSeq ==
    ASSUME NEW S, NEW s \in Seq(S)
    PROVE  /\ ToSet(s) = {s[i] : i \in 1 .. Len(s)} /\ ToSet(s) \subseteq S
           /\ DOMAIN s = 1 .. Len(s) /\ Len(s) \in Nat
<1>1. DOMAIN s = 1 .. Len(s) /\ Len(s) \in Nat
  BY LenProperties
<1>2. \A i \in 1 .. Len(s) : s[i] \in S
  BY ElementOfSeq
<1> QED BY <1>1, <1>2 DEF ToSet

LEMMA SameRun ==
    ASSUME NEW N, Distinct(N), NEW base, NEW v, NEW w, Run(base, v), Run(base, w),
           Len(v) = Len(w), ToSet(v) \subseteq N, ToSet(w) \subseteq N
    PROVE  v = w
<1>1. v \in Seq(Packet) /\ w \in Seq(Packet)
  BY DEF Run
<1>2. ASSUME NEW i \in 1 .. Len(v) PROVE v[i] = w[i]
  <2>1. v[i] \in N /\ w[i] \in N
    BY <1>1, SetOfSeq
  <2>2. v[i].seq = w[i].seq
    BY DEF Run
  <2> QED BY <2>1, <2>2 DEF Distinct
<1> QED BY <1>1, <1>2, SeqEqual

\* What the ring holds under a number of the group is the group's datagram.
LEMMA Found ==
    ASSUME NEW N, Distinct(N), NEW r \in Seq(Packet), ToSet(r) \subseteq N,
           NEW base \in Int, NEW w, Run(base, w), ToSet(w) \subseteq N,
           NEW i \in 0 .. Len(w) - 1
    PROVE  /\ Positions(r, Wrap(base + i)) # {} <=> w[i + 1] \in ToSet(r)
           /\ w[i + 1] \in ToSet(r) =>
                 /\ Oldest(r, Wrap(base + i)) = w[i + 1]
                 /\ find(r, Wrap(base + i)) = w[i + 1]
<1> DEFINE P == Positions(r, Wrap(base + i))
<1>1. w \in Seq(Packet) /\ Len(w) \in Nat
  BY LenProperties DEF Run
<1>2. i + 1 \in 1 .. Len(w) /\ i \in Int
  BY <1>1
<1>3. w[i + 1].seq = Wrap(base + i)
  <2>1. PICK j \in 1 .. Len(w) : j = i + 1
    BY <1>2
  <2>2. w[j].seq = Wrap(base + j - 1)
    BY DEF Run
  <2>3. base + j - 1 = base + i
    BY <2>1, <1>2
  <2> QED BY <2>1, <2>2, <2>3
<1>4. w[i + 1] \in N
  BY <1>1, <1>2, SetOfSeq
<1>5. /\ ToSet(r) = {r[j] : j \in 1 .. Len(r)} /\ DOMAIN r = 1 .. Len(r)
      /\ Len(r) \in Nat
  BY SetOfSeq
<1>6. \A j \in P : j \in 1 .. Len(r) /\ r[j] = w[i + 1]
  <2>1. \A j \in P : j \in 1 .. Len(r) /\ r[j].seq = Wrap(base + i)
    BY <1>5 DEF Positions
  <2>2. \A j \in P : r[j] \in N
    BY <2>1, <1>5
  <2> QED BY <2>1, <2>2, <1>3, <1>4 DEF Distinct
<1>7. ASSUME w[i + 1] \in ToSet(r) PROVE P # {}
  <2>1. PICK j \in DOMAIN r : r[j] = w[i + 1]
    BY <1>7 DEF ToSet
  <2>2. j \in P
    BY <2>1, <1>3 DEF Positions
  <2> QED BY <2>2
<1>8. ASSUME P # {} PROVE w[i + 1] \in ToSet(r)
  BY <1>5, <1>6, <1>8
<1>9. ASSUME P # {} PROVE Min(P) \in P /\ Max(P) \in P
  <2>1. P \subseteq Nat /\ \A j \in P : j <= Len(r)
    BY <1>5, <1>6
  <2> HIDE DEF P
  <2>2. Min(P) \in P
    BY <1>9, <2>1, LeastNat
  <2>3. Max(P) \in P
    BY <1>9, <2>1, <1>5, GreatestNat
  <2> QED BY <2>2, <2>3
<1>10. Oldest(r, Wrap(base + i)) = r[Min(P)] /\ find(r, Wrap(base + i)) = r[Max(P)]
  BY DEF Oldest, find
<1> HIDE DEF P
<1> QED BY <1>6, <1>7, <1>8, <1>9, <1>10 DEF P

\* So the missing ones are those the ring does not hold.
LEMMA MissingAre ==
    ASSUME NEW N, Distinct(N), NEW r \in Seq(Packet), ToSet(r) \subseteq N,
           NEW base \in Int, NEW w, Run(base, w), ToSet(w) \subseteq N
    PROVE  Missing(r, base, Len(w)) =
              {i \in 0 .. Len(w) - 1 : w[i + 1] \notin ToSet(r)}
BY Found DEF Missing

\* No datagram is twice in a group.
LEMMA RunInjective ==
    ASSUME NEW base, NEW w, Run(base, w),
           NEW i \in 1 .. Len(w), NEW j \in 1 .. Len(w), w[i] = w[j]
    PROVE  i = j
<1>1. w \in Seq(Packet) /\ Len(w) \in Nat
  BY LenProperties DEF Run
<1>2. w[i] \in Packet
  BY <1>1, ElementOfSeq
<1>3. w[i].id \in Nat
  BY <1>2 DEF Packet
<1>4. ~(i < j) /\ ~(j < i)
  BY <1>3 DEF Run
<1> QED BY <1>1, <1>4

Pair == [is : Packet, was : Packet]

\* What is rebuilt is what was missing of the group.
Right(list, w, miss) ==
    /\ list \in Seq(Pair)
    /\ \A x \in ToSet(list) : x.is = x.was
    /\ {x.is : x \in ToSet(list)} = {w[i + 1] : i \in miss}

LEMMA RightEmpty ==
    ASSUME NEW w
    PROVE  Right(<<>>, w, {})
BY EmptySeq, EmptySet DEF Right

LEMMA XorRight ==
    ASSUME NEW N, Distinct(N), NEW r \in Seq(Packet), ToSet(r) \subseteq N,
           NEW p \in XorItem, ToSet(p.pkts) \subseteq N,
           NEW list \in XorRebuilt(r, p)
    PROVE  LET miss == {i \in 0 .. Len(p.pkts) - 1 : p.pkts[i + 1] \notin ToSet(r)}
           IN  Right(list, p.pkts, IF Cardinality(miss) = 1 THEN miss ELSE {})
<1> DEFINE w == p.pkts
           miss == {i \in 0 .. Len(w) - 1 : w[i + 1] \notin ToSet(r)}
<1>1. /\ Run(p.base, w) /\ p.n = Len(w) /\ p.base \in Int /\ w \in Seq(Packet)
  BY FecAssumption DEF XorItem
<1>2. Missing(r, p.base, p.n) = miss
  BY <1>1, MissingAre
<1>3. CASE Cardinality(miss) # 1
  <2>1. XorRebuilt(r, p) = {<<>>}
    BY <1>2, <1>3 DEF XorRebuilt
  <2> QED BY <2>1, <1>3, RightEmpty
<1>4. CASE Cardinality(miss) = 1
  <2>1. Len(w) \in Nat
    BY <1>1, LenProperties
  <2>2. IsFiniteSet(miss)
    <3>1. IsFiniteSet(0 .. Len(w) - 1)
      BY <2>1, FS_Interval
    <3> QED BY <3>1, FS_Subset
  <2>3. PICK i : miss = {i}
    BY <1>4, <2>2, FS_Singleton
  <2>4. i \in 0 .. Len(w) - 1 /\ w[i + 1] \notin ToSet(r) /\ i + 1 \in 1 .. Len(w)
    BY <2>1, <2>3
  <2> DEFINE have == {Oldest(r, Wrap(p.base + j)) : j \in (0 .. p.n - 1) \ miss}
  <2>5. have = {w[j + 1] : j \in (0 .. Len(w) - 1) \ miss}
    <3>1. \A j \in (0 .. Len(w) - 1) \ miss : Oldest(r, Wrap(p.base + j)) = w[j + 1]
      BY <1>1, Found
    <3> HIDE DEF miss
    <3> QED BY <3>1, <1>1
  <2>6. ToSet(w) = {w[j] : j \in 1 .. Len(w)}
    BY <1>1, SetOfSeq
  <2>7. SymDiff(ToSet(w), have) = {w[i + 1]}
    <3>1. \A j \in 0 .. Len(w) - 1 : j + 1 \in 1 .. Len(w)
      BY <2>1
    <3>2. \A j \in 1 .. Len(w) : j - 1 \in 0 .. Len(w) - 1 /\ (j - 1) + 1 = j
      BY <2>1
    <3>3. w[i + 1] \in ToSet(w) \ have
      <4>1. \A j \in 0 .. Len(w) - 1 : w[j + 1] = w[i + 1] => j = i
        <5>1. ASSUME NEW j \in 0 .. Len(w) - 1, w[j + 1] = w[i + 1] PROVE j = i
          <6>1. j + 1 = i + 1
            BY <3>1, <2>4, <1>1, <5>1, RunInjective
          <6> QED BY <6>1, <2>4
        <5> QED BY <5>1
      <4> QED BY <4>1, <2>3, <2>4, <2>5, <2>6
    <3>4. have \subseteq ToSet(w)
      BY <3>1, <2>5, <2>6
    <3>5. ASSUME NEW x \in ToSet(w), x # w[i + 1] PROVE x \in have
      <4>1. PICK j \in 1 .. Len(w) : x = w[j]
        BY <2>6
      <4>2. j - 1 \in (0 .. Len(w) - 1) \ miss /\ x = w[(j - 1) + 1]
        BY <4>1, <3>2, <3>5, <2>3
      <4> QED BY <4>2, <2>5
    <3> HIDE DEF have
    <3> QED BY <3>3, <3>4, <3>5 DEF SymDiff
  <2>8. Left(r, p) = {w[i + 1]}
    BY <2>7, <1>2 DEF Left
  <2>9. (CHOOSE j \in miss : TRUE) = i
    BY <2>3
  <2>10. Cardinality({w[i + 1]}) = 1
    BY FS_Singleton
  <2>11. list = <<[is |-> w[i + 1], was |-> w[i + 1]]>>
    <3>1. XorRebuilt(r, p) = {<<[is |-> q, was |-> w[i + 1]]>> : q \in {w[i + 1]}}
      BY <1>2, <1>4, <2>8, <2>9, <2>10 DEF XorRebuilt
    <3> QED BY <3>1
  <2>12. w[i + 1] \in Packet
    BY <2>4, <1>1, ElementOfSeq
  <2>13. Right(list, w, {i})
    <3>1. PICK x : x = [is |-> w[i + 1], was |-> w[i + 1]]
      OBVIOUS
    <3>2. x \in Pair /\ x.is = x.was /\ x.is = w[i + 1]
      BY <3>1, <2>12 DEF Pair
    <3>3. list = <<x>>
      BY <3>1, <2>11
    <3>4. list \in Seq(Pair) /\ ToSet(list) = {x}
      BY <3>2, <3>3 DEF ToSet
    <3> QED BY <3>2, <3>4 DEF Right
  <2> QED BY <2>3, <2>13, <1>4
<1> QED BY <1>3, <1>4

\* A block of which only the word w has been heard.
HoldsWord(b, w) ==
    /\ b.m \in Nat /\ b.k = Len(w)
    /\ \A j \in 0 .. b.m - 1 : b.parity[j] \in {<<>>, w}
    /\ \E j \in 0 .. b.m - 1 : b.parity[j] = w

\* Whatever shards of it are used, that word is what they give.
LEMMA WordIs ==
    ASSUME NEW N, Distinct(N), NEW r \in Seq(Packet), ToSet(r) \subseteq N,
           NEW w, w # <<>>, ToSet(w) \subseteq N, NEW b, Run(b.base, w),
           b.base \in Int, HoldsWord(b, w), MissingShards(r, b) # {}
    PROVE  Word(r, b) = w
<1> DEFINE miss == MissingShards(r, b)
           H == ParityHeard(b)
           need == Cardinality(miss)
           U == UsedParity(b, need)
           words == {b.parity[i] : i \in U}
<1>1. w \in Seq(Packet) /\ Len(w) \in Nat /\ b.m \in Nat /\ b.k = Len(w)
  BY LenProperties DEF Run, HoldsWord
<1>2. miss \subseteq 0 .. b.k - 1
  BY DEF MissingShards, Missing
<1>3. need \in Nat \ {0}
  <2>1. IsFiniteSet(0 .. b.k - 1)
    BY <1>1, FS_Interval
  <2>2. IsFiniteSet(miss)
    BY <2>1, <1>2, FS_Subset
  <2> QED BY <2>2, FS_EmptySet, FS_CardinalityType
<1>4. /\ H = {i \in 0 .. b.m - 1 : b.parity[i] # <<>>}
      /\ H # {} /\ \A i \in H : b.parity[i] = w
  BY DEF ParityHeard, HoldsWord
<1>5. H \subseteq Nat
  BY <1>1, <1>4
<1>6. PICK i \in H : \A j \in H : i <= j
  BY <1>4, <1>5, LeastNat
<1>7. i \in U
  <2>1. {j \in H : j < i} = {}
    BY <1>5, <1>6
  <2>2. Cardinality({j \in H : j < i}) = 0
    BY <2>1, FS_EmptySet
  <2> HIDE DEF need, H
  <2> QED BY <2>2, <1>3, <1>6 DEF UsedParity, H
<1>8. U \subseteq H
  BY DEF UsedParity
<1>9. words = {w}
  BY <1>4, <1>7, <1>8
<1>10. Cardinality(words) = 1 /\ (CHOOSE v \in words : TRUE) = w
  BY <1>9, FS_Singleton
<1>11. ASSUME NEW j \in (0 .. b.k - 1) \ miss
       PROVE  find(r, Wrap(b.base + j)) = w[j + 1]
  <2>1. j \in 0 .. Len(w) - 1
    BY <1>1
  <2>2. j \notin Missing(r, b.base, b.k)
    BY DEF MissingShards
  <2>3. Positions(r, Wrap(b.base + j)) # {}
    BY <2>2 DEF Missing
  <2> QED BY <2>1, <2>3, Found
<1>12. Word(r, b) = IF /\ Cardinality(words) = 1
                       /\ \A j \in (0 .. b.k - 1) \ miss :
                             find(r, Wrap(b.base + j)) =
                                (CHOOSE v \in words : TRUE)[j + 1]
                    THEN CHOOSE v \in words : TRUE
                    ELSE [j \in 1 .. b.k |-> Rubbish]
  BY DEF Word
<1> HIDE DEF words, miss
<1> QED BY <1>10, <1>11, <1>12

LEMMA RsRight ==
    ASSUME NEW N, Distinct(N), NEW r \in Seq(Packet), ToSet(r) \subseteq N,
           NEW p \in RsItem, ToSet(p.pkts) \subseteq N, NEW b,
           b.base = p.base, HoldsWord(b, p.pkts), NEW list \in RsRebuilt(r, b, p)
    PROVE  Right(list, p.pkts, MissingShards(r, b))
<1> DEFINE w == p.pkts
           miss == MissingShards(r, b)
           s == InOrder(miss)
           Made(v) == [j \in DOMAIN s |-> [is |-> v[s[j] + 1], was |-> w[s[j] + 1]]]
<1>1. /\ Run(p.base, w) /\ p.k = Len(w) /\ p.k # 0 /\ p.base \in Int
      /\ w \in Seq(Packet) /\ Len(w) \in Nat /\ b.k = Len(w)
  BY LenProperties, FecAssumption DEF RsItem, HoldsWord
<1>2. w # <<>>
  BY <1>1, EmptySeq
<1>3. miss \subseteq 0 .. b.k - 1
  BY DEF MissingShards, Missing
<1>4. IsFiniteSet(miss) /\ miss \subseteq Nat
  <2>0. 0 \in Int /\ b.k - 1 \in Int
    BY <1>1
  <2>1. IsFiniteSet(0 .. b.k - 1)
    BY <2>0, FS_Interval
  <2>2. 0 .. b.k - 1 \subseteq Nat
    BY <2>0
  <2> HIDE DEF miss
  <2> QED BY <2>1, <2>2, <1>3, FS_Subset
<1>5. RsRebuilt(r, b, p) = IF s = <<>> THEN {<<>>}
                           ELSE IF Rubbish \in ToSet(Word(r, b))
                           THEN {<<>>, Made(Word(r, b))}
                           ELSE {Made(Word(r, b))}
  BY DEF RsRebuilt
<1> HIDE DEF miss
<1>6. /\ s \in Seq(miss) /\ Len(s) = Cardinality(miss)
      /\ DOMAIN s = 1 .. Cardinality(miss) /\ ToSet(s) = miss
  BY <1>4, AscendingSeq
<1> HIDE DEF s
<1>7. CASE s = <<>>
  <2>1. miss = {}
    BY <1>6, <1>7, EmptySet
  <2>2. list = <<>>
    BY <1>5, <1>7
  <2> QED BY <2>1, <2>2, RightEmpty DEF miss
<1>8. CASE s # <<>>
  <2>1. miss # {}
    <3>1. Len(s) \in Nat \ {0}
      BY <1>6, <1>8, EmptySeq
    <3>2. s[1] \in miss
      BY <3>1, <1>6, ElementOfSeq
    <3> QED BY <3>2
  <2>2. Word(r, b) = w
    <3>1. /\ Run(b.base, w) /\ b.base \in Int
      BY <1>1
    <3> QED BY <3>1, <1>1, <1>2, <2>1, WordIs DEF miss
  <2>3. Rubbish \notin ToSet(w)
    <3>1. ToSet(w) \subseteq Packet
      BY <1>1, SetOfSeq
    <3>2. Rubbish \notin Packet
      BY DEF Rubbish, Packet
    <3> QED BY <3>1, <3>2
  <2>4. list = Made(w)
    BY <1>5, <1>8, <2>2, <2>3
  <2>5. ASSUME NEW j \in DOMAIN s
        PROVE  /\ s[j] \in miss /\ w[s[j] + 1] \in Packet
               /\ list[j] = [is |-> w[s[j] + 1], was |-> w[s[j] + 1]]
    <3>1. s[j] \in miss
      BY <1>6 DEF ToSet
    <3>2. s[j] + 1 \in 1 .. Len(w)
      <4>1. PICK i \in 0 .. Len(w) - 1 : i = s[j]
        BY <3>1, <1>1, <1>3
      <4> QED BY <4>1, <1>1
    <3> QED BY <3>1, <3>2, <2>4, <1>1, ElementOfSeq
  <2>6. DOMAIN list = DOMAIN s /\ Cardinality(miss) \in Nat
    BY <2>4, <1>4, FS_CardinalityType
  <2>7. list \in Seq(Pair)
    <3>1. ASSUME NEW j \in 1 .. Cardinality(miss) PROVE list[j] \in Pair
      <4>1. PICK x : x = w[s[j] + 1]
        OBVIOUS
      <4>2. x \in Packet /\ list[j] = [is |-> x, was |-> x]
        BY <4>1, <2>5, <1>6
      <4> QED BY <4>2 DEF Pair
    <3>2. list = [j \in 1 .. Cardinality(miss) |-> list[j]]
      BY <2>4, <1>6
    <3> QED BY <3>1, <3>2, <2>6
  <2>8. \A x \in ToSet(list) : x.is = x.was
    BY <2>5, <2>6 DEF ToSet
  <2>9. {x.is : x \in ToSet(list)} = {w[i + 1] : i \in miss}
    <3>1. ASSUME NEW x \in ToSet(list) PROVE x.is \in {w[i + 1] : i \in miss}
      BY <2>5, <2>6 DEF ToSet
    <3>2. ASSUME NEW i \in miss PROVE w[i + 1] \in {x.is : x \in ToSet(list)}
      <4>1. PICK j \in DOMAIN s : s[j] = i
        BY <1>6 DEF ToSet
      <4>2. list[j] \in ToSet(list) /\ list[j].is = w[i + 1]
        BY <4>1, <2>5, <2>6 DEF ToSet
      <4> QED BY <4>2
    <3> QED BY <3>1, <3>2
  <2> QED BY <2>7, <2>8, <2>9 DEF Right, miss
<1> QED BY <1>7, <1>8

-----------------------------------------------------------------------------
\* The decoder's table of blocks.
Words == UNION {[0 .. m - 1 -> Seq(Packet)] : m \in Nat}
Block == [base : 0 .. SEQ - 1, k : Nat, m : Nat, len : Nat, parity : Words]

BlockOk(b) ==
    /\ b \in Block /\ b.parity \in [0 .. b.m - 1 -> Seq(Packet)]
    /\ \E j \in 0 .. b.m - 1 : b.parity[j] # <<>>
    /\ \A j \in 0 .. b.m - 1 :
          b.parity[j] # <<>> =>
             /\ Run(b.base, b.parity[j]) /\ Len(b.parity[j]) = b.k
             /\ b.len = Max({q.size : q \in ToSet(b.parity[j])})

\* The datagrams whose parity the block holds.
Covers(b) == UNION {ToSet(b.parity[j]) : j \in 0 .. b.m - 1}

\* Whether block b is where parity p belongs.
Fits(b, p) == b.base = p.base /\ b.k = p.k /\ b.m = p.m

LEMMA BlockOfIs ==
    ASSUME NEW S, NEW bs \in Seq(S), NEW p
    PROVE  /\ BlockOf(bs, p) = 0 => \A i \in 1 .. Len(bs) : ~Fits(bs[i], p)
           /\ BlockOf(bs, p) # 0 => /\ BlockOf(bs, p) \in 1 .. Len(bs)
                                    /\ Fits(bs[BlockOf(bs, p)], p)
           /\ (\E i \in 1 .. Len(bs) : Fits(bs[i], p)) => BlockOf(bs, p) # 0
<1> DEFINE same == {i \in DOMAIN bs : Fits(bs[i], p)}
<1>1. DOMAIN bs = 1 .. Len(bs) /\ Len(bs) \in Nat
  BY LenProperties
<1>2. BlockOf(bs, p) = IF same = {} THEN 0 ELSE Min(same)
  BY DEF BlockOf, Fits
<1>3. same \subseteq Nat \ {0}
  BY <1>1
<1>4. ASSUME same # {} PROVE Min(same) \in same
  BY <1>3, <1>4, LeastNat
<1>5. \A i \in 1 .. Len(bs) : i \in same <=> Fits(bs[i], p)
  BY <1>1
<1>6. same \subseteq 1 .. Len(bs)
  BY <1>1
<1> HIDE DEF same
<1>7. CASE same = {}
  BY <1>2, <1>5, <1>7
<1>8. CASE same # {}
  <2>1. BlockOf(bs, p) \in same /\ BlockOf(bs, p) # 0
    BY <1>2, <1>3, <1>4, <1>8
  <2> QED BY <2>1, <1>5, <1>6
<1> QED BY <1>7, <1>8

\* The block a parity opens: room for its word, nothing heard yet.
LEMMA NewBlockIs ==
    ASSUME NEW p \in RsItem
    PROVE  /\ NewBlock(p) \in Block /\ Fits(NewBlock(p), p)
           /\ NewBlock(p).len = p.len
           /\ NewBlock(p).parity \in [0 .. p.m - 1 -> Seq(Packet)]
           /\ \A j \in 0 .. p.m - 1 : NewBlock(p).parity[j] = <<>>
<1>1. p.base \in 0 .. SEQ - 1 /\ p.k \in Nat /\ p.m \in Nat /\ p.len \in Nat
  BY DEF RsItem
<1>2. PICK f : f = [i \in 0 .. p.m - 1 |-> <<>>]
  OBVIOUS
<1>3. f \in [0 .. p.m - 1 -> Seq(Packet)] /\ \A j \in 0 .. p.m - 1 : f[j] = <<>>
  BY <1>2, EmptySeq
<1>4. f \in Words
  BY <1>1, <1>3 DEF Words
<1>5. NewBlock(p) = [base |-> p.base, k |-> p.k, m |-> p.m, len |-> p.len,
                     parity |-> f]
  BY <1>2 DEF NewBlock
<1> QED BY <1>1, <1>3, <1>4, <1>5 DEF Block, Fits

\* The block of a parity in the table: it holds the parity's word or nothing.
InTable(table, p, at) ==
    /\ table \in Seq(Block) /\ at \in 1 .. Len(table)
    /\ Fits(table[at], p) /\ table[at].len = p.len
    /\ table[at].parity \in [0 .. p.m - 1 -> Seq(Packet)]
    /\ \A j \in 0 .. p.m - 1 : table[at].parity[j] \in {<<>>, p.pkts}

LEMMA TableOk ==
    ASSUME NEW N, Distinct(N), NEW bs \in Seq(Block),
           \A i \in 1 .. Len(bs) : BlockOk(bs[i]) /\ Covers(bs[i]) \subseteq N,
           NEW p \in RsItem, ToSet(p.pkts) \subseteq N
    PROVE  LET table == WithBlock(bs, p)
               at == BlockOf(table, p)
           IN  /\ InTable(table, p, at)
               /\ \A i \in 1 .. Len(table) :
                     i # at => \E h \in 1 .. Len(bs) : table[i] = bs[h]
<1> DEFINE table == WithBlock(bs, p)
           at == BlockOf(table, p)
<1>1. CASE BlockOf(bs, p) # 0
  <2>1. table = bs /\ at = BlockOf(bs, p)
    BY <1>1 DEF WithBlock
  <2>2. at \in 1 .. Len(bs) /\ Fits(bs[at], p)
    BY <1>1, <2>1, BlockOfIs
  <2> HIDE DEF table, at
  <2>3. PICK b : b = bs[at]
    OBVIOUS
  <2>4. BlockOk(b) /\ Covers(b) \subseteq N /\ Fits(b, p)
    BY <2>2, <2>3
  <2>5. b.parity \in [0 .. p.m - 1 -> Seq(Packet)]
    BY <2>4 DEF BlockOk, Fits
  <2>6. ASSUME NEW j \in 0 .. p.m - 1, b.parity[j] # <<>> PROVE b.parity[j] = p.pkts
    <3>1. /\ Run(p.base, b.parity[j]) /\ Len(b.parity[j]) = p.k
      BY <2>4, <2>6 DEF BlockOk, Fits
    <3>2. Run(p.base, p.pkts) /\ Len(p.pkts) = p.k
      BY DEF RsItem
    <3>3. ToSet(b.parity[j]) \subseteq N
      BY <2>4 DEF Covers, Fits
    <3> QED BY <3>1, <3>2, <3>3, SameRun
  <2>7. b.len = p.len
    <3>1. PICK j \in 0 .. p.m - 1 : b.parity[j] # <<>>
      BY <2>4 DEF BlockOk, Fits
    <3>2. b.parity[j] = p.pkts
      BY <3>1, <2>6
    <3>3. b.len = Max({q.size : q \in ToSet(b.parity[j])})
      BY <3>1, <2>4 DEF BlockOk, Fits
    <3>4. p.len = Max({q.size : q \in ToSet(p.pkts)})
      BY DEF RsItem
    <3> QED BY <3>2, <3>3, <3>4
  <2>8. InTable(bs, p, at)
    BY <2>2, <2>3, <2>4, <2>5, <2>6, <2>7 DEF InTable
  <2> QED BY <2>1, <2>8 DEF table, at
<1>2. CASE BlockOf(bs, p) = 0
  <2> DEFINE old == IF Len(bs) >= BLOCKS THEN Tail(bs) ELSE bs
             new == NewBlock(p)
  <2>1. table = Append(old, new)
    BY <1>2 DEF WithBlock
  <2>2. /\ old \in Seq(Block)
        /\ \A i \in 1 .. Len(old) : \E h \in 1 .. Len(bs) : old[i] = bs[h]
    <3>1. CASE Len(bs) >= BLOCKS
      <4>1. Len(bs) \in Nat \ {0} /\ bs # <<>>
        BY <3>1, FecAssumption, LenProperties, EmptySeq
      <4>2. /\ Tail(bs) \in Seq(Block) /\ Len(Tail(bs)) = Len(bs) - 1
            /\ \A i \in 1 .. Len(Tail(bs)) : Tail(bs)[i] = bs[i + 1]
        BY <4>1, HeadTailProperties
      <4>3. \A i \in 1 .. Len(bs) - 1 : i + 1 \in 1 .. Len(bs)
        BY <4>1
      <4>4. old = Tail(bs)
        BY <3>1
      <4> HIDE DEF old
      <4> QED BY <4>2, <4>3, <4>4
    <3>2. CASE ~(Len(bs) >= BLOCKS)
      BY <3>2
    <3> QED BY <3>1, <3>2
  <2>3. /\ new \in Block /\ Fits(new, p) /\ new.len = p.len
        /\ new.parity \in [0 .. p.m - 1 -> Seq(Packet)]
        /\ \A j \in 0 .. p.m - 1 : new.parity[j] = <<>>
    BY NewBlockIs
  <2> HIDE DEF table, old, new
  <2>4. /\ table \in Seq(Block) /\ Len(table) = Len(old) + 1
        /\ \A i \in 1 .. Len(old) : table[i] = old[i]
        /\ table[Len(old) + 1] = new
        /\ Len(old) \in Nat
    BY <2>1, <2>2, <2>3, AppendProperties, LenProperties
  <2>5. \A i \in 1 .. Len(old) : ~Fits(table[i], p)
    BY <2>2, <2>4, <1>2, BlockOfIs
  <2>6. Len(table) \in 1 .. Len(table) /\ Fits(table[Len(table)], p)
    BY <2>3, <2>4
  <2>7. at \in 1 .. Len(table) /\ Fits(table[at], p)
    BY <2>4, <2>6, BlockOfIs
  <2> HIDE DEF at
  <2>8. at = Len(old) + 1
    BY <2>4, <2>5, <2>7
  <2>9. InTable(table, p, at)
    BY <2>3, <2>4, <2>7, <2>8 DEF InTable
  <2>10. \A i \in 1 .. Len(table) :
            i # at => \E h \in 1 .. Len(bs) : table[i] = bs[h]
    <3>1. ASSUME NEW i \in 1 .. Len(table), i # at
          PROVE  \E h \in 1 .. Len(bs) : table[i] = bs[h]
      <4>1. i \in 1 .. Len(old)
        BY <3>1, <2>4, <2>8
      <4> QED BY <4>1, <2>2, <2>4
    <3> QED BY <3>1
  <2> QED BY <2>9, <2>10 DEF table, at
<1> QED BY <1>1, <1>2

\* The table with the parity noted.
LEMMA NotedOk ==
    ASSUME NEW p \in RsItem, NEW table, NEW at, InTable(table, p, at),
           at = BlockOf(table, p), NEW noted, noted = WithParity(table, p)
    PROVE  /\ noted \in Seq(Block) /\ Len(noted) = Len(table)
           /\ \A i \in 1 .. Len(table) : i # at => noted[i] = table[i]
           /\ BlockOk(noted[at]) /\ Fits(noted[at], p)
           /\ HoldsWord(noted[at], p.pkts) /\ noted[at].len = p.len
           /\ noted[at].parity[p.idx] = p.pkts
           /\ \A j \in 0 .. p.m - 1 : j # p.idx =>
                 noted[at].parity[j] = table[at].parity[j]
<1> DEFINE w == p.pkts
<1>1. /\ p.m \in Nat /\ p.idx \in 0 .. p.m - 1 /\ w \in Seq(Packet) /\ w # <<>>
      /\ Run(p.base, w) /\ p.k = Len(w)
      /\ p.len = Max({q.size : q \in ToSet(w)})
  <2>1. /\ p.m \in Nat /\ p.idx \in Nat /\ p.idx < p.m /\ w \in Seq(Packet)
        /\ Run(p.base, w) /\ p.k = Len(w) /\ p.k # 0
        /\ p.len = Max({q.size : q \in ToSet(w)})
    BY DEF RsItem
  <2> QED BY <2>1, EmptySeq
<1>2. PICK b : b = table[at]
  OBVIOUS
<1>3. PICK f : f = [b.parity EXCEPT ![p.idx] = w]
  OBVIOUS
<1>4. PICK c : c = [b EXCEPT !.parity = f]
  OBVIOUS
<1>5. /\ table \in Seq(Block) /\ at \in 1 .. Len(table) /\ b \in Block
      /\ Fits(b, p) /\ b.len = p.len
      /\ b.parity \in [0 .. p.m - 1 -> Seq(Packet)]
      /\ \A j \in 0 .. p.m - 1 : b.parity[j] \in {<<>>, w}
  BY <1>2, ElementOfSeq DEF InTable
<1>6. /\ f \in [0 .. p.m - 1 -> Seq(Packet)] /\ f[p.idx] = w
      /\ \A j \in 0 .. p.m - 1 : j # p.idx => f[j] = b.parity[j]
  BY <1>1, <1>3, <1>5
<1>7. f \in Words
  BY <1>1, <1>6 DEF Words
<1>8. c \in Block /\ c.parity = f /\ Fits(c, p) /\ c.len = p.len
  BY <1>4, <1>5, <1>7 DEF Block, Fits
<1>9. noted = [table EXCEPT ![at] = c]
  <2>1. noted = [table EXCEPT ![at].parity[p.idx] = w]
    BY DEF WithParity
  <2> QED BY <2>1, <1>2, <1>3, <1>4
<1>10. /\ noted \in Seq(Block) /\ Len(noted) = Len(table)
       /\ \A i \in 1 .. Len(table) : noted[i] = IF i = at THEN c ELSE table[i]
  BY <1>5, <1>8, <1>9, ExceptSeq
<1>11. noted[at] = c
  BY <1>5, <1>10
<1>12. \A j \in 0 .. p.m - 1 : f[j] \in {<<>>, w}
  BY <1>5, <1>6
<1>13. HoldsWord(c, w)
  BY <1>1, <1>6, <1>8, <1>12 DEF HoldsWord, Fits
<1>14. BlockOk(c)
  BY <1>1, <1>6, <1>8, <1>12 DEF BlockOk, Fits
<1> QED BY <1>2, <1>6, <1>8, <1>10, <1>11, <1>13, <1>14

-----------------------------------------------------------------------------
\* The state.
Cam == [id : Nat \ {0}, seq : 0 .. SEQ - 1, ts : Int, changes : Int]

\* The groups of the encoder, of the parity under way and of the table are
\* runs, and what was rebuilt last was right.
FecInv ==
    /\ code \in {"xor", "rs"} /\ cam \in Cam /\ EncOk(enc, cam.id)
    /\ net \in Seq(Item)
    /\ \A x \in ToSet(net) : x.kind \in {"data", "restart", code}
    /\ ring \in Seq(Packet)
    /\ blocks \in Seq(Block) /\ \A i \in 1 .. Len(blocks) : BlockOk(blocks[i])
    /\ RepairExact

\* The parity that can be heard next, and the datagrams it and the decoder
\* know.
Arriving ==
    {i \in 1 .. 2 : /\ i \in 1 .. Len(net) /\ net[i].kind \in {"xor", "rs"}
                    /\ \A j \in 1 .. i : net[j].kind # "restart"}

InParity == UNION {ToSet(net[i].pkts) : i \in Arriving}
InBlocks == UNION {Covers(blocks[i]) : i \in 1 .. Len(blocks)}
Named == ToSet(ring) \cup InParity \cup InBlocks

\* Of the datagrams at hand no two go by the same number.
OneName == Distinct(Named)

LEMMA FecInvInit == FecInit => FecInv
<1> SUFFICES ASSUME FecInit PROVE FecInv
  OBVIOUS
<1>1. code \in {"xor", "rs"} /\ net = <<>> /\ ring = <<>> /\ blocks = <<>> /\ out = {}
  BY DEF FecInit
<1>2. cam \in Cam
  BY FecAssumption DEF FecInit, Cam
<1>3. EncOk(enc, cam.id)
  <2>1. PICK rate \in Rates :
           enc = [rate |-> rate, group |-> <<>>, base |-> 0, next |-> NoSeq,
                  ts |-> NoTs]
    BY DEF FecInit
  <2>2. enc \in Encoder /\ enc.group = <<>> /\ enc.base = 0
    <3>1. <<>> \in Seq(Packet) /\ rate \in Nat
      BY EmptySeq, FecAssumption
    <3>2. 0 \in 0 .. SEQ - 1 /\ NoSeq \in -1 .. SEQ - 1 /\ NoTs \in Int
      BY FecAssumption DEF NoSeq, NoTs
    <3> QED BY <2>1, <3>1, <3>2 DEF Encoder
  <2>3. Run(enc.base, enc.group)
    BY <2>2, EmptyRun
  <2> QED BY <2>2, <2>3 DEF EncOk
<1>4. RepairExact
  BY <1>1 DEF RepairExact
<1> QED BY <1>1, <1>2, <1>3, <1>4, EmptySeq, EmptySet DEF FecInv

\* What the source hands over and what push makes of it.
LEMMA PushStep ==
    ASSUME FecInv, NEW size \in Sizes, NEW marker \in BOOLEAN,
           NEW newFrame \in BOOLEAN, Push(size, marker, newFrame)
    PROVE  \E p, d :
              /\ p \in Packet /\ p.id = cam.id /\ p.seq = cam.seq /\ p.size = size
              /\ PushOk(enc, p, d) /\ d.sent \in Seq(Item)
              /\ enc' = d.enc
              /\ net' = (net \o <<[kind |-> "data", pkt |-> p]>>) \o d.sent
              /\ cam' \in Cam /\ cam'.id = cam.id + 1
              /\ cam'.seq = Wrap(cam.seq + 1)
<1> DEFINE ts == IF newFrame THEN cam.ts + 1 ELSE cam.ts
           p == [id |-> cam.id, seq |-> cam.seq, size |-> size]
           d == push(enc, p, ts, marker)
<1>1. cam \in Cam /\ EncOk(enc, cam.id) /\ code \in {"xor", "rs"}
  BY DEF FecInv
<1>2. /\ p \in Packet /\ p.id = cam.id /\ p.seq = cam.seq /\ p.size = size
      /\ ts \in Int
  BY <1>1, FecAssumption DEF Packet, Cam
<1>3. /\ enc' = d.enc
      /\ net' = (net \o <<[kind |-> "data", pkt |-> p]>>) \o d.sent
      /\ cam' = [cam EXCEPT !.id = @ + 1, !.seq = Wrap(@ + 1),
                            !.ts = IF marker THEN ts + 1 ELSE ts,
                            !.changes = IF size > FEC_MAX_PACKET
                                        THEN @ + 1 ELSE @]
  BY DEF Push
<1>4. d = IF code = "xor" THEN XorPush(enc, p, ts, marker)
          ELSE RsPush(enc, p, ts, marker)
  BY DEF push
<1>5. cam' \in Cam /\ cam'.id = cam.id + 1 /\ cam'.seq = Wrap(cam.seq + 1)
  <2>1. Wrap(cam.seq + 1) \in 0 .. SEQ - 1
    <3>1. cam.seq + 1 \in Int
      BY <1>1, FecAssumption DEF Cam
    <3> QED BY <3>1, WrapType
  <2>2. (IF marker THEN ts + 1 ELSE ts) \in Int
    BY <1>2
  <2>3. PICK a, b, c, f : /\ a = cam.id + 1 /\ b = Wrap(cam.seq + 1)
                         /\ c = (IF marker THEN ts + 1 ELSE ts)
                         /\ f = (IF size > FEC_MAX_PACKET THEN cam.changes + 1
                                                        ELSE cam.changes)
    OBVIOUS
  <2>4. a \in Nat \ {0} /\ b \in 0 .. SEQ - 1 /\ c \in Int /\ f \in Int
    BY <1>1, <2>1, <2>2, <2>3 DEF Cam
  <2>5. cam' = [cam EXCEPT !.id = a, !.seq = b, !.ts = c, !.changes = f]
    BY <1>3, <2>3
  <2> QED BY <1>1, <2>3, <2>4, <2>5 DEF Cam
<1> HIDE DEF ts, p, d
<1>6. PushOk(enc, p, d)
  BY <1>1, <1>2, <1>4, XorPushed, RsPushed
<1>7. d.sent \in Seq(Item)
  <2>1. d.sent \in Seq(XorItem) \/ d.sent \in Seq(RsItem)
    BY <1>6 DEF PushOk
  <2>2. XorItem \subseteq Item /\ RsItem \subseteq Item
    BY DEF Item
  <2> QED BY <2>1, <2>2
<1> QED BY <1>2, <1>3, <1>5, <1>6, <1>7

LEMMA FecInvPush ==
    ASSUME FecInv, NEW size \in Sizes, NEW marker \in BOOLEAN,
           NEW newFrame \in BOOLEAN, Push(size, marker, newFrame)
    PROVE  FecInv'
<1>1. PICK p, d :
              /\ p \in Packet /\ p.id = cam.id
              /\ PushOk(enc, p, d) /\ d.sent \in Seq(Item)
              /\ enc' = d.enc
              /\ net' = (net \o <<[kind |-> "data", pkt |-> p]>>) \o d.sent
              /\ cam' \in Cam /\ cam'.id = cam.id + 1
  BY PushStep
<1>2. EncOk(enc', cam'.id)
  BY <1>1 DEF PushOk
<1>3. PICK x : x = [kind |-> "data", pkt |-> p]
  OBVIOUS
<1>4. x \in Item /\ x.kind = "data"
  BY <1>1, <1>3 DEF Item, DataItem
<1>5. <<x>> \in Seq(Item) /\ ToSet(<<x>>) = {x}
  BY <1>4 DEF ToSet
<1>6. net \in Seq(Item)
  BY DEF FecInv
<1>7. net \o <<x>> \in Seq(Item) /\ ToSet(net \o <<x>>) = ToSet(net) \cup {x}
  <2>1. Chained(Item, net, <<x>>, net \o <<x>>)
    BY <1>5, <1>6, ConcatSet
  <2> QED BY <2>1, <1>5 DEF Chained
<1>8. PICK s, t : s = net \o <<x>> /\ t = d.sent
  OBVIOUS
<1>9. s \o t \in Seq(Item) /\ ToSet(s \o t) = ToSet(s) \cup ToSet(t)
  <2>1. Chained(Item, s, t, s \o t)
    BY <1>1, <1>7, <1>8, ConcatSet
  <2> QED BY <2>1 DEF Chained
<1>10. net' \in Seq(Item) /\ ToSet(net') = ToSet(net) \cup {x} \cup ToSet(d.sent)
  BY <1>1, <1>3, <1>7, <1>8, <1>9
<1>11. UNCHANGED <<code, ring, blocks>> /\ out' = {}
  BY DEF Push
<1>12. \A y \in ToSet(d.sent) : y.kind = code
  <2>1. \A y \in XorItem : y.kind = "xor"
    BY DEF XorItem
  <2>2. \A y \in RsItem : y.kind = "rs"
    BY DEF RsItem
  <2> QED BY <1>1, <2>1, <2>2 DEF PushOk, FecInv
<1>13. \A y \in ToSet(net') : y.kind \in {"data", "restart", code'}
  BY <1>4, <1>10, <1>11, <1>12 DEF FecInv
<1>14. RepairExact'
  BY <1>11 DEF RepairExact
<1>15. blocks' \in Seq(Block) /\ \A i \in 1 .. Len(blocks') : BlockOk(blocks'[i])
  BY <1>11 DEF FecInv
<1> QED BY <1>1, <1>2, <1>10, <1>11, <1>13, <1>14, <1>15 DEF FecInv

LEMMA FecInvSetRate ==
    ASSUME FecInv, NEW rate \in Rates, SetRate(rate)
    PROVE  FecInv'
<1>1. cam \in Cam /\ EncOk(enc, cam.id) /\ rate \in Nat
  BY FecAssumption DEF FecInv
<1>2. cam' \in Cam /\ cam'.id = cam.id
  BY <1>1 DEF SetRate, Cam
<1>3. EncOk(enc', cam.id)
  <2>1. enc \in Encoder
    BY <1>1 DEF EncOk
  <2>2. CASE code = "xor"
    <3>1. enc' = [enc EXCEPT !.group = <<>>, !.rate = rate, !.next = NoSeq]
      BY <2>1, <2>2 DEF SetRate, Emptied
    <3>2. <<>> \in Seq(Packet) /\ NoSeq \in -1 .. SEQ - 1
      BY EmptySeq, FecAssumption DEF NoSeq
    <3>3. enc' \in Encoder /\ enc'.group = <<>> /\ enc'.base = enc.base
      BY <1>1, <2>1, <3>1, <3>2 DEF Encoder
    <3>4. Run(enc'.base, enc'.group)
      BY <2>1, <3>3, EmptyRun, FecAssumption DEF Encoder
    <3> QED BY <3>3, <3>4 DEF EncOk
  <2>3. CASE code # "xor"
    <3>1. enc' = [enc EXCEPT !.rate = rate]
      BY <2>3 DEF SetRate
    <3>2. /\ enc' \in Encoder /\ enc'.group = enc.group
          /\ enc'.base = enc.base /\ enc'.next = enc.next
      BY <1>1, <2>1, <3>1 DEF Encoder
    <3> QED BY <1>1, <3>2 DEF EncOk
  <2> QED BY <2>2, <2>3
<1>4. UNCHANGED <<code, net, ring, blocks>> /\ out' = {}
  BY DEF SetRate
<1>5. RepairExact'
  BY <1>4 DEF RepairExact
<1> QED BY <1>2, <1>3, <1>4, <1>5 DEF FecInv

LEMMA FecInvRestart ==
    ASSUME FecInv, NEW jump \in Int, Restart(jump)
    PROVE  FecInv'
<1>1. cam \in Cam /\ net \in Seq(Item)
  BY DEF FecInv
<1>2. cam' \in Cam /\ cam'.id = cam.id
  <2>1. Wrap(cam.seq + jump) \in 0 .. SEQ - 1
    <3>1. cam.seq + jump \in Int
      BY <1>1, FecAssumption DEF Cam
    <3> QED BY <3>1, WrapType
  <2>2. PICK a, b, c : /\ a = Wrap(cam.seq + jump)
                       /\ b = cam.ts + 1 /\ c = cam.changes + 1
    OBVIOUS
  <2>3. a \in 0 .. SEQ - 1 /\ b \in Int /\ c \in Int
    BY <1>1, <2>1, <2>2 DEF Cam
  <2>4. cam' = [cam EXCEPT !.changes = c, !.seq = a, !.ts = b]
    BY <2>2 DEF Restart
  <2> QED BY <1>1, <2>3, <2>4 DEF Cam
<1>3. PICK x : x = [kind |-> "restart"]
  OBVIOUS
<1>4. x \in Item /\ x.kind = "restart"
  BY <1>3 DEF Item, RestartItem
<1>5. net' = net \o <<x>>
  <2>1. net' = Append(net, x)
    BY <1>3 DEF Restart
  <2> QED BY <2>1, <1>1, <1>4, AppendIsConcat
<1>6. <<x>> \in Seq(Item) /\ ToSet(<<x>>) = {x}
  BY <1>4 DEF ToSet
<1>7. net' \in Seq(Item) /\ ToSet(net') = ToSet(net) \cup {x}
  <2>1. Chained(Item, net, <<x>>, net \o <<x>>)
    BY <1>1, <1>6, ConcatSet
  <2> QED BY <2>1, <1>5, <1>6 DEF Chained
<1>8. UNCHANGED <<code, enc, ring, blocks>> /\ out' = {}
  BY DEF Restart
<1>9. RepairExact'
  BY <1>8 DEF RepairExact
<1> QED BY <1>2, <1>4, <1>7, <1>8, <1>9 DEF FecInv

LEMMA Arrived ==
    ASSUME FecInv, NEW i \in 1 .. 2, Arrives(i)
    PROVE  /\ i \in 1 .. Len(net) /\ net[i] \in Item /\ net' = RemoveAt(net, i)
           /\ net[i] \in ToSet(net)
           /\ net' \in Seq(Item) /\ ToSet(net') \subseteq ToSet(net)
           /\ net[i].kind \in {"xor", "rs"} => i \in Arriving
<1>1. net \in Seq(Item)
  BY DEF FecInv
<1>2. DOMAIN net = 1 .. Len(net) /\ Len(net) \in Nat
  BY <1>1, LenProperties
<1>3. i \in 1 .. Len(net) /\ net' = RemoveAt(net, i)
  BY <1>2 DEF Arrives
<1>4. net[i] \in Item /\ net[i] \in ToSet(net)
  BY <1>1, <1>2, <1>3, ElementOfSeq DEF ToSet
<1>5. /\ net' \in Seq(Item) /\ Len(net') = Len(net) - 1
      /\ \A j \in 1 .. Len(net) - 1 : net'[j] = IF j < i THEN net[j] ELSE net[j + 1]
  BY <1>1, <1>3, RemovedAt
<1>6. ToSet(net') \subseteq ToSet(net)
  <2>1. DOMAIN net' = 1 .. Len(net) - 1
    BY <1>5, LenProperties
  <2>2. \A j \in 1 .. Len(net) - 1 : j \in DOMAIN net /\ j + 1 \in DOMAIN net
    BY <1>2
  <2> QED BY <2>1, <2>2, <1>5 DEF ToSet
<1>7. ASSUME net[i].kind \in {"xor", "rs"} PROVE i \in Arriving
  <2>1. \A j \in 1 .. i : net[j].kind # "restart"
    <3>1. CASE i = 1
      BY <3>1, <1>7
    <3>2. CASE i = 2
      BY <3>2 DEF Arrives
    <3> QED BY <3>1, <3>2
  <2> QED BY <2>1, <1>3, <1>7 DEF Arriving
<1> QED BY <1>3, <1>4, <1>5, <1>6, <1>7

\* What a step hands to the renderer, and to the ring.
Handed(X) ==
    /\ {x.is : x \in out'} = X /\ got' = got \cup X
    /\ ToSet(ring') \subseteq ToSet(ring) \cup X

LEMMA Rebuilt ==
    ASSUME ring \in Seq(Packet), NEW list, NEW w, NEW miss,
           Right(list, w, miss), Rebuild(list)
    PROVE  /\ ring' \in Seq(Packet) /\ RepairExact'
           /\ Handed({w[i + 1] : i \in miss})
<1> DEFINE l == [j \in DOMAIN list |-> list[j].is]
           I == {w[i + 1] : i \in miss}
<1>1. /\ list \in Seq(Pair) /\ \A x \in ToSet(list) : x.is = x.was
      /\ {x.is : x \in ToSet(list)} = I
  BY DEF Right
<1>2. DOMAIN list = 1 .. Len(list) /\ Len(list) \in Nat
  BY <1>1, LenProperties
<1>3. \A j \in DOMAIN list : list[j] \in Pair /\ list[j].is \in Packet
  <2>1. \A x \in Pair : x.is \in Packet
    BY DEF Pair
  <2> QED BY <1>1, <1>2, <2>1, ElementOfSeq
<1>4. l \in Seq(Packet)
  BY <1>2, <1>3
<1>5. ToSet(l) = {x.is : x \in ToSet(list)}
  BY DEF ToSet
<1>6. /\ ring' = Remember(ring, l) /\ out' = ToSet(list)
      /\ got' = got \cup {x.is : x \in ToSet(list)}
  BY DEF Rebuild
<1> HIDE DEF l, I
<1>7. /\ Remember(ring, l) \in Seq(Packet)
      /\ ToSet(Remember(ring, l)) \subseteq ToSet(ring) \cup ToSet(l)
  BY <1>4, Remembered
<1>8. RepairExact'
  BY <1>1, <1>6 DEF RepairExact
<1>9. ToSet(ring') \subseteq ToSet(ring) \cup I
  BY <1>1, <1>5, <1>6, <1>7
<1>10. Handed(I)
  BY <1>1, <1>6, <1>9 DEF Handed
<1> QED BY <1>6, <1>7, <1>8, <1>10 DEF I

LEMMA ItemKinds ==
    ASSUME NEW x \in Item
    PROVE  /\ x.kind = "data" => x \in DataItem
           /\ x.kind = "xor" => x \in XorItem
           /\ x.kind = "rs" => x \in RsItem
<1>1. /\ \A y \in DataItem : y.kind = "data"
      /\ \A y \in RestartItem : y.kind = "restart"
  BY DEF DataItem, RestartItem
<1>2. /\ \A y \in XorItem : y.kind = "xor"
      /\ \A y \in RsItem : y.kind = "rs"
  BY DEF XorItem, RsItem
<1> QED BY <1>1, <1>2 DEF Item

LEMMA FecInvPacket ==
    ASSUME FecInv, NEW i \in 1 .. 2, OnPacket(i)
    PROVE  FecInv'
<1>1. /\ net[i] \in Item /\ net' \in Seq(Item) /\ ToSet(net') \subseteq ToSet(net)
  BY Arrived DEF OnPacket
<1>2. net[i] \in DataItem
  BY <1>1, ItemKinds DEF OnPacket
<1>3. PICK p : p = net[i].pkt
  OBVIOUS
<1>4. p \in Packet
  BY <1>2, <1>3 DEF DataItem
<1>5. <<p>> \in Seq(Packet) /\ ring \in Seq(Packet)
  BY <1>4 DEF FecInv
<1>6. ring' = Remember(ring, <<p>>)
  BY <1>3 DEF OnPacket
<1>7. ring' \in Seq(Packet)
  BY <1>5, <1>6, Remembered
<1>8. UNCHANGED <<code, enc, cam, blocks>> /\ out' = {}
  BY DEF OnPacket
<1>9. RepairExact'
  BY <1>8 DEF RepairExact
<1> QED BY <1>1, <1>7, <1>8, <1>9 DEF FecInv

LEMMA FecInvLose ==
    ASSUME FecInv, LoseDatagram
    PROVE  FecInv' /\ ToSet(net') \subseteq ToSet(net)
<1>1. net \in Seq(Item) /\ net # <<>> /\ net' = Tail(net)
  BY DEF FecInv, LoseDatagram
<1>2. /\ net' \in Seq(Item) /\ Len(net') = Len(net) - 1
      /\ \A j \in 1 .. Len(net') : net'[j] = net[j + 1]
  BY <1>1, HeadTailProperties
<1>3. DOMAIN net = 1 .. Len(net) /\ DOMAIN net' = 1 .. Len(net') /\ Len(net) \in Nat
  BY <1>1, <1>2, LenProperties
<1>4. \A j \in 1 .. Len(net') : j + 1 \in DOMAIN net
  BY <1>2, <1>3
<1>5. ToSet(net') \subseteq ToSet(net)
  BY <1>2, <1>3, <1>4 DEF ToSet
<1>6. UNCHANGED <<code, enc, cam, ring, blocks>> /\ out' = {}
  BY DEF LoseDatagram
<1>7. RepairExact'
  BY <1>6 DEF RepairExact
<1> QED BY <1>2, <1>5, <1>6, <1>7 DEF FecInv

LEMMA FecInvOnRestart ==
    ASSUME FecInv, OnRestart
    PROVE  FecInv'
<1>1. net' \in Seq(Item) /\ ToSet(net') \subseteq ToSet(net)
  <2>1. 1 \in 1 .. 2 /\ Arrives(1)
    BY DEF OnRestart
  <2> QED BY <2>1, Arrived
<1>2. UNCHANGED <<code, enc, cam>> /\ out' = {} /\ ring' = <<>> /\ blocks' = <<>>
  BY DEF OnRestart
<1>3. RepairExact'
  BY <1>2 DEF RepairExact
<1> QED BY <1>1, <1>2, <1>3, EmptySeq DEF FecInv

LEMMA NamedHas ==
    /\ ToSet(ring) \subseteq Named
    /\ \A i \in Arriving : ToSet(net[i].pkts) \subseteq Named
    /\ \A i \in 1 .. Len(blocks) : Covers(blocks[i]) \subseteq Named
<1>1. ToSet(ring) \subseteq Named
  BY DEF Named
<1>2. ASSUME NEW i \in Arriving PROVE ToSet(net[i].pkts) \subseteq Named
  <2>1. ToSet(net[i].pkts) \subseteq InParity
    BY DEF InParity
  <2> QED BY <2>1 DEF Named
<1>3. ASSUME NEW i \in 1 .. Len(blocks) PROVE Covers(blocks[i]) \subseteq Named
  <2>1. Covers(blocks[i]) \subseteq InBlocks
    BY DEF InBlocks
  <2> QED BY <2>1 DEF Named
<1> QED BY <1>1, <1>2, <1>3

\* FecDecoder::on_parity rebuilds what is missing if it is one datagram.
LEMMA XorStep ==
    ASSUME FecInv, OneName, NEW i \in 1 .. 2, OnXorParity(i)
    PROVE  /\ net[i] \in XorItem /\ i \in Arriving
           /\ \E list :
                 LET w == net[i].pkts
                     miss == {j \in 0 .. Len(w) - 1 : w[j + 1] \notin ToSet(ring)}
                 IN  /\ Rebuild(list)
                     /\ Right(list, w, IF Cardinality(miss) = 1 THEN miss ELSE {})
<1>1. Arrives(i) /\ net[i].kind = "xor"
  BY DEF OnXorParity
<1>2. net[i] \in XorItem /\ i \in Arriving
  BY <1>1, Arrived, ItemKinds
<1>3. PICK list \in XorRebuilt(ring, net[i]) : Rebuild(list)
  BY DEF OnXorParity
<1>4. ToSet(ring) \subseteq Named /\ ToSet(net[i].pkts) \subseteq Named
  BY <1>2, NamedHas
<1>5. Distinct(Named) /\ ring \in Seq(Packet)
  BY DEF OneName, FecInv
<1> QED BY <1>2, <1>3, <1>4, <1>5, XorRight

LEMMA FecInvXor ==
    ASSUME FecInv, OneName, NEW i \in 1 .. 2, OnXorParity(i)
    PROVE  FecInv'
<1>1. /\ net' \in Seq(Item) /\ ToSet(net') \subseteq ToSet(net)
  BY Arrived DEF OnXorParity
<1>2. PICK list, w, miss : Rebuild(list) /\ Right(list, w, miss)
  BY XorStep
<1>3. ring' \in Seq(Packet) /\ RepairExact'
  BY <1>2, Rebuilt DEF FecInv
<1>4. UNCHANGED <<code, enc, cam, blocks>>
  BY DEF OnXorParity
<1> QED BY <1>1, <1>3, <1>4 DEF FecInv

\* RsFecDecoder::on_parity: the parity is noted in its block, and the block
\* leaves the table when it can be rebuilt.
NotesParity(p, table, at, noted) ==
    /\ table = WithBlock(blocks, p) /\ at = BlockOf(table, p)
    /\ noted = WithParity(table, p)
    /\ InTable(table, p, at)
    /\ \A h \in 1 .. Len(table) :
          h # at => \E j \in 1 .. Len(blocks) : table[h] = blocks[j]
    /\ noted \in Seq(Block) /\ Len(noted) = Len(table)
    /\ \A h \in 1 .. Len(noted) : h # at => noted[h] = table[h]
    /\ \A h \in 1 .. Len(noted) : BlockOk(noted[h])

Rebuilds(p, at, noted) ==
    \/ /\ ~Repairable(ring, noted[at])
       /\ Rebuild(<<>>) /\ blocks' = noted
    \/ /\ Repairable(ring, noted[at])
       /\ blocks' = RemoveAt(noted, at)
       /\ \E list : Rebuild(list)
                    /\ Right(list, p.pkts, MissingShards(ring, noted[at]))

LEMMA RsStep ==
    ASSUME FecInv, OneName, NEW i \in 1 .. 2, OnRsParity(i)
    PROVE  /\ net[i] \in RsItem /\ i \in Arriving
           /\ \E table, at, noted : /\ NotesParity(net[i], table, at, noted)
                                    /\ Rebuilds(net[i], at, noted)
<1>1. Arrives(i) /\ net[i].kind = "rs"
  BY DEF OnRsParity
<1>2. net[i] \in RsItem /\ i \in Arriving
  BY <1>1, Arrived, ItemKinds
<1>3. PICK p : p = net[i]
  OBVIOUS
<1>4. PICK table : table = WithBlock(blocks, p)
  OBVIOUS
<1>5. PICK at : at = BlockOf(table, p)
  OBVIOUS
<1>6. PICK noted : noted = WithParity(table, p)
  OBVIOUS
<1>7. p \in RsItem /\ ToSet(p.pkts) \subseteq Named
  BY <1>2, <1>3, NamedHas
<1>8. /\ blocks \in Seq(Block) /\ ring \in Seq(Packet) /\ Distinct(Named)
      /\ \A h \in 1 .. Len(blocks) :
            BlockOk(blocks[h]) /\ Covers(blocks[h]) \subseteq Named
  BY NamedHas DEF FecInv, OneName
<1>9. /\ InTable(table, p, at)
      /\ \A h \in 1 .. Len(table) :
            h # at => \E j \in 1 .. Len(blocks) : table[h] = blocks[j]
  BY <1>4, <1>5, <1>7, <1>8, TableOk
<1>10. /\ noted \in Seq(Block) /\ Len(noted) = Len(table)
       /\ \A h \in 1 .. Len(table) : h # at => noted[h] = table[h]
       /\ BlockOk(noted[at]) /\ Fits(noted[at], p)
       /\ HoldsWord(noted[at], p.pkts) /\ noted[at].len = p.len
  BY <1>5, <1>6, <1>7, <1>9, NotedOk
<1>11. \A h \in 1 .. Len(noted) : BlockOk(noted[h])
  BY <1>8, <1>9, <1>10
<1>12. NotesParity(p, table, at, noted)
  BY <1>4, <1>5, <1>6, <1>9, <1>10, <1>11 DEF NotesParity
<1>13. table[at].len = p.len
  BY <1>9 DEF InTable
<1>14. IF ~Repairable(ring, noted[at])
       THEN Rebuild(<<>>) /\ blocks' = noted
       ELSE /\ blocks' = RemoveAt(noted, at)
            /\ \E list \in RsRebuilt(ring, noted[at], p) : Rebuild(list)
  BY <1>3, <1>4, <1>5, <1>6, <1>13 DEF OnRsParity
<1>15. \A list \in RsRebuilt(ring, noted[at], p) :
          Right(list, p.pkts, MissingShards(ring, noted[at]))
  <2>1. noted[at].base = p.base
    BY <1>10 DEF Fits
  <2>2. PICK b : b = noted[at]
    OBVIOUS
  <2>3. b.base = p.base /\ HoldsWord(b, p.pkts) /\ ToSet(ring) \subseteq Named
    BY <2>1, <2>2, <1>10, NamedHas
  <2>4. ASSUME NEW list \in RsRebuilt(ring, b, p)
        PROVE  Right(list, p.pkts, MissingShards(ring, b))
    BY <2>3, <1>7, <1>8, RsRight
  <2> QED BY <2>2, <2>4
<1>16. Rebuilds(p, at, noted)
  <2>1. CASE ~Repairable(ring, noted[at])
    BY <2>1, <1>14 DEF Rebuilds
  <2>2. CASE Repairable(ring, noted[at])
    BY <2>2, <1>14, <1>15 DEF Rebuilds
  <2> QED BY <2>1, <2>2
<1> QED BY <1>2, <1>3, <1>12, <1>16

LEMMA FecInvRs ==
    ASSUME FecInv, OneName, NEW i \in 1 .. 2, OnRsParity(i)
    PROVE  FecInv'
<1>1. /\ net' \in Seq(Item) /\ ToSet(net') \subseteq ToSet(net)
  BY Arrived DEF OnRsParity
<1>2. PICK table, at, noted : /\ NotesParity(net[i], table, at, noted)
                              /\ Rebuilds(net[i], at, noted)
  BY RsStep
<1>3. /\ noted \in Seq(Block) /\ at \in 1 .. Len(noted)
      /\ \A h \in 1 .. Len(noted) : BlockOk(noted[h])
  BY <1>2 DEF NotesParity, InTable
<1>4. ring \in Seq(Packet)
  BY DEF FecInv
<1>5. ring' \in Seq(Packet) /\ RepairExact'
  <2>1. PICK list, w, miss : Rebuild(list) /\ Right(list, w, miss)
    BY <1>2, RightEmpty DEF Rebuilds
  <2> QED BY <2>1, <1>4, Rebuilt
<1>6. /\ blocks' \in Seq(Block) /\ \A h \in 1 .. Len(blocks') : BlockOk(blocks'[h])
  <2>1. CASE blocks' = noted
    BY <2>1, <1>3
  <2>2. CASE blocks' = RemoveAt(noted, at)
    <3>1. /\ blocks' \in Seq(Block) /\ Len(blocks') = Len(noted) - 1
          /\ \A h \in 1 .. Len(noted) - 1 :
                blocks'[h] = IF h < at THEN noted[h] ELSE noted[h + 1]
      BY <2>2, <1>3, RemovedAt
    <3>2. Len(noted) \in Nat
      BY <1>3, LenProperties
    <3>3. \A h \in 1 .. Len(noted) - 1 : h \in 1 .. Len(noted) /\ h + 1 \in 1 .. Len(noted)
      BY <3>2
    <3> QED BY <3>1, <3>3, <1>3
  <2> QED BY <2>1, <2>2, <1>2 DEF Rebuilds
<1>7. UNCHANGED <<code, enc, cam>>
  BY DEF OnRsParity
<1> QED BY <1>1, <1>5, <1>6, <1>7 DEF FecInv

LEMMA FecInvStep ==
    FecInv /\ OneName /\ [FecNext]_fvars => FecInv'
<1> SUFFICES ASSUME FecInv, OneName, [FecNext]_fvars PROVE FecInv'
  OBVIOUS
<1>1. ASSUME NEW size \in Sizes, NEW marker \in BOOLEAN, NEW newFrame \in BOOLEAN,
             Push(size, marker, newFrame)
      PROVE  FecInv'
  BY <1>1, FecInvPush
<1>2. ASSUME NEW rate \in Rates, SetRate(rate) PROVE FecInv'
  BY <1>2, FecInvSetRate
<1>3. ASSUME NEW jump \in {SEQ \div 2, SEQ - 2}, Restart(jump) PROVE FecInv'
  <2>1. SEQ \div 2 \in Int /\ SEQ - 2 \in Int
    BY FecAssumption
  <2> QED BY <1>3, <2>1, FecInvRestart
<1>4. ASSUME NEW i \in 1 .. 2, OnPacket(i) \/ OnXorParity(i) \/ OnRsParity(i)
      PROVE  FecInv'
  BY <1>4, FecInvPacket, FecInvXor, FecInvRs
<1>5. CASE OnRestart
  BY <1>5, FecInvOnRestart
<1>6. CASE LoseDatagram
  BY <1>6, FecInvLose
<1>7. CASE UNCHANGED fvars
  BY <1>7 DEF fvars, FecInv, RepairExact
<1> QED BY <1>1, <1>2, <1>3, <1>4, <1>5, <1>6, <1>7 DEF FecNext

\* Whatever the length of the stream, on_parity hands the renderer only what
\* was lost, as long as the ring, the block table and the parity it reads do
\* not name two datagrams by one number.
THEOREM FecExact == FecSpec /\ []OneName => []RepairExact
<1>1. FecInit => FecInv
  BY FecInvInit
<1>2. FecInv /\ OneName /\ [FecNext]_fvars => FecInv'
  BY FecInvStep
<1>3. FecInv => RepairExact
  BY DEF FecInv
<1> QED BY <1>1, <1>2, <1>3, PTL DEF FecSpec

-----------------------------------------------------------------------------
\* Within one turn of the sequence numbers.

\* No datagram is too long for FEC: FecEncoder::push passes those by and leaves
\* the open group as it is, which a restart may then continue.
Covered == \A size \in Sizes : size <= FEC_MAX_PACKET

\* How far a datagram's number is ahead of its age: the same for all
\* datagrams of a stream, until the stream restarts.
Phase(x) == Wrap(x.seq - x.id)

\* The datagrams something under way tells of.
Carried(x) ==
    IF x.kind = "data" THEN {x.pkt}
    ELSE IF x.kind = "restart" THEN {} ELSE ToSet(x.pkts)

\* s lists what was sent, and x is of it.
Sent(s, x) == x.id \in 1 .. cam.id - 1 /\ s[x.id] = x

\* ph[i] is the phase of the stream that net[i] belongs to, ph[0] that of the
\* decoder's.
Turn(s, ph) ==
    /\ ph \in [0 .. Len(net) -> 0 .. SEQ - 1]
    /\ \A x \in ToSet(ring) \cup InBlocks : Sent(s, x) /\ Phase(x) = ph[0]
    /\ \A i \in 1 .. Len(net) : net[i].kind # "restart" =>
          /\ ph[i] = ph[i - 1]
          /\ \A x \in Carried(net[i]) : Sent(s, x) /\ Phase(x) = ph[i]
    /\ ph[Len(net)] = Wrap(cam.seq - cam.id)
    /\ \A x \in ToSet(enc.group) :
          Sent(s, x) /\ Phase(x) = Wrap(enc.next - cam.id)

\* Everything the decoder knows is of one stream, and of one turn.
TurnInv ==
    /\ cam.id <= MaxSent + 1
    /\ code = "rs" \/ Covered
    /\ code = "xor" /\ enc.rate = 0 => enc.group = <<>>
    /\ \E s, ph : Turn(s, ph)

LEMMA TurnOneName ==
    ASSUME MaxSent <= SEQ, FecInv, TurnInv
    PROVE  OneName
<1>1. PICK s, ph : Turn(s, ph)
  BY DEF TurnInv
<1>2. ASSUME NEW x \in Named PROVE Sent(s, x) /\ Phase(x) = ph[0] /\ x \in Packet
  <2>1. CASE x \in ToSet(ring)
    <3>1. x \in Packet
      BY <2>1, SetOfSeq DEF FecInv
    <3> QED BY <2>1, <3>1, <1>1 DEF Turn
  <2>2. CASE x \in InBlocks
    <3>0. PICK i \in 1 .. Len(blocks) : x \in Covers(blocks[i])
      BY <2>2 DEF InBlocks
    <3>1. PICK j \in 0 .. blocks[i].m - 1 : x \in ToSet(blocks[i].parity[j])
      BY <3>0 DEF Covers
    <3>2. blocks[i].parity[j] \in Seq(Packet)
      BY <3>1 DEF FecInv, BlockOk
    <3>3. x \in Packet
      BY <3>1, <3>2, SetOfSeq
    <3> QED BY <2>2, <3>3, <1>1 DEF Turn
  <2>3. CASE x \in InParity
    <3>1. PICK i \in Arriving : x \in ToSet(net[i].pkts)
      BY <2>3 DEF InParity
    <3>2. /\ i \in 1 .. 2 /\ i \in 1 .. Len(net) /\ net[i].kind \in {"xor", "rs"}
          /\ \A j \in 1 .. i : net[j].kind # "restart"
      BY <3>1 DEF Arriving
    <3>3. x \in Carried(net[i])
      BY <3>1, <3>2 DEF Carried
    <3>4. Sent(s, x) /\ Phase(x) = ph[i] /\ ph[i] = ph[i - 1]
      BY <3>2, <3>3, <1>1 DEF Turn
    <3>5. ph[i] = ph[0]
      <4>1. CASE i = 1
        BY <4>1, <3>4
      <4>2. CASE i = 2
        <5>1. net[1].kind # "restart" /\ 1 \in 1 .. Len(net)
          BY <4>2, <3>2
        <5>2. ph[1] = ph[1 - 1]
          BY <5>1, <1>1 DEF Turn
        <5> QED BY <4>2, <5>2, <3>4
      <4> QED BY <4>1, <4>2, <3>2
    <3>6. x \in Packet
      <4>1. net[i] \in Item
        BY <3>2, ElementOfSeq DEF FecInv
      <4>2. net[i].pkts \in Seq(Packet)
        BY <4>1, <3>2, ItemKinds DEF XorItem, RsItem
      <4> QED BY <4>2, <3>1, SetOfSeq
    <3> QED BY <3>4, <3>5, <3>6
  <2> QED BY <2>1, <2>2, <2>3 DEF Named
<1>3. cam.id \in Nat /\ cam.id - 1 <= SEQ /\ SEQ \in Nat
  BY FecAssumption DEF TurnInv, FecInv, Cam
<1>4. ASSUME NEW x \in Named, NEW y \in Named, x.seq = y.seq PROVE x = y
  <2>1. /\ x.id \in 1 .. cam.id - 1 /\ y.id \in 1 .. cam.id - 1
        /\ s[x.id] = x /\ s[y.id] = y /\ x.seq \in Int
        /\ (x.seq - x.id) % SEQ = (x.seq - y.id) % SEQ
    <3>1. x.seq \in Int
      BY <1>2, FecAssumption DEF Packet
    <3> QED BY <3>1, <1>2, <1>4 DEF Sent, Phase, Wrap
  <2>2. PICK a \in Int, b \in Int : a = x.seq - x.id /\ b = x.seq - y.id
    BY <1>3, <2>1
  <2>3. a - b < SEQ /\ b - a < SEQ
    BY <1>3, <2>1, <2>2
  <2>4. a = b
    BY <2>1, <2>2, <2>3, ModSame
  <2>5. x.id = y.id
    BY <1>3, <2>1, <2>2, <2>4
  <2> QED BY <2>1, <2>5
<1> QED BY <1>4 DEF OneName, Distinct

LEMMA TurnInit ==
    ASSUME FecInit, code = "rs" \/ Covered
    PROVE  TurnInv
<1>1. /\ net = <<>> /\ ring = <<>> /\ blocks = <<>> /\ enc.group = <<>>
      /\ cam.id = 1 /\ cam.seq = First
  BY DEF FecInit
<1>2. cam.id <= MaxSent + 1
  BY <1>1, FecAssumption
<1>3. PICK a : a = Wrap(cam.seq - cam.id)
  OBVIOUS
<1>4. a \in 0 .. SEQ - 1
  <2>1. cam.seq - cam.id \in Int
    BY <1>1, FecAssumption
  <2> QED BY <2>1, <1>3, WrapType
<1>5. PICK ph : ph = [i \in 0 .. 0 |-> a]
  OBVIOUS
<1>6. Len(net) = 0 /\ Len(blocks) = 0 /\ ToSet(ring) = {} /\ ToSet(enc.group) = {}
  BY <1>1, EmptySet, EmptySeq
<1>7. ph \in [0 .. Len(net) -> 0 .. SEQ - 1] /\ ph[Len(net)] = a
  BY <1>4, <1>5, <1>6
<1>8. InBlocks = {}
  BY <1>6 DEF InBlocks
<1>9. Turn(<<>>, ph)
  BY <1>3, <1>6, <1>7, <1>8 DEF Turn
<1> QED BY <1>1, <1>2, <1>9 DEF TurnInv

\* What arrives or is lost leaves the rest of a stream in its order.
LEMMA TurnShift ==
    ASSUME FecInv, NEW s, NEW ph, Turn(s, ph), NEW i \in 1 .. 2,
           i \in 1 .. Len(net), net' \in Seq(Item), Len(net') = Len(net) - 1,
           \A j \in 1 .. Len(net) - 1 : net'[j] = IF j < i THEN net[j] ELSE net[j + 1],
           i = 2 => net[1].kind # "restart" /\ net[2].kind # "restart",
           UNCHANGED <<cam, enc>>,
           \A x \in ToSet(ring') \cup InBlocks' : Sent(s, x) /\ Phase(x) = ph[1]
    PROVE  \E q : Turn(s, q)'
<1>1. net \in Seq(Item) /\ Len(net) \in Nat \ {0} /\ Len(net') \in Nat
  BY LenProperties DEF FecInv
<1>2. PICK q : q = [j \in 0 .. Len(net') |-> ph[j + 1]]
  OBVIOUS
<1>3. /\ ph \in [0 .. Len(net) -> 0 .. SEQ - 1]
      /\ \A j \in 1 .. Len(net) : net[j].kind # "restart" =>
            /\ ph[j] = ph[j - 1]
            /\ \A x \in Carried(net[j]) : Sent(s, x) /\ Phase(x) = ph[j]
      /\ ph[Len(net)] = Wrap(cam.seq - cam.id)
      /\ \A x \in ToSet(enc.group) :
            Sent(s, x) /\ Phase(x) = Wrap(enc.next - cam.id)
  BY DEF Turn
<1>4. \A j \in 0 .. Len(net') : q[j] = ph[j + 1] /\ j + 1 \in 0 .. Len(net)
  BY <1>1, <1>2
<1>5. q \in [0 .. Len(net') -> 0 .. SEQ - 1]
  BY <1>2, <1>3, <1>4
<1>6. q[Len(net')] = Wrap(cam'.seq - cam'.id) /\ q[0] = ph[1]
  <2>1. Len(net') + 1 = Len(net) /\ Len(net') \in 0 .. Len(net') /\ 0 \in 0 .. Len(net')
    BY <1>1
  <2>2. q[Len(net')] = ph[Len(net)]
    BY <2>1, <1>4
  <2>3. q[0] = ph[0 + 1]
    BY <2>1, <1>4
  <2> QED BY <2>2, <2>3, <1>3
<1>7. \A x : Sent(s, x)' <=> Sent(s, x)
  BY DEF Sent
<1>8. ASSUME NEW j \in 1 .. Len(net'), net'[j].kind # "restart"
      PROVE  /\ q[j] = q[j - 1]
             /\ \A x \in Carried(net'[j]) : Sent(s, x) /\ Phase(x) = q[j]
  <2>1. /\ j \in 1 .. Len(net) - 1 /\ j - 1 \in 0 .. Len(net') /\ j \in 0 .. Len(net')
        /\ (j - 1) + 1 = j /\ j \in 1 .. Len(net) /\ j + 1 \in 1 .. Len(net)
        /\ (j + 1) - 1 = j
    BY <1>1
  <2>2. q[j] = ph[j + 1] /\ q[j - 1] = ph[j]
    BY <2>1, <1>4
  <2>3. CASE j < i
    <3>1. j = 1 /\ i = 2
      BY <2>1, <2>3
    <3>2. net'[1] = net[1] /\ net[1].kind # "restart" /\ net[2].kind # "restart"
      BY <3>1, <2>1, <2>3
    <3>3. 1 \in 1 .. Len(net) /\ 2 \in 1 .. Len(net)
      BY <3>1, <2>1
    <3>4. ph[2] = ph[2 - 1] /\ \A x \in Carried(net[1]) : Sent(s, x) /\ Phase(x) = ph[1]
      BY <3>2, <3>3, <1>3
    <3> QED BY <3>1, <3>2, <3>4, <2>2
  <2>4. CASE ~(j < i)
    <3>1. net'[j] = net[j + 1]
      BY <2>1, <2>4
    <3>2. PICK h \in 1 .. Len(net) : h = j + 1 /\ h - 1 = j
      BY <2>1
    <3>3. /\ ph[h] = ph[h - 1]
          /\ \A x \in Carried(net[h]) : Sent(s, x) /\ Phase(x) = ph[h]
      BY <3>1, <3>2, <1>3, <1>8
    <3> QED BY <3>1, <3>2, <3>3, <2>2
  <2> QED BY <2>3, <2>4
<1>9. Turn(s, q)'
  <2>1. \A x \in ToSet(ring') \cup InBlocks' : Sent(s, x)' /\ Phase(x) = q[0]
    BY <1>6, <1>7
  <2>2. \A j \in 1 .. Len(net') : net'[j].kind # "restart" =>
           /\ q[j] = q[j - 1]
           /\ \A x \in Carried(net'[j]) : Sent(s, x)' /\ Phase(x) = q[j]
    BY <1>7, <1>8
  <2>3. \A x \in ToSet(enc'.group) :
           Sent(s, x)' /\ Phase(x) = Wrap(enc'.next - cam'.id)
    BY <1>3, <1>7
  <2> QED BY <1>5, <1>6, <2>1, <2>2, <2>3 DEF Turn
<1> QED BY <1>9

\* The decoder knows no more than it was told.
LEMMA DecoderKnows ==
    ASSUME FecInv, OneName, NEW i \in 1 .. 2,
           OnPacket(i) \/ OnXorParity(i) \/ OnRsParity(i)
    PROVE  /\ ToSet(ring') \cup InBlocks' \subseteq
                 ToSet(ring) \cup InBlocks \cup Carried(net[i])
           /\ net[i].kind # "restart" /\ Arrives(i) /\ UNCHANGED <<cam, enc, code>>
<1>1. CASE OnPacket(i)
  <2>1. /\ Arrives(i) /\ net[i].kind = "data" /\ UNCHANGED <<cam, enc, code, blocks>>
        /\ ring' = Remember(ring, <<net[i].pkt>>)
    BY <1>1 DEF OnPacket
  <2>2. PICK p : p = net[i].pkt
    OBVIOUS
  <2>3. net[i] \in DataItem
    BY <2>1, Arrived, ItemKinds
  <2>4. p \in Packet
    BY <2>2, <2>3 DEF DataItem
  <2>5. <<p>> \in Seq(Packet) /\ ToSet(<<p>>) = {p}
    BY <2>4 DEF ToSet
  <2>6. ToSet(ring') \subseteq ToSet(ring) \cup {p}
    <3>1. ring \in Seq(Packet)
      BY DEF FecInv
    <3>2. ToSet(Remember(ring, <<p>>)) \subseteq ToSet(ring) \cup ToSet(<<p>>)
      BY <3>1, <2>5, Remembered
    <3> QED BY <3>2, <2>1, <2>2, <2>5
  <2>7. Carried(net[i]) = {p}
    BY <2>1, <2>2 DEF Carried
  <2>8. InBlocks' = InBlocks
    BY <2>1 DEF InBlocks
  <2> QED BY <2>1, <2>6, <2>7, <2>8
<1>2. CASE OnXorParity(i)
  <2>1. /\ Arrives(i) /\ net[i].kind = "xor" /\ UNCHANGED <<cam, enc, code, blocks>>
    BY <1>2 DEF OnXorParity
  <2>2. PICK w : w = net[i].pkts
    OBVIOUS
  <2>3. net[i] \in XorItem
    BY <2>1, Arrived, ItemKinds
  <2>4. w \in Seq(Packet)
    BY <2>2, <2>3 DEF XorItem
  <2>5. PICK list, miss : /\ Rebuild(list) /\ Right(list, w, miss)
                          /\ miss \subseteq 0 .. Len(w) - 1
    BY <1>2, <2>2, XorStep
  <2>6. {w[j + 1] : j \in miss} \subseteq ToSet(w)
    <3>1. DOMAIN w = 1 .. Len(w) /\ Len(w) \in Nat
      BY <2>4, LenProperties
    <3>2. \A j \in 0 .. Len(w) - 1 : j + 1 \in DOMAIN w
      BY <3>1
    <3> QED BY <3>2, <2>5 DEF ToSet
  <2>7. ToSet(ring') \subseteq ToSet(ring) \cup {w[j + 1] : j \in miss}
    <3>1. ring \in Seq(Packet)
      BY DEF FecInv
    <3>2. Handed({w[j + 1] : j \in miss})
      BY <2>5, <3>1, Rebuilt
    <3> QED BY <3>2 DEF Handed
  <2>8. Carried(net[i]) = ToSet(w)
    BY <2>1, <2>2 DEF Carried
  <2>9. InBlocks' = InBlocks
    BY <2>1 DEF InBlocks
  <2> QED BY <2>1, <2>6, <2>7, <2>8, <2>9
<1>3. CASE OnRsParity(i)
  <2>1. /\ Arrives(i) /\ net[i].kind = "rs" /\ UNCHANGED <<cam, enc, code>>
    BY <1>3 DEF OnRsParity
  <2>2. PICK p : p = net[i]
    OBVIOUS
  <2>3. PICK table, at, noted : /\ NotesParity(p, table, at, noted)
                                /\ Rebuilds(p, at, noted)
    BY <1>3, <2>2, RsStep
  <2>4. p \in RsItem
    BY <1>3, <2>2, RsStep
  <2> DEFINE w == p.pkts
  <2>5. w \in Seq(Packet) /\ Carried(net[i]) = ToSet(w)
    BY <2>1, <2>2, <2>4 DEF RsItem, Carried
  <2>6. /\ at \in 1 .. Len(noted) /\ HoldsWord(noted[at], w)
    BY <2>3, <2>4, NotedOk DEF NotesParity, InTable
  <2>7. ToSet(ring') \subseteq ToSet(ring) \cup ToSet(w)
    <3>1. PICK list, miss : /\ Rebuild(list) /\ Right(list, w, miss)
                            /\ miss \subseteq 0 .. Len(w) - 1
      <4>1. CASE Rebuild(<<>>)
        BY <4>1, RightEmpty
      <4>2. CASE \E list : Rebuild(list)
                           /\ Right(list, p.pkts, MissingShards(ring, noted[at]))
        <5>1. MissingShards(ring, noted[at]) \subseteq 0 .. Len(w) - 1
          BY <2>6 DEF MissingShards, Missing, HoldsWord
        <5> QED BY <4>2, <5>1
      <4> QED BY <4>1, <4>2, <2>3 DEF Rebuilds
    <3>2. DOMAIN w = 1 .. Len(w) /\ Len(w) \in Nat
      BY <2>5, LenProperties
    <3>3. \A j \in 0 .. Len(w) - 1 : j + 1 \in DOMAIN w
      BY <3>2
    <3>4. {w[j + 1] : j \in miss} \subseteq ToSet(w)
      BY <3>1, <3>3 DEF ToSet
    <3>5. ToSet(ring') \subseteq ToSet(ring) \cup {w[j + 1] : j \in miss}
      <4>1. ring \in Seq(Packet)
        BY DEF FecInv
      <4>2. Handed({w[j + 1] : j \in miss})
        BY <3>1, <4>1, Rebuilt
      <4> QED BY <4>2 DEF Handed
    <3> QED BY <3>4, <3>5
  <2>8. \A h \in 1 .. Len(noted) : Covers(noted[h]) \subseteq InBlocks \cup ToSet(w)
    <3>1. Covers(noted[at]) \subseteq ToSet(w)
      BY <2>6, EmptySet DEF Covers, HoldsWord
    <3>2. ASSUME NEW h \in 1 .. Len(noted), h # at
          PROVE  Covers(noted[h]) \subseteq InBlocks
      <4>1. PICK j \in 1 .. Len(blocks) : noted[h] = blocks[j]
        BY <3>2, <2>3 DEF NotesParity
      <4> QED BY <4>1 DEF InBlocks
    <3> QED BY <3>1, <3>2
  <2>9. \A h \in 1 .. Len(blocks') : \E j \in 1 .. Len(noted) : blocks'[h] = noted[j]
    <3>1. CASE blocks' = noted
      BY <3>1
    <3>2. CASE blocks' = RemoveAt(noted, at)
      <4>1. noted \in Seq(Block)
        BY <2>3 DEF NotesParity
      <4>2. /\ Len(blocks') = Len(noted) - 1
            /\ \A h \in 1 .. Len(noted) - 1 :
                  blocks'[h] = IF h < at THEN noted[h] ELSE noted[h + 1]
        BY <3>2, <4>1, <2>6, RemovedAt
      <4>3. Len(noted) \in Nat
        BY <4>1, LenProperties
      <4>4. \A h \in 1 .. Len(noted) - 1 :
               h \in 1 .. Len(noted) /\ h + 1 \in 1 .. Len(noted)
        BY <4>3
      <4> QED BY <4>2, <4>4
    <3> QED BY <3>1, <3>2, <2>3 DEF Rebuilds
  <2>10. InBlocks' \subseteq InBlocks \cup ToSet(w)
    <3>1. ASSUME NEW x \in InBlocks' PROVE x \in InBlocks \cup ToSet(w)
      <4>1. PICK h \in 1 .. Len(blocks') : x \in Covers(blocks'[h])
        BY <3>1 DEF InBlocks
      <4>2. PICK j \in 1 .. Len(noted) : blocks'[h] = noted[j]
        BY <2>9
      <4> QED BY <4>1, <4>2, <2>8
    <3> QED BY <3>1
  <2> QED BY <2>1, <2>5, <2>7, <2>10
<1> QED BY <1>1, <1>2, <1>3

LEMMA TurnArrive ==
    ASSUME FecInv, OneName, TurnInv, NEW i \in 1 .. 2,
           OnPacket(i) \/ OnXorParity(i) \/ OnRsParity(i)
    PROVE  TurnInv'
<1>1. PICK s, ph : Turn(s, ph)
  BY DEF TurnInv
<1>2. /\ ToSet(ring') \cup InBlocks' \subseteq
            ToSet(ring) \cup InBlocks \cup Carried(net[i])
      /\ net[i].kind # "restart" /\ Arrives(i) /\ UNCHANGED <<cam, enc, code>>
  BY DecoderKnows
<1>3. i \in 1 .. Len(net) /\ net' \in Seq(Item) /\ net' = RemoveAt(net, i)
  BY <1>2, Arrived
<1>4. /\ Len(net') = Len(net) - 1
      /\ \A j \in 1 .. Len(net) - 1 : net'[j] = IF j < i THEN net[j] ELSE net[j + 1]
  BY <1>3, RemovedAt DEF FecInv
<1>5. i = 2 => net[1].kind # "restart" /\ net[2].kind # "restart"
  BY <1>2 DEF Arrives
<1>6. ph[1] = ph[0] /\ ph[i] = ph[1]
  <2>1. 1 \in 1 .. Len(net) /\ net[1].kind # "restart"
    <3>1. CASE i = 1
      BY <3>1, <1>2, <1>3
    <3>2. CASE i = 2
      BY <3>2, <1>3, <1>5
    <3> QED BY <3>1, <3>2
  <2>2. ph[1] = ph[1 - 1] /\ ph[i] = ph[i - 1]
    BY <2>1, <1>1, <1>2, <1>3 DEF Turn
  <2>3. CASE i = 1
    BY <2>2, <2>3
  <2>4. CASE i = 2
    BY <2>2, <2>4
  <2> QED BY <2>3, <2>4
<1>7. \A x \in ToSet(ring') \cup InBlocks' : Sent(s, x) /\ Phase(x) = ph[1]
  <2>1. \A x \in ToSet(ring) \cup InBlocks : Sent(s, x) /\ Phase(x) = ph[0]
    BY <1>1 DEF Turn
  <2>2. \A x \in Carried(net[i]) : Sent(s, x) /\ Phase(x) = ph[i]
    BY <1>1, <1>2, <1>3 DEF Turn
  <2> QED BY <2>1, <2>2, <1>2, <1>6
<1>8. \E q : Turn(s, q)'
  BY <1>1, <1>2, <1>3, <1>4, <1>5, <1>7, TurnShift
<1> QED BY <1>2, <1>8 DEF TurnInv

LEMMA TurnLose ==
    ASSUME FecInv, TurnInv, LoseDatagram
    PROVE  TurnInv'
<1>1. PICK s, ph : Turn(s, ph)
  BY DEF TurnInv
<1>2. /\ net \in Seq(Item) /\ net # <<>> /\ net' = Tail(net)
      /\ Head(net).kind # "restart" /\ UNCHANGED <<code, enc, cam, ring, blocks>>
  BY DEF FecInv, LoseDatagram
<1>3. /\ net' \in Seq(Item) /\ Len(net') = Len(net) - 1
      /\ \A j \in 1 .. Len(net') : net'[j] = net[j + 1]
  BY <1>2, HeadTailProperties
<1>4. Len(net) \in Nat \ {0}
  BY <1>2, EmptySeq
<1>5. \A j \in 1 .. Len(net) - 1 : net'[j] = IF j < 1 THEN net[j] ELSE net[j + 1]
  BY <1>3
<1>6. 1 \in 1 .. 2 /\ 1 \in 1 .. Len(net) /\ net[1].kind # "restart"
  BY <1>2, <1>4
<1>7. ph[1] = ph[1 - 1]
  BY <1>1, <1>6 DEF Turn
<1>8. ToSet(ring') = ToSet(ring) /\ InBlocks' = InBlocks
  BY <1>2 DEF InBlocks
<1>9. \A x \in ToSet(ring') \cup InBlocks' : Sent(s, x) /\ Phase(x) = ph[1]
  BY <1>1, <1>7, <1>8 DEF Turn
<1>10. \E q : Turn(s, q)'
  BY <1>1, <1>2, <1>3, <1>5, <1>6, <1>9, TurnShift
<1> QED BY <1>2, <1>10 DEF TurnInv

LEMMA TurnOnRestart ==
    ASSUME FecInv, TurnInv, OnRestart
    PROVE  TurnInv'
<1>1. PICK s, ph : Turn(s, ph)
  BY DEF TurnInv
<1>2. /\ Arrives(1) /\ UNCHANGED <<code, enc, cam>> /\ ring' = <<>> /\ blocks' = <<>>
  BY DEF OnRestart
<1>3. 1 \in 1 .. 2 /\ 1 \in 1 .. Len(net) /\ net' \in Seq(Item)
      /\ net' = RemoveAt(net, 1)
  BY <1>2, Arrived
<1>4. /\ Len(net') = Len(net) - 1
      /\ \A j \in 1 .. Len(net) - 1 : net'[j] = IF j < 1 THEN net[j] ELSE net[j + 1]
  BY <1>3, RemovedAt DEF FecInv
<1>5. Len(blocks') = 0 /\ ToSet(ring') = {}
  BY <1>2, EmptySet, EmptySeq
<1>6. InBlocks' = {}
  BY <1>5 DEF InBlocks
<1>7. \E q : Turn(s, q)'
  BY <1>1, <1>2, <1>3, <1>4, <1>5, <1>6, TurnShift
<1> QED BY <1>2, <1>7 DEF TurnInv

LEMMA TurnSetRate ==
    ASSUME FecInv, TurnInv, NEW rate \in Rates, SetRate(rate)
    PROVE  TurnInv'
<1>1. PICK s, ph : Turn(s, ph)
  BY DEF TurnInv
<1>2. cam \in Cam /\ enc \in Encoder
  BY DEF FecInv, EncOk
<1>3. UNCHANGED <<code, net, ring, blocks>> /\ cam'.id = cam.id /\ cam'.seq = cam.seq
  BY <1>2 DEF SetRate, Cam
<1>4. /\ code = "xor" => enc'.group = <<>>
      /\ code # "xor" => enc'.group = enc.group /\ enc'.next = enc.next
  BY <1>2 DEF SetRate, Emptied, Encoder
<1>5. \A x : Sent(s, x)' <=> Sent(s, x)
  BY <1>3 DEF Sent
<1>6. InBlocks' = InBlocks
  BY <1>3 DEF InBlocks
<1>7. \A x \in ToSet(enc'.group) :
         Sent(s, x)' /\ Phase(x) = Wrap(enc'.next - cam'.id)
  <2>1. CASE code = "xor"
    BY <2>1, <1>4, EmptySet
  <2>2. CASE code # "xor"
    BY <2>2, <1>1, <1>3, <1>4, <1>5 DEF Turn
  <2> QED BY <2>1, <2>2
<1>8. Turn(s, ph)'
  <2>1. \A x \in ToSet(ring') \cup InBlocks' : Sent(s, x)' /\ Phase(x) = ph[0]
    BY <1>1, <1>3, <1>5, <1>6 DEF Turn
  <2>2. \A i \in 1 .. Len(net') : net'[i].kind # "restart" =>
           /\ ph[i] = ph[i - 1]
           /\ \A x \in Carried(net'[i]) : Sent(s, x)' /\ Phase(x) = ph[i]
    BY <1>1, <1>3, <1>5 DEF Turn
  <2>3. /\ ph \in [0 .. Len(net') -> 0 .. SEQ - 1]
        /\ ph[Len(net')] = Wrap(cam'.seq - cam'.id)
    BY <1>1, <1>3 DEF Turn
  <2> QED BY <2>1, <2>2, <2>3, <1>7 DEF Turn
<1> QED BY <1>3, <1>4, <1>8 DEF TurnInv

LEMMA TurnRestart ==
    ASSUME FecInv, TurnInv, NEW jump \in Int, Restart(jump)
    PROVE  TurnInv'
<1>1. PICK s, ph : Turn(s, ph)
  BY DEF TurnInv
<1>2. cam \in Cam /\ net \in Seq(Item) /\ cam' \in Cam
  <2>1. FecInv'
    BY FecInvRestart
  <2> QED BY <2>1 DEF FecInv
<1>3. UNCHANGED <<code, enc, ring, blocks>> /\ cam'.id = cam.id
  BY <1>2 DEF Restart, Cam
<1>4. PICK x : x = [kind |-> "restart"]
  OBVIOUS
<1>5. x \in Item /\ x.kind = "restart"
  BY <1>4 DEF Item, RestartItem
<1>6. /\ Len(net') = Len(net) + 1 /\ net'[Len(net) + 1] = x
      /\ \A i \in 1 .. Len(net) : net'[i] = net[i]
      /\ Len(net) \in Nat
  BY <1>2, <1>4, <1>5, AppendProperties, LenProperties DEF Restart
<1>7. PICK a : a = Wrap(cam'.seq - cam'.id)
  OBVIOUS
<1>8. a \in 0 .. SEQ - 1
  <2>1. cam'.seq - cam'.id \in Int
    BY <1>2, FecAssumption DEF Cam
  <2> QED BY <2>1, <1>7, WrapType
<1>9. PICK q : q = [i \in 0 .. Len(net') |-> IF i = Len(net') THEN a ELSE ph[i]]
  OBVIOUS
<1>10. /\ q \in [0 .. Len(net') -> 0 .. SEQ - 1] /\ q[Len(net')] = a
       /\ \A i \in 0 .. Len(net) : q[i] = ph[i]
  <2>1. ph \in [0 .. Len(net) -> 0 .. SEQ - 1]
    BY <1>1 DEF Turn
  <2> QED BY <2>1, <1>6, <1>8, <1>9
<1>11. \A y : Sent(s, y)' <=> Sent(s, y)
  BY <1>3 DEF Sent
<1>12. InBlocks' = InBlocks
  BY <1>3 DEF InBlocks
<1>13. Turn(s, q)'
  <2>1. \A y \in ToSet(ring') \cup InBlocks' : Sent(s, y)' /\ Phase(y) = q[0]
    BY <1>1, <1>3, <1>6, <1>10, <1>11, <1>12 DEF Turn
  <2>2. ASSUME NEW i \in 1 .. Len(net'), net'[i].kind # "restart"
        PROVE  /\ q[i] = q[i - 1]
               /\ \A y \in Carried(net'[i]) : Sent(s, y)' /\ Phase(y) = q[i]
    <3>1. i \in 1 .. Len(net) /\ i \in 0 .. Len(net) /\ i - 1 \in 0 .. Len(net)
      BY <2>2, <1>5, <1>6
    <3>2. net'[i] = net[i] /\ q[i] = ph[i] /\ q[i - 1] = ph[i - 1]
      BY <3>1, <1>6, <1>10
    <3> QED BY <3>1, <3>2, <2>2, <1>1, <1>11 DEF Turn
  <2>3. \A y \in ToSet(enc'.group) :
           Sent(s, y)' /\ Phase(y) = Wrap(enc'.next - cam'.id)
    BY <1>1, <1>3, <1>11 DEF Turn
  <2> QED BY <2>1, <2>2, <2>3, <1>7, <1>10 DEF Turn
<1> QED BY <1>3, <1>13 DEF TurnInv

\* Where the pushed datagram and its parity stand in what is under way.
Behind(n, x, t, u) ==
    /\ Len(u) >= Len(n) /\ Len(n) \in Nat /\ Len(u) \in Nat
    /\ \A i \in 1 .. Len(n) : u[i] = n[i]
    /\ \A i \in 1 .. Len(u) : i > Len(n) => u[i] = x \/ u[i] \in ToSet(t)

LEMMA PushedNet ==
    ASSUME NEW n \in Seq(Item), NEW x \in Item, NEW t \in Seq(Item)
    PROVE  Behind(n, x, t, (n \o <<x>>) \o t)
<1> DEFINE u == (n \o <<x>>) \o t
<1>1. PICK v : v = n \o <<x>>
  OBVIOUS
<1>2. <<x>> \in Seq(Item) /\ Len(<<x>>) = 1 /\ <<x>>[1] = x
  OBVIOUS
<1>3. /\ v \in Seq(Item) /\ Len(v) = Len(n) + 1
      /\ \A i \in 1 .. Len(n) + 1 : v[i] = IF i <= Len(n) THEN n[i] ELSE <<x>>[i - Len(n)]
  BY <1>1, <1>2, ConcatProperties
<1>4. Len(n) \in Nat /\ Len(v) \in Nat /\ Len(t) \in Nat /\ DOMAIN t = 1 .. Len(t)
  BY <1>3, LenProperties
<1>5. /\ u \in Seq(Item) /\ Len(u) = Len(v) + Len(t)
      /\ \A i \in 1 .. Len(v) + Len(t) : u[i] = IF i <= Len(v) THEN v[i] ELSE t[i - Len(v)]
  BY <1>1, <1>3, ConcatProperties
<1>6. v[Len(n) + 1] = x
  <2>1. PICK i \in 1 .. Len(n) + 1 : i = Len(n) + 1 /\ ~(i <= Len(n)) /\ i - Len(n) = 1
    BY <1>4
  <2>2. v[i] = <<x>>[i - Len(n)]
    BY <2>1, <1>3
  <2> QED BY <2>1, <2>2, <1>2
<1>7. ASSUME NEW i \in 1 .. Len(n) PROVE u[i] = n[i]
  <2>1. i \in 1 .. Len(v) + Len(t) /\ i <= Len(v) /\ i \in 1 .. Len(n) + 1 /\ i <= Len(n)
    BY <1>3, <1>4
  <2> QED BY <2>1, <1>3, <1>5
<1>8. ASSUME NEW i \in 1 .. Len(u), i > Len(n) PROVE u[i] = x \/ u[i] \in ToSet(t)
  <2>1. CASE i <= Len(v)
    <3>1. i = Len(n) + 1 /\ i \in 1 .. Len(v) + Len(t)
      BY <2>1, <1>3, <1>4, <1>5, <1>8
    <3> QED BY <2>1, <3>1, <1>5, <1>6
  <2>2. CASE ~(i <= Len(v))
    <3>1. i - Len(v) \in DOMAIN t /\ i \in 1 .. Len(v) + Len(t)
      BY <2>2, <1>4, <1>5
    <3>2. u[i] = t[i - Len(v)]
      BY <2>2, <3>1, <1>5
    <3> QED BY <3>1, <3>2 DEF ToSet
  <2> QED BY <2>1, <2>2
<1>9. Len(u) >= Len(n) /\ Len(u) \in Nat
  BY <1>3, <1>4, <1>5
<1> HIDE DEF u
<1>10. Behind(n, x, t, u)
  BY <1>4, <1>7, <1>8, <1>9 DEF Behind
<1> QED BY <1>10 DEF u

LEMMA TurnPush ==
    ASSUME FecInv, TurnInv, NEW size \in Sizes, NEW marker \in BOOLEAN,
           NEW newFrame \in BOOLEAN, Push(size, marker, newFrame)
    PROVE  TurnInv'
<1>1. PICK s, ph : Turn(s, ph)
  BY DEF TurnInv
<1>2. PICK p, d :
              /\ p \in Packet /\ p.id = cam.id /\ p.seq = cam.seq /\ p.size = size
              /\ PushOk(enc, p, d) /\ d.sent \in Seq(Item)
              /\ enc' = d.enc
              /\ net' = (net \o <<[kind |-> "data", pkt |-> p]>>) \o d.sent
              /\ cam' \in Cam /\ cam'.id = cam.id + 1
              /\ cam'.seq = Wrap(cam.seq + 1)
  BY PushStep
<1>3. /\ cam.id \in Nat \ {0} /\ cam.seq \in Int /\ MaxSent \in Nat
      /\ net \in Seq(Item) /\ code \in {"xor", "rs"}
  BY FecAssumption DEF FecInv, Cam
<1>4. UNCHANGED <<code, ring, blocks>> /\ cam.id <= MaxSent
  BY DEF Push
<1>5. cam'.id <= MaxSent + 1
  BY <1>2, <1>3, <1>4
<1>6. PICK a : a = Wrap(cam.seq - cam.id)
  OBVIOUS
<1>7. Phase(p) = a
  BY <1>2, <1>6 DEF Phase
<1>8. Wrap(cam'.seq - cam'.id) = a
  <2>1. PICK y \in Int, z \in Int : y = cam.seq + 1 /\ z = 0 - (cam.id + 1)
    BY <1>3
  <2>2. Wrap(Wrap(y) + z) = Wrap(y + z)
    BY WrapAdd
  <2>3. Wrap(y) \in Int
    BY WrapType
  <2>4. Wrap(y) + z = cam'.seq - cam'.id /\ y + z = cam.seq - cam.id
    <3>1. cam'.seq = Wrap(y)
      BY <2>1, <1>2
    <3>2. z = 0 - cam'.id /\ cam'.id \in Int
      BY <2>1, <1>2, <1>3
    <3>3. Wrap(y) + z = cam'.seq - cam'.id
      BY <2>3, <3>1, <3>2
    <3> QED BY <2>1, <3>3, <1>3
  <2> QED BY <2>2, <2>4, <1>6
<1>9. PICK t : t = [k \in 1 .. cam.id |-> IF k = cam.id THEN p ELSE s[k]]
  OBVIOUS
<1>10. ASSUME NEW x, Sent(s, x) PROVE Sent(t, x)'
  <2>1. x.id \in 1 .. cam.id - 1 /\ s[x.id] = x
    BY <1>10 DEF Sent
  <2>2. x.id \in 1 .. cam.id /\ x.id # cam.id /\ x.id \in 1 .. cam'.id - 1
    BY <2>1, <1>2, <1>3
  <2> QED BY <2>1, <2>2, <1>9 DEF Sent
<1>11. Sent(t, p)'
  <2>1. p.id \in 1 .. cam.id /\ p.id \in 1 .. cam'.id - 1
    BY <1>2, <1>3
  <2> QED BY <2>1, <1>2, <1>9 DEF Sent
<1>12. \A x \in Follows(enc, p) : Sent(t, x)' /\ Phase(x) = a
  <2>1. ASSUME NEW x \in ToSet(enc.group), enc.next = p.seq
        PROVE  Sent(t, x)' /\ Phase(x) = a
    <3>1. Sent(s, x) /\ Phase(x) = Wrap(enc.next - cam.id)
      BY <1>1 DEF Turn
    <3> QED BY <3>1, <2>1, <1>2, <1>6, <1>10
  <2> QED BY <2>1, <1>7, <1>11 DEF Follows
<1>13. \A x \in ToSet(enc'.group) :
          Sent(t, x)' /\ Phase(x) = Wrap(enc'.next - cam'.id)
  <2>1. CASE ToSet(d.enc.group) \subseteq Follows(enc, p) /\ d.enc.next = Wrap(p.seq + 1)
    BY <2>1, <1>2, <1>8, <1>12
  <2>2. CASE code = "xor" /\ (enc.rate = 0 \/ ~(p.size <= FEC_MAX_PACKET)) /\ d.enc = enc
    <3>1. p.size <= FEC_MAX_PACKET
      BY <2>2, <1>2 DEF TurnInv, Covered
    <3>2. enc.group = <<>>
      BY <2>2, <3>1 DEF TurnInv
    <3> QED BY <2>2, <3>2, <1>2, EmptySet
  <2> QED BY <2>1, <2>2, <1>2 DEF PushOk
<1>14. code' = "xor" /\ enc'.rate = 0 => enc'.group = <<>>
  BY <1>2, <1>4 DEF PushOk, TurnInv
<1>15. PICK x0 : x0 = [kind |-> "data", pkt |-> p]
  OBVIOUS
<1>16. x0 \in Item /\ Carried(x0) = {p}
  BY <1>2, <1>15 DEF Item, DataItem, Carried
<1>17. /\ Len(net') >= Len(net) /\ Len(net) \in Nat /\ Len(net') \in Nat
       /\ \A i \in 1 .. Len(net) : net'[i] = net[i]
       /\ \A i \in 1 .. Len(net') : i > Len(net) => net'[i] = x0 \/ net'[i] \in ToSet(d.sent)
  <2>1. PICK u, v : u = net' /\ v = d.sent
    OBVIOUS
  <2>2. v \in Seq(Item) /\ u = (net \o <<x0>>) \o v
    BY <2>1, <1>2, <1>15
  <2>3. Behind(net, x0, v, u)
    BY <2>2, <1>3, <1>16, PushedNet
  <2> QED BY <2>1, <2>3 DEF Behind
<1>18. \A i \in 1 .. Len(net') : i > Len(net) => Carried(net'[i]) \subseteq Follows(enc, p)
  <2>1. Carried(x0) \subseteq Follows(enc, p)
    BY <1>16 DEF Follows
  <2>2. \A f \in ToSet(d.sent) : Carried(f) \subseteq Follows(enc, p)
    <3>1. \A f \in XorItem \cup RsItem : Carried(f) = ToSet(f.pkts)
      BY DEF XorItem, RsItem, Carried
    <3>2. \A f \in ToSet(d.sent) : f \in XorItem \cup RsItem
                                   /\ ToSet(f.pkts) \subseteq Follows(enc, p)
      BY <1>2 DEF PushOk
    <3> QED BY <3>1, <3>2
  <2> QED BY <2>1, <2>2, <1>17
<1>19. PICK q : q = [i \in 0 .. Len(net') |-> IF i <= Len(net) THEN ph[i] ELSE a]
  OBVIOUS
<1>20. ph \in [0 .. Len(net) -> 0 .. SEQ - 1] /\ ph[Len(net)] = a
  BY <1>1, <1>6 DEF Turn
<1>21. /\ q \in [0 .. Len(net') -> 0 .. SEQ - 1]
       /\ \A i \in 0 .. Len(net) : q[i] = ph[i]
       /\ \A i \in Len(net) .. Len(net') : q[i] = a
  <2>1. a \in 0 .. SEQ - 1
    BY <1>17, <1>20
  <2> QED BY <2>1, <1>17, <1>19, <1>20
<1>22. InBlocks' = InBlocks
  BY <1>4 DEF InBlocks
<1>23. Turn(t, q)'
  <2>1. \A x \in ToSet(ring') \cup InBlocks' : Sent(t, x)' /\ Phase(x) = q[0]
    <3>1. q[0] = ph[0]
      BY <1>17, <1>21
    <3>2. \A x \in ToSet(ring) \cup InBlocks : Sent(s, x) /\ Phase(x) = ph[0]
      BY <1>1 DEF Turn
    <3> QED BY <3>1, <3>2, <1>4, <1>10, <1>22
  <2>2. ASSUME NEW i \in 1 .. Len(net'), net'[i].kind # "restart"
        PROVE  /\ q[i] = q[i - 1]
               /\ \A x \in Carried(net'[i]) : Sent(t, x)' /\ Phase(x) = q[i]
    <3>1. CASE i <= Len(net)
      <4>1. i \in 1 .. Len(net) /\ i \in 0 .. Len(net) /\ i - 1 \in 0 .. Len(net)
        BY <3>1, <1>17
      <4>2. net'[i] = net[i] /\ q[i] = ph[i] /\ q[i - 1] = ph[i - 1]
        BY <4>1, <1>17, <1>21
      <4>3. /\ ph[i] = ph[i - 1]
            /\ \A x \in Carried(net[i]) : Sent(s, x) /\ Phase(x) = ph[i]
        BY <4>1, <4>2, <2>2, <1>1 DEF Turn
      <4> QED BY <4>2, <4>3, <1>10
    <3>2. CASE i > Len(net)
      <4>1. i \in Len(net) .. Len(net') /\ i - 1 \in Len(net) .. Len(net')
        BY <3>2, <1>17
      <4>2. q[i] = a /\ q[i - 1] = a
        BY <4>1, <1>21
      <4> QED BY <3>2, <4>2, <1>12, <1>18
    <3> QED BY <3>1, <3>2, <1>17
  <2>3. q[Len(net')] = Wrap(cam'.seq - cam'.id)
    <3>1. Len(net') \in Len(net) .. Len(net')
      BY <1>17
    <3> QED BY <3>1, <1>8, <1>21
  <2> QED BY <2>1, <2>2, <2>3, <1>13, <1>21 DEF Turn
<1> QED BY <1>4, <1>5, <1>14, <1>23 DEF TurnInv

LEMMA TurnStep ==
    ASSUME MaxSent <= SEQ, FecInv, TurnInv, [FecNext]_fvars
    PROVE  TurnInv'
<1>0. OneName
  BY TurnOneName
<1>1. ASSUME NEW size \in Sizes, NEW marker \in BOOLEAN, NEW newFrame \in BOOLEAN,
             Push(size, marker, newFrame)
      PROVE  TurnInv'
  BY <1>1, TurnPush
<1>2. ASSUME NEW rate \in Rates, SetRate(rate) PROVE TurnInv'
  BY <1>2, TurnSetRate
<1>3. ASSUME NEW jump \in {SEQ \div 2, SEQ - 2}, Restart(jump) PROVE TurnInv'
  <2>1. SEQ \div 2 \in Int /\ SEQ - 2 \in Int
    BY FecAssumption
  <2> QED BY <1>3, <2>1, TurnRestart
<1>4. ASSUME NEW i \in 1 .. 2, OnPacket(i) \/ OnXorParity(i) \/ OnRsParity(i)
      PROVE  TurnInv'
  BY <1>0, <1>4, TurnArrive
<1>5. CASE OnRestart
  BY <1>5, TurnOnRestart
<1>6. CASE LoseDatagram
  BY <1>6, TurnLose
<1>7. CASE UNCHANGED fvars
  <2>1. PICK s, ph : Turn(s, ph)
    BY DEF TurnInv
  <2>2. InBlocks' = InBlocks
    BY <1>7 DEF fvars, InBlocks
  <2>3. \A x : Sent(s, x)' <=> Sent(s, x)
    BY <1>7 DEF fvars, Sent
  <2>4. Turn(s, ph)'
    BY <1>7, <2>1, <2>2, <2>3 DEF fvars, Turn
  <2> QED BY <1>7, <2>4 DEF fvars, TurnInv
<1> QED BY <1>1, <1>2, <1>3, <1>4, <1>5, <1>6, <1>7 DEF FecNext

\* With one turn of the 16-bit numbers that always is so, through restarts that
\* jump back into numbers sent before, wraps, gaps and arrivals that overtake
\* each other: what on_parity rebuilds is what was lost.
THEOREM FecExactTurn ==
    ASSUME MaxSent <= SEQ
    PROVE  FecSpec /\ (code = "rs" \/ Covered) => []RepairExact
<1>1. FecInit /\ (code = "rs" \/ Covered) => FecInv /\ TurnInv
  BY FecInvInit, TurnInit
<1>2. FecInv /\ TurnInv /\ [FecNext]_fvars => FecInv' /\ TurnInv'
  <2> SUFFICES ASSUME FecInv, TurnInv, [FecNext]_fvars PROVE FecInv' /\ TurnInv'
    OBVIOUS
  <2>1. OneName
    BY TurnOneName
  <2> QED BY <2>1, FecInvStep, TurnStep
<1>3. FecInv => RepairExact
  BY DEF FecInv
<1> QED BY <1>1, <1>2, <1>3, PTL DEF FecSpec

-----------------------------------------------------------------------------
\* Completeness: what the table holds, and what was heard.

\* Table bs holds, in a block of m shards, word w at index j.
Holds(bs, m, w, j) ==
    \E i \in 1 .. Len(bs) : bs[i].m = m /\ j \in 0 .. m - 1 /\ bs[i].parity[j] = w

\* No two blocks of a table are for the same parity.
KeysOf(bs) == \A i, j \in 1 .. Len(bs) : Fits(bs[i], bs[j]) => i = j

\* Parity for w in m shards is under way or in the table.
Tagged(w, m) ==
    \/ \E x \in ToSet(net) : x.kind = "rs" /\ x.pkts = w /\ x.m = m
    \/ w # <<>> /\ \E j : Holds(blocks, m, w, j)

\* A group's parity has one number of shards; its datagrams were sent and
\* have left the encoder.
GroupInv ==
    /\ \A w, m, n : Tagged(w, m) /\ Tagged(w, n) => m = n
    /\ \A w, m : Tagged(w, m) =>
          /\ w # <<>> /\ w \in Seq(Packet)
          /\ \A x \in ToSet(w) : x.id < cam.id /\ x \notin ToSet(enc.group)

Groups == {h[1] : h \in heard}

\* What was heard of a group that is not complete is in the table, as long as
\* the table had room for every group heard of.
HeardInv ==
    /\ ToSet(ring) \subseteq got
    /\ heard \subseteq Seq(Packet) \X Nat /\ IsFiniteSet(heard)
    /\ code = "xor" => \A h \in heard : h[2] = 0
    /\ KeysOf(blocks)
    /\ \A m, w, j : Holds(blocks, m, w, j) /\ w # <<>> => <<w, j>> \in heard
    /\ code # "xor" /\ Cardinality(Groups) <= BLOCKS =>
          \A h \in heard : \/ ToSet(h[1]) \subseteq got
                           \/ \E m : Holds(blocks, m, h[1], h[2])

\* The table with room made and a new block, if the parity has none.
LEMMA TableShape ==
    ASSUME NEW S, NEW bs \in Seq(S), NEW p, NEW table, table = WithBlock(bs, p),
           NewBlock(p) \in S, Fits(NewBlock(p), p)
    PROVE  \/ /\ BlockOf(bs, p) # 0 /\ table = bs /\ BlockOf(table, p) = BlockOf(bs, p)
           \/ /\ BlockOf(bs, p) = 0
              /\ \E off \in 0 .. 1 :
                    /\ off <= Len(bs) /\ (off = 1 => Len(bs) >= BLOCKS)
                    /\ table \in Seq(S)
                    /\ Len(table) = Len(bs) - off + 1
                    /\ table[Len(table)] = NewBlock(p)
                    /\ BlockOf(table, p) = Len(table)
                    /\ \A i \in 1 .. Len(bs) - off : table[i] = bs[i + off]
<1>1. CASE BlockOf(bs, p) # 0
  BY <1>1 DEF WithBlock
<1>2. CASE BlockOf(bs, p) = 0
  <2>1. Len(bs) \in Nat /\ BLOCKS \in Nat \ {0}
    BY LenProperties, FecAssumption
  <2>2. PICK off \in 0 .. 1 : off = IF Len(bs) >= BLOCKS THEN 1 ELSE 0
    OBVIOUS
  <2>3. PICK old : old = IF Len(bs) >= BLOCKS THEN Tail(bs) ELSE bs
    OBVIOUS
  <2>4. /\ old \in Seq(S) /\ Len(old) = Len(bs) - off
        /\ \A i \in 1 .. Len(old) : old[i] = bs[i + off]
    <3>1. CASE Len(bs) >= BLOCKS
      <4>1. bs # <<>>
        BY <3>1, <2>1, EmptySeq
      <4>2. /\ Tail(bs) \in Seq(S) /\ Len(Tail(bs)) = Len(bs) - 1
            /\ \A i \in 1 .. Len(Tail(bs)) : Tail(bs)[i] = bs[i + 1]
        BY <4>1, HeadTailProperties
      <4> QED BY <3>1, <4>2, <2>2, <2>3
    <3>2. CASE ~(Len(bs) >= BLOCKS)
      <4>1. off = 0 /\ old = bs
        BY <3>2, <2>2, <2>3
      <4>2. \A i \in 1 .. Len(bs) : i + 0 = i
        BY <2>1
      <4> QED BY <4>1, <4>2, <2>1
    <3> QED BY <3>1, <3>2
  <2>5. table = Append(old, NewBlock(p))
    BY <1>2, <2>3 DEF WithBlock
  <2>6. /\ table \in Seq(S) /\ Len(table) = Len(old) + 1
        /\ \A i \in 1 .. Len(old) : table[i] = old[i]
        /\ table[Len(old) + 1] = NewBlock(p)
        /\ Len(old) \in Nat
    BY <2>4, <2>5, AppendProperties, LenProperties
  <2>7. off <= Len(bs) /\ (off = 1 => Len(bs) >= BLOCKS)
    BY <2>1, <2>2
  <2>8. ASSUME NEW i \in 1 .. Len(old) PROVE ~Fits(table[i], p)
    <3>1. PICK h \in 1 .. Len(bs) : h = i + off
      BY <2>1, <2>4, <2>7
    <3>2. table[i] = bs[h]
      BY <3>1, <2>4, <2>6
    <3> QED BY <3>2, <1>2, BlockOfIs
  <2>9. BlockOf(table, p) = Len(old) + 1
    <3>1. Len(old) + 1 \in 1 .. Len(table) /\ Fits(table[Len(old) + 1], p)
      BY <2>6
    <3>2. BlockOf(table, p) \in 1 .. Len(table) /\ Fits(table[BlockOf(table, p)], p)
      BY <3>1, <2>6, BlockOfIs
    <3> QED BY <3>2, <2>6, <2>8
  <2>10. Len(table) = Len(bs) - off + 1 /\ Len(table) = Len(old) + 1
    BY <2>1, <2>4, <2>6
  <2>11. \A i \in 1 .. Len(bs) - off : table[i] = bs[i + off]
    BY <2>4, <2>6
  <2> QED BY <1>2, <2>6, <2>7, <2>9, <2>10, <2>11
<1> QED BY <1>1, <1>2

\* Fits is reflexive, symmetric and transitive.
LEMMA FitsSame ==
    ASSUME NEW a, NEW b, NEW c
    PROVE  /\ Fits(a, a) /\ (Fits(a, b) => Fits(b, a))
           /\ Fits(a, b) /\ Fits(b, c) => Fits(a, c)
BY DEF Fits

LEMMA KeysTable ==
    ASSUME NEW S, NEW bs \in Seq(S), NEW p, NEW table, table = WithBlock(bs, p),
           NewBlock(p) \in S, Fits(NewBlock(p), p), KeysOf(bs)
    PROVE  KeysOf(table)
<1>1. CASE BlockOf(bs, p) # 0
  <2>1. table = bs
    BY <1>1 DEF WithBlock
  <2> QED BY <2>1
<1>2. CASE BlockOf(bs, p) = 0
  <2>1. PICK off \in 0 .. 1 :
           /\ off <= Len(bs) /\ (off = 1 => Len(bs) >= BLOCKS)
           /\ table \in Seq(S)
           /\ Len(table) = Len(bs) - off + 1
           /\ table[Len(table)] = NewBlock(p)
           /\ BlockOf(table, p) = Len(table)
           /\ \A i \in 1 .. Len(bs) - off : table[i] = bs[i + off]
    BY <1>2, TableShape
  <2>2. Len(bs) \in Nat
    BY LenProperties
  <2>3. ASSUME NEW i \in 1 .. Len(table), i # Len(table)
        PROVE  /\ i + off \in 1 .. Len(bs) /\ table[i] = bs[i + off]
               /\ ~Fits(table[i], p)
    <3>0. off \in Nat /\ i \in Nat /\ Len(table) = Len(bs) - off + 1
      BY <2>1
    <3>1. i \in 1 .. Len(bs) - off
      BY <3>0, <2>2, <2>3
    <3>2. PICK h \in 1 .. Len(bs) : h = i + off
      BY <3>0, <3>1, <2>2
    <3>3. table[i] = bs[h] /\ ~Fits(bs[h], p)
      BY <3>1, <3>2, <2>1, <1>2, BlockOfIs
    <3> QED BY <3>2, <3>3
  <2>4. ASSUME NEW i \in 1 .. Len(table), NEW j \in 1 .. Len(table),
               Fits(table[i], table[j])
        PROVE  i = j
    <3>1. CASE i # Len(table) /\ j # Len(table)
      <4>1. PICK g, h : g = i + off /\ h = j + off
        OBVIOUS
      <4>2. /\ g \in 1 .. Len(bs) /\ table[i] = bs[g]
            /\ h \in 1 .. Len(bs) /\ table[j] = bs[h]
        BY <4>1, <3>1, <2>3
      <4>3. g = h
        BY <4>2, <2>4 DEF KeysOf
      <4>4. i \in Int /\ j \in Int /\ off \in Int
        BY <2>1
      <4> QED BY <4>1, <4>3, <4>4
    <3>2. CASE i = Len(table) /\ j # Len(table)
      <4>1. Fits(table[j], p)
        BY <3>2, <2>1, <2>4, FitsSame
      <4> QED BY <4>1, <3>2, <2>3
    <3>3. CASE i # Len(table) /\ j = Len(table)
      <4>1. Fits(table[i], p)
        BY <3>3, <2>1, <2>4, FitsSame
      <4> QED BY <4>1, <3>3, <2>3
    <3> QED BY <3>1, <3>2, <3>3
  <2> QED BY <2>4 DEF KeysOf
<1> QED BY <1>1, <1>2

LEMMA KeysRemoved ==
    ASSUME NEW S, NEW bs \in Seq(S), NEW at \in 1 .. Len(bs)
    PROVE  /\ KeysOf(bs) => KeysOf(RemoveAt(bs, at))
           /\ \A m, w, j : Holds(RemoveAt(bs, at), m, w, j) => Holds(bs, m, w, j)
           /\ \A m, w, j : Holds(bs, m, w, j) =>
                 \/ Holds(RemoveAt(bs, at), m, w, j)
                 \/ bs[at].m = m /\ j \in 0 .. m - 1 /\ bs[at].parity[j] = w
<1>1. PICK r : r = RemoveAt(bs, at)
  OBVIOUS
<1>2. /\ r \in Seq(S) /\ Len(r) = Len(bs) - 1
      /\ \A i \in 1 .. Len(bs) - 1 : r[i] = IF i < at THEN bs[i] ELSE bs[i + 1]
  BY <1>1, RemovedAt
<1>3. Len(bs) \in Nat /\ at \in Nat
  BY LenProperties
<1>4. PICK f : f = [i \in 1 .. Len(r) |-> IF i < at THEN i ELSE i + 1]
  OBVIOUS
<1>5. \A i \in 1 .. Len(r) : f[i] \in 1 .. Len(bs) /\ r[i] = bs[f[i]]
  BY <1>2, <1>3, <1>4
<1>6. \A i, j \in 1 .. Len(r) : f[i] = f[j] => i = j
  BY <1>2, <1>3, <1>4
<1>7. ASSUME KeysOf(bs) PROVE KeysOf(r)
  <2>1. ASSUME NEW i \in 1 .. Len(r), NEW j \in 1 .. Len(r), Fits(r[i], r[j])
        PROVE  i = j
    <3>1. PICK g, h : g = f[i] /\ h = f[j]
      OBVIOUS
    <3>2. /\ g \in 1 .. Len(bs) /\ r[i] = bs[g]
          /\ h \in 1 .. Len(bs) /\ r[j] = bs[h]
      BY <3>1, <1>5
    <3>3. g = h
      BY <3>2, <2>1, <1>7 DEF KeysOf
    <3> QED BY <3>1, <3>3, <1>6
  <2> QED BY <2>1 DEF KeysOf
<1>8. \A m, w, j : Holds(r, m, w, j) => Holds(bs, m, w, j)
  BY <1>5 DEF Holds
<1>9. ASSUME NEW i \in 1 .. Len(bs), i # at
      PROVE  \E h \in 1 .. Len(r) : r[h] = bs[i]
  <2>1. CASE i < at
    <3>1. i \in 1 .. Len(bs) - 1
      BY <2>1, <1>3
    <3> QED BY <2>1, <3>1, <1>2
  <2>2. CASE ~(i < at)
    <3>1. PICK h \in 1 .. Len(bs) - 1 : h + 1 = i /\ ~(h < at)
      <4>1. i - 1 \in 1 .. Len(bs) - 1 /\ (i - 1) + 1 = i /\ ~(i - 1 < at)
        BY <2>2, <1>3, <1>9
      <4> QED BY <4>1
    <3> QED BY <3>1, <1>2
  <2> QED BY <2>1, <2>2
<1>10. ASSUME NEW m, NEW w, NEW j, Holds(bs, m, w, j)
       PROVE  \/ Holds(r, m, w, j)
              \/ bs[at].m = m /\ j \in 0 .. m - 1 /\ bs[at].parity[j] = w
  <2>1. PICK i \in 1 .. Len(bs) : bs[i].m = m /\ j \in 0 .. m - 1 /\ bs[i].parity[j] = w
    BY <1>10 DEF Holds
  <2>2. CASE i = at
    BY <2>1, <2>2
  <2>3. CASE i # at
    BY <2>1, <2>3, <1>9 DEF Holds
  <2> QED BY <2>2, <2>3
<1> QED BY <1>1, <1>7, <1>8, <1>10

\* Noting a parity adds it to the table, and loses nothing if there is room.
Noting(p, noted, at) ==
    /\ Fits(noted[at], p)
    /\ KeysOf(blocks) => KeysOf(noted)
    /\ Holds(noted, p.m, p.pkts, p.idx)
    /\ \A m, w, j : w # <<>> /\ Holds(noted, m, w, j) =>
          Holds(blocks, m, w, j) \/ (w = p.pkts /\ m = p.m /\ j = p.idx)
    /\ BlockOf(blocks, p) # 0 \/ Len(blocks) < BLOCKS =>
          \A m, w, j : w # <<>> /\ Holds(blocks, m, w, j) => Holds(noted, m, w, j)

LEMMA NotedHolds ==
    ASSUME blocks \in Seq(Block), NEW p \in RsItem, NEW table, NEW at, NEW noted,
           NotesParity(p, table, at, noted)
    PROVE  Noting(p, noted, at)
<1>1. /\ table = WithBlock(blocks, p) /\ at = BlockOf(table, p)
      /\ noted = WithParity(table, p) /\ InTable(table, p, at)
      /\ \A h \in 1 .. Len(table) :
            h # at => \E j \in 1 .. Len(blocks) : table[h] = blocks[j]
      /\ Len(noted) = Len(table)
  BY DEF NotesParity
<1>2. /\ \A i \in 1 .. Len(table) : i # at => noted[i] = table[i]
      /\ Fits(noted[at], p)
      /\ noted[at].parity[p.idx] = p.pkts
      /\ \A j \in 0 .. p.m - 1 : j # p.idx =>
            noted[at].parity[j] = table[at].parity[j]
  BY <1>1, NotedOk
<1>3. /\ at \in 1 .. Len(table) /\ Fits(table[at], p)
      /\ \A j \in 0 .. p.m - 1 : table[at].parity[j] \in {<<>>, p.pkts}
  BY <1>1 DEF InTable
<1>4. p.m \in Nat /\ p.idx \in 0 .. p.m - 1
  BY DEF RsItem
<1>5. noted[at].m = p.m /\ table[at].m = p.m
  BY <1>2, <1>3 DEF Fits
<1>6. NewBlock(p) \in Block /\ Fits(NewBlock(p), p)
      /\ \A j \in 0 .. p.m - 1 : NewBlock(p).parity[j] = <<>>
  BY NewBlockIs
<1>7. ASSUME KeysOf(blocks) PROVE KeysOf(noted)
  <2>1. KeysOf(table)
    BY <1>1, <1>6, <1>7, KeysTable
  <2>2. \A i \in 1 .. Len(table) : Fits(noted[i], table[i])
    <3>1. ASSUME NEW i \in 1 .. Len(table) PROVE Fits(noted[i], table[i])
      <4>1. CASE i = at
        BY <4>1, <1>2, <1>3 DEF Fits
      <4>2. CASE i # at
        BY <4>2, <1>2 DEF Fits
      <4> QED BY <4>1, <4>2
    <3> QED BY <3>1
  <2>3. ASSUME NEW i \in 1 .. Len(table), NEW j \in 1 .. Len(table),
               Fits(noted[i], noted[j])
        PROVE  i = j
    <3>1. Fits(table[i], table[j])
      BY <2>2, <2>3 DEF Fits
    <3> QED BY <3>1, <2>1 DEF KeysOf
  <2> QED BY <2>3, <1>1 DEF KeysOf
<1>8. Holds(noted, p.m, p.pkts, p.idx)
  BY <1>1, <1>2, <1>3, <1>4, <1>5 DEF Holds
<1>9. (\E i \in 1 .. Len(blocks) : table[at] = blocks[i]) \/ table[at] = NewBlock(p)
  <2>1. CASE BlockOf(blocks, p) # 0
    <3>1. table = blocks
      BY <2>1, <1>1 DEF WithBlock
    <3> QED BY <3>1, <1>3
  <2>2. CASE BlockOf(blocks, p) = 0
    <3>1. PICK off \in 0 .. 1 :
             BlockOf(table, p) = Len(table) /\ table[Len(table)] = NewBlock(p)
      BY <2>2, <1>1, <1>6, TableShape
    <3> QED BY <3>1, <1>1
  <2> QED BY <2>1, <2>2
<1>10. ASSUME NEW m, NEW w, NEW j, w # <<>>, Holds(noted, m, w, j)
       PROVE  Holds(blocks, m, w, j) \/ (w = p.pkts /\ m = p.m /\ j = p.idx)
  <2>1. PICK h \in 1 .. Len(table) :
           noted[h].m = m /\ j \in 0 .. m - 1 /\ noted[h].parity[j] = w
    BY <1>1, <1>10 DEF Holds
  <2>2. CASE h # at
    <3>1. PICK i \in 1 .. Len(blocks) : noted[h] = blocks[i]
      BY <2>2, <1>1, <1>2
    <3> QED BY <2>1, <3>1 DEF Holds
  <2>3. CASE h = at /\ j = p.idx
    BY <2>1, <2>3, <1>2, <1>5
  <2>4. CASE h = at /\ j # p.idx
    <3>1. m = p.m /\ j \in 0 .. p.m - 1 /\ table[at].parity[j] = w
      BY <2>1, <2>4, <1>2, <1>5
    <3>2. table[at] # NewBlock(p)
      BY <3>1, <1>6, <1>10
    <3>3. PICK i \in 1 .. Len(blocks) : table[at] = blocks[i]
      BY <3>2, <1>9
    <3> QED BY <3>1, <3>3, <1>5 DEF Holds
  <2> QED BY <2>2, <2>3, <2>4
<1>11. ASSUME BlockOf(blocks, p) # 0 \/ Len(blocks) < BLOCKS,
              NEW m, NEW w, NEW j, w # <<>>, Holds(blocks, m, w, j)
       PROVE  Holds(noted, m, w, j)
  <2>1. PICK i \in 1 .. Len(blocks) :
           blocks[i].m = m /\ j \in 0 .. m - 1 /\ blocks[i].parity[j] = w
    BY <1>11 DEF Holds
  <2>2. i \in 1 .. Len(table) /\ table[i] = blocks[i]
    <3>1. CASE BlockOf(blocks, p) # 0
      BY <3>1, <1>1 DEF WithBlock
    <3>2. CASE BlockOf(blocks, p) = 0
      <4>1. PICK off \in 0 .. 1 :
              /\ off <= Len(blocks) /\ (off = 1 => Len(blocks) >= BLOCKS)
              /\ table \in Seq(Block)
              /\ Len(table) = Len(blocks) - off + 1
              /\ table[Len(table)] = NewBlock(p)
              /\ BlockOf(table, p) = Len(table)
              /\ \A h \in 1 .. Len(blocks) - off : table[h] = blocks[h + off]
        <5>1. table = WithBlock(blocks, p)
          BY <1>1
        <5>2. NewBlock(p) \in Block /\ Fits(NewBlock(p), p)
          BY <1>6
        <5> QED BY <3>2, <5>1, <5>2, TableShape
      <4>2. Len(blocks) \in Nat /\ BLOCKS \in Nat
        BY LenProperties, FecAssumption
      <4>3. off = 0
        BY <4>1, <4>2, <3>2, <1>11
      <4>4. Len(table) = Len(blocks) + 1 /\ i \in 1 .. Len(blocks) - off /\ i + off = i
        BY <4>1, <4>2, <4>3
      <4>5. table[i] = blocks[i]
        BY <4>1, <4>4
      <4>6. i \in 1 .. Len(table)
        BY <4>2, <4>4
      <4> QED BY <4>5, <4>6
    <3> QED BY <3>1, <3>2
  <2>3. CASE i # at
    BY <2>1, <2>2, <2>3, <1>1, <1>2 DEF Holds
  <2>4. CASE i = at
    <3>1. m = p.m /\ j \in 0 .. p.m - 1 /\ table[at].parity[j] = w
      BY <2>1, <2>2, <2>4, <1>5
    <3>2. noted[at].parity[j] = w
      <4>1. CASE j = p.idx
        BY <4>1, <3>1, <1>2, <1>3, <1>11
      <4>2. CASE j # p.idx
        BY <4>2, <3>1, <1>2
      <4> QED BY <4>1, <4>2
    <3> QED BY <3>1, <3>2, <1>1, <1>3, <1>5 DEF Holds
  <2> QED BY <2>3, <2>4
<1> QED BY <1>2, <1>7, <1>8, <1>10, <1>11 DEF Noting

\* Of a block that holds the word w, what is missing is what the ring lacks.
LEMMA MissingIs ==
    ASSUME NEW N, Distinct(N), NEW r \in Seq(Packet), ToSet(r) \subseteq N,
           NEW w, w # <<>>, ToSet(w) \subseteq N, NEW b, Run(b.base, w),
           b.base \in Int, HoldsWord(b, w),
           b.len = Max({q.size : q \in ToSet(w)})
    PROVE  MissingShards(r, b) = {j \in 0 .. Len(w) - 1 : w[j + 1] \notin ToSet(r)}
<1>1. b.k = Len(w) /\ w \in Seq(Packet) /\ Len(w) \in Nat
  BY LenProperties DEF HoldsWord, Run
<1>2. Missing(r, b.base, b.k) = {j \in 0 .. Len(w) - 1 : w[j + 1] \notin ToSet(r)}
  BY <1>1, MissingAre
<1>3. b.len \in Nat /\ \A i \in 1 .. Len(w) : w[i].size <= b.len
  BY <1>1, Longest
<1>4. ASSUME NEW j \in (0 .. b.k - 1) \ Missing(r, b.base, b.k)
      PROVE  ~(find(r, Wrap(b.base + j)).size > b.len)
  <2>1. j \in 0 .. Len(w) - 1 /\ w[j + 1] \in ToSet(r)
    BY <1>1, <1>2
  <2>2. find(r, Wrap(b.base + j)) = w[j + 1]
    BY <2>1, Found
  <2>3. PICK i \in 1 .. Len(w) : i = j + 1
    BY <2>1, <1>1
  <2>4. w[i] \in Packet
    BY <1>1, <2>3, ElementOfSeq
  <2>5. w[i].size \in Nat /\ w[i].size <= b.len
    BY <2>4, <1>3 DEF Packet
  <2> QED BY <2>2, <2>3, <2>5, <1>3
<1>5. MissingShards(r, b) = Missing(r, b.base, b.k)
  BY <1>4 DEF MissingShards
<1> QED BY <1>2, <1>5

\* A group has one number to start from.
LEMMA SameStart ==
    ASSUME NEW b \in 0 .. SEQ - 1, NEW c \in 0 .. SEQ - 1, NEW w, w # <<>>,
           Run(b, w), Run(c, w)
    PROVE  b = c
<1>1. w \in Seq(Packet) /\ Len(w) \in Nat \ {0}
  BY EmptySeq, LenProperties DEF Run
<1>2. 1 \in 1 .. Len(w)
  BY <1>1
<1>3. w[1].seq = Wrap(b + 1 - 1) /\ w[1].seq = Wrap(c + 1 - 1)
  BY <1>2 DEF Run
<1>4. b \in Int /\ c \in Int /\ b + 1 - 1 = b /\ c + 1 - 1 = c
  BY FecAssumption
<1>5. Wrap(b) = b /\ Wrap(c) = c
  BY <1>4, WrapType
<1> QED BY <1>3, <1>4, <1>5

-----------------------------------------------------------------------------
\* GroupInv.
LEMMA GroupKept ==
    ASSUME GroupInv, cam'.id = cam.id, ToSet(enc'.group) \subseteq ToSet(enc.group),
           \A w, m : Tagged(w, m)' => Tagged(w, m)
    PROVE  GroupInv'
BY DEF GroupInv

LEMMA FewerTags ==
    ASSUME ToSet(net') \subseteq ToSet(net), UNCHANGED blocks
    PROVE  \A w, m : Tagged(w, m)' => Tagged(w, m)
BY DEF Tagged, Holds

LEMMA GroupPush ==
    ASSUME FecInv, GroupInv, NEW size \in Sizes, NEW marker \in BOOLEAN,
           NEW newFrame \in BOOLEAN, Push(size, marker, newFrame)
    PROVE  GroupInv'
<1>1. PICK p, d :
              /\ p \in Packet /\ p.id = cam.id
              /\ PushOk(enc, p, d) /\ d.sent \in Seq(Item)
              /\ enc' = d.enc
              /\ net' = (net \o <<[kind |-> "data", pkt |-> p]>>) \o d.sent
              /\ cam'.id = cam.id + 1
  BY PushStep
<1>2. PICK x : x = [kind |-> "data", pkt |-> p]
  OBVIOUS
<1>3. x \in Item /\ x.kind = "data"
  BY <1>1, <1>2 DEF Item, DataItem
<1>4. net \in Seq(Item) /\ cam.id \in Nat /\ EncOk(enc, cam.id)
  BY DEF FecInv, Cam
<1>5. ToSet(net') \subseteq ToSet(net) \cup {x} \cup ToSet(d.sent)
  <2>1. <<x>> \in Seq(Item) /\ ToSet(<<x>>) = {x}
    BY <1>3 DEF ToSet
  <2>2. PICK s : s = net \o <<x>>
    OBVIOUS
  <2>3. Chained(Item, net, <<x>>, s)
    BY <2>1, <2>2, <1>4, ConcatSet
  <2>4. s \in Seq(Item) /\ ToSet(s) = ToSet(net) \cup {x}
    BY <2>1, <2>3 DEF Chained
  <2>5. Chained(Item, s, d.sent, s \o d.sent)
    BY <2>4, <1>1, ConcatSet
  <2> QED BY <1>1, <1>2, <2>2, <2>4, <2>5 DEF Chained
\* New parity is for datagrams no earlier parity is for.
<1> DEFINE New(w, m) == \E f \in ToSet(d.sent) : f.kind = "rs" /\ f.pkts = w /\ f.m = m
<1>6. ASSUME NEW w, NEW m, Tagged(w, m)'
      PROVE  Tagged(w, m) \/ New(w, m)
  <2>1. CASE \E y \in ToSet(net') : y.kind = "rs" /\ y.pkts = w /\ y.m = m
    <3>1. PICK y \in ToSet(net') : y.kind = "rs" /\ y.pkts = w /\ y.m = m
      BY <2>1
    <3>2. y \in ToSet(net) \/ y \in ToSet(d.sent)
      BY <3>1, <1>3, <1>5
    <3> QED BY <3>1, <3>2 DEF Tagged
  <2>2. CASE w # <<>> /\ \E j : Holds(blocks', m, w, j)
    <3>1. blocks' = blocks
      BY DEF Push
    <3> QED BY <2>2, <3>1 DEF Tagged
  <2> QED BY <2>1, <2>2, <1>6 DEF Tagged
<1>7. \A y \in ToSet(enc.group) : y \in Packet /\ y.id < cam.id
  <2>1. enc.group \in Seq(Packet)
    BY <1>4 DEF EncOk, Encoder
  <2>2. ToSet(enc.group) = {enc.group[i] : i \in 1 .. Len(enc.group)}
        /\ ToSet(enc.group) \subseteq Packet
    BY <2>1, SetOfSeq
  <2> QED BY <2>2, <1>4 DEF EncOk
<1>8. ToSet(d.enc.group) \subseteq {p} \cup ToSet(enc.group)
  BY <1>1 DEF PushOk
<1>9. ASSUME NEW w, NEW m, New(w, m)
      PROVE  /\ w # <<>> /\ w \in Seq(Packet) /\ m = ParityCount(Len(w), enc.rate)
             /\ \A y \in ToSet(w) : /\ y = p \/ y \in ToSet(enc.group)
                                    /\ y.id < cam.id + 1 /\ y \notin ToSet(d.enc.group)
  <2>1. PICK f \in ToSet(d.sent) : f.kind = "rs" /\ f.pkts = w /\ f.m = m
    BY <1>9
  <2>2. code # "xor" /\ f \in RsItem
    <3>1. \A y \in XorItem : y.kind = "xor"
      BY DEF XorItem
    <3> QED BY <2>1, <3>1, <1>1 DEF PushOk
  <2>3. /\ ToSet(w) \subseteq Follows(enc, p)
        /\ ToSet(w) \cap ToSet(d.enc.group) = {}
        /\ m = ParityCount(Len(w), enc.rate)
    BY <2>1, <2>2, <1>1 DEF PushOk
  <2>4. w \in Seq(Packet) /\ w # <<>>
    <3>1. w \in Seq(Packet) /\ f.k = Len(w) /\ f.k # 0
      BY <2>1, <2>2 DEF RsItem
    <3> QED BY <3>1, EmptySeq
  <2>5. \A y \in ToSet(w) : y = p \/ y \in ToSet(enc.group)
    BY <2>3 DEF Follows
  <2>6. \A y \in ToSet(w) : y.id < cam.id + 1
    <3>1. \A y \in ToSet(enc.group) : y.id < cam.id + 1
      <4>1. \A y \in Packet : y.id \in Nat
        BY DEF Packet
      <4> QED BY <4>1, <1>4, <1>7
    <3> QED BY <3>1, <2>5, <1>1, <1>4
  <2> QED BY <2>3, <2>4, <2>5, <2>6
<1>10. ASSUME NEW w, NEW m, Tagged(w, m)
       PROVE  /\ w # <<>> /\ w \in Seq(Packet)
              /\ \A y \in ToSet(w) : /\ y # p /\ y \notin ToSet(enc.group)
                                     /\ y.id < cam.id + 1 /\ y \notin ToSet(d.enc.group)
  <2>1. /\ w # <<>> /\ w \in Seq(Packet)
        /\ \A y \in ToSet(w) : y.id < cam.id /\ y \notin ToSet(enc.group)
    BY <1>10 DEF GroupInv
  <2>2. \A y \in ToSet(w) : y.id \in Nat
    <3>1. ToSet(w) \subseteq Packet
      BY <2>1, SetOfSeq
    <3> QED BY <3>1 DEF Packet
  <2>3. \A y \in ToSet(w) : y # p /\ y.id < cam.id + 1
    BY <2>1, <2>2, <1>1, <1>4
  <2> QED BY <2>1, <2>3, <1>8
<1> HIDE DEF New
<1>11. ASSUME NEW w, NEW m, NEW n, Tagged(w, m), New(w, n) PROVE FALSE
  <2>1. w # <<>> /\ w \in Seq(Packet)
    BY <1>10, <1>11
  <2>2. w[1] \in ToSet(w)
    <3>1. Len(w) \in Nat \ {0} /\ DOMAIN w = 1 .. Len(w)
      BY <2>1, EmptySeq, LenProperties
    <3> QED BY <3>1 DEF ToSet
  <2> QED BY <2>2, <1>9, <1>10, <1>11
<1>12. ASSUME NEW w, NEW m, NEW n, Tagged(w, m)', Tagged(w, n)' PROVE m = n
  <2>1. CASE Tagged(w, m) /\ Tagged(w, n)
    BY <2>1 DEF GroupInv
  <2>2. CASE New(w, m) /\ New(w, n)
    BY <2>2, <1>9
  <2> QED BY <2>1, <2>2, <1>6, <1>11, <1>12
<1>13. ASSUME NEW w, NEW m, Tagged(w, m)'
       PROVE  /\ w # <<>> /\ w \in Seq(Packet)
              /\ \A y \in ToSet(w) : y.id < cam'.id /\ y \notin ToSet(enc'.group)
  BY <1>1, <1>6, <1>9, <1>10, <1>13
<1> QED BY <1>12, <1>13 DEF GroupInv

\* What OnRsParity leaves in the table was there or has just been heard.
LEMMA RsTable ==
    ASSUME FecInv, NEW i \in 1 .. 2, net[i] \in RsItem, NEW table, NEW at, NEW noted,
           NotesParity(net[i], table, at, noted), Rebuilds(net[i], at, noted)
    PROVE  /\ KeysOf(blocks) => KeysOf(blocks')
           /\ \A m, w, j : w # <<>> /\ Holds(blocks', m, w, j) =>
                 \/ Holds(blocks, m, w, j)
                 \/ w = net[i].pkts /\ m = net[i].m /\ j = net[i].idx
<1>1. PICK p : p = net[i]
  OBVIOUS
<1>2. Noting(p, noted, at)
  <2>1. blocks \in Seq(Block)
    BY DEF FecInv
  <2> QED BY <1>1, <2>1, NotedHolds
<1>3. noted \in Seq(Block) /\ at \in 1 .. Len(noted)
  BY DEF NotesParity, InTable
<1>4. CASE blocks' = noted
  BY <1>1, <1>2, <1>4 DEF Noting
<1>5. CASE blocks' = RemoveAt(noted, at)
  <2>1. KeysOf(blocks) => KeysOf(blocks')
    <3>1. ASSUME KeysOf(blocks) PROVE KeysOf(blocks')
      <4>1. KeysOf(noted)
        BY <1>2, <3>1 DEF Noting
      <4> QED BY <4>1, <1>3, <1>5, KeysRemoved
    <3> QED BY <3>1
  <2>2. ASSUME NEW m, NEW w, NEW j, w # <<>>, Holds(blocks', m, w, j)
        PROVE  Holds(blocks, m, w, j) \/ (w = p.pkts /\ m = p.m /\ j = p.idx)
    <3>1. Holds(noted, m, w, j)
      BY <2>2, <1>3, <1>5, KeysRemoved
    <3> QED BY <3>1, <2>2, <1>2 DEF Noting
  <2> QED BY <2>1, <2>2, <1>1
<1> QED BY <1>4, <1>5 DEF Rebuilds

LEMMA GroupRs ==
    ASSUME FecInv, OneName, GroupInv, NEW i \in 1 .. 2, OnRsParity(i)
    PROVE  GroupInv'
<1>1. /\ i \in 1 .. Len(net) /\ net[i] \in ToSet(net)
      /\ ToSet(net') \subseteq ToSet(net)
  BY Arrived DEF OnRsParity
<1>2. PICK table, at, noted : /\ NotesParity(net[i], table, at, noted)
                              /\ Rebuilds(net[i], at, noted)
  BY RsStep
<1>3. net[i] \in RsItem /\ net[i].kind = "rs"
  BY RsStep DEF OnRsParity
<1>4. ASSUME NEW w, NEW m, Tagged(w, m)' PROVE Tagged(w, m)
  <2>1. CASE \E x \in ToSet(net') : x.kind = "rs" /\ x.pkts = w /\ x.m = m
    BY <2>1, <1>1 DEF Tagged
  <2>2. CASE w # <<>> /\ \E j : Holds(blocks', m, w, j)
    <3>1. PICK j : Holds(blocks', m, w, j)
      BY <2>2
    <3>2. Holds(blocks, m, w, j) \/ (w = net[i].pkts /\ m = net[i].m)
      BY <1>2, <1>3, <2>2, <3>1, RsTable
    <3> QED BY <3>2, <2>2, <1>1, <1>3 DEF Tagged
  <2> QED BY <2>1, <2>2, <1>4 DEF Tagged
<1>5. UNCHANGED <<enc, cam>>
  BY DEF OnRsParity
<1> QED BY <1>4, <1>5, GroupKept

LEMMA GroupStep ==
    FecInv /\ OneName /\ GroupInv /\ [FecNext]_fvars => GroupInv'
<1> SUFFICES ASSUME FecInv, OneName, GroupInv, [FecNext]_fvars PROVE GroupInv'
  OBVIOUS
<1>1. ASSUME NEW size \in Sizes, NEW marker \in BOOLEAN, NEW newFrame \in BOOLEAN,
             Push(size, marker, newFrame)
      PROVE  GroupInv'
  BY <1>1, GroupPush
<1>2. ASSUME NEW rate \in Rates, SetRate(rate) PROVE GroupInv'
  <2>1. UNCHANGED <<net, blocks>> /\ cam'.id = cam.id
    <3>1. cam \in Cam
      BY DEF FecInv
    <3> QED BY <1>2, <3>1 DEF SetRate, Cam
  <2>2. ToSet(enc'.group) \subseteq ToSet(enc.group)
    <3>1. enc \in Encoder
      BY DEF FecInv, EncOk
    <3>2. enc'.group = <<>> \/ enc'.group = enc.group
      BY <1>2, <3>1 DEF SetRate, Emptied, Encoder
    <3> QED BY <3>2, EmptySet
  <2>3. \A w, m : Tagged(w, m)' => Tagged(w, m)
    BY <2>1, FewerTags
  <2> QED BY <2>1, <2>2, <2>3, GroupKept
<1>3. ASSUME NEW jump \in {SEQ \div 2, SEQ - 2}, Restart(jump) PROVE GroupInv'
  <2>1. UNCHANGED <<enc, blocks>> /\ cam'.id = cam.id
    <3>1. cam \in Cam
      BY DEF FecInv
    <3> QED BY <1>3, <3>1 DEF Restart, Cam
  <2>2. \A x \in ToSet(net') : x \in ToSet(net) \/ x.kind = "restart"
    <3>1. PICK x : x = [kind |-> "restart"]
      OBVIOUS
    <3>2. net \in Seq(Item) /\ x \in Item /\ <<x>> \in Seq(Item) /\ ToSet(<<x>>) = {x}
      <4>1. x \in Item
        BY <3>1 DEF Item, RestartItem
      <4> QED BY <4>1 DEF FecInv, ToSet
    <3>3. net' = net \o <<x>>
      <4>1. net' = Append(net, x)
        BY <1>3, <3>1 DEF Restart
      <4> QED BY <4>1, <3>2, AppendIsConcat
    <3>4. Chained(Item, net, <<x>>, net \o <<x>>)
      BY <3>2, ConcatSet
    <3> QED BY <3>1, <3>2, <3>3, <3>4 DEF Chained
  <2>3. \A w, m : Tagged(w, m)' => Tagged(w, m)
    BY <2>1, <2>2 DEF Tagged, Holds
  <2> QED BY <2>1, <2>3, GroupKept
<1>4. ASSUME NEW i \in 1 .. 2, OnPacket(i) \/ OnXorParity(i) PROVE GroupInv'
  <2>1. UNCHANGED <<enc, cam, blocks>>
    BY <1>4 DEF OnPacket, OnXorParity
  <2>2. ToSet(net') \subseteq ToSet(net)
    BY <1>4, Arrived DEF OnPacket, OnXorParity
  <2> QED BY <2>1, <2>2, FewerTags, GroupKept
<1>5. ASSUME NEW i \in 1 .. 2, OnRsParity(i) PROVE GroupInv'
  BY <1>5, GroupRs
<1>6. CASE OnRestart
  <2>1. UNCHANGED <<enc, cam>> /\ blocks' = <<>>
    BY <1>6 DEF OnRestart
  <2>2. ToSet(net') \subseteq ToSet(net)
    <3>1. 1 \in 1 .. 2 /\ Arrives(1)
      BY <1>6 DEF OnRestart
    <3> QED BY <3>1, Arrived
  <2>3. \A m, w, j : ~Holds(blocks', m, w, j)
    BY <2>1, EmptySeq DEF Holds
  <2>4. \A w, m : Tagged(w, m)' => Tagged(w, m)
    BY <2>2, <2>3 DEF Tagged
  <2> QED BY <2>1, <2>4, GroupKept
<1>7. CASE LoseDatagram
  <2>1. UNCHANGED <<enc, cam, blocks>> /\ ToSet(net') \subseteq ToSet(net)
    BY <1>7, FecInvLose DEF LoseDatagram
  <2> QED BY <2>1, FewerTags, GroupKept
<1>8. CASE UNCHANGED fvars
  BY <1>8 DEF fvars, GroupInv, Tagged, Holds
<1> QED BY <1>1, <1>2, <1>3, <1>4, <1>5, <1>6, <1>7, <1>8 DEF FecNext

\* A one-to-one map goes into what is at least as large.
LEMMA OneToOne ==
    ASSUME NEW S, NEW T, IsFiniteSet(T), NEW f \in [S -> T],
           \A a, b \in S : f[a] = f[b] => a = b
    PROVE  /\ IsFiniteSet(S) /\ Cardinality(S) <= Cardinality(T)
           /\ Cardinality(S) \in Nat /\ Cardinality(T) \in Nat
<1>1. f \in Injection(S, T)
  BY DEF Injection, IsInjective
<1>2. IsFiniteSet(S) /\ Cardinality(S) <= Cardinality(T)
  BY <1>1, FS_Injection
<1> QED BY <1>2, FS_CardinalityType

\* One word is in one block only.
LEMMA OneBlock ==
    ASSUME NEW bs \in Seq(Block), \A h \in 1 .. Len(bs) : BlockOk(bs[h]), KeysOf(bs),
           NEW a \in 1 .. Len(bs), NEW c \in 1 .. Len(bs), bs[a].m = bs[c].m,
           NEW i \in 0 .. bs[a].m - 1, NEW j \in 0 .. bs[c].m - 1,
           bs[a].parity[i] # <<>>, bs[a].parity[i] = bs[c].parity[j]
    PROVE  a = c
<1>1. BlockOk(bs[a]) /\ BlockOk(bs[c])
  OBVIOUS
<1>2. PICK w : w = bs[a].parity[i]
  OBVIOUS
<1>3. /\ Run(bs[a].base, w) /\ Len(w) = bs[a].k
      /\ Run(bs[c].base, w) /\ Len(w) = bs[c].k
  BY <1>1, <1>2 DEF BlockOk
<1>4. bs[a].base \in 0 .. SEQ - 1 /\ bs[c].base \in 0 .. SEQ - 1
  BY <1>1 DEF BlockOk, Block
<1>5. bs[a].base = bs[c].base
  BY <1>2, <1>3, <1>4, SameStart
<1>6. Fits(bs[a], bs[c])
  BY <1>3, <1>5 DEF Fits
<1> QED BY <1>6 DEF KeysOf

\* The groups a set of parity is of.
GroupsOf(H) == {h[1] : h \in H}

LEMMA FiniteGroups ==
    ASSUME NEW H, IsFiniteSet(H), NEW G \in SUBSET H
    PROVE  /\ IsFiniteSet(GroupsOf(H)) /\ Cardinality(GroupsOf(G)) \in Nat
           /\ Cardinality(GroupsOf(H)) \in Nat
           /\ Cardinality(GroupsOf(G)) <= Cardinality(GroupsOf(H))
<1> DEFINE f == [h \in H |-> h[1]]
<1>1. f \in Surjection(H, GroupsOf(H))
  BY DEF Surjection, GroupsOf
<1>2. IsFiniteSet(GroupsOf(H))
  BY <1>1, FS_Surjection
<1>3. GroupsOf(G) \subseteq GroupsOf(H)
  BY DEF GroupsOf
<1>4. /\ IsFiniteSet(GroupsOf(G))
      /\ Cardinality(GroupsOf(G)) <= Cardinality(GroupsOf(H))
  BY <1>2, <1>3, FS_Subset
<1> QED BY <1>2, <1>4, FS_CardinalityType

\* No block has to make room as long as the table can hold a block for every
\* group heard of.
LEMMA NoEviction ==
    ASSUME FecInv, GroupInv, HeardInv, NEW p \in RsItem, p \in ToSet(net),
           Cardinality(GroupsOf(heard \cup {<<p.pkts, p.idx>>})) <= BLOCKS
    PROVE  BlockOf(blocks, p) # 0 \/ Len(blocks) < BLOCKS
<1> SUFFICES ASSUME BlockOf(blocks, p) = 0 PROVE Len(blocks) < BLOCKS
  OBVIOUS
<1>1. /\ blocks \in Seq(Block) /\ \A h \in 1 .. Len(blocks) : BlockOk(blocks[h])
      /\ KeysOf(blocks) /\ IsFiniteSet(heard)
  BY DEF FecInv, HeardInv
<1>2. Len(blocks) \in Nat /\ BLOCKS \in Nat
  BY <1>1, LenProperties, FecAssumption
<1>3. PICK G : G = GroupsOf(heard \cup {<<p.pkts, p.idx>>})
  OBVIOUS
<1>4. IsFiniteSet(G) /\ Cardinality(G) \in Nat
  <2>1. PICK H : H = heard \cup {<<p.pkts, p.idx>>}
    OBVIOUS
  <2>2. IsFiniteSet(H) /\ H \in SUBSET H
    BY <1>1, <2>1, FS_AddElement
  <2> QED BY <1>3, <2>1, <2>2, FiniteGroups
\* A word of each block, and the parity's own: all different.
<1> DEFINE Of(i, w) == w # <<>> /\ \E j \in 0 .. blocks[i].m - 1 : blocks[i].parity[j] = w
<1>5. ASSUME NEW i \in 1 .. Len(blocks) PROVE \E w : Of(i, w)
  BY <1>1 DEF BlockOk
<1>6. ASSUME NEW i \in 1 .. Len(blocks), NEW w, Of(i, w)
      PROVE  /\ w \in G /\ Tagged(w, blocks[i].m)
             /\ Run(blocks[i].base, w) /\ Len(w) = blocks[i].k
  <2>1. PICK j \in 0 .. blocks[i].m - 1 : blocks[i].parity[j] = w
    BY <1>6
  <2>2. Holds(blocks, blocks[i].m, w, j)
    BY <2>1 DEF Holds
  <2>3. <<w, j>> \in heard
    BY <2>2, <1>6 DEF HeardInv
  <2>4. w \in G
    <3>1. <<w, j>>[1] = w
      OBVIOUS
    <3> QED BY <3>1, <2>3, <1>3 DEF GroupsOf
  <2>5. Tagged(w, blocks[i].m)
    BY <2>2, <1>6 DEF Tagged
  <2>6. Run(blocks[i].base, w) /\ Len(w) = blocks[i].k
    BY <2>1, <1>1, <1>6 DEF BlockOk
  <2> QED BY <2>4, <2>5, <2>6
<1>7. ASSUME NEW a \in 1 .. Len(blocks), NEW c \in 1 .. Len(blocks), NEW w,
             Of(a, w), Of(c, w)
      PROVE  a = c
  <2>1. blocks[a].m = blocks[c].m
    BY <1>6, <1>7 DEF GroupInv
  <2>2. PICK i \in 0 .. blocks[a].m - 1 : blocks[a].parity[i] = w
    BY <1>7
  <2>3. PICK j \in 0 .. blocks[c].m - 1 : blocks[c].parity[j] = w
    BY <1>7
  <2> QED BY <2>1, <2>2, <2>3, <1>1, <1>7, OneBlock
<1>8. /\ Tagged(p.pkts, p.m) /\ Run(p.base, p.pkts) /\ p.k = Len(p.pkts)
      /\ p.base \in 0 .. SEQ - 1
  <2>1. p.kind = "rs"
    BY DEF RsItem
  <2> QED BY <2>1 DEF Tagged, RsItem
<1>9. p.pkts \in G
  <2>1. <<p.pkts, p.idx>>[1] = p.pkts
    OBVIOUS
  <2> QED BY <2>1, <1>3 DEF GroupsOf
<1>10. ASSUME NEW i \in 1 .. Len(blocks) PROVE ~Of(i, p.pkts)
  <2> SUFFICES ASSUME Of(i, p.pkts) PROVE FALSE
    OBVIOUS
  <2>1. /\ Tagged(p.pkts, blocks[i].m) /\ p.pkts # <<>>
        /\ Run(blocks[i].base, p.pkts) /\ Len(p.pkts) = blocks[i].k
    BY <1>6
  <2>2. blocks[i].m = p.m
    BY <2>1, <1>8 DEF GroupInv
  <2>3. blocks[i].base = p.base
    <3>1. blocks[i].base \in 0 .. SEQ - 1
      BY <1>1 DEF BlockOk, Block
    <3> QED BY <3>1, <2>1, <1>8, SameStart
  <2>4. Fits(blocks[i], p)
    BY <2>1, <2>2, <2>3, <1>8 DEF Fits
  <2> QED BY <2>4, <1>1, BlockOfIs
<1> HIDE DEF Of
<1> DEFINE f == [i \in 1 .. Len(blocks) + 1 |->
                    IF i = Len(blocks) + 1 THEN p.pkts ELSE CHOOSE w : Of(i, w)]
<1>11. ASSUME NEW i \in 1 .. Len(blocks) + 1, i # Len(blocks) + 1
       PROVE  i \in 1 .. Len(blocks) /\ Of(i, f[i])
  <2>1. i \in 1 .. Len(blocks)
    BY <1>2, <1>11
  <2>2. f[i] = CHOOSE w : Of(i, w)
    BY <1>11
  <2> QED BY <2>1, <2>2, <1>5
<1>12. f[Len(blocks) + 1] = p.pkts
  BY <1>2
<1>13. f \in [1 .. Len(blocks) + 1 -> G]
  <2>1. ASSUME NEW i \in 1 .. Len(blocks) + 1 PROVE f[i] \in G
    <3>1. CASE i = Len(blocks) + 1
      BY <3>1, <1>9, <1>12
    <3>2. CASE i # Len(blocks) + 1
      BY <3>2, <1>6, <1>11
    <3> QED BY <3>1, <3>2
  <2> QED BY <2>1
<1>14. ASSUME NEW i \in 1 .. Len(blocks) + 1, NEW j \in 1 .. Len(blocks) + 1, f[i] = f[j]
       PROVE  i = j
  <2> HIDE DEF f
  <2>1. CASE i # Len(blocks) + 1 /\ j # Len(blocks) + 1
    BY <2>1, <1>7, <1>11, <1>14
  <2>2. CASE i = Len(blocks) + 1 /\ j # Len(blocks) + 1
    <3>1. j \in 1 .. Len(blocks) /\ Of(j, f[j])
      BY <2>2, <1>11
    <3> QED BY <3>1, <2>2, <1>10, <1>12, <1>14
  <2>3. CASE i # Len(blocks) + 1 /\ j = Len(blocks) + 1
    <3>1. i \in 1 .. Len(blocks) /\ Of(i, f[i])
      BY <2>3, <1>11
    <3> QED BY <3>1, <2>3, <1>10, <1>12, <1>14
  <2> QED BY <2>1, <2>2, <2>3
<1> HIDE DEF f
<1>15. Cardinality(1 .. Len(blocks) + 1) <= Cardinality(G)
  BY <1>4, <1>13, <1>14, OneToOne
<1>16. Cardinality(1 .. Len(blocks) + 1) = Len(blocks) + 1
  <2>1. 1 \in Int /\ Len(blocks) + 1 \in Int /\ ~(1 > Len(blocks) + 1)
        /\ Len(blocks) + 1 - 1 + 1 = Len(blocks) + 1
    BY <1>2
  <2> QED BY <2>1, FS_Interval
<1> QED BY <1>2, <1>3, <1>4, <1>15, <1>16

\* The block the parity is noted in.
BlockNoted(p, b) ==
    /\ BlockOk(b) /\ b.base = p.base /\ HoldsWord(b, p.pkts) /\ b.len = p.len
    /\ Fits(b, p)
    /\ MissingShards(ring, b) =
          {j \in 0 .. Len(p.pkts) - 1 : p.pkts[j + 1] \notin ToSet(ring)}

LEMMA NotedAt ==
    ASSUME FecInv, OneName, NEW i \in Arriving, NEW p \in RsItem, p = net[i],
           NEW table, NEW at, NEW noted, NotesParity(p, table, at, noted)
    PROVE  BlockNoted(p, noted[at])
<1>1. /\ at = BlockOf(table, p) /\ noted = WithParity(table, p)
      /\ InTable(table, p, at)
  BY DEF NotesParity
<1>2. /\ BlockOk(noted[at]) /\ Fits(noted[at], p)
      /\ HoldsWord(noted[at], p.pkts) /\ noted[at].len = p.len
  BY <1>1, NotedOk
<1>3. PICK b : b = noted[at]
  OBVIOUS
<1>4. PICK w : w = p.pkts
  OBVIOUS
<1>5. /\ b.base = p.base /\ p.base \in Int /\ w # <<>> /\ Run(p.base, w)
      /\ b.len = Max({q.size : q \in ToSet(w)})
  <2>1. /\ p.base \in 0 .. SEQ - 1 /\ w \in Seq(Packet) /\ p.k = Len(w) /\ p.k # 0
        /\ Run(p.base, w) /\ p.len = Max({q.size : q \in ToSet(w)})
    BY <1>4 DEF RsItem
  <2> QED BY <2>1, <1>2, <1>3, EmptySeq, FecAssumption DEF Fits
<1>6. ToSet(ring) \subseteq Named /\ ToSet(w) \subseteq Named /\ Distinct(Named)
      /\ ring \in Seq(Packet)
  BY <1>4, NamedHas DEF OneName, FecInv
<1>7. MissingShards(ring, b) = {j \in 0 .. Len(w) - 1 : w[j + 1] \notin ToSet(ring)}
  <2>1. HoldsWord(b, w) /\ Run(b.base, w) /\ b.base \in Int
    BY <1>2, <1>3, <1>4, <1>5
  <2> QED BY <2>1, <1>5, <1>6, MissingIs
<1> QED BY <1>2, <1>3, <1>4, <1>5, <1>7 DEF BlockNoted

\* What is not in the ring of a group, counted or rebuilt.
LEMMA NotInRing ==
    ASSUME NEW w \in Seq(Packet)
    PROVE  LET miss == {j \in 0 .. Len(w) - 1 : w[j + 1] \notin ToSet(ring)}
           IN  {w[j + 1] : j \in miss} = ToSet(w) \ ToSet(ring)
<1> DEFINE miss == {j \in 0 .. Len(w) - 1 : w[j + 1] \notin ToSet(ring)}
<1>1. Len(w) \in Nat /\ ToSet(w) = {w[i] : i \in 1 .. Len(w)}
  BY SetOfSeq
<1>2. ASSUME NEW j \in miss PROVE w[j + 1] \in ToSet(w) \ ToSet(ring)
  <2>1. PICK i \in 1 .. Len(w) : i = j + 1
    BY <1>1
  <2> QED BY <2>1, <1>1
<1>3. ASSUME NEW x \in ToSet(w) \ ToSet(ring) PROVE \E j \in miss : w[j + 1] = x
  <2>1. PICK i \in 1 .. Len(w) : w[i] = x
    BY <1>1
  <2>2. PICK j \in 0 .. Len(w) - 1 : j + 1 = i
    <3>1. i - 1 \in 0 .. Len(w) - 1 /\ (i - 1) + 1 = i
      BY <1>1
    <3> QED BY <3>1
  <2>3. j \in miss /\ w[j + 1] = x
    BY <2>1, <2>2
  <2> QED BY <2>3
<1> HIDE DEF miss
<1> QED BY <1>2, <1>3 DEF miss

LEMMA RsOut ==
    ASSUME FecInv, OneName, NEW i \in 1 .. 2, i \in Arriving, net[i] \in RsItem,
           NEW table, NEW at, NEW noted,
           NotesParity(net[i], table, at, noted), Rebuilds(net[i], at, noted)
    PROVE  \/ /\ ~Repairable(ring, noted[at])
              /\ Handed({}) /\ blocks' = noted
           \/ /\ Repairable(ring, noted[at])
              /\ Handed(ToSet(net[i].pkts) \ ToSet(ring))
              /\ blocks' = RemoveAt(noted, at)
<1>1. PICK p : p = net[i]
  OBVIOUS
<1>2. p \in RsItem /\ p.pkts \in Seq(Packet) /\ ring \in Seq(Packet)
  BY <1>1 DEF RsItem, FecInv
<1>3. CASE ~Repairable(ring, noted[at])
  <2>1. Rebuild(<<>>) /\ blocks' = noted
    BY <1>3 DEF Rebuilds
  <2>2. Right(<<>>, p.pkts, {})
    BY RightEmpty
  <2>3. Handed({p.pkts[j + 1] : j \in {}})
    BY <2>1, <2>2, <1>2, Rebuilt
  <2>4. {p.pkts[j + 1] : j \in {}} = {}
    OBVIOUS
  <2> QED BY <1>3, <2>1, <2>3, <2>4
<1>4. CASE Repairable(ring, noted[at])
  <2>1. PICK list : Rebuild(list) /\ Right(list, p.pkts, MissingShards(ring, noted[at]))
    BY <1>1, <1>4 DEF Rebuilds
  <2>2. PICK miss : miss = MissingShards(ring, noted[at])
    OBVIOUS
  <2>3. Handed({p.pkts[j + 1] : j \in miss})
    BY <2>1, <2>2, <1>2, Rebuilt
  <2>4. miss = {j \in 0 .. Len(p.pkts) - 1 : p.pkts[j + 1] \notin ToSet(ring)}
    <3>1. BlockNoted(p, noted[at])
      BY <1>1, <1>2, NotedAt
    <3> QED BY <3>1, <2>2 DEF BlockNoted
  <2>5. {p.pkts[j + 1] : j \in miss} = ToSet(p.pkts) \ ToSet(ring)
    BY <2>4, <1>2, NotInRing
  <2>6. blocks' = RemoveAt(noted, at)
    BY <1>4 DEF Rebuilds
  <2> QED BY <1>1, <1>4, <2>3, <2>5, <2>6
<1> QED BY <1>3, <1>4

LEMMA XorOut ==
    ASSUME FecInv, OneName, NEW i \in 1 .. 2, OnXorParity(i)
    PROVE  LET w == net[i].pkts
               miss == {j \in 0 .. Len(w) - 1 : w[j + 1] \notin ToSet(ring)}
           IN  Handed(IF Cardinality(miss) = 1 THEN ToSet(w) \ ToSet(ring) ELSE {})
<1>1. PICK w : w = net[i].pkts
  OBVIOUS
<1>2. PICK miss : miss = {j \in 0 .. Len(w) - 1 : w[j + 1] \notin ToSet(ring)}
  OBVIOUS
<1>3. PICK list : Rebuild(list) /\ Right(list, w, IF Cardinality(miss) = 1 THEN miss ELSE {})
  BY <1>1, <1>2, XorStep
<1>4. ring \in Seq(Packet)
  BY DEF FecInv
<1>5. w \in Seq(Packet)
  <2>1. net[i] \in XorItem
    BY XorStep
  <2> QED BY <2>1, <1>1 DEF XorItem
<1>6. {w[j + 1] : j \in miss} = ToSet(w) \ ToSet(ring)
  BY <1>2, <1>5, NotInRing
<1>7. CASE Cardinality(miss) = 1
  <2>1. Right(list, w, miss)
    BY <1>3, <1>7
  <2>2. Handed({w[j + 1] : j \in miss})
    BY <1>3, <1>4, <2>1, Rebuilt
  <2> QED BY <2>2, <1>1, <1>2, <1>6, <1>7
<1>8. CASE Cardinality(miss) # 1
  <2>1. Right(list, w, {})
    BY <1>3, <1>8
  <2>2. Handed({w[j + 1] : j \in {}})
    BY <1>3, <1>4, <2>1, Rebuilt
  <2>3. {w[j + 1] : j \in {}} = {}
    OBVIOUS
  <2> QED BY <2>2, <2>3, <1>1, <1>2, <1>8
<1> QED BY <1>7, <1>8

-----------------------------------------------------------------------------
\* HeardInv.
LEMMA HeardInit == FecInit => HeardInv
<1> SUFFICES ASSUME FecInit PROVE HeardInv
  OBVIOUS
<1>1. ring = <<>> /\ heard = {} /\ blocks = <<>>
  BY DEF FecInit
<1>2. Len(blocks) = 0 /\ KeysOf(blocks)
  BY <1>1, EmptySeq DEF KeysOf
<1>3. \A m, w, j : ~Holds(blocks, m, w, j)
  BY <1>2 DEF Holds
<1>4. IsFiniteSet(heard)
  BY <1>1, FS_EmptySet
<1> QED BY <1>1, <1>2, <1>3, <1>4, EmptySet DEF HeardInv

\* Steps that only bring datagrams to the ring, or nothing.
LEMMA HeardSame ==
    ASSUME HeardInv, UNCHANGED <<code, blocks, heard>>,
           ToSet(ring') \subseteq got', got \subseteq got'
    PROVE  HeardInv'
<1>1. Groups' = Groups
  BY DEF Groups
<1>2. \A m, w, j : Holds(blocks', m, w, j) <=> Holds(blocks, m, w, j)
  BY DEF Holds
<1>3. ASSUME code' # "xor", Cardinality(Groups') <= BLOCKS, NEW h \in heard'
      PROVE  ToSet(h[1]) \subseteq got' \/ \E m : Holds(blocks', m, h[1], h[2])
  BY <1>1, <1>2, <1>3 DEF HeardInv
<1> QED BY <1>2, <1>3 DEF HeardInv, KeysOf

LEMMA HeardXor ==
    ASSUME FecInv, OneName, HeardInv, NEW i \in 1 .. 2, OnXorParity(i)
    PROVE  HeardInv'
<1>1. PICK X : Handed(X)
  BY XorOut
<1>2. UNCHANGED <<code, blocks>> /\ heard' = heard \cup {<<net[i].pkts, 0>>}
  BY DEF OnXorParity
<1>3. net[i] \in XorItem /\ net[i].pkts \in Seq(Packet) /\ code = "xor"
  <2>1. net[i] \in XorItem
    BY XorStep
  <2>2. net[i] \in ToSet(net) /\ net[i].kind = "xor"
    BY Arrived DEF OnXorParity
  <2> QED BY <2>1, <2>2 DEF FecInv, XorItem
<1>4. ToSet(ring') \subseteq got' /\ got \subseteq got'
  BY <1>1 DEF Handed, HeardInv
<1>5. IsFiniteSet(heard') /\ heard' \subseteq Seq(Packet) \X Nat
  <2>1. PICK e : e = <<net[i].pkts, 0>>
    OBVIOUS
  <2>2. e \in Seq(Packet) \X Nat
    BY <1>3, <2>1
  <2>3. IsFiniteSet(heard) /\ heard \subseteq Seq(Packet) \X Nat
    BY DEF HeardInv
  <2>4. IsFiniteSet(heard \cup {e})
    BY <2>3, FS_AddElement
  <2> QED BY <1>2, <2>1, <2>2, <2>3, <2>4
<1>6. \A h \in heard' : h[2] = 0
  BY <1>2, <1>3 DEF HeardInv
<1>7. \A m, w, j : Holds(blocks', m, w, j) /\ w # <<>> => <<w, j>> \in heard'
  BY <1>2 DEF HeardInv, Holds
<1>8. KeysOf(blocks') /\ code' = "xor"
  BY <1>2, <1>3 DEF HeardInv
<1> QED BY <1>4, <1>5, <1>6, <1>7, <1>8 DEF HeardInv

LEMMA HeardRs ==
    ASSUME FecInv, OneName, GroupInv, HeardInv, NEW i \in 1 .. 2, OnRsParity(i)
    PROVE  HeardInv'
<1>1. PICK p : p = net[i]
  OBVIOUS
<1>2. /\ p \in RsItem /\ i \in Arriving /\ p \in ToSet(net) /\ p.kind = "rs"
  BY <1>1, RsStep, Arrived DEF OnRsParity
<1>3. PICK table, at, noted : /\ NotesParity(p, table, at, noted)
                              /\ Rebuilds(p, at, noted)
  BY <1>1, RsStep
<1>4. PICK X : Handed(X)
  BY <1>1, <1>2, <1>3, RsOut
<1>5. UNCHANGED code /\ heard' = heard \cup {<<p.pkts, p.idx>>} /\ code = "rs"
  BY <1>1, <1>2 DEF OnRsParity, FecInv
<1>6. ToSet(ring') \subseteq got' /\ got \subseteq got'
  BY <1>4 DEF Handed, HeardInv
<1>7. IsFiniteSet(heard') /\ heard' \subseteq Seq(Packet) \X Nat
  <2>1. PICK e : e = <<p.pkts, p.idx>>
    OBVIOUS
  <2>2. e \in Seq(Packet) \X Nat
    <3>1. p.pkts \in Seq(Packet) /\ p.idx \in Nat
      BY <1>2 DEF RsItem
    <3> QED BY <2>1, <3>1
  <2>3. IsFiniteSet(heard) /\ heard \subseteq Seq(Packet) \X Nat
    BY DEF HeardInv
  <2>4. IsFiniteSet(heard \cup {e})
    BY <2>3, FS_AddElement
  <2> QED BY <1>5, <2>1, <2>2, <2>3, <2>4
<1>8. /\ KeysOf(blocks')
      /\ \A m, w, j : Holds(blocks', m, w, j) /\ w # <<>> => <<w, j>> \in heard'
  <2>1. KeysOf(blocks')
    BY <1>1, <1>2, <1>3, RsTable DEF HeardInv
  <2>2. ASSUME NEW m, NEW w, NEW j, Holds(blocks', m, w, j), w # <<>>
        PROVE  <<w, j>> \in heard'
    <3>1. Holds(blocks, m, w, j) \/ (w = p.pkts /\ j = p.idx)
      BY <1>1, <1>2, <1>3, <2>2, RsTable
    <3> QED BY <3>1, <2>2, <1>5 DEF HeardInv
  <2> QED BY <2>1, <2>2
<1>9. ASSUME Cardinality(Groups') <= BLOCKS, NEW h \in heard'
      PROVE  ToSet(h[1]) \subseteq got' \/ \E m : Holds(blocks', m, h[1], h[2])
  <2>1. Groups' = GroupsOf(heard') /\ Groups = GroupsOf(heard)
    BY DEF Groups, GroupsOf
  <2>2. Cardinality(Groups) <= BLOCKS
    <3>1. heard \in SUBSET heard'
      BY <1>5
    <3>2. /\ Cardinality(GroupsOf(heard)) \in Nat /\ Cardinality(GroupsOf(heard')) \in Nat
          /\ Cardinality(GroupsOf(heard)) <= Cardinality(GroupsOf(heard'))
      BY <3>1, <1>7, FiniteGroups
    <3> QED BY <3>2, <2>1, <1>9, FecAssumption
  <2>3. BlockOf(blocks, p) # 0 \/ Len(blocks) < BLOCKS
    BY <1>2, <1>5, <1>9, <2>1, NoEviction
  <2>4. Noting(p, noted, at)
    <3>1. blocks \in Seq(Block)
      BY DEF FecInv
    <3> QED BY <3>1, <1>2, <1>3, NotedHolds
  <2>5. h[1] = <<>> \/ ToSet(h[1]) \subseteq got \/ \E m : Holds(noted, m, h[1], h[2])
    <3>1. CASE h \in heard
      <4>1. ToSet(h[1]) \subseteq got \/ \E m : Holds(blocks, m, h[1], h[2])
        BY <3>1, <2>2, <1>5 DEF HeardInv
      <4> QED BY <4>1, <2>3, <2>4 DEF Noting
    <3>2. CASE h = <<p.pkts, p.idx>>
      <4>1. h[1] = p.pkts /\ h[2] = p.idx
        BY <3>2
      <4> QED BY <4>1, <2>4 DEF Noting
    <3> QED BY <3>1, <3>2, <1>5
  <2>6. CASE h[1] = <<>> \/ ToSet(h[1]) \subseteq got
    BY <2>6, <1>6, EmptySet
  <2>7. ASSUME h[1] # <<>>, NEW m, Holds(noted, m, h[1], h[2])
        PROVE  ToSet(h[1]) \subseteq got' \/ Holds(blocks', m, h[1], h[2])
    <3>1. CASE blocks' = noted
      BY <2>7, <3>1
    <3>2. CASE /\ Handed(ToSet(p.pkts) \ ToSet(ring))
               /\ blocks' = RemoveAt(noted, at)
      <4>1. noted \in Seq(Block) /\ at \in 1 .. Len(noted)
        BY <1>3 DEF NotesParity, InTable
      <4>2. \/ Holds(blocks', m, h[1], h[2])
            \/ /\ noted[at].m = m /\ h[2] \in 0 .. m - 1
               /\ noted[at].parity[h[2]] = h[1]
        BY <3>2, <4>1, <2>7, KeysRemoved
      <4>3. ASSUME noted[at].m = m, h[2] \in 0 .. m - 1, noted[at].parity[h[2]] = h[1]
            PROVE  ToSet(h[1]) \subseteq got'
        <5>1. BlockNoted(p, noted[at])
          BY <1>1, <1>2, <1>3, NotedAt
        <5>2. h[1] = p.pkts
          BY <5>1, <4>3, <2>7 DEF BlockNoted, HoldsWord
        <5>3. ToSet(ring) \subseteq got /\ got' = got \cup (ToSet(p.pkts) \ ToSet(ring))
          BY <3>2 DEF HeardInv, Handed
        <5> QED BY <5>2, <5>3
      <4> QED BY <4>2, <4>3
    <3> QED BY <3>1, <3>2, <1>1, <1>2, <1>3, RsOut
  <2> QED BY <2>5, <2>6, <2>7
<1> QED BY <1>5, <1>6, <1>7, <1>8, <1>9 DEF HeardInv

LEMMA HeardStep ==
    FecInv /\ OneName /\ GroupInv /\ HeardInv /\ [FecNext]_fvars => HeardInv'
<1> SUFFICES ASSUME FecInv, OneName, GroupInv, HeardInv, [FecNext]_fvars
             PROVE  HeardInv'
  OBVIOUS
<1>1. ToSet(ring) \subseteq got
  BY DEF HeardInv
<1>2. ASSUME NEW size \in Sizes, NEW marker \in BOOLEAN, NEW newFrame \in BOOLEAN,
             Push(size, marker, newFrame)
      PROVE  HeardInv'
  <2>1. UNCHANGED <<code, ring, blocks, got, heard>>
    BY <1>2 DEF Push
  <2> QED BY <1>1, <2>1, HeardSame
<1>3. ASSUME NEW rate \in Rates, SetRate(rate) PROVE HeardInv'
  <2>1. UNCHANGED <<code, ring, blocks, got, heard>>
    BY <1>3 DEF SetRate
  <2> QED BY <1>1, <2>1, HeardSame
<1>4. ASSUME NEW jump \in {SEQ \div 2, SEQ - 2}, Restart(jump) PROVE HeardInv'
  <2>1. UNCHANGED <<code, ring, blocks, got, heard>>
    BY <1>4 DEF Restart
  <2> QED BY <1>1, <2>1, HeardSame
<1>5. ASSUME NEW i \in 1 .. 2, OnPacket(i) PROVE HeardInv'
  <2>1. PICK x : x = net[i].pkt
    OBVIOUS
  <2>2. /\ ring' = Remember(ring, <<x>>) /\ got' = got \cup {x}
        /\ UNCHANGED <<code, blocks, heard>>
    BY <1>5, <2>1 DEF OnPacket
  <2>3. net[i] \in DataItem
    BY <1>5, Arrived, ItemKinds DEF OnPacket
  <2>4. x \in Packet /\ ring \in Seq(Packet)
    BY <2>1, <2>3 DEF DataItem, FecInv
  <2>5. <<x>> \in Seq(Packet) /\ ToSet(<<x>>) = {x}
    BY <2>4 DEF ToSet
  <2>6. ToSet(Remember(ring, <<x>>)) \subseteq ToSet(ring) \cup ToSet(<<x>>)
    BY <2>4, <2>5, Remembered
  <2> QED BY <1>1, <2>2, <2>5, <2>6, HeardSame
<1>6. ASSUME NEW i \in 1 .. 2, OnXorParity(i) PROVE HeardInv'
  BY <1>6, HeardXor
<1>7. ASSUME NEW i \in 1 .. 2, OnRsParity(i) PROVE HeardInv'
  BY <1>7, HeardRs
<1>8. CASE OnRestart
  <2>1. /\ UNCHANGED code /\ ring' = <<>> /\ blocks' = <<>> /\ got' = {} /\ heard' = {}
    BY <1>8 DEF OnRestart
  <2>2. Len(blocks') = 0 /\ KeysOf(blocks')
    BY <2>1, EmptySeq DEF KeysOf
  <2>3. \A m, w, j : ~Holds(blocks', m, w, j)
    BY <2>2 DEF Holds
  <2>4. IsFiniteSet(heard')
    BY <2>1, FS_EmptySet
  <2> QED BY <2>1, <2>2, <2>3, <2>4, EmptySet DEF HeardInv
<1>9. CASE LoseDatagram
  <2>1. UNCHANGED <<code, ring, blocks, got, heard>>
    BY <1>9 DEF LoseDatagram
  <2> QED BY <1>1, <2>1, HeardSame
<1>10. CASE UNCHANGED fvars
  <2>1. UNCHANGED <<code, ring, blocks, got, heard>>
    BY <1>10 DEF fvars
  <2> QED BY <1>1, <2>1, HeardSame
<1> QED BY <1>2, <1>3, <1>4, <1>5, <1>6, <1>7, <1>8, <1>9, <1>10 DEF FecNext

-----------------------------------------------------------------------------
\* The step that brings enough parity rebuilds what is lost.

\* In a group, a datagram has one place.
LEMMA PlacesOf ==
    ASSUME NEW base, NEW w, Run(base, w), NEW T, T \subseteq ToSet(w)
    PROVE  LET miss == {j \in 0 .. Len(w) - 1 : w[j + 1] \in T}
           IN  /\ IsFiniteSet(T) /\ Cardinality(miss) <= Cardinality(T)
               /\ Cardinality(miss) \in Nat /\ Cardinality(T) \in Nat
<1>1. w \in Seq(Packet) /\ Len(w) \in Nat /\ ToSet(w) = {w[i] : i \in 1 .. Len(w)}
  BY SetOfSeq DEF Run
<1>2. PICK miss : miss = {j \in 0 .. Len(w) - 1 : w[j + 1] \in T}
  OBVIOUS
<1>3. IsFiniteSet(T)
  <2> DEFINE g == [i \in 1 .. Len(w) |-> w[i]]
  <2>1. g \in Surjection(1 .. Len(w), ToSet(w))
    BY <1>1 DEF Surjection
  <2>2. IsFiniteSet(1 .. Len(w))
    <3>1. 1 \in Int /\ Len(w) \in Int
      BY <1>1
    <3> QED BY <3>1, FS_Interval
  <2>3. IsFiniteSet(ToSet(w))
    BY <2>1, <2>2, FS_Surjection
  <2> QED BY <2>3, FS_Subset
<1> DEFINE f == [j \in miss |-> w[j + 1]]
<1>4. f \in [miss -> T]
  BY <1>2
<1>5. ASSUME NEW a \in miss, NEW b \in miss, f[a] = f[b] PROVE a = b
  <2>1. PICK i \in 1 .. Len(w), j \in 1 .. Len(w) : i = a + 1 /\ j = b + 1
    BY <1>1, <1>2
  <2>2. w[i] = w[j]
    BY <2>1, <1>5
  <2>3. i = j
    BY <2>2, RunInjective
  <2> QED BY <2>1, <2>3, <1>1, <1>2
<1> HIDE DEF f
<1>6. /\ Cardinality(miss) <= Cardinality(T)
      /\ Cardinality(miss) \in Nat /\ Cardinality(T) \in Nat
  BY <1>3, <1>4, <1>5, OneToOne
<1> QED BY <1>2, <1>3, <1>6

\* What is asked of a step that brings parity of group w.
Enough(w) ==
    /\ ToSet(w) \ got # {}
    /\ Cardinality(ToSet(w) \ got) <= Cardinality({h \in heard' : h[1] = w})
    /\ ToSet(w) \ (ToSet(w) \ got) \subseteq ToSet(ring)
    /\ Cardinality(GroupsOf(heard')) <= BLOCKS

LEMMA RsCompletes ==
    ASSUME FecInv, OneName, GroupInv, HeardInv, NEW i \in 1 .. 2, OnRsParity(i),
           Enough(net[i].pkts)
    PROVE  ToSet(net[i].pkts) \ got \subseteq {x.is : x \in out'}
<1>1. PICK p : p = net[i]
  OBVIOUS
<1>2. PICK w : w = p.pkts
  OBVIOUS
<1>3. /\ p \in RsItem /\ i \in Arriving /\ p \in ToSet(net) /\ p.kind = "rs"
  BY <1>1, RsStep, Arrived DEF OnRsParity
<1>4. PICK table, at, noted : /\ NotesParity(p, table, at, noted)
                              /\ Rebuilds(p, at, noted)
  BY <1>1, RsStep
<1>5. /\ w \in Seq(Packet) /\ w # <<>> /\ Run(p.base, w) /\ p.k = Len(w)
      /\ p.base \in 0 .. SEQ - 1 /\ p.m \in Nat /\ p.idx \in 0 .. p.m - 1
  <2>1. /\ w \in Seq(Packet) /\ Run(p.base, w) /\ p.k = Len(w) /\ p.k # 0
        /\ p.base \in 0 .. SEQ - 1 /\ p.m \in Nat /\ p.idx \in Nat /\ p.idx < p.m
    BY <1>2, <1>3 DEF RsItem
  <2> QED BY <2>1, EmptySeq
<1>6. code = "rs" /\ heard' = heard \cup {<<w, p.idx>>}
  BY <1>1, <1>2, <1>3 DEF OnRsParity, FecInv
<1>7. HeardInv'
  BY HeardRs
<1>8. BlockNoted(p, noted[at]) /\ Noting(p, noted, at)
  <2>1. BlockNoted(p, noted[at])
    BY <1>1, <1>3, <1>4, NotedAt
  <2>2. blocks \in Seq(Block)
    BY DEF FecInv
  <2> QED BY <2>1, <2>2, <1>3, <1>4, NotedHolds
<1>9. PICK b : b = noted[at]
  OBVIOUS
<1>10. /\ noted \in Seq(Block) /\ at \in 1 .. Len(noted)
       /\ \A h \in 1 .. Len(noted) : BlockOk(noted[h])
  BY <1>4 DEF NotesParity, InTable
\* All the parity heard of the group is in its block.
<1>11. PICK shards : shards = {h \in heard' : h[1] = w}
  OBVIOUS
<1>12. Cardinality(Groups) <= BLOCKS
  <2>1. heard \in SUBSET heard' /\ IsFiniteSet(heard')
    BY <1>6, <1>7 DEF HeardInv
  <2>2. /\ Cardinality(GroupsOf(heard)) \in Nat /\ Cardinality(GroupsOf(heard')) \in Nat
        /\ Cardinality(GroupsOf(heard)) <= Cardinality(GroupsOf(heard'))
    BY <2>1, FiniteGroups
  <2>3. Cardinality(GroupsOf(heard')) <= BLOCKS
    BY DEF Enough
  <2>4. Groups = GroupsOf(heard)
    BY DEF Groups, GroupsOf
  <2> QED BY <2>2, <2>3, <2>4, FecAssumption
<1>13. BlockOf(blocks, p) # 0 \/ Len(blocks) < BLOCKS
  <2>1. Cardinality(GroupsOf(heard \cup {<<p.pkts, p.idx>>})) <= BLOCKS
    BY <1>2, <1>6 DEF Enough
  <2> QED BY <2>1, <1>3, NoEviction
<1>14. ASSUME NEW h \in shards
       PROVE  h[2] \in ParityHeard(b) /\ h = <<w, h[2]>>
  <2>1. h \in heard' /\ h[1] = w
    BY <1>11
  <2>2. h = <<w, h[2]>>
    <3>1. h \in Seq(Packet) \X Nat
      BY <2>1, <1>7 DEF HeardInv
    <3> QED BY <2>1, <3>1
  <2>3. \E m : Holds(noted, m, w, h[2])
    <3>1. CASE h \in heard
      <4>1. ~(ToSet(w) \subseteq got)
        BY <1>1, <1>2 DEF Enough
      <4>2. \E m : Holds(blocks, m, h[1], h[2])
        BY <3>1, <4>1, <2>1, <1>6, <1>12 DEF HeardInv
      <4> QED BY <4>2, <2>1, <1>5, <1>8, <1>13 DEF Noting
    <3>2. CASE h = <<w, p.idx>>
      <4>1. h[2] = p.idx
        BY <3>2
      <4> QED BY <4>1, <1>2, <1>8 DEF Noting
    <3> QED BY <3>1, <3>2, <2>1, <1>6
  <2>4. PICK m : Holds(noted, m, w, h[2])
    BY <2>3
  <2>5. PICK c \in 1 .. Len(noted) :
           noted[c].m = m /\ h[2] \in 0 .. m - 1 /\ noted[c].parity[h[2]] = w
    BY <2>4 DEF Holds
  <2>6. c = at
    <3>1. KeysOf(noted)
      BY <1>8 DEF Noting, HeardInv
    <3>2. m = p.m
      <4>1. Tagged(p.pkts, p.m)
        BY <1>3 DEF Tagged
      <4>2. Holds(blocks, m, w, h[2]) \/ m = p.m
        BY <2>4, <1>5, <1>8 DEF Noting
      <4>3. Holds(blocks, m, w, h[2]) => Tagged(w, m)
        BY <1>5 DEF Tagged
      <4> QED BY <4>1, <4>2, <4>3, <1>2 DEF GroupInv
    <3>3. noted[at].m = p.m /\ noted[at].parity[p.idx] = w
      <4>1. noted[at].m = p.m
        BY <1>8 DEF BlockNoted, Fits
      <4>2. /\ noted = WithParity(table, p) /\ at = BlockOf(table, p)
            /\ InTable(table, p, at)
        BY <1>4 DEF NotesParity
      <4>3. noted[at].parity[p.idx] = p.pkts
        BY <4>2, <1>3, NotedOk
      <4> QED BY <4>1, <4>3, <1>2
    <3> QED BY <3>1, <3>2, <3>3, <2>5, <1>5, <1>10, OneBlock
  <2> QED BY <2>2, <2>5, <2>6, <1>5, <1>9 DEF ParityHeard
<1>15. /\ Cardinality(shards) <= Cardinality(ParityHeard(b))
       /\ Cardinality(shards) \in Nat /\ Cardinality(ParityHeard(b)) \in Nat
  <2> DEFINE f == [h \in shards |-> h[2]]
  <2>1. f \in [shards -> ParityHeard(b)]
    BY <1>14
  <2>2. \A g, h \in shards : f[g] = f[h] => g = h
    BY <1>14
  <2>3. IsFiniteSet(ParityHeard(b))
    <3>1. b.m \in Nat /\ ParityHeard(b) \subseteq 0 .. b.m - 1
      BY <1>8, <1>9 DEF BlockNoted, HoldsWord, ParityHeard
    <3>2. 0 \in Int /\ b.m - 1 \in Int
      BY <3>1
    <3>3. IsFiniteSet(0 .. b.m - 1)
      BY <3>2, FS_Interval
    <3> QED BY <3>1, <3>3, FS_Subset
  <2> HIDE DEF f
  <2> QED BY <2>1, <2>2, <2>3, OneToOne
\* And what is missing is what was lost.
<1>16. PICK lost : lost = ToSet(w) \ got
  OBVIOUS
<1>17. lost = ToSet(w) \ ToSet(ring)
  <2>1. ToSet(ring) \subseteq got
    BY DEF HeardInv
  <2>2. ToSet(w) \ lost \subseteq ToSet(ring)
    BY <1>1, <1>2, <1>16 DEF Enough
  <2> QED BY <2>1, <2>2, <1>16
<1>18. MissingShards(ring, b) = {j \in 0 .. Len(w) - 1 : w[j + 1] \in lost}
  <2>1. MissingShards(ring, b) = {j \in 0 .. Len(w) - 1 : w[j + 1] \notin ToSet(ring)}
    BY <1>2, <1>8, <1>9 DEF BlockNoted
  <2>2. ASSUME NEW j \in 0 .. Len(w) - 1
        PROVE  w[j + 1] \notin ToSet(ring) <=> w[j + 1] \in lost
    <3>1. ToSet(w) = {w[l] : l \in 1 .. Len(w)} /\ Len(w) \in Nat
      BY <1>5, SetOfSeq
    <3>2. PICK l \in 1 .. Len(w) : l = j + 1
      BY <3>1
    <3> QED BY <3>1, <3>2, <1>17
  <2> QED BY <2>1, <2>2
<1>19. /\ Cardinality(MissingShards(ring, b)) <= Cardinality(lost)
       /\ Cardinality(MissingShards(ring, b)) \in Nat /\ Cardinality(lost) \in Nat
  <2>1. lost \subseteq ToSet(w)
    BY <1>16
  <2> QED BY <2>1, <1>5, <1>18, PlacesOf
<1>20. Cardinality(lost) <= Cardinality(shards)
  BY <1>1, <1>2, <1>11, <1>16 DEF Enough
<1>21. Repairable(ring, noted[at])
  BY <1>9, <1>15, <1>19, <1>20 DEF Repairable
<1>22. Handed(ToSet(w) \ ToSet(ring))
  BY <1>1, <1>2, <1>3, <1>4, <1>21, RsOut
<1> QED BY <1>1, <1>2, <1>16, <1>17, <1>22 DEF Handed

LEMMA XorCompletes ==
    ASSUME FecInv, OneName, HeardInv, NEW i \in 1 .. 2, OnXorParity(i),
           Enough(net[i].pkts)
    PROVE  ToSet(net[i].pkts) \ got \subseteq {x.is : x \in out'}
<1>1. PICK w : w = net[i].pkts
  OBVIOUS
<1>2. PICK miss : miss = {j \in 0 .. Len(w) - 1 : w[j + 1] \notin ToSet(ring)}
  OBVIOUS
<1>3. PICK lost : lost = ToSet(w) \ got
  OBVIOUS
<1>4. Handed(IF Cardinality(miss) = 1 THEN ToSet(w) \ ToSet(ring) ELSE {})
  BY <1>1, <1>2, XorOut
<1>5. \E base : Run(base, w)
  <2>1. net[i] \in XorItem
    BY XorStep
  <2> QED BY <2>1, <1>1 DEF XorItem
<1>6. w \in Seq(Packet) /\ Len(w) \in Nat /\ ToSet(w) = {w[l] : l \in 1 .. Len(w)}
  BY <1>5, SetOfSeq DEF Run
<1>7. HeardInv' /\ code' = "xor"
  <2>1. net[i] \in ToSet(net) /\ net[i].kind = "xor"
    BY Arrived DEF OnXorParity
  <2>2. code = "xor" /\ code' = code
    BY <2>1 DEF FecInv, OnXorParity
  <2> QED BY <2>2, HeardXor
<1>8. Cardinality({h \in heard' : h[1] = w}) <= 1
  <2>1. PICK e : e = <<w, 0>>
    OBVIOUS
  <2>2. ASSUME NEW h \in heard', h[1] = w PROVE h = e
    <3>1. h \in Seq(Packet) \X Nat /\ h[2] = 0
      BY <1>7 DEF HeardInv
    <3> QED BY <2>1, <2>2, <3>1
  <2>3. {h \in heard' : h[1] = w} \subseteq {e}
    BY <2>2
  <2>4. IsFiniteSet({e}) /\ Cardinality({e}) = 1
    BY FS_Singleton
  <2> QED BY <2>3, <2>4, FS_Subset
<1>9. lost = ToSet(w) \ ToSet(ring)
  <2>1. ToSet(ring) \subseteq got
    BY DEF HeardInv
  <2>2. ToSet(w) \ lost \subseteq ToSet(ring)
    BY <1>1, <1>3 DEF Enough
  <2> QED BY <2>1, <2>2, <1>3
<1>10. miss = {j \in 0 .. Len(w) - 1 : w[j + 1] \in lost}
  <2>1. ASSUME NEW j \in 0 .. Len(w) - 1
        PROVE  w[j + 1] \notin ToSet(ring) <=> w[j + 1] \in lost
    <3>1. PICK l \in 1 .. Len(w) : l = j + 1
      BY <1>6
    <3> QED BY <3>1, <1>6, <1>9
  <2> QED BY <2>1, <1>2
<1>11. /\ Cardinality(miss) <= Cardinality(lost)
       /\ Cardinality(miss) \in Nat /\ Cardinality(lost) \in Nat
  <2>1. lost \subseteq ToSet(w)
    BY <1>3
  <2> QED BY <2>1, <1>5, <1>10, PlacesOf
<1>12. Cardinality(lost) <= 1
  <2>1. Cardinality(lost) <= Cardinality({h \in heard' : h[1] = w})
    BY <1>1, <1>3 DEF Enough
  <2>2. Cardinality({h \in heard' : h[1] = w}) \in Nat
    <3>1. IsFiniteSet(heard')
      BY <1>7 DEF HeardInv
    <3>2. IsFiniteSet({h \in heard' : h[1] = w})
      BY <3>1, FS_Subset
    <3> QED BY <3>2, FS_CardinalityType
  <2> QED BY <2>1, <2>2, <1>8, <1>11
<1>13. Cardinality(miss) # 0
  <2>1. PICK x : x \in lost
    BY <1>1, <1>3 DEF Enough
  <2>2. PICK l \in 1 .. Len(w) : w[l] = x
    BY <2>1, <1>3, <1>6
  <2>3. PICK j \in 0 .. Len(w) - 1 : j + 1 = l
    <3>1. l - 1 \in 0 .. Len(w) - 1 /\ (l - 1) + 1 = l
      BY <1>6
    <3> QED BY <3>1
  <2>4. miss # {}
    BY <2>1, <2>2, <2>3, <1>10
  <2>5. IsFiniteSet(miss)
    <3>1. miss \subseteq 0 .. Len(w) - 1 /\ 0 \in Int /\ Len(w) - 1 \in Int
      BY <1>2, <1>6
    <3>2. IsFiniteSet(0 .. Len(w) - 1)
      BY <3>1, FS_Interval
    <3> QED BY <3>1, <3>2, FS_Subset
  <2> QED BY <2>4, <2>5, FS_EmptySet
<1>14. Cardinality(miss) = 1
  BY <1>11, <1>12, <1>13
<1>15. Handed(lost)
  BY <1>4, <1>9, <1>14
<1> QED BY <1>1, <1>3, <1>15 DEF Handed

LEMMA CompleteStep ==
    ASSUME FecInv, OneName, GroupInv, HeardInv, FecNext
    PROVE  RepairedOnArrival
<1> SUFFICES ASSUME NEW p \in {net[i] : i \in {j \in DOMAIN net : j <= 2}},
                    NEW j, <<p.pkts, j>> \in heard' \ heard, Enough(p.pkts)
             PROVE  ToSet(p.pkts) \ got \subseteq {x.is : x \in out'}
  BY DEF RepairedOnArrival, Enough, GroupsOf
<1>1. ASSUME NEW i \in 1 .. 2, OnXorParity(i)
      PROVE  ToSet(p.pkts) \ got \subseteq {x.is : x \in out'}
  <2>1. heard' = heard \cup {<<net[i].pkts, 0>>}
    BY <1>1 DEF OnXorParity
  <2>2. p.pkts = net[i].pkts
    BY <2>1
  <2> QED BY <1>1, <2>2, XorCompletes
<1>2. ASSUME NEW i \in 1 .. 2, OnRsParity(i)
      PROVE  ToSet(p.pkts) \ got \subseteq {x.is : x \in out'}
  <2>1. heard' = heard \cup {<<net[i].pkts, net[i].idx>>}
    BY <1>2 DEF OnRsParity
  <2>2. p.pkts = net[i].pkts
    BY <2>1
  <2> QED BY <1>2, <2>2, RsCompletes
<1>3. CASE heard' = heard \/ heard' = {}
  BY <1>3
<1>4. \/ \E i \in 1 .. 2 : OnXorParity(i) \/ OnRsParity(i)
      \/ heard' = heard \/ heard' = {}
  BY DEF FecNext, Push, SetRate, Restart, OnPacket, OnRestart, LoseDatagram
<1> QED BY <1>1, <1>2, <1>3, <1>4

\* The parity that makes a group repairable repairs it at once: on_parity leaves
\* nothing lost that the parity heard of the group covers, until more groups
\* are heard of than the block table has room for.
THEOREM FecCompletes == FecSpec /\ []OneName => RepairComplete
<1> DEFINE I == FecInv /\ GroupInv /\ HeardInv
<1>1. FecInit => I
  <2>1. FecInit => GroupInv
    <3>1. FecInit => net = <<>> /\ blocks = <<>>
      BY DEF FecInit
    <3>2. FecInit => \A w, m : ~Tagged(w, m)
      BY <3>1, EmptySet, EmptySeq DEF Tagged, Holds
    <3> QED BY <3>2 DEF GroupInv
  <2> QED BY <2>1, FecInvInit, HeardInit
<1>2. I /\ OneName /\ [FecNext]_fvars => I'
  BY FecInvStep, GroupStep, HeardStep
<1>3. I /\ OneName /\ [FecNext]_fvars => [RepairedOnArrival]_fvars
  BY CompleteStep
<1> QED BY <1>1, <1>2, <1>3, PTL DEF FecSpec, RepairComplete

\* The same within one turn of the numbers, where one number is one datagram.
THEOREM FecCompletesTurn ==
    ASSUME MaxSent <= SEQ
    PROVE  FecSpec /\ (code = "rs" \/ Covered) => RepairComplete
<1>1. FecInit /\ (code = "rs" \/ Covered) => FecInv /\ TurnInv
  BY FecInvInit, TurnInit
<1>2. FecInv /\ TurnInv /\ [FecNext]_fvars => FecInv' /\ TurnInv'
  <2> SUFFICES ASSUME FecInv, TurnInv, [FecNext]_fvars PROVE FecInv' /\ TurnInv'
    OBVIOUS
  <2>1. OneName
    BY TurnOneName
  <2> QED BY <2>1, FecInvStep, TurnStep
<1>3. FecInv /\ TurnInv => OneName
  BY TurnOneName
<1> QED BY <1>1, <1>2, <1>3, FecCompletes, PTL DEF FecSpec
=============================================================================
