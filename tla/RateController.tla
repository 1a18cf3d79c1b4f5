--------------------------- MODULE RateController ---------------------------
(***************************************************************************)
(* The client's adaptive controller (adapt/controller.rs) with the ladder  *)
(* of operating points (ladder.rs), the delay detector (delay.rs) and the  *)
(* encoder's share beside FEC (fec_policy.rs).  Its state is the record    *)
(* ctl, a field for each of Controller's; every method is an operator that *)
(* returns the record it leaves.                                           *)
(*                                                                         *)
(* Losses are per mille, rates small integers, the FEC overhead per cent.  *)
(* A window's measurements are a record s: the packets counted, the loss,  *)
(* and the RTT's excess over its baseline, as mean and at the end.  The    *)
(* detector's fitted slope is a class of signal.  Counters that the code   *)
(* only compares with a threshold stop there.                              *)
(***************************************************************************)
EXTENDS Integers, Sequences

CONSTANTS
    FLOOR_KBPS, CAP, Starts,
    LOSS_CLEAN, LOSS_DOWN, LOSS_SEVERE, RECOVERY_LOSS,
    RTT_OK_MS, RTT_EXCESS_MS, RTT_BAD_MS,
    CLEAN_WINDOWS_UP, PROBE_WAIT_MIN, PROBE_WAIT_MAX, PROBE_PUNISH_WINDOWS,
    COOLDOWN_WINDOWS, RECOVERY_WINDOWS, PROBE_DOWN_WINDOWS,
    DEADBAND_LEARN_WINDOWS, LAST_GOOD_WINDOWS, POINT_DEBOUNCE,
    HOST_BOUND_CUTS, POINT_RETRY_WINDOWS, POINT_RETRY_MAX, STARTUP_WINDOWS,
    OVERUSE_FRAMES,  \* frames of growing delay that make an overuse
    FAST_FRAMES,     \* frames an overuse lasts before the fast reflex
    Points,          \* the ladder, best first: [min, load, fps]
    Ladders,         \* whether the ladder runs: a set of Booleans
    Samples,         \* the windows' measurements
    Overheads,       \* FEC overheads seen on the wire
    MaxAsked         \* bound: pins and FEC changes

(* Below ten units a tenth more would round to nothing; the code's floor   *)
(* is 300.                                                                 *)
ASSUME RateAssumption ==
    /\ FLOOR_KBPS \in Nat /\ CAP \in Nat /\ 10 <= FLOOR_KBPS
    /\ FLOOR_KBPS <= CAP /\ Starts \subseteq FLOOR_KBPS .. CAP
    /\ Points \in Seq([min : Nat, load : Nat, fps : Nat]) /\ Points # <<>>
    /\ Ladders \subseteq BOOLEAN /\ Overheads \subseteq Nat

ASSUME WindowAssumption ==
    /\ Samples \subseteq [total : Nat, loss : Nat, excess : Int, now : Int]
    /\ LOSS_CLEAN \in Nat \ {0} /\ LOSS_DOWN \in Nat /\ LOSS_SEVERE \in Nat
    /\ RTT_OK_MS \in Nat \ {0} /\ RTT_EXCESS_MS \in Nat \ {0}
    /\ CLEAN_WINDOWS_UP \in Nat /\ PROBE_DOWN_WINDOWS \in Nat \ {0}
    /\ PROBE_WAIT_MIN \in Nat /\ PROBE_WAIT_MAX \in Nat
    /\ PROBE_WAIT_MIN <= PROBE_WAIT_MAX

VARIABLES
    ctl,        \* the controller
    delay,      \* the delay detector: [state, above, held]
    pinned,     \* history: the user set this rate
    undone,     \* history: a probe-down was cut short by another cut
    asked       \* pins and FEC changes so far

rvars == <<ctl, delay, pinned, undone, asked>>

Lower(a, b) == IF a <= b THEN a ELSE b
Upper(a, b) == IF a >= b THEN a ELSE b
Clamp(r) == Lower(Upper(r, FLOOR_KBPS), CAP)
Lowest == Len(Points)

-----------------------------------------------------------------------------
(* The ladder and the encoder's share.                                     *)

(* ladder::pick, with the margin as a ratio num / den.                     *)
pick(budget, num, den) ==
    LET fits == {i \in 1 .. Lowest : Points[i].min * den <= budget * num}
    IN  IF fits = {} THEN Lowest
        ELSE CHOOSE i \in fits : \A j \in fits : i <= j

encoder_rate(target, fec) ==
    Upper((target * 100) \div (100 + fec), Lower(FLOOR_KBPS, target))

apply_rate(d, kbps) ==
    LET to == Clamp(kbps)
    IN  [d EXCEPT !.since_step = 0, !.target = to,
                  !.clean_at_target = IF to # d.target THEN 0 ELSE @,
                  !.encoder = encoder_rate(to, d.fec)]

(* punish: the rate becomes a ceiling; if it was a probe, the next waits   *)
(* twice as long.                                                          *)
punish(d, bad) ==
    [d EXCEPT !.ceiling = Clamp((bad * 85) \div 100),
              !.probe_wait = IF d.probe_age \in 0 .. PROBE_PUNISH_WINDOWS
                             THEN Lower(@ * 2, PROBE_WAIT_MAX) ELSE @,
              !.probe_age = -1, !.clean = 0, !.at_ceiling = 0, !.over = 0,
              !.clean_at_point = 0, !.startup_left = 0]

(* step_down_host_bound: the points below that cost the host less.         *)
Lighter(d) ==
    IF d.manual THEN {}
    ELSE {i \in d.point + 1 .. Lowest :
             /\ Points[i].load < Points[d.point].load
             /\ Points[i].fps <= Points[d.point].fps}

StepDown(d) ==
    LET next == CHOOSE i \in Lighter(d) : \A j \in Lighter(d) : i <= j
    IN  [d EXCEPT !.point = next, !.point_cap = next, !.at_point_cap = 0,
                  !.point_retry = IF @ = 0 THEN POINT_RETRY_WINDOWS
                                  ELSE Lower(@ * 2, POINT_RETRY_MAX),
                  !.point_age = 0, !.clean_at_point = 0, !.since_step = 0,
                  !.startup_left = 0, !.drain_left = 2, !.queue_cuts = 0]

(* queue_cut: only the first cut of a run lowers the ceiling; a queue that *)
(* outlives HOST_BOUND_CUTS cuts is the host's.                            *)
queue_cut(d, to) ==
    LET cuts == Lower(d.queue_cuts + 1, Upper(HOST_BOUND_CUTS, 2))
        counted == [d EXCEPT !.queue_cuts = cuts]
        cut == punish(counted, d.target)
        kept == IF cuts > 1
                THEN [cut EXCEPT !.ceiling = Upper(@, d.ceiling)] ELSE cut
    IN  IF cuts >= HOST_BOUND_CUTS /\ Lighter(counted) # {}
        THEN StepDown(counted)
        ELSE apply_rate(kept, to)

(* apply_ladder.                                                           *)
Starved(d) == d.target < Points[d.point].min /\ d.point < Lowest

MayStepDown(d, urgent) ==
    \/ d.point_age >= POINT_DEBOUNCE \/ urgent
    \/ d.target * 10 < Points[d.point].min * 7

(* Mutant: the climb forgets the heaviest point the host can keep up with. *)
RoomyUncapped(d) == pick(d.target, 10, 12)

Roomy(d) == Upper(pick(d.target, 10, 12), d.point_cap)

MayStepUp(d) ==
    /\ Roomy(d) < d.point
    /\ d.clean_at_point >= (IF d.startup_left > 0 THEN 2 ELSE CLEAN_WINDOWS_UP)
    /\ d.point_age >= POINT_DEBOUNCE

apply_ladder(d, urgent) ==
    LET moved(i) == [d EXCEPT !.point = i, !.point_age = 0,
                              !.clean_at_point = 0]
    IN  IF d.manual \/ Lowest < 2 THEN d
        ELSE IF Starved(d)
        THEN IF MayStepDown(d, urgent)
             THEN moved(Lower(Upper(pick(d.target, 85, 100), d.point + 1),
                              Lowest))
             ELSE d
        ELSE IF MayStepUp(d) THEN moved(Roomy(d)) ELSE d

(* finish, at the end of every window.                                     *)
finish(d) ==
    LET e == apply_ladder([d EXCEPT !.startup_left = Upper(@ - 1, 0),
                                    !.drain_left = Upper(@ - 1, 0)], FALSE)
    IN  [e EXCEPT !.encoder = encoder_rate(e.target, e.fec)]

-----------------------------------------------------------------------------
(* The window.                                                             *)

(* tick up to its branches: the counters, the noise floor, and the flip of *)
(* the recovery mode on the first sustained loss.                          *)
Opened(s) ==
    LET lossy == IF s.total > 50 /\ s.loss > RECOVERY_LOSS
                 THEN Lower(ctl.lossy + 1, RECOVERY_WINDOWS) ELSE 0
    IN  [ctl EXCEPT
            !.since_step = Lower(@ + 1, Upper(COOLDOWN_WINDOWS, 1)),
            !.point_age = Lower(@ + 1, POINT_DEBOUNCE),
            !.probe_age = IF @ < 0 THEN @
                          ELSE Lower(@ + 1, PROBE_PUNISH_WINDOWS + 1),
            !.noise_loss = Lower(@, s.loss),
            !.lossy = lossy,
            !.recovered = @ \/ (s.total > 50 /\ (\/ lossy >= RECOVERY_WINDOWS
                                                 \/ s.loss > LOSS_DOWN))]

Draining(s) == \/ delay.state = "Underuse"
               \/ s.excess >= RTT_OK_MS /\ s.now < RTT_OK_MS
Queued(s) == /\ ~Draining(s)
             /\ s.excess >= RTT_OK_MS \/ delay.state = "Overuse"
Effective(d, s) == Upper(s.loss - d.noise_loss, 0)

(* The branch a window takes.                                              *)
Branch(d, s) ==
    LET free == d.target > FLOOR_KBPS
        cuts == free /\ d.since_step >= 1 /\ d.drain_left = 0
    IN  IF d.probe_down.on THEN "judge"
        ELSE IF delay.state = "Overuse" /\ cuts THEN "overuse"
        ELSE IF s.excess >= RTT_EXCESS_MS /\ ~Draining(s) /\ cuts THEN "bloat"
        ELSE IF s.total > 100 /\ s.loss > LOSS_SEVERE /\ free THEN "severe"
        ELSE IF s.total > 100 /\ Effective(d, s) > LOSS_DOWN THEN "lossy"
        ELSE IF /\ s.total > 0 /\ Effective(d, s) < LOSS_CLEAN /\ ~Queued(s)
                /\ delay.state # "Underuse" THEN "clean"
        ELSE "hold"

NoProbe == [on |-> FALSE, from |-> 0, pre_loss |-> 0, windows |-> 0,
            loss_acc |-> 0, fec |-> 0]

(* A probe-down is being judged: did the loss follow the rate?             *)
Judged(d, s) ==
    LET pd == [d.probe_down EXCEPT !.windows = @ + 1, !.loss_acc = @ + s.loss]
        after == pd.loss_acc \div pd.windows
        over == [d EXCEPT !.probe_down = NoProbe]
    IN  IF pd.windows < PROBE_DOWN_WINDOWS THEN [d EXCEPT !.probe_down = pd]
        ELSE IF pd.fec # d.fec THEN apply_rate(over, pd.from)
        ELSE IF after * 10 <= pd.pre_loss * 6 THEN punish(over, pd.from)
        ELSE apply_rate([over EXCEPT !.noise_loss = Upper(@, after)], pd.from)

(* A window without a queue-driven cut ends a run of them.                 *)
Rested(d, s) == IF Queued(s) THEN d ELSE [d EXCEPT !.queue_cuts = 0]

LossWindow(d, s) ==
    LET hit == [d EXCEPT !.over = Lower(@ + 1, 2), !.clean = 0,
                         !.at_ceiling = 0, !.clean_at_point = 0]
        acts == /\ hit.over >= 2 /\ hit.since_step >= COOLDOWN_WINDOWS
                /\ hit.target > FLOOR_KBPS
    IN  IF ~acts THEN hit
        ELSE IF Queued(s)
        THEN apply_rate(punish(hit, hit.target), (hit.target * 7) \div 10)
        ELSE apply_rate(
                [hit EXCEPT !.over = 0,
                            !.probe_down = [on |-> TRUE, from |-> hit.target,
                                            pre_loss |-> s.loss, windows |-> 0,
                                            loss_acc |-> 0, fec |-> hit.fec]],
                (hit.target * 4) \div 5)

(* A clean window, before the rate moves.                                  *)
Credited(d) ==
    LET survived == d.probe_age >= PROBE_PUNISH_WINDOWS
        capped == d.point_cap > 1 /\ d.point = d.point_cap
        retry == capped /\ d.at_point_cap + 1 >= d.point_retry
        counted == Lower(d.clean_at_target + 1, LAST_GOOD_WINDOWS)
    IN  [d EXCEPT
            !.over = 0, !.deadband = 0,
            !.probe_age = IF survived THEN -1 ELSE @,
            !.probe_wait = IF survived THEN Upper(@ \div 2, PROBE_WAIT_MIN)
                           ELSE @,
            !.clean_at_point = Lower(@ + 1, Upper(CLEAN_WINDOWS_UP, 2)),
            !.clean_at_target = counted,
            !.last_good = IF counted >= LAST_GOOD_WINDOWS THEN d.target ELSE @,
            !.at_point_cap = IF retry THEN 0 ELSE IF capped THEN @ + 1 ELSE @,
            !.point_cap = IF retry THEN @ - 1 ELSE @]

(* Mutant: a climb is not stopped at the ceiling.                          *)
ClimbPastCeiling(d) ==
    LET far == d.target * 2 < d.ceiling
        fast == far \/ d.startup_left > 0
        need == IF d.startup_left > 0 THEN 1 ELSE IF far THEN 2
                ELSE CLEAN_WINDOWS_UP
        next == IF fast THEN (d.target * 3) \div 2 ELSE (d.target * 5) \div 4
        counted == [d EXCEPT !.clean = @ + 1, !.at_ceiling = 0]
    IN  IF counted.clean < need THEN counted
        ELSE apply_rate([counted EXCEPT !.clean = 0], next)

(* Below the ceiling: climb towards it.                                    *)
Climb(d) ==
    LET far == d.target * 2 < d.ceiling
        fast == far \/ d.startup_left > 0
        need == IF d.startup_left > 0 THEN 1 ELSE IF far THEN 2
                ELSE CLEAN_WINDOWS_UP
        next == IF fast THEN (d.target * 3) \div 2 ELSE (d.target * 5) \div 4
        counted == [d EXCEPT !.clean = @ + 1, !.at_ceiling = 0]
    IN  IF counted.clean < need THEN counted
        ELSE apply_rate([counted EXCEPT !.clean = 0], Lower(next, d.ceiling))

(* Mutant: the wait at the ceiling starts over whenever it is not yet      *)
(* long enough.                                                            *)
ProbeNever(d) == [d EXCEPT !.clean = 0, !.at_ceiling = 0]

(* At the ceiling: after a long clean stretch, a probe past it.            *)
Probe(d) ==
    LET waited == [d EXCEPT !.clean = 0,
                            !.at_ceiling = Lower(@ + 1, PROBE_WAIT_MAX)]
        next == Lower((d.target * 11) \div 10, CAP)
    IN  IF waited.at_ceiling < d.probe_wait \/ d.ceiling >= CAP THEN waited
        ELSE apply_rate([waited EXCEPT !.at_ceiling = 0, !.probe_age = 0,
                                       !.ceiling = Upper(next, @)], next)

CleanWindow(d) ==
    LET e == Credited(d) IN IF e.target < e.ceiling THEN Climb(e) ELSE Probe(e)

(* Deadband: hold, and learn a steady mild loss as the path's noise.       *)
HoldWindow(d, s) ==
    LET held == [d EXCEPT !.over = 0, !.clean = 0, !.at_ceiling = 0]
        eff == Effective(d, s)
        mild == /\ s.total > 100 /\ eff > 0 /\ eff <= LOSS_DOWN
                /\ ~Queued(s) /\ delay.state # "Underuse"
        learn == d.deadband + 1 >= DEADBAND_LEARN_WINDOWS
    IN  IF ~mild THEN [held EXCEPT !.deadband = 0]
        ELSE IF learn
        THEN [held EXCEPT !.deadband = 0, !.noise_loss = Upper(@, s.loss)]
        ELSE [held EXCEPT !.deadband = @ + 1]

Windowed(d, s) ==
    LET b == Branch(d, s)
    IN  IF b = "judge" THEN Judged(d, s)
        ELSE IF b = "overuse" THEN queue_cut(d, (d.target * 85) \div 100)
        ELSE IF b = "bloat"
        THEN queue_cut(d, IF s.excess >= RTT_BAD_MS THEN d.target \div 2
                          ELSE (d.target * 7) \div 10)
        ELSE LET r == Rested(d, s)
             IN  IF b = "severe" THEN apply_rate(punish(r, r.target),
                                                 r.target \div 2)
                 ELSE IF b = "lossy" THEN LossWindow(r, s)
                 ELSE IF b = "clean" THEN CleanWindow(r)
                 ELSE HoldWindow(r, s)

-----------------------------------------------------------------------------
(* The actions.                                                            *)

(* Controller::new.                                                        *)
NewController(start, ladder) ==
    [target |-> start, ceiling |-> CAP, clean |-> 0, at_ceiling |-> 0,
     probe_wait |-> PROBE_WAIT_MIN, probe_age |-> -1,
     since_step |-> COOLDOWN_WINDOWS, over |-> 0, lossy |-> 0,
     noise_loss |-> 0, probe_down |-> NoProbe, deadband |-> 0,
     recovered |-> FALSE, startup_left |-> STARTUP_WINDOWS,
     point |-> IF ladder THEN pick(start, 85, 100) ELSE 1,
     point_age |-> POINT_DEBOUNCE, clean_at_point |-> 0,
     manual |-> ~ladder, queue_cuts |-> 0, point_cap |-> 1,
     at_point_cap |-> 0, point_retry |-> 0, drain_left |-> 0,
     encoder |-> encoder_rate(start, 0), fec |-> 0,
     clean_at_target |-> 0, last_good |-> 0]

Steady == [state |-> "Normal", above |-> 0, held |-> 0]

RateInit ==
    /\ \E start \in Starts, ladder \in Ladders :
          ctl = NewController(start, ladder)
    /\ delay = Steady /\ pinned = FALSE /\ undone = FALSE /\ asked = 0

(* What the history keeps of a step to d.                                  *)
Noted(d, pin, undo) ==
    LET settled == d.target <= d.ceiling /\ ~d.probe_down.on
    IN  /\ ctl' = d
        /\ pinned' = ((pinned \/ pin) /\ ~settled)
        /\ undone' = ((undone \/ undo) /\ ~settled)

(* One window of measurements.                                             *)
Tick(s) ==
    /\ LET d == finish(Windowed(Opened(s), s))
       IN  Noted(d, FALSE, FALSE)
    /\ UNCHANGED <<delay, asked>>

(* Trendline::detect on a frame whose trend is above the threshold and not *)
(* falling, above and falling, within it, or below it.  A hypothesis of    *)
(* overuse needs several frames above it and is held until one is not.     *)
OnFrame(signal) ==
    /\ LET on == delay.state = "Overuse"
           lasting == IF on THEN Lower(delay.held + 1, FAST_FRAMES) ELSE 0
       IN  delay' =
            CASE signal = "growing" /\ delay.above + 1 >= OVERUSE_FRAMES ->
                    [state |-> "Overuse", above |-> 0, held |-> lasting]
              [] \/ signal = "growing" /\ delay.above + 1 < OVERUSE_FRAMES
                 \/ signal = "easing" ->
                    [delay EXCEPT !.above = Lower(@ + 1, OVERUSE_FRAMES),
                                  !.held = lasting]
              [] signal = "level" -> Steady
              [] signal = "shrinking" -> [Steady EXCEPT !.state = "Underuse"]
    /\ UNCHANGED <<ctl, pinned, undone, asked>>

(* on_stream_restart.                                                      *)
StreamRestart ==
    /\ delay # Steady /\ delay' = Steady
    /\ UNCHANGED <<ctl, pinned, undone, asked>>

(* poll_fast: an overuse that lasts cuts between windows; the next fast    *)
(* cut waits its cooldown, as long again.                                  *)
PollFast ==
    /\ delay.state = "Overuse" /\ delay.held >= FAST_FRAMES
    /\ ctl.target > FLOOR_KBPS /\ ctl.drain_left = 0
    /\ LET d == queue_cut(ctl, (ctl.target * 85) \div 100)
       IN  Noted(apply_ladder(d, TRUE), FALSE, ctl.probe_down.on)
    /\ delay' = [delay EXCEPT !.held = 0] /\ UNCHANGED asked

Asked == asked < MaxAsked /\ asked' = asked + 1

(* set_target: the user pins a rate.                                       *)
SetTarget(kbps) ==
    /\ Asked
    /\ LET to == Clamp(kbps)
       IN  Noted([ctl EXCEPT !.target = to, !.since_step = 0,
                           !.encoder = encoder_rate(to, ctl.fec)],
                 TRUE, ctl.probe_down.on)
    /\ UNCHANGED delay

SetManualPoint(manual) ==
    /\ Asked
    /\ Noted(IF manual THEN [ctl EXCEPT !.manual = TRUE]
             ELSE [ctl EXCEPT !.manual = FALSE, !.point_age = 0,
                            !.point = Upper(pick(ctl.target, 85, 100),
                                            ctl.point_cap)], FALSE, FALSE)
    /\ UNCHANGED delay

SetFecOverhead(r) ==
    /\ Asked /\ r # ctl.fec /\ Noted([ctl EXCEPT !.fec = r], FALSE, FALSE)
    /\ UNCHANGED delay

RateNext ==
    \/ \E s \in Samples : Tick(s)
    \/ \E signal \in {"growing", "easing", "level", "shrinking"} :
          OnFrame(signal)
    \/ StreamRestart
    \/ PollFast
    \/ \E kbps \in Starts : SetTarget(kbps)
    \/ \E manual \in BOOLEAN : SetManualPoint(manual)
    \/ \E r \in Overheads : SetFecOverhead(r)

RateSpec == RateInit /\ [][RateNext]_rvars

-----------------------------------------------------------------------------
(* Properties.                                                             *)

(* However cuts, probes, restores, pins and FEC changes follow each other, *)
(* the target and the ceiling stay between the floor and the cap, the      *)
(* encoder is never asked for more than the target it shares with the      *)
(* parity, and the ladder never climbs back above the rung it was stepped  *)
(* down to for the host's sake before a retry gives that rung up.  Above   *)
(* means nearer the top of the ladder, which is ordered by bits.           *)
RateBounded ==
    /\ ctl.target \in FLOOR_KBPS .. CAP
    /\ ctl.ceiling \in FLOOR_KBPS .. CAP
    /\ ctl.encoder <= ctl.target
    /\ ctl.point \in ctl.point_cap .. Lowest

(* "Climbing back to the ceiling is free, going past it is a probe": the   *)
(* controller itself never runs above its punished ceiling.  Only the user *)
(* can, by pinning a rate, and a probe-down whose rate was changed while   *)
(* it was judged: its restore (apply_rate(pd.from)) takes back that cut.   *)
CeilingEarned == ctl.target > ctl.ceiling => pinned \/ undone

(* How far a calm path still is from the cap: a probe-down to judge first, *)
(* then the distances of target and ceiling, then the waits.               *)
Wait == CLEAN_WINDOWS_UP + PROBE_WAIT_MAX + 3
ToGo ==
    IF ctl.probe_down.on
    THEN Wait * (2 * CAP + 1) + PROBE_DOWN_WINDOWS - ctl.probe_down.windows
    ELSE Wait * (2 * CAP - ctl.target - ctl.ceiling)
         + Wait - (IF ctl.target < ctl.ceiling THEN ctl.clean
                   ELSE ctl.at_ceiling)

(* No rate is a trap: every window without loss and without delay brings   *)
(* the target nearer to the cap, whatever the ceiling, the doubled waits,  *)
(* the learned noise or an open probe-down, until it is there.             *)
ClimbsBack ==
    [][rvars' # rvars =>
        \A s \in Samples :
          /\ s.total > 0 /\ s.loss = 0 /\ s.excess = 0
          /\ delay.state = "Normal" /\ Tick(s)
          => \/ ToGo' < ToGo
             \/ ctl'.target = CAP /\ ctl'.ceiling = CAP]_rvars
=============================================================================
