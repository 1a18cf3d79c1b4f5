------------------------------ MODULE MCMedia ------------------------------
(* What the video stream runs beside its session: FEC, the erasure code it *)
(* uses, and the controller of its rate.  They share no state: a behaviour *)
(* is one of the stream, of the codec or of the controller, the other two  *)
(* at rest.                                                                *)
EXTENDS Fec, ReedSolomon, RateController

VARIABLE part

MCCodecs == {<<2, 2>>, <<3, 2>>}

(* A ladder of three points, best first: ordered by the bits they need,    *)
(* the last costs the host more than the one above it, as 1080p144 does    *)
(* below 1440p60.                                                          *)
MCPoints == <<[min |-> 11, load |-> 6, fps |-> 2],
              [min |-> 11, load |-> 2, fps |-> 1],
              [min |-> 8, load |-> 3, fps |-> 2]>>

(* No packets; clean; mild, sustained and severe loss; a queue; a queue    *)
(* with loss; a queue already gone at the end of the window.               *)
Measured(total, loss, excess, now) ==
    [total |-> total, loss |-> loss, excess |-> excess, now |-> now]
MCSamples ==
    {Measured(0, 0, 0, 0), Measured(200, 0, 0, 0), Measured(200, 10, 0, 0),
     Measured(200, 50, 0, 0), Measured(200, 200, 0, 0),
     Measured(200, 0, 40, 40), Measured(200, 50, 100, 100),
     Measured(60, 10, 40, 0)}

MCInit ==
    /\ part \in {"stream", "codec", "rate"}
    /\ FecInit /\ CInit /\ RateInit
    /\ part # "codec" => codec = <<2, 2>> /\ data = [i \in 0 .. 1 |-> 0]
    /\ part # "stream" => code = "xor" /\ enc.rate = 0

MCNext ==
    \/ part = "stream" /\ FecNext /\ UNCHANGED <<part, cvars, rvars>>
    \/ part = "codec" /\ CNext /\ UNCHANGED <<part, fvars, rvars>>
    \/ part = "rate" /\ RateNext /\ UNCHANGED <<part, fvars, cvars>>

MCSpec == MCInit /\ [][MCNext]_<<part, fvars, cvars, rvars>>

(* The controller only reports its recovery mode and its last good rate:   *)
(* nothing it decides, and no property, depends on them.                   *)
MCView ==
    LET told == {"recovered", "lossy", "clean_at_target", "last_good"}
    IN  <<part, fvars, cvars, delay, pinned, undone, asked,
          [f \in DOMAIN ctl \ told |-> ctl[f]]>>
=============================================================================
