----------------------------- MODULE MCOpening ------------------------------
(***************************************************************************)
(* How a session is opened without the relay: connect_direct makes it, and *)
(* the access handshake decides what it is good for.  The two share no     *)
(* state: a behaviour is one of either, the other at rest.                 *)
(*                                                                         *)
(* Two devices that may answer at the address, a new and an old build, any *)
(* pin, two salts per device.  The one-time password as shown (with its    *)
(* dash) and as typed without it, and the connect password; hosts that     *)
(* have one or both.                                                       *)
(***************************************************************************)
EXTENDS DirectConnect, AccessHandshake

CONSTANTS shown, plain, fixed

VARIABLE part

MCPasswords == {shown, plain, fixed}
MCNorm == [p \in MCPasswords |-> IF p = shown THEN plain ELSE p]
MCCreds == {[otp |-> shown, fixed |-> Empty], [otp |-> shown, fixed |-> fixed]}

MCInit ==
    /\ part \in {"direct", "access"}
    /\ DirectInit /\ AccessInit
    /\ part # "direct" => pin = None
    /\ part # "access" =>
          /\ creds = [otp |-> shown, fixed |-> Empty]
          /\ peer_pake /\ ~old /\ binding.client = binding.host

MCNext ==
    \/ part = "direct" /\ DirectNext /\ UNCHANGED <<part, accessvars>>
    \/ part = "access" /\ AccessNext /\ UNCHANGED <<part, directvars>>

MCSpec ==
    /\ MCInit /\ [][MCNext]_<<part, directvars, accessvars>>
    /\ \/ part = "direct" /\ DirectFairness
       \/ part = "access" /\ AccessFairness
=============================================================================
