----------------------------- MODULE MCDevices -----------------------------
(* What a device does around its sessions: the host's audio, the list of   *)
(* the LAN, injected input and virtual gamepads.  They share no state: a   *)
(* behaviour is one of a single part, the others at rest.                  *)
EXTENDS HostAudio, Discovery, Input, Pads

VARIABLE part

(* Keys per backend: where the tables or the handling tell them apart.     *)
MCCodes == [uinput |-> {42, 54, 96, 250}, sendinput |-> {28, 42, 96},
            window |-> {28, 42, 96}, macos |-> {42, 54, 58}]

MCInit ==
    /\ part \in {"audio", "lan", "input", "pads"}
    /\ AudioInit /\ DiscoveryInit /\ InputInit /\ PadsInit
    /\ part # "audio" =>
          /\ os = "linux" /\ \A r \in Roles : default[r] = "d1"
          /\ \A d \in Devices : fmt[d] = "f1"
    /\ part # "input" => backend = "uinput"
    /\ part # "pads" => \A s \in Serials : bus[s] = NoTarget

MCNext ==
    \/ part = "audio" /\ AudioNext /\ UNCHANGED <<dvars, inputvars, padvars>>
       /\ UNCHANGED part
    \/ part = "lan" /\ DiscoveryNext /\ UNCHANGED <<avars, inputvars, padvars>>
       /\ UNCHANGED part
    \/ part = "input" /\ InputNext /\ UNCHANGED <<avars, dvars, padvars>>
       /\ UNCHANGED part
    \/ part = "pads" /\ PadsNext /\ UNCHANGED <<avars, dvars, inputvars>>
       /\ UNCHANGED part

MCSpec == MCInit /\ [][MCNext]_<<part, avars, dvars, inputvars, padvars>>
=============================================================================
