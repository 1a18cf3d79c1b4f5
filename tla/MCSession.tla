----------------------------- MODULE MCSession ------------------------------
(***************************************************************************)
(* The two ends of a session's life: the connect that opens it through the *)
(* relay, and the loop that serves it.  They share no state: a behaviour   *)
(* is one of either, the other at rest.                                    *)
(*                                                                         *)
(* Two devices that may answer for the id, any pin, every mode, and two    *)
(* salts per host, so that a host can answer again after it dropped the    *)
(* session.  A silence of up to three units; requests that read at most    *)
(* two messages and so can be cut short by any two others.                 *)
(***************************************************************************)
EXTENDS Rendezvous, ServeLoop

VARIABLE part

AllModes == {"Auto", "P2pOnly", "RelayOnly"}

MCInit ==
    /\ part \in {"connect", "serve"}
    /\ RendezvousInit /\ ServeInit
    /\ part # "connect" => mode = "Auto" /\ pin = None /\ registered = {Requester}
    /\ part # "serve" => toHost = {} /\ toClient = {} /\ ~outbound

MCNext ==
    \/ part = "connect" /\ RendezvousNext /\ UNCHANGED <<part, servevars>>
    \/ part = "serve" /\ ServeNext /\ UNCHANGED <<part, rdvvars>>

MCSpec ==
    /\ MCInit /\ [][MCNext]_<<part, rdvvars, servevars>>
    /\ \/ part = "connect" /\ RendezvousFairness
       \/ part = "serve" /\ ServeFairness
=============================================================================
