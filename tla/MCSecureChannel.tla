-------------------------- MODULE MCSecureChannel ---------------------------
(***************************************************************************)
(* A bitmap of two 2-bit words (window 4) and one busy direction of five   *)
(* sequence numbers, so the window slides by every amount from 1 to its    *)
(* full width, with and without a carry between words.  The receiving end  *)
(* is the initiator, whose reader appears late; the sender's ciphertexts   *)
(* are also reflected to the sender.                                       *)
(***************************************************************************)
EXTENDS SecureChannel, TLC

MCMaxSend == [p \in Role |-> IF p = "Initiator" THEN 0 ELSE 5]

TaskSymmetry == Permutations(Tasks)
=============================================================================
