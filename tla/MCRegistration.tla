--------------------------- MODULE MCRegistration ---------------------------
(***************************************************************************)
(* Registration with an open relay or one that wants a password, and an    *)
(* app that offers nothing, a wrong or the right password, or the access   *)
(* key it was issued earlier.                                              *)
(***************************************************************************)
EXTENDS Registration

OpenRelay     == [password |-> FALSE, totp |-> FALSE]
PasswordRelay == [password |-> TRUE, totp |-> FALSE]

Nothing  == [key |-> "none", password |-> "none", totp |-> "none"]
Wrong    == [Nothing EXCEPT !.password = "bad"]
Right    == [Nothing EXCEPT !.password = "good"]
KeyOnly  == [Nothing EXCEPT !.key = "good"]

OpenOrPassword == {OpenRelay, PasswordRelay}
Password       == {PasswordRelay}

AnyPassword   == {Nothing, Wrong, Right}
WrongOrRight  == {Wrong, Right}
StoredKey     == {KeyOnly}
=============================================================================
