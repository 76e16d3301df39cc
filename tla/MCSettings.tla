----------------------------- MODULE MCSettings -----------------------------
(* Instances of Settings for TLC.                                           *)
EXTENDS Settings, TLC

SerialNumbers == "a" :> 2345 @@ "b" :> 2567
Types == "a" :> 9 @@ "b" :> 8
=============================================================================
