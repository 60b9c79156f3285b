----------------------------- MODULE MCSession -----------------------------
(* A create and an upload that share an account.                          *)
EXTENDS Session

CONSTANTS c1, c2, a1

TheDrift == 0 - 1
TheOps == c1 :> "create" @@ c2 :> "upload"
TheAccounts == c1 :> a1 @@ c2 :> a1
=============================================================================
