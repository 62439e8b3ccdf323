--------------------------- MODULE MCEmailDelivery ---------------------------
(***************************************************************************)
(* Four e-mails outside production: two to a mailbox on the whitelist, one *)
(* to it under an alias, and one to somebody else, which is never queued.  *)
(***************************************************************************)
EXTENDS EmailDelivery, TLC

CONSTANTS m1, m2, m3, m4, plain, alias, other

Recipients == m1 :> plain @@ m2 :> alias @@ m3 :> plain @@ m4 :> other
Mailboxes == plain :> plain @@ alias :> plain @@ other :> other
=============================================================================
