--------------------------- MODULE MCMessagePush ---------------------------
(* Two messages: one with copies in two mailboxes, one with a single copy. *)
EXTENDS MessagePush, TLC

CopiesInTwoMailboxes == (1 :> {<<"inbox", 1>>, <<"work", 1>>}) @@ (2 :> {<<"inbox", 2>>})
TwoUids == [b \in Mailboxes |-> 2]
=============================================================================
