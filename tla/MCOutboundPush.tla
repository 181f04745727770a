--------------------------- MODULE MCOutboundPush ---------------------------
(* Instances of OutboundPush for TLC. *)
EXTENDS OutboundPush, TLC

(* The default lists without the reply-to flags, and a send that only       *)
(* submits and marks the replied-to message.                                *)
DefaultLists == [save |-> <<"drafts">>, send |-> <<"drafts", "send", "sent">>]
SendAndFlag  == [save |-> <<>>, send |-> <<"send", "flags">>]

OneConfig  == {DefaultLists}
TwoConfigs == {DefaultLists, SendAndFlag}

Sym == Permutations(Revs) \cup Permutations(Pids) \cup Permutations(EventIds)
=============================================================================
