----------------------------- MODULE MCImapPull -----------------------------
(* An instance of ImapPull for TLC. *)
EXTENDS ImapPull

CONSTANTS inbox, archive, c1, c2

TrashArchive == [b \in Mailboxes |-> IF b = archive THEN "trashed" ELSE "none"]
OldInInbox == [b \in Mailboxes |-> IF b = inbox THEN <<c1>> ELSE <<>>]
BothMailboxes == {<<inbox, archive>>}
=============================================================================
