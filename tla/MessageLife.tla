---------------------------- MODULE MessageLife ----------------------------
(***************************************************************************)
(* What a workspace promises about a message, whatever files hold it: the  *)
(* place a reader finds it in, and the ways from one place to another.     *)
(* CaseStore implements it, crashes included.                              *)
(***************************************************************************)
CONSTANTS Messages

VARIABLE life   \* the place of each message

Discarded == {"spam", "trashed", "deleted_remote"}
Kept == {"triage", "case", "archived", "notification"}
Places == Discarded \cup Kept \cup {"purged"}

Init == life = [m \in Messages |-> "triage"]

(* One command moves the messages S together; the rest stay.                *)
Move(S, from, to) ==
  \E dest \in [S -> to] :
    /\ \A m \in S : life[m] \in from
    /\ life' = [m \in Messages |-> IF m \in S THEN dest[m] ELSE life[m]]

(* Filed into a case, a notification, or back.                              *)
File(S) == Move(S, Kept \cup Discarded, Kept)

(* Only an unfiled message is discarded on its own.                         *)
Discard(S) == Move(S, {"triage"} \cup Discarded, Discarded)

(* The messages of a case may be trashed with it, and in no other way.  Cut *)
(* short, it trashes some of them, and of those in a case that a command    *)
(* left discarded too it may first take that back.                          *)
TrashWithCase(S) ==
  Move(S, {"case", "archived"} \cup Discarded, {"case", "archived", "trashed"})

(* Only a discarded message is removed for good.                            *)
Purge(S) == Move(S, Discarded, {"purged"})

(* The server delivers it again: to triage, or to the disposition that an  *)
(* interrupted purge left behind.                                           *)
Redeliver(S) == Move(S, {"purged"}, {"triage"} \cup Discarded)

Next ==
  \E S \in SUBSET Messages :
    File(S) \/ Discard(S) \/ TrashWithCase(S) \/ Purge(S) \/ Redeliver(S)

Spec == Init /\ [][Next]_life
=============================================================================
