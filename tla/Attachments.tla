---------------------------- MODULE Attachments ----------------------------
(***************************************************************************)
(* `message attachment fetch` of one message: the files it extracts into   *)
(* .afmail/messages/<id>.files/ and the file_path the rebuildable message  *)
(* cache keeps for every MIME part.                                        *)
(*                                                                         *)
(* Every read of a message that has its evidence parses it again, takes    *)
(* the paths over from the cache, and links the parts that have none to a  *)
(* file of their name.                                                     *)
(***************************************************************************)
EXTENDS Naturals, Sequences, SequencesExt

CONSTANTS
    Parts,     \* the attachments, in MIME order
    Name,      \* part -> its safe file name; content types are all the same
    None,      \* no path, no file
    MaxCopies, \* bound: files that share a name
    MaxHand    \* bound: changes made by hand

Copies == 0..(MaxCopies - 1)
Files == {<<Name[p], i>> : p \in Range(Parts), i \in Copies}

VARIABLES
    file,    \* file of the directory -> the part whose bytes it holds
    cache,   \* part -> file_path, or None without a cache
    spam,    \* the message is spam
    todo,    \* parts a fetch still has to save
    answer,  \* what the command has answered so far: part -> bytes of a part
    hand

vars == <<file, cache, spam, todo, answer, hand>>

NoPaths == [p \in Range(Parts) |-> None]

Init ==
    /\ file = [f \in Files |-> None]
    /\ cache = NoPaths
    /\ spam = FALSE
    /\ todo = <<>> /\ answer = {} /\ hand = 0

-----------------------------------------------------------------------------
(* Reading a message *)

\* The first part of the cache with the id, or with the name and content type.
Prior(p) ==
    Parts[CHOOSE i \in DOMAIN Parts :
            /\ Parts[i] = p \/ Name[Parts[i]] = Name[p]
            /\ \A j \in 1..(i - 1) : Parts[j] # p /\ Name[Parts[j]] # Name[p]]

MergedPath(p) == IF cache = None THEN None ELSE cache[Prior(p)]

\* A path whose file is gone, or no path, becomes that of a file of the name.
LinkedPath(p) ==
    LET path == MergedPath(p)
    IN  IF (path = None \/ file[path] = None) /\ file[<<Name[p], 0>>] # None
          THEN <<Name[p], 0>> ELSE path

ReadMessage == [p \in Range(Parts) |-> LinkedPath(p)]

\* Any command that reads the message and writes its cache.
Materialize ==
    /\ todo = <<>>
    /\ cache' = ReadMessage
    /\ UNCHANGED <<file, spam, todo, answer, hand>>

-----------------------------------------------------------------------------
(* message attachment fetch *)

Fetch(parts) ==
    /\ todo = <<>> /\ ~spam
    /\ todo' = parts
    /\ answer' = {}
    /\ UNCHANGED <<file, cache, spam, hand>>

FetchPart == \E p \in Range(Parts) : Fetch(<<p>>)
FetchAll == Fetch(Parts)

Saved(p) == LinkedPath(p) # None /\ file[LinkedPath(p)] # None

\* A part with a file is not extracted again.
AnswerSaved ==
    /\ todo # <<>> /\ Saved(Head(todo))
    /\ answer' = answer \cup {[part |-> Head(todo), bytes |-> file[LinkedPath(Head(todo))]]}
    /\ todo' = Tail(todo)
    /\ UNCHANGED <<file, cache, spam, hand>>

Free(p, i) == file[<<Name[p], i>>] = None
UniqueDestPath(p) ==
    <<Name[p], CHOOSE i \in Copies : Free(p, i) /\ \A j \in 0..(i - 1) : ~Free(p, j)>>

\* The bytes are written first, then the cache; a crash may come in between.
Extract ==
    /\ todo # <<>> /\ ~Saved(Head(todo))
    /\ LET p == Head(todo)
       IN  /\ \E i \in Copies : Free(p, i)
           /\ file' = [file EXCEPT ![UniqueDestPath(p)] = p]
           /\ \/ /\ cache' = [ReadMessage EXCEPT ![p] = UniqueDestPath(p)]
                 /\ answer' = answer \cup {[part |-> p, bytes |-> p]}
                 /\ todo' = Tail(todo)
              \/ /\ todo' = <<>> /\ answer' = {}
                 /\ UNCHANGED cache
    /\ UNCHANGED <<spam, hand>>

-----------------------------------------------------------------------------
ByHand == todo = <<>> /\ hand < MaxHand /\ hand' = hand + 1 /\ UNCHANGED <<todo, answer>>

SetSpam == ByHand /\ spam' = ~spam /\ UNCHANGED <<file, cache>>

DeleteCache == ByHand /\ cache' = None /\ UNCHANGED <<file, spam>>

DeleteFile ==
    /\ ByHand
    /\ \E f \in Files : file' = [file EXCEPT ![f] = None]
    /\ UNCHANGED <<cache, spam>>

Next ==
    \/ Materialize \/ FetchPart \/ FetchAll \/ AnswerSaved \/ Extract
    \/ SetSpam \/ DeleteCache \/ DeleteFile

Spec == Init /\ [][Next]_vars

-----------------------------------------------------------------------------
\* The fetch of a part answers with the bytes of that part: also when another
\* attachment of the mail has its name, and whatever was fetched before.
FetchedIsThePart == \A a \in answer : a.bytes = a.part
=============================================================================
