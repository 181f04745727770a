------------------------ MODULE MCCloudflareConsumer ------------------------
(* Instances of CloudflareConsumer for TLC. *)
EXTENDS CloudflareConsumer

CONSTANTS o1, o2, o3, c1, c2

(* Two messages, the first of which may be delivered twice. *)
Delivered == [o \in Objects |-> IF o = o2 THEN c2 ELSE c1]
=============================================================================
