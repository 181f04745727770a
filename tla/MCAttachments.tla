--------------------------- MODULE MCAttachments ---------------------------
EXTENDS Attachments, TLC
CONSTANTS p1, p2, p3
MCParts == <<p1, p2, p3>>
\* The first two attachments have one name, as images of a mail often do.
MCName == (p1 :> "image") @@ (p2 :> "image") @@ (p3 :> "report")
=============================================================================
