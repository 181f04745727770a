------------------------------ MODULE MCDrafts ------------------------------
EXTENDS Drafts, TLC
CONSTANTS me, support, f1, f2
MCIdentityFile == (me :> f1) @@ (support :> f2)
=============================================================================
