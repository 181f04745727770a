------------------------------ MODULE MCReview ------------------------------
\* Small instances of the review session.
EXTENDS Review

=============================================================================
