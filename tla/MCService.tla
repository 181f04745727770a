----------------------------- MODULE MCService -----------------------------
\* Small instances of the request path: one command line process beside an API
\* server with one or two handlers.
EXTENDS Service, TLC

CONSTANTS h1, h2, cli, k1

MCSymmetry == Permutations(Keys)

=============================================================================
