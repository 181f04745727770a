--------------------------- MODULE MCFileChannel ---------------------------
\* Small instances of the file channel.
EXTENDS FileChannel, TLC

MCSymmetry == Permutations(Sources) \cup Permutations(Dirs) \cup Permutations(Texts)

=============================================================================
