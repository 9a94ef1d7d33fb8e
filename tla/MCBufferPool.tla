---------------------------- MODULE MCBufferPool ---------------------------
\* The buffer pool on a few pages that are interchangeable.
EXTENDS BufferPool, FiniteSetsExt

\* All pages but one go to the last bucket, however deep the directory is.
MCLopsidedHashes ==
  {h \in [Pages -> {0, 3}] : Cardinality({p \in Pages : h[p] = 0}) = 1}

MCAllHashes == [Pages -> 0 .. 1]

MCSymmetry == Permutations(Pages)
=============================================================================
