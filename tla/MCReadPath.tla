----------------------------- MODULE MCReadPath -----------------------------
EXTENDS ReadPath, TLC

\* Reads are interchangeable.
Interchangeable == Permutations(Threads)

\* A block and a whole file are not stored at the same time.
OneKindOfStore == stores = {} \/ \A s \in adopts : s.step = "sealed"
=============================================================================
