----------------------------- MODULE MCTdiConn -----------------------------
EXTENDS TdiConn, TLC

Symmetry == Permutations(Conns) \cup Permutations(Entries)

\* One disconnect request or event at a time.  Those of two connections meet
\* only in the table, where each leaves its entry closed for the other to find.
OneDisconnects ==
    Cardinality({c \in Conns : disconnect'[c] # "none" \/ event'[c] # "none"}) <= 1
=============================================================================
