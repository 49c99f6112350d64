----------------------------- MODULE MCTerminal -----------------------------
(* Instances of Terminal for TLC.                                          *)
EXTENDS Terminal, TLC

\* sockets are interchangeable, and so are the names of pseudo terminals
AllSymmetry == Permutations(Sockets) \cup Permutations(Ptys)
=============================================================================
