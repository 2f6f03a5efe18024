---- MODULE MCCryptFile ----
(* CryptFile with two file objects of notepad and one of another process.   *)
EXTENDS CryptFile, TLC

\* The file objects of a process are interchangeable.
Symmetry == Permutations(Secure) \cup Permutations(Plain)

\* A behaviour goes through one kind of mishap.
OneMishap == Cardinality(mishaps) <= 1
====
