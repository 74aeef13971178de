---------------------------- MODULE MCPrivateData ----------------------------
(* Small instances of PrivateData for TLC. *)
EXTENDS PrivateData

\* GET_ENTRY of threads whose ids agree modulo PRIVATE_HASH_SIZE, as those of
\* aligned thread descriptors do.
Shared == [t \in Threads |-> 0]

\* Thread 3 has an entry of its own.
TwoShared == [t \in Threads |-> IF t = 3 THEN 1 ELSE 0]
=============================================================================
