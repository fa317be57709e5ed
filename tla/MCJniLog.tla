------------------------------- MODULE MCJniLog -----------------------------
(***************************************************************************)
(* JniLog for TLC.                                                         *)
(***************************************************************************)
EXTENDS JniLog

\* A negative size counts as full, 0 turns the log off, 1 shrinks a log with room
\* for two; a filter for one of the two names or none.
MCMaxSizes == {-1, 0, 1, 2}
MCNames == {"tox_iterate", "tox_friend_exists"}
MCFilterSets == {{}, {"tox_iterate"}}

=============================================================================
