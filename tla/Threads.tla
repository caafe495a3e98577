------------------------------ MODULE Threads -------------------------------
(***************************************************************************)
(* The threads that answer the collector's requests, and their processes   *)
(* (the gunicorn command of the image).  A process that stops takes its    *)
(* threads along; the database and the directories stay.                   *)
(***************************************************************************)
CONSTANTS
  Workers,   \* threads
  Home       \* Home[w]: the process of thread w

Processes == {Home[w] : w \in Workers}

ThreadsOf(p) == {w \in Workers : Home[w] = p}
=============================================================================
