------------------------------ MODULE ProcessLock ------------------------------
(***************************************************************************)
(* The application lock (infrastructure/process_lock.py): a file with the  *)
(* holder's pid, on Windows, where a file that is open cannot be removed.  *)
(* One action is one call of the operating system.                         *)
(***************************************************************************)
EXTENDS Naturals, FiniteSets

CONSTANTS Proc,     \* processes, each with a pid of its own, that start once
          Nobody,   \* no pid: the file is empty, or there is none
          Overlap   \* two processes may be in acquire() at once

VARIABLES exists,  \* the lock file exists
          pid,     \* its content
          pc       \* where each process is

vars == <<exists, pid, pc>>

Acquiring == {"open", "read", "unlink", "write"}
Over      == {"refused", "failed", "ended", "dead"}
Alive(p)  == pc[p] \in Acquiring \cup {"held", "release"}
Goto(p, label) == pc' = [pc EXCEPT ![p] = label]

-------------------------------------------------------------------------------
Begin(p) ==
    /\ pc[p] = "new"
    /\ Overlap \/ \A q \in Proc : pc[q] \notin Acquiring
    /\ Goto(p, "open") /\ UNCHANGED <<exists, pid>>

(* os.open with O_CREAT and O_EXCL creates the file, still empty, or fails. *)
Open(p) ==
    /\ pc[p] = "open"
    /\ \/ /\ ~exists
          /\ exists' = TRUE /\ pid' = Nobody /\ Goto(p, "write")
       \/ /\ exists
          /\ Goto(p, "read") /\ UNCHANGED <<exists, pid>>

\* The file names a live process.
Refuses == pid # Nobody /\ Alive(pid)

(* read_text: a missing file is an error nobody handles; an empty file counts
   as stale, as a dead pid does. *)
Read(p) ==
    /\ pc[p] = "read"
    /\ Goto(p, IF ~exists THEN "failed" ELSE IF Refuses THEN "refused" ELSE "unlink")
    /\ UNCHANGED <<exists, pid>>

(* The stale file goes, unless its creator has it open; then acquire() again. *)
Unlink(p) ==
    /\ pc[p] = "unlink"
    /\ IF exists /\ \E q \in Proc : pc[q] = "write"
       THEN Goto(p, "failed") /\ UNCHANGED <<exists, pid>>
       ELSE exists' = FALSE /\ pid' = Nobody /\ Goto(p, "open")

(* os.write and os.close: the lock is held. *)
Write(p) ==
    /\ pc[p] = "write"
    /\ pid' = p /\ Goto(p, "held")
    /\ UNCHANGED exists

(* release reads the file, and removes it if the pid is its own. *)
Release(p) ==
    /\ pc[p] = "held"
    /\ Goto(p, IF exists /\ pid = p THEN "release" ELSE "ended")
    /\ UNCHANGED <<exists, pid>>

Remove(p) ==
    /\ pc[p] = "release"
    /\ IF \E q \in Proc : pc[q] = "write"
       THEN UNCHANGED <<exists, pid>>
       ELSE exists' = FALSE /\ pid' = Nobody
    /\ Goto(p, "ended")

Crash(p) ==
    /\ Alive(p)
    /\ Goto(p, "dead") /\ UNCHANGED <<exists, pid>>

AllOver ==
    /\ \A p \in Proc : pc[p] \in Over
    /\ UNCHANGED vars

-------------------------------------------------------------------------------
Init ==
    /\ exists = FALSE /\ pid = Nobody
    /\ pc = [p \in Proc |-> "new"]

Next ==
    \/ \E p \in Proc :
        \/ Begin(p) \/ Open(p) \/ Read(p) \/ Unlink(p) \/ Write(p)
        \/ Release(p) \/ Remove(p) \/ Crash(p)
    \/ AllOver

Spec == Init /\ [][Next]_vars

-------------------------------------------------------------------------------
\* One process holds the lock (INF-010).  It is so when no two are in acquire()
\* at once, whatever crashes and releases come between; the comment in acquire()
\* claims it for two that start together, too.
OneHolder == Cardinality({p \in Proc : pc[p] \in {"held", "release"}}) <= 1
===============================================================================
