------------------------------ MODULE ThreadSet ------------------------------
(***************************************************************************)
(* OMPThreadSet and OMPThread: threads register for the time they run.     *)
(* killAll() waits until a deadline for each of them, and sends the ones   *)
(* that go on SIGHUP over and over until they have stopped, with a thread  *)
(* of its own per member of the set.  The signal interrupts a system call; *)
(* everywhere else it is lost.                                             *)
(*                                                                         *)
(* The outcomes are bits of one std::vector<bool>: killed[i] = true reads  *)
(* the word that the bit is in and writes it back, without a lock, so that *)
(* what another thread wrote in between is undone.  All bits are in one    *)
(* word here: with more than 64 threads fewer of them share one.           *)
(*                                                                         *)
(* External: the threads themselves, and their numbers: "omp parallel for" *)
(* starts as many as it is asked for, and pthread_kill() does not fail.    *)
(***************************************************************************)
EXTENDS Naturals, FiniteSets

CONSTANTS
    Threads,
    Callers     \* of killAll()

VARIABLES
    thread,       \* "new", "running", "blocked" in a system call, "unwinding",
                  \* "stopped", or "refused" by registerMe()
    stopped,      \* OMPThreadSet::stopped
    caller,       \* killAll(): "idle", "walking" the set or "returned"
    killer,       \* what killAll() is at with a thread: nothing ("idle"), "waiting"
                  \* for it, "killing" it, "marking" it as killed, or "done"
    word,         \* what it read to mark the thread
    killed,       \* the bits of killAll() that are set
    interrupted   \* history: the threads a signal got out of a system call

vars == <<thread, stopped, caller, killer, word, killed, interrupted>>

Init ==
    /\ thread = [t \in Threads |-> "new"]
    /\ stopped = FALSE
    /\ caller = [c \in Callers |-> "idle"]
    /\ killer = [t \in Threads |-> "idle"]
    /\ word = [t \in Threads |-> {}]
    /\ killed = {}
    /\ interrupted = {}

Registered == {t \in Threads : thread[t] \notin {"new", "refused"}}

\* killAll() keeps the mutex of the set until it returns.
MutexFree == \A c \in Callers : caller[c] # "walking"

Move(t, from, to) ==
    /\ thread[t] = from
    /\ thread' = [thread EXCEPT ![t] = to]
    /\ UNCHANGED <<stopped, caller, killer, word, killed>>

-----------------------------------------------------------------------------
(* The threads                                                             *)

RegisterAnyway(t) ==
    /\ MutexFree
    /\ Move(t, "new", "running")
    /\ UNCHANGED interrupted

\* ScopedRun(): registerMe()
Register(t) ==
    /\ MutexFree /\ ~stopped
    /\ Move(t, "new", "running")
    /\ UNCHANGED interrupted

\* CannotStartException
Refuse(t) ==
    /\ MutexFree /\ stopped
    /\ Move(t, "new", "refused")
    /\ UNCHANGED interrupted

Block(t) == Move(t, "running", "blocked") /\ UNCHANGED interrupted

Unblock(t) == Move(t, "blocked", "running") /\ UNCHANGED interrupted

\* The system call fails for a reason of its own: an exception leaves the scope.
Fail(t) == Move(t, "blocked", "unwinding") /\ UNCHANGED interrupted

\* ~ScopedRun(): stop()
Stop(t) ==
    /\ Move(t, "running", "stopped") \/ Move(t, "unwinding", "stopped")
    /\ UNCHANGED interrupted

-----------------------------------------------------------------------------
(* killAll()                                                               *)

KillAll(c) ==
    /\ caller[c] = "idle"
    /\ MutexFree
    /\ stopped' = TRUE
    /\ caller' = [caller EXCEPT ![c] = IF stopped THEN "returned" ELSE "walking"]
    /\ killer' = IF stopped THEN killer
                 ELSE [t \in Threads |-> IF t \in Registered THEN "waiting" ELSE "idle"]
    /\ UNCHANGED <<thread, word, killed, interrupted>>

Proceed(t, from, to) ==
    /\ killer[t] = from
    /\ killer' = [killer EXCEPT ![t] = to]
    /\ UNCHANGED <<thread, stopped, caller, interrupted>>

\* wait() returns true
ExitedNormally(t) ==
    /\ thread[t] = "stopped"
    /\ Proceed(t, "waiting", "done")
    /\ UNCHANGED <<word, killed>>

\* wait() returns false: the deadline is over.  (It does not look at the thread again.)
Deadline(t) ==
    /\ Proceed(t, "waiting", "killing")
    /\ UNCHANGED <<word, killed>>

\* A SIGHUP of kill() finds the thread in a system call, which fails with EINTR.
\* (One that finds it elsewhere changes nothing, and is sent again in 0.2 s.)
Interrupt(t) ==
    /\ killer[t] = "killing"
    /\ Move(t, "blocked", "unwinding")
    /\ interrupted' = interrupted \cup {t}

\* The thread has stopped: kill() returns, and killed[i] = true reads the word.
KillReturns(t) ==
    /\ thread[t] = "stopped"
    /\ Proceed(t, "killing", "marking")
    /\ word' = [word EXCEPT ![t] = killed]
    /\ UNCHANGED killed

\* killed[i] = !wait(abstime)
MarkIfRunning(t) ==
    /\ Proceed(t, "marking", "done")
    /\ killed' = word[t] \cup (IF thread[t] = "stopped" THEN {} ELSE {t})
    /\ UNCHANGED word

\* It writes the word with the bit of this thread set.
Mark(t) ==
    /\ Proceed(t, "marking", "done")
    /\ killed' = word[t] \cup {t}
    /\ UNCHANGED word

\* The end of the parallel loop: killAll() returns the number of bits that are set.
KillAllReturn(c) ==
    /\ caller[c] = "walking"
    /\ \A t \in Threads : killer[t] \in {"idle", "done"}
    /\ caller' = [caller EXCEPT ![c] = "returned"]
    /\ UNCHANGED <<thread, stopped, killer, word, killed, interrupted>>

KillerStep(t) == ExitedNormally(t) \/ Deadline(t) \/ Interrupt(t) \/ KillReturns(t) \/ Mark(t)

-----------------------------------------------------------------------------
TypeOK ==
    /\ thread \in [Threads -> {"new", "running", "blocked", "unwinding", "stopped", "refused"}]
    /\ stopped \in BOOLEAN
    /\ caller \in [Callers -> {"idle", "walking", "returned"}]
    /\ killer \in [Threads -> {"idle", "waiting", "killing", "marking", "done"}]
    /\ word \in [Threads -> SUBSET Threads]
    /\ killed \in SUBSET Threads
    /\ interrupted \in SUBSET Threads

Returned == \E c \in Callers : caller[c] = "returned"

\* The caller of killAll() destroys what the threads use: once it returns, to
\* whichever caller, none of them runs, not even one that started meanwhile.
NoneRunsAfterKillAll == Returned => \A t \in Registered : thread[t] = "stopped"

\* killAll() answers "the number of killed processes".  Though bits of it may be lost,
\* the answer is 0 ("Data flushed succesfully") only if nothing was cut short.
CutShortIsReported == Returned /\ killed = {} => interrupted = {}

=============================================================================
