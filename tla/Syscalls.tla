------------------------------- MODULE Syscalls -------------------------------
(***************************************************************************)
(* The system calls of syscalls.c under tasks that use them: directly, and *)
(* through the C library's stdio, which src/ links against and does not    *)
(* contain.  Tasks are preempted between calls, and between a failed call  *)
(* and the moment they look at errno, of which there is one for all of     *)
(* them: configUSE_NEWLIB_REENTRANT is 0.                                  *)
(*                                                                         *)
(* Of stdio only the calls it makes are modelled: the first use of a       *)
(* stream asks for its status and for memory for a buffer, and goes        *)
(* without one if there is none; stderr never asks; an unbuffered stream   *)
(* hands its bytes over until all are taken or a call fails.               *)
(*                                                                         *)
(* own and lastFailed are history: the error of the last failing call of   *)
(* each task, and who failed last.                                         *)
(***************************************************************************)
EXTENDS Integers

CONSTANTS
  Task,
  Fds,      \* file descriptors that direct calls pass
  Lengths   \* byte counts

STDIN_FILENO  == 0
STDOUT_FILENO == 1
STDERR_FILENO == 2

ASSUME SyscallsAssumption ==
  /\ Task # {} /\ Fds \subseteq Nat
  /\ Lengths \subseteq Nat \ {0}

Unchanged == "errno unchanged"
Returns(value) == [ret |-> value, err |-> Unchanged]
Fails(code)    == [ret |-> -1, err |-> code]

-----------------------------------------------------------------------------
(* What each call returns, and the error it stores.                         *)

\* Mutant: errno is stored before the descriptor is looked at.
writeErrnoFirst(fd, length) ==
  [ret |-> IF fd \in {STDOUT_FILENO, STDERR_FILENO} THEN length ELSE -1,
   err |-> "EBADF"]

_write(fd, length) ==
  IF fd \in {STDOUT_FILENO, STDERR_FILENO} THEN Returns(length) ELSE Fails("EBADF")

\* Mutant: there is always more input.
readEndless(fd, length) ==
  IF fd = STDIN_FILENO THEN Returns(length) ELSE Fails("EBADF")

_read(fd, length) ==
  IF fd = STDIN_FILENO THEN Returns(0) ELSE Fails("EBADF")

_close(fd)  == Fails("ENOSYS")

_lseek(fd)  == Fails("ESPIPE")

\* st_mode says character device; the other fields are not written.
_fstat(fd)  == Returns(0)
_isatty(fd) == Returns(IF fd \in {STDIN_FILENO, STDOUT_FILENO, STDERR_FILENO} THEN 1 ELSE 0)

\* Mutant: the heap grows.
sbrkGrants(increment) == Returns(0)

_sbrk(increment) == Fails("ENOMEM")

-----------------------------------------------------------------------------

VARIABLES
  errno,
  stage,    \* the call a task is about to make; "idle", "check" or "_exit"
  fd, left, \* its arguments: the descriptor, and the bytes still to go
  stdio,    \* the call is stdio's
  ready,    \* the streams that have been used and need not ask again
  own, lastFailed  \* history

callsVars == <<errno, stage, fd, left, stdio, ready, own, lastFailed>>
args == <<fd, left, stdio>>

Calls == {"_write", "_read", "_close", "_lseek", "_fstat", "_isatty", "_sbrk"}

CallsInit ==
  /\ errno = "none"
  /\ stage = [t \in Task |-> "idle"]
  /\ fd = [t \in Task |-> 0] /\ left = [t \in Task |-> 0]
  /\ stdio = [t \in Task |-> FALSE]
  /\ ready = {}
  /\ own = [t \in Task |-> "none"]
  /\ lastFailed = "nobody"

\* Call result r of task t is stored in errno if it is a failure.
Store(t, r) ==
  /\ errno' = IF r.err = Unchanged THEN errno ELSE r.err
  /\ own' = IF r.ret = -1 THEN [own EXCEPT ![t] = r.err] ELSE own
  /\ lastFailed' = IF r.ret = -1 THEN t ELSE lastFailed

GoTo(t, s) == stage' = [stage EXCEPT ![t] = s]

Begin(t, s, f, n, viaStdio) ==
  /\ stage[t] = "idle"
  /\ GoTo(t, s)
  /\ fd' = [fd EXCEPT ![t] = f]
  /\ left' = [left EXCEPT ![t] = n]
  /\ stdio' = [stdio EXCEPT ![t] = viaStdio]
  /\ UNCHANGED <<errno, ready, own, lastFailed>>

\* The task calls one of the functions itself.
CallDirectly(t) ==
  \E s \in Calls, f \in Fds, n \in Lengths : Begin(t, s, f, n, FALSE)

\* printf, or fprintf to stderr, of n bytes.
Printf(t) ==
  \E f \in {STDOUT_FILENO, STDERR_FILENO}, n \in Lengths :
    Begin(t, IF f \in ready \cup {STDERR_FILENO} THEN "_write" ELSE "_fstat",
          f, n, TRUE)

\* Read standard input to its end.
ReadInput(t) ==
  \E n \in Lengths :
    Begin(t, IF STDIN_FILENO \in ready THEN "_read" ELSE "_fstat",
          STDIN_FILENO, n, TRUE)

\* _exit, called by the task or by abort: loops for ever and flushes nothing.
Exit(t) ==
  /\ stage[t] = "idle"
  /\ GoTo(t, "_exit")
  /\ UNCHANGED <<errno, args, ready, own, lastFailed>>

-----------------------------------------------------------------------------

Fstat(t) ==
  /\ stage[t] = "_fstat"
  /\ Store(t, _fstat(fd[t]))
  /\ GoTo(t, IF stdio[t] THEN "_sbrk" ELSE "idle")
  /\ UNCHANGED <<args, ready>>

\* Whatever the size, which stdio may take from a field _fstat has not written.
\* A stream with a buffer keeps what is printed; one without hands it over.
Sbrk(t) ==
  /\ stage[t] = "_sbrk"
  /\ LET r == _sbrk(left[t]) IN
     /\ Store(t, r)
     /\ \/ /\ stdio[t]
           /\ ready' = ready \cup {fd[t]}
           /\ GoTo(t, IF fd[t] = STDIN_FILENO THEN "_read"
                      ELSE IF r.ret = -1 THEN "_write" ELSE "idle")
        \/ /\ ~stdio[t]
           /\ GoTo(t, IF r.ret = -1 THEN "check" ELSE "idle")
           /\ UNCHANGED ready
  /\ UNCHANGED args

\* stdio goes on until everything is taken; a call that takes nothing is an error.
Write(t) ==
  /\ stage[t] = "_write"
  /\ LET r == _write(fd[t], left[t]) IN
     /\ Store(t, r)
     /\ \/ /\ ~stdio[t]
           /\ GoTo(t, IF r.ret = -1 THEN "check" ELSE "idle")
           /\ UNCHANGED left
        \/ /\ stdio[t]
           /\ left' = [left EXCEPT ![t] = IF r.ret > 0 THEN @ - r.ret ELSE @]
           /\ GoTo(t, IF r.ret <= 0 THEN "check"
                      ELSE IF left'[t] > 0 THEN "_write" ELSE "idle")
  /\ UNCHANGED <<fd, stdio, ready>>

\* stdio goes on until end of file.
Read(t) ==
  /\ stage[t] = "_read"
  /\ LET r == _read(fd[t], left[t]) IN
     /\ Store(t, r)
     /\ GoTo(t, IF r.ret = -1 THEN "check"
                ELSE IF stdio[t] /\ r.ret > 0 THEN "_read" ELSE "idle")
  /\ UNCHANGED <<args, ready>>

Close(t) ==
  /\ stage[t] = "_close"
  /\ Store(t, _close(fd[t]))
  /\ GoTo(t, "check")
  /\ UNCHANGED <<args, ready>>

Lseek(t) ==
  /\ stage[t] = "_lseek"
  /\ Store(t, _lseek(fd[t]))
  /\ GoTo(t, "check")
  /\ UNCHANGED <<args, ready>>

Isatty(t) ==
  /\ stage[t] = "_isatty"
  /\ Store(t, _isatty(fd[t]))
  /\ GoTo(t, "idle")
  /\ UNCHANGED <<args, ready>>

\* The task looks at errno, at once or after a line on stderr.
Check(t) ==
  /\ stage[t] = "check"
  /\ \/ GoTo(t, "idle") /\ UNCHANGED <<errno, own, lastFailed>>
     \/ Store(t, _write(STDERR_FILENO, 1)) /\ UNCHANGED stage
  /\ UNCHANGED <<args, ready>>

Continue(t) ==
  \/ Fstat(t) \/ Sbrk(t) \/ Write(t) \/ Read(t)
  \/ Close(t) \/ Lseek(t) \/ Isatty(t) \/ Check(t)

CallsNext == \E t \in Task :
  CallDirectly(t) \/ Printf(t) \/ ReadInput(t) \/ Exit(t) \/ Continue(t)

CallsSpec == CallsInit /\ [][CallsNext]_callsVars

\* Tasks of one priority share the processor by time slices
\* (configUSE_TIME_SLICING), also with one that loops in _exit.
CallsFairSpec == CallsSpec /\ \A t \in Task : WF_callsVars(Continue(t))

-----------------------------------------------------------------------------

Codes == {"none", "EBADF", "ENOSYS", "ESPIPE", "ENOMEM"}

\* Every variable holds a value of its kind: errno holds an error code, each
\* failing call comes with one, and no stream is handed more than was printed.
CallsTypeOK ==
  /\ errno \in Codes /\ own \in [Task -> Codes]
  /\ stage \in [Task -> Calls \cup {"idle", "check", "_exit"}]
  /\ fd \in [Task -> Nat] /\ left \in [Task -> Nat]
  /\ stdio \in [Task -> BOOLEAN]
  /\ ready \subseteq {STDIN_FILENO, STDOUT_FILENO}
  /\ lastFailed \in Task \cup {"nobody"}

\* "printf() succeeds, but produces no visible output": when printf has returned
\* every byte it was given has been taken by _write, whichever tasks use the
\* stream for the first time together.  It needs _sbrk to refuse: a buffer would
\* hold bytes back, and _exit flushes none.
PrintfSucceeds ==
  \A t \in Task :
    stage[t] \in {"idle", "check", "_exit"} /\ stdio[t] /\ fd[t] # STDIN_FILENO
      => left[t] = 0

\* With one errno for all tasks, a task that looks at it after a failed call finds
\* the error of the latest failing call of any task: its own as long as no other
\* task has failed since, then the other's, but never an older one or none at all.
\* Calls that succeed, whosever they are, do not disturb it.
LatestError ==
  \A t \in Task :
    stage[t] = "check" => lastFailed \in Task /\ errno = own[lastFailed]

\* No call keeps its caller, and neither stdio's writing to a stream nor its
\* reading to the end of one goes on for ever.
CallsEnd == \A t \in Task : stage[t] \in Calls ~> stage[t] = "idle"
=============================================================================
