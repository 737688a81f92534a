---------------------------- MODULE Multitasking ----------------------------
(***************************************************************************)
(* Threads, processes and the scheduler of the kernel                      *)
(* (src/src/multitasking/*.c) on its one processor.                        *)
(*                                                                         *)
(* Every interrupt ends in scheduler(), so a thread can lose the processor *)
(* between any two statements unless interrupts are off.  Four kinds of    *)
(* threads run: kmain2 (thread 0 of process 0) and ide_polling, which only *)
(* yield once booted; run_sh, the shell, the one caller of new_process()   *)
(* and of kill_process() on another process, modelled a statement at a     *)
(* time by pc; and one user thread per user process.  A user thread ends   *)
(* inside an interrupt gate (IF = 0), so its whole end is one step that    *)
(* may come between any two steps of the shell.                            *)
(***************************************************************************)
EXTENDS Integers, FiniteSets

CONSTANTS
    MaxThreads,     \* MAX_THREADS, length of threads[]
    MaxProcesses,   \* MAX_PROCESSES, length of processes[]
    Killable        \* the pids the user of the shell may pass to "kill"

Tids == 0..(MaxThreads - 1)
Pids == 0..(MaxProcesses - 1)

ASSUME SizeAssumption ==
    /\ MaxThreads \in Nat /\ MaxThreads >= 3    \* the three kernel threads
    /\ MaxProcesses \in Nat /\ MaxProcesses >= 1
    /\ Killable \subseteq Pids

VARIABLES
    mode,           \* "boot", "run", "hung" (scheduler loops), or a panic message
    threads, processes, thread_count, process_count,
    active_tid,
    last_run,       \* the static of find_running_thread
    last_tid,       \* the static of alloc_thread
    last_pid,       \* the static of alloc_process
    threads_ended_arr, threads_ended,
    processes_ended_arr, processes_ended,
    pc,             \* the next statement of the shell
    ret,            \* where its call of clean_threads returns to
    reg,            \* the copy of threads_ended or processes_ended it works on
    tid, pid, left, \* its locals: the thread, the process, kill_process's count
    torn            \* history: a thread ended inside a window of the shell

lists  == <<threads_ended_arr, threads_ended, processes_ended_arr, processes_ended>>
locals == <<pc, ret, reg, tid, pid, left>>
vars   == <<mode, threads, processes, thread_count, process_count, active_tid,
            last_run, last_tid, last_pid, lists, locals, torn>>

TP_STATES == {"FREE", "ALLOCED", "RUNNING", "ENDING", "ENDED"}
Dead      == {"FREE", "ENDED", "ENDING"}
Entries   == {"none", "kmain2", "ide_polling", "run_sh", "user"}
Panics    == {"kill_thread: state == FREE", "free_thread: not ended!",
              "free_thread: thread active!", "free_process: not ended!",
              "free_process: process active!"}

\* Definitions marked "Mutant" are not part of the model: each is a definition of
\* the model with a plausible bug, and shows that a property notices it.

\* What memset(.., 0, ..) leaves: TP_STATE_FREE is 0.  phys_pd says whether the
\* process has a page directory.  count is size_t: below zero it wraps around.
NoThread  == [state |-> "FREE", pid |-> 0, entry |-> "none"]
BlankProcess(s) == [state |-> s, tid0 |-> 0, count |-> 0, phys_pd |-> FALSE]
NoProcess == BlankProcess("FREE")

-----------------------------------------------------------------------------
(* The scheduler.                                                          *)

Runnable(ts, ps, t) ==
    ts[t].state = "RUNNING" /\ ps[ts[t].pid].state = "RUNNING"

\* Mutant: the search always starts at thread 0.
TurnFromZero(t) == t

\* The thread find_running_thread() finds: the search starts after last_run.
Turn(t) == (t + MaxThreads - last_run - 1) % MaxThreads
Found(ts, ps) ==
    {t \in Tids : /\ Runnable(ts, ps, t)
                  /\ \A u \in Tids : Runnable(ts, ps, u) => Turn(t) <= Turn(u)}

\* select_next_thread() over the tables a step leaves behind.  active_thread is
\* NULL exactly in "boot".  With at most one thread counted the active thread
\* stays; with none to be found the loop never ends, interrupts off.
SelectNextThread(ts, ps, count) ==
    IF count > 1 \/ mode = "boot"
    THEN IF Found(ts, ps) = {}
         THEN mode' = "hung" /\ UNCHANGED <<active_tid, last_run>>
         ELSE /\ active_tid' \in Found(ts, ps)
              /\ last_run' = active_tid'
              /\ mode' = "run"
    ELSE UNCHANGED <<mode, active_tid, last_run>>

\* Any interrupt, or switch_thread() called by a thread that waits.
Scheduler ==
    /\ mode = "run"
    /\ SelectNextThread(threads, processes, thread_count)
    /\ UNCHANGED <<threads, processes, thread_count, process_count, last_tid,
                   last_pid, lists, locals, torn>>

-----------------------------------------------------------------------------
(* Booting: kmain() and kmain2().                                          *)

\* The slot alloc_thread() takes, searching from last_tid on.
FreeSlots(ts) ==
    LET dist(t) == (t + MaxThreads - last_tid) % MaxThreads
        free    == {t \in Tids : ts[t].state = "FREE"}
    IN  {t \in free : \A u \in free : dist(t) <= dist(u)}

Started(e) == \E t \in Tids : threads[t].entry = e

\* new_thread(0, e, ..) during boot: nothing has ended, so clean_threads() does
\* nothing, and no other thread touches these tables yet.
NewKernelThread(e) ==
    /\ ~Started(e)
    /\ \E t \in FreeSlots(threads) :
          /\ threads' = [threads EXCEPT ![t] =
                            [state |-> "RUNNING", pid |-> 0, entry |-> e]]
          /\ last_tid' = t
    /\ processes' = [processes EXCEPT ![0].count = @ + 1]
    /\ thread_count' = thread_count + 1

\* ide_init(), called by kmain() before threading_start().
IdeInit ==
    /\ mode = "boot"
    /\ NewKernelThread("ide_polling")
    /\ UNCHANGED <<mode, process_count, active_tid, last_run, last_pid, lists,
                   locals, torn>>

ThreadingStart ==
    /\ mode = "boot" /\ Started("ide_polling")
    /\ SelectNextThread(threads, processes, thread_count)
    /\ UNCHANGED <<threads, processes, thread_count, process_count, last_tid,
                   last_pid, lists, locals, torn>>

\* kmain2() starts the shell; afterwards it only calls switch_thread().
Kmain2 ==
    /\ mode = "run" /\ threads[active_tid].entry = "kmain2"
    /\ NewKernelThread("run_sh")
    /\ UNCHANGED <<mode, process_count, active_tid, last_run, last_pid, lists,
                   locals, torn>>

-----------------------------------------------------------------------------
(* The end of a user thread, with interrupts off.                          *)

\* The shell's read-modify-write sequences on the two lists, and the gap
\* between kill_process()'s check of the state and its assignment.
ThreadWindow  == {"ct_dec", "ct_free", "kt_push", "kt_count"}
ProcessWindow == {"cp_dec", "cp_free", "kp_push", "kp_count"}
InWindow(p) ==
    pc \in ThreadWindow \cup ProcessWindow \/ (pc = "kp_mark" /\ pid = p)

\* kill_thread(t) on a running user thread: the thread is its process's tid0,
\* so kill_process() follows, finds no other thread and ends the process.
KilledThreads(t)   == [threads EXCEPT ![t].state = "ENDED"]
KilledProcesses(p) == [processes EXCEPT ![p].state = "ENDED"]

KillUserThread(t) ==
    LET p == threads[t].pid
    IN  /\ threads' = KilledThreads(t)
        /\ threads_ended_arr' = [threads_ended_arr EXCEPT ![threads_ended] = t]
        /\ threads_ended' = threads_ended + 1
        /\ thread_count' = thread_count - 1
        /\ processes' = KilledProcesses(p)
        /\ processes_ended_arr' = [processes_ended_arr EXCEPT ![processes_ended] = p]
        /\ processes_ended' = processes_ended + 1
        /\ process_count' = process_count - 1
        /\ torn' = (torn \/ InWindow(p))
        /\ UNCHANGED <<last_tid, last_pid, locals>>

UserRunning ==
    /\ mode = "run"
    /\ threads[active_tid].entry = "user" /\ threads[active_tid].state = "RUNNING"

\* The user thread exits, makes an illegal system call or causes an exception:
\* kill_thread(active_tid), which ends in switch_thread().
ThreadEnding ==
    /\ UserRunning
    /\ KillUserThread(active_tid)
    /\ SelectNextThread(threads', processes', thread_count')

\* A page fault that cannot be served: schedule until another thread is active,
\* then kill the faulting one.  Without another one the loop never ends.
PageFault ==
    /\ UserRunning
    /\ LET others == Found(threads, processes) \ {active_tid}
       IN  IF thread_count > 1 /\ others # {}
           THEN /\ KillUserThread(active_tid)
                /\ active_tid' \in others
                /\ last_run' = active_tid'
                /\ UNCHANGED mode
           ELSE /\ mode' = "hung"
                /\ UNCHANGED <<threads, processes, thread_count, process_count,
                               active_tid, last_run, last_tid, last_pid, lists,
                               locals, torn>>

-----------------------------------------------------------------------------
(* The shell.  Each step runs only while the shell's thread is active.     *)

ShellAt(label) ==
    /\ mode = "run" /\ pc = label
    /\ threads[active_tid].entry = "run_sh"
    /\ UNCHANGED <<active_tid, last_run, torn>>

Panic(msg) ==
    /\ mode' = msg
    /\ UNCHANGED <<threads, processes, thread_count, process_count, last_tid,
                   last_pid, lists, locals>>

\* Mutant: free_process() relies on the clean_threads() of clean_processes().
CallCleanThreadsUnlessFreeing(label) ==
    IF label = "fp_clear" THEN pc' = label /\ ret' = label
    ELSE pc' = "ct_test" /\ ret' = label

CallCleanThreads(label) == pc' = "ct_test" /\ ret' = label

\* clean_threads(): while (threads_ended) { --threads_ended; free_thread(arr[..]); }
\* The compiled loop reads threads_ended once per turn, into a register.
CleanThreadsTest ==
    /\ ShellAt("ct_test")
    /\ reg' = threads_ended
    /\ pc' = IF threads_ended = 0 THEN ret ELSE "ct_dec"
    /\ UNCHANGED <<mode, threads, processes, thread_count, process_count, last_tid,
                   last_pid, lists, ret, tid, pid, left>>

\* Mutant: the entry stays on the list.
CleanThreadsNoDec ==
    /\ ShellAt("ct_dec")
    /\ pc' = "ct_free"
    /\ UNCHANGED <<mode, threads, processes, thread_count, process_count, last_tid,
                   last_pid, lists, ret, reg, tid, pid, left>>

CleanThreadsDec ==
    /\ ShellAt("ct_dec")
    /\ threads_ended' = reg - 1
    /\ pc' = "ct_free"
    /\ UNCHANGED <<mode, threads, processes, thread_count, process_count, last_tid,
                   last_pid, threads_ended_arr, processes_ended_arr,
                   processes_ended, ret, reg, tid, pid, left>>

\* free_thread(): the count of the process goes down here and once more in
\* process_free_thread_num().
\* Mutant: the slot is cleared but for its state.
FreedThreadStillEnded(t) == [threads EXCEPT ![t].pid = 0]

FreedThread(t) == [threads EXCEPT ![t] = NoThread]

FreeThread ==
    LET t == threads_ended_arr[reg - 1]
    IN  /\ ShellAt("ct_free")
        /\ IF threads[t].state \notin {"ENDED", "ALLOCED"}
           THEN Panic("free_thread: not ended!")
           ELSE IF threads[t].state = "ENDED" /\ t = active_tid
           THEN Panic("free_thread: thread active!")
           ELSE /\ threads' = FreedThread(t)
                /\ processes' = IF threads[t].state = "ALLOCED" THEN processes
                                ELSE [processes EXCEPT ![threads[t].pid].count = @ - 2]
                /\ pc' = "ct_test"
                /\ UNCHANGED <<mode, thread_count, process_count, last_tid, last_pid,
                               lists, ret, reg, tid, pid, left>>

\* clean_processes(), after its clean_threads(): the same loop over processes.
CleanProcessesTest ==
    /\ ShellAt("cp_test")
    /\ reg' = processes_ended
    /\ pc' = IF processes_ended = 0 THEN "np_alloc" ELSE "cp_dec"
    /\ UNCHANGED <<mode, threads, processes, thread_count, process_count, last_tid,
                   last_pid, lists, ret, tid, pid, left>>

CleanProcessesDec ==
    /\ ShellAt("cp_dec")
    /\ processes_ended' = reg - 1
    /\ pc' = "cp_free"
    /\ UNCHANGED <<mode, threads, processes, thread_count, process_count, last_tid,
                   last_pid, threads_ended_arr, threads_ended, processes_ended_arr,
                   ret, reg, tid, pid, left>>

\* free_process() up to its own clean_threads().  active_pid is 0: the shell runs.
FreeProcess ==
    LET p == processes_ended_arr[reg - 1]
    IN  /\ ShellAt("cp_free")
        /\ IF processes[p].state # "ENDED"
           THEN Panic("free_process: not ended!")
           ELSE IF p = threads[active_tid].pid
           THEN Panic("free_process: process active!")
           ELSE /\ pid' = p
                /\ CallCleanThreads("fp_clear")
                /\ UNCHANGED <<mode, threads, processes, thread_count, process_count,
                               last_tid, last_pid, lists, reg, tid, left>>

\* free_process() from "clearing": free_pagedir(), memset(), TP_STATE_FREE.  The
\* process is one clean_processes() took, or the one new_process() gives up: still
\* ALLOCED, its tid0 0, so that no thread of it is killed.
FreeProcessClear ==
    /\ ShellAt("fp_clear")
    /\ processes' = [processes EXCEPT ![pid] = NoProcess]
    /\ pc' = IF processes[pid].state = "ALLOCED" THEN "idle" ELSE "cp_test"
    /\ UNCHANGED <<mode, threads, thread_count, process_count, last_tid, last_pid,
                   lists, ret, reg, tid, pid, left>>

\* exec() loads the file and calls new_process(), alloc_process() and
\* clean_processes(): first of all clean_threads().
Exec ==
    /\ ShellAt("idle")
    /\ CallCleanThreads("cp_test")
    /\ UNCHANGED <<mode, threads, processes, thread_count, process_count, last_tid,
                   last_pid, lists, reg, tid, pid, left>>

\* alloc_process(), its search; NO_PROCESS ends new_process().
AllocProcess ==
    LET dist(p) == (p + MaxProcesses - last_pid) % MaxProcesses
        free    == {p \in Pids : processes[p].state = "FREE"}
    IN  /\ ShellAt("np_alloc")
        /\ IF free = {}
           THEN pc' = "idle" /\ UNCHANGED <<processes, last_pid, pid>>
           ELSE /\ pid' \in {p \in free : \A q \in free : dist(p) <= dist(q)}
                /\ processes' = [processes EXCEPT ![pid'] = BlankProcess("ALLOCED")]
                /\ last_pid' = pid'
                /\ pc' = "np_space"
        /\ UNCHANGED <<mode, threads, thread_count, process_count, last_tid, lists,
                       ret, reg, tid, left>>

\* build_new_pagedir(0) panics rather than fail; alloc_program_space() fails for an
\* empty file.  new_thread() and alloc_thread() follow, with clean_threads() first.
ProgramSpace ==
    /\ ShellAt("np_space")
    /\ processes' = [processes EXCEPT ![pid].phys_pd = TRUE]
    /\ \/ pc' = "fp_clear" /\ UNCHANGED ret
       \/ CallCleanThreads("nt_alloc")
    /\ UNCHANGED <<mode, threads, thread_count, process_count, last_tid, last_pid,
                   lists, reg, tid, pid, left>>

\* The search of alloc_thread().
AllocThread ==
    /\ ShellAt("nt_alloc")
    /\ IF FreeSlots(threads) = {}
       THEN pc' = "fp_clear" /\ UNCHANGED <<threads, last_tid, tid>>
       ELSE /\ tid' \in FreeSlots(threads)
            /\ threads' = [threads EXCEPT ![tid'] = [NoThread EXCEPT !.state = "ALLOCED"]]
            /\ last_tid' = tid'
            /\ pc' = "nt_run"
    /\ UNCHANGED <<mode, processes, thread_count, process_count, last_pid, lists,
                   ret, reg, pid, left>>

\* The rest of new_thread(): process_alloc_thread_num(), then prepare_thread(),
\* which fails if there is no room for the stack; the count of the process stays.
NewThread ==
    /\ ShellAt("nt_run")
    /\ processes' = [processes EXCEPT ![pid].count = @ + 1]
    /\ \/ /\ threads' = FreedThread(tid)
          /\ pc' = "fp_clear"
          /\ UNCHANGED thread_count
       \/ /\ threads' = [threads EXCEPT ![tid] =
                            [state |-> "RUNNING", pid |-> pid, entry |-> "user"]]
          /\ thread_count' = thread_count + 1
          /\ pc' = "np_run"
    /\ UNCHANGED <<mode, process_count, last_tid, last_pid, lists, ret, reg, tid,
                   pid, left>>

\* process->threads.tid0 = tid; process->state = TP_STATE_RUNNING; from here on the
\* new process may run, and end, before new_process() goes on.
ProcessRunning ==
    /\ ShellAt("np_run")
    /\ processes' = [processes EXCEPT ![pid].tid0 = tid, ![pid].state = "RUNNING"]
    /\ pc' = "np_count"
    /\ UNCHANGED <<mode, threads, thread_count, process_count, last_tid, last_pid,
                   lists, ret, reg, tid, pid, left>>

\* Mutant: a process that has ended meanwhile is not counted.
ProcessCountIfRunning ==
    /\ ShellAt("np_count")
    /\ process_count' = process_count + (IF processes[pid].state = "RUNNING" THEN 1 ELSE 0)
    /\ pc' = "idle"
    /\ UNCHANGED <<mode, threads, processes, thread_count, last_tid, last_pid,
                   lists, ret, reg, tid, pid, left>>

ProcessCount ==
    /\ ShellAt("np_count")
    /\ process_count' = process_count + 1
    /\ pc' = "idle"
    /\ UNCHANGED <<mode, threads, processes, thread_count, last_tid, last_pid,
                   lists, ret, reg, tid, pid, left>>

-----------------------------------------------------------------------------
(* The shell's "kill": sh_kill(), kill_process() and kill_thread().        *)

\* Mutant: only a free slot is refused.
MayKillUnlessFree(p) == processes[p].state # "FREE"

\* The test both functions make of the state: a dead process is left alone.
MayKill(p) == processes[p].state \notin Dead

Kill ==
    /\ ShellAt("idle")
    /\ \E p \in Killable : MayKill(p) /\ pid' = p
    /\ pc' = "kp_mark"
    /\ UNCHANGED <<mode, threads, processes, thread_count, process_count, last_tid,
                   last_pid, lists, ret, reg, tid, left>>

\* processes[pid].state = TP_STATE_ENDING; count = processes[pid].threads.count;
Ending(ps, p) == [ps EXCEPT ![p].state = "ENDING"]

KillProcessMark ==
    /\ ShellAt("kp_mark")
    /\ processes' = Ending(processes, pid)
    /\ left' = processes[pid].count
    /\ tid' = 0
    /\ pc' = "kp_loop"
    /\ UNCHANGED <<mode, threads, thread_count, process_count, last_tid, last_pid,
                   lists, ret, reg, pid>>

\* Mutant: the loop stops one thread short of MAX_THREADS.
ToKillButLast == {t \in Tids : t >= tid /\ t < MaxThreads - 1 /\ threads[t].pid = pid}

\* The threads from tid on that the loop still visits, the next one first.
ToKill == {t \in Tids : t >= tid /\ threads[t].pid = pid}
NextToKill == {t \in ToKill : \A u \in ToKill : t <= u}

\* One turn of the loop, the call of kill_thread(t) up to its write to the list.
\* kill_process(), called for tid0, returns at once: the process is ENDING.
KillThread ==
    /\ ShellAt("kp_loop") /\ left # 0
    /\ \E t \in NextToKill :
        /\ t # active_tid \/ threads[t].state = "ENDED"
        /\ tid' = t + 1
        /\ left' = left - 1
        /\ CASE threads[t].state = "FREE" ->
                    /\ mode' = "kill_thread: state == FREE"
                    /\ UNCHANGED <<threads, thread_count, reg, pc>>
             [] threads[t].state = "ENDED" ->
                    UNCHANGED <<mode, threads, thread_count, reg, pc>>
             [] OTHER ->
                    /\ threads' = IF threads[t].state = "ALLOCED" THEN threads
                                  ELSE KilledThreads(t)
                    /\ thread_count' = thread_count - 1
                    /\ reg' = threads_ended
                    /\ pc' = "kt_push"
                    /\ UNCHANGED mode
    /\ UNCHANGED <<processes, process_count, last_tid, last_pid, lists, ret, pid>>

\* kill_thread(active_tid) for the shell's own thread: interrupts go off, and what
\* follows switch_thread() runs only if the shell is ever scheduled again.
KillOwnThread ==
    /\ mode = "run" /\ pc = "kp_loop" /\ left # 0
    /\ threads[active_tid].entry = "run_sh" /\ threads[active_tid].state = "RUNNING"
    /\ active_tid \in NextToKill
    /\ tid' = active_tid + 1 /\ left' = left - 1
    /\ threads' = KilledThreads(active_tid)
    /\ threads_ended_arr' = [threads_ended_arr EXCEPT ![threads_ended] = active_tid]
    /\ threads_ended' = threads_ended + 1
    /\ thread_count' = thread_count - 1
    /\ SelectNextThread(threads', processes, thread_count')
    /\ UNCHANGED <<processes, process_count, last_tid, last_pid, processes_ended_arr,
                   processes_ended, pc, ret, reg, pid, torn>>

\* threads_ended_arr[threads_ended] = tid; ++threads_ended; of kill_thread().
PushThread ==
    /\ ShellAt("kt_push")
    /\ threads_ended_arr' = [threads_ended_arr EXCEPT ![reg] = tid - 1]
    /\ pc' = "kt_count"
    /\ UNCHANGED <<mode, threads, processes, thread_count, process_count, last_tid,
                   last_pid, threads_ended, processes_ended_arr, processes_ended,
                   ret, reg, tid, pid, left>>

CountThread ==
    /\ ShellAt("kt_count")
    /\ threads_ended' = reg + 1
    /\ pc' = "kp_loop"
    /\ UNCHANGED <<mode, threads, processes, thread_count, process_count, last_tid,
                   last_pid, threads_ended_arr, processes_ended_arr, processes_ended,
                   ret, reg, tid, pid, left>>

\* The end of kill_process(): TP_STATE_ENDED, then the same write to its list.
KillProcessEnded ==
    /\ ShellAt("kp_loop") /\ (left = 0 \/ ToKill = {})
    /\ processes' = KilledProcesses(pid)
    /\ process_count' = process_count - 1
    /\ reg' = processes_ended
    /\ pc' = "kp_push"
    /\ UNCHANGED <<mode, threads, thread_count, last_tid, last_pid, lists, ret, tid,
                   pid, left>>

PushProcess ==
    /\ ShellAt("kp_push")
    /\ processes_ended_arr' = [processes_ended_arr EXCEPT ![reg] = pid]
    /\ pc' = "kp_count"
    /\ UNCHANGED <<mode, threads, processes, thread_count, process_count, last_tid,
                   last_pid, threads_ended_arr, threads_ended, processes_ended, ret,
                   reg, tid, pid, left>>

CountProcess ==
    /\ ShellAt("kp_count")
    /\ processes_ended' = reg + 1
    /\ pc' = "idle"
    /\ UNCHANGED <<mode, threads, processes, thread_count, process_count, last_tid,
                   last_pid, threads_ended_arr, threads_ended, processes_ended_arr,
                   ret, reg, tid, pid, left>>

-----------------------------------------------------------------------------
(* The specification.                                                      *)

\* After threading_init(): kmain2's thread exists, scheduling has not begun.
Init ==
    /\ mode = "boot"
    /\ threads = [t \in Tids |-> IF t = 0 THEN [state |-> "RUNNING", pid |-> 0,
                                               entry |-> "kmain2"] ELSE NoThread]
    /\ processes = [p \in Pids |-> IF p = 0 THEN [state |-> "RUNNING", tid0 |-> 0,
                                                 count |-> 1, phys_pd |-> TRUE]
                                  ELSE NoProcess]
    /\ thread_count = 1 /\ process_count = 1
    /\ active_tid = 0
    /\ last_run = MaxThreads - 1 /\ last_tid = 0 /\ last_pid = 0
    /\ threads_ended_arr = [i \in Tids |-> 0] /\ threads_ended = 0
    /\ processes_ended_arr = [i \in 0..(2 * MaxProcesses) |-> 0] /\ processes_ended = 0
    /\ pc = "idle" /\ ret = "cp_test"
    /\ reg = 0 /\ tid = 0 /\ pid = 0 /\ left = 0
    /\ torn = FALSE

Boot == IdeInit \/ ThreadingStart \/ Kmain2

CleanThreads == CleanThreadsTest \/ CleanThreadsDec \/ FreeThread

CleanProcesses == CleanProcessesTest \/ CleanProcessesDec \/ FreeProcess \/ FreeProcessClear

NewProcess == AllocProcess \/ ProgramSpace \/ AllocThread \/ NewThread
                  \/ ProcessRunning \/ ProcessCount

KillProcess == KillProcessMark \/ KillThread \/ KillOwnThread \/ PushThread
                   \/ CountThread \/ KillProcessEnded \/ PushProcess \/ CountProcess

\* What the shell does once a command is under way, and what starts one.
ShellStep == CleanThreads \/ CleanProcesses \/ NewProcess \/ KillProcess
Command   == Exec \/ Kill

Next == Scheduler \/ Boot \/ ThreadEnding \/ PageFault \/ Command \/ ShellStep

Spec == Init /\ [][Next]_vars

\* No user thread ends inside a window of the shell: the interleavings in which the
\* windows of the list code stay closed.
QuietSpec == Init /\ [][Next /\ ~torn']_vars

\* The timer keeps interrupting, and each time slice lets the shell execute at
\* least one statement of the command it is at; booting goes on likewise.
Fairness ==
    /\ WF_vars(Scheduler /\ ~torn') /\ SF_vars(ShellStep /\ ~torn')
    /\ WF_vars(IdeInit /\ ~torn') /\ WF_vars(ThreadingStart /\ ~torn')
    /\ SF_vars(Kmain2 /\ ~torn')

FairSpec == QuietSpec /\ Fairness

-----------------------------------------------------------------------------
(* Properties.                                                             *)

ThreadTable  == [Tids -> [state : TP_STATES, pid : Pids, entry : Entries]]
ProcessTable == [Pids -> [state : TP_STATES, tid0 : Tids, count : Int,
                          phys_pd : BOOLEAN]]
PcLabels == {"idle", "ct_test", "ct_dec", "ct_free", "cp_test", "cp_dec", "cp_free",
             "fp_clear", "np_alloc", "np_space", "nt_alloc", "nt_run", "np_run",
             "np_count", "kp_mark", "kp_loop", "kt_push", "kt_count", "kp_push",
             "kp_count"}

\* Every variable has its type; below zero only count goes (it wraps in C).
TypeOK ==
    /\ mode \in {"boot", "run", "hung"} \cup Panics
    /\ threads \in ThreadTable /\ processes \in ProcessTable
    /\ thread_count \in Int /\ process_count \in Int
    /\ active_tid \in Tids /\ last_run \in Tids /\ last_tid \in Tids
    /\ last_pid \in Pids
    /\ threads_ended_arr \in [Tids -> Tids] /\ threads_ended \in Int
    /\ processes_ended_arr \in [0..(2 * MaxProcesses) -> Pids]
    /\ processes_ended \in Int
    /\ pc \in PcLabels
    /\ ret \in {"cp_test", "fp_clear", "nt_alloc"}
    /\ reg \in Int /\ tid \in 0..MaxThreads /\ pid \in Pids /\ left \in Int
    /\ torn \in BOOLEAN

\* What the first n entries of a list hold, and that they are all different.
Listed(arr, n)   == {arr[i] : i \in 0..(n - 1)}
Distinct(arr, n) == \A i, j \in 0..(n - 1) : arr[i] = arr[j] => i = j

\* The shell has taken thread t off threads_ended_arr and not yet freed it, or has
\* marked it TP_STATE_ENDED and not yet listed it.
ThreadInHand(t) ==
    \/ pc = "ct_free" /\ t = threads_ended_arr[reg - 1]
    \/ pc \in {"kt_push", "kt_count"} /\ t = tid - 1

\* Outside the shell's windows every ended thread is on threads_ended_arr exactly
\* once, or in the shell's hands: none is lost, and none is freed twice
\* (kill_thread, free_thread and clean_threads of thread.c).
EveryEndedThreadListedOnce ==
    LET listed == Listed(threads_ended_arr, threads_ended)
    IN  ~torn => /\ Distinct(threads_ended_arr, threads_ended)
                 /\ \A t \in Tids :
                      /\ threads[t].state = "ENDED" <=> t \in listed \/ ThreadInHand(t)
                      /\ ~(t \in listed /\ ThreadInHand(t))

\* The same for a process between clean_processes or kill_process and its list.
ProcessInHand(p) ==
    \/ pc = "cp_free" /\ p = processes_ended_arr[reg - 1]
    \/ pc \in {"kp_push", "kp_count"} /\ p = pid
    \/ pc \in {"ct_test", "ct_dec", "ct_free"} /\ ret = "fp_clear" /\ p = pid
    \/ pc = "fp_clear" /\ p = pid /\ processes[p].state = "ENDED"

\* Outside the windows every ended process is on processes_ended_arr exactly once
\* or in the shell's hands (kill_process, free_process, clean_processes).
EveryEndedProcessListedOnce ==
    LET listed == Listed(processes_ended_arr, processes_ended)
    IN  ~torn => /\ Distinct(processes_ended_arr, processes_ended)
                 /\ \A p \in Pids :
                      /\ processes[p].state = "ENDED" <=> p \in listed \/ ProcessInHand(p)
                      /\ ~(p \in listed /\ ProcessInHand(p))

\* free_process() gives a page directory back only after every thread that runs on
\* it, or whose stack free_thread() still has to take out of it, is gone.
PagedirOutlivesThreads ==
    ~torn => \A t \in Tids : threads[t].state \in {"RUNNING", "ENDED"} =>
                processes[threads[t].pid].phys_pd

\* Once kill_process() or an exit is through with a process, no thread of it is
\* left running: only inside kill_process()'s loop may it have live threads.
DeadProcessHasNoLiveThread ==
    ~torn => \A t \in Tids :
        threads[t].state = "RUNNING" /\ processes[threads[t].pid].state \in Dead
            => /\ pc \in {"kp_loop", "kt_push", "kt_count"}
               /\ pid = threads[t].pid /\ processes[pid].state = "ENDING"

\* The counters the scheduler and "ps" rely on agree with the tables, whatever the
\* order of exits, kills and starts; new_process() counts the process last, when it
\* may already have ended.
CountersAgree ==
    ~torn =>
        /\ thread_count = Cardinality({t \in Tids : threads[t].state = "RUNNING"})
        /\ process_count = Cardinality({p \in Pids : processes[p].state \in
                                           {"RUNNING", "ENDING"}})
                            - (IF pc = "np_count" THEN 1 ELSE 0)

\* A user thread has the processor only while its process runs and has its page
\* directory: what was killed, even half-way, never executes again.
OnlyLiveUserThreadsRun ==
    mode = "run" /\ threads[active_tid].entry = "user" =>
        /\ threads[active_tid].state = "RUNNING"
        /\ processes[threads[active_tid].pid].state = "RUNNING"
        /\ processes[threads[active_tid].pid].phys_pd

\* None of the panic() assertions of thread.c and process.c fires as long as no
\* thread ends inside a window, nor does the scheduler's search run for ever.
NoPanicOutsideWindows == ~torn => mode \in {"boot", "run"}

\* A command that is over has left nothing half made: a failed new_process() has
\* given back its thread, its process and its page directory.
NothingHalfMade ==
    pc = "idle" /\ ~torn =>
        /\ \A t \in Tids : threads[t].state # "ALLOCED"
        /\ \A p \in Pids : /\ processes[p].state \notin {"ALLOCED", "ENDING"}
                           /\ processes[p].state = "FREE" => ~processes[p].phys_pd

\* What the rest of the kernel takes from these tables: outside the windows the counters,
\* the thread that runs, the slots a command leaves and the assertions are as they should.
TablesAgree == CountersAgree /\ OnlyLiveUserThreadsRun /\ NothingHalfMade /\ NoPanicOutsideWindows

\* The round-robin search starves no thread: one that may run gets the processor,
\* however other threads start and end.
NoStarvation ==
    \A t \in Tids :
        mode = "run" /\ Runnable(threads, processes, t)
            ~> active_tid = t \/ ~Runnable(threads, processes, t)

\* Booting reaches the shell, and every exec and kill it starts comes to its end.
CommandsComplete == <>Started("run_sh") /\ (pc # "idle" ~> pc = "idle")

\* The tables implement ProcessLifecycle.
NoOwner == -1
Lifecycle == INSTANCE ProcessLifecycle WITH
    Thread <- Tids, Process <- Pids, Kernel <- 0, None <- NoOwner,
    process <- [p \in Pids |->
                  CASE processes[p].state \in {"FREE", "ALLOCED"} -> "free"
                    [] processes[p].state = "RUNNING" -> "live"
                    [] OTHER -> "dead"],
    owner <- [t \in Tids |->
                  IF \/ threads[t].state \in {"FREE", "ALLOCED"}
                     \/ processes[threads[t].pid].state = "ALLOCED"
                  THEN NoOwner ELSE threads[t].pid]

ImplementsLifecycle == Lifecycle!Spec

-----------------------------------------------------------------------------
(* Assertions of the code, as it states them.                              *)

\* "free_thread: not ended!": only ended threads are freed.
FreesOnlyEndedThreads == mode # "free_thread: not ended!"
=============================================================================
