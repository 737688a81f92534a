------------------------- MODULE Multitasking_proof -------------------------
(***************************************************************************)
(* Theorems about Multitasking for every number of threads and processes.  *)
(* IInv holds until a user thread ends inside a window of the shell, from  *)
(* where it fails (run multitasking_thread_race).  Assumed is              *)
(* KernelNotKilled: the shell is not told to kill process 0, its own.      *)
(***************************************************************************)
EXTENDS Multitasking, FiniteSetTheorems, WellFoundedInduction, TLAPS

\* The assumption about the user of the shell.
KernelNotKilled == 0 \notin Killable

-----------------------------------------------------------------------------
(* The inductive invariant.                                                *)

\* The fields of the tables, by operators of their own: the provers then reason
\* about plain functions and not about records in arrays.
State(t)  == threads[t].state
Owner(t)  == threads[t].pid
Entry(t)  == threads[t].entry
PState(p) == processes[p].state
Count(p)  == processes[p].count
HasPd(p)  == processes[p].phys_pd

Cleaning == pc \in {"ct_test", "ct_dec", "ct_free"}
Starting == \/ pc \in {"np_space", "nt_alloc", "nt_run", "np_run"}
            \/ Cleaning /\ ret = "nt_alloc"
Killing  == pc \in {"kp_loop", "kt_push", "kt_count"}
Alive(t) == State(t) \in {"RUNNING", "ENDED"}

Types ==
    /\ TypeOK
    /\ ~torn
    /\ threads_ended \in 0..MaxThreads /\ processes_ended \in 0..MaxProcesses

\* What the shell's copy of a list's length is worth, statement by statement.
Registers ==
    /\ pc = "ct_dec" => reg = threads_ended /\ reg >= 1
    /\ pc = "ct_free" => reg = threads_ended + 1 /\ reg <= MaxThreads
    /\ pc \in {"kt_push", "kt_count"} => reg = threads_ended /\ tid \in 1..MaxThreads
    /\ pc = "kt_count" => reg < MaxThreads /\ threads_ended_arr[reg] = tid - 1
    /\ pc = "cp_dec" => reg = processes_ended /\ reg >= 1
    /\ pc = "cp_free" => reg = processes_ended + 1 /\ reg <= MaxProcesses
    /\ pc \in {"kp_push", "kp_count"} => reg = processes_ended
    /\ pc = "kp_count" => reg < MaxProcesses /\ processes_ended_arr[reg] = pid

\* What a thread slot holds in each state, and which process it belongs to.
ThreadSlots ==
    /\ PState(0) = "RUNNING" /\ HasPd(0)
    /\ \A t \in Tids :
        /\ State(t) # "ENDING"
        /\ ~Alive(t) => Owner(t) = 0 /\ Entry(t) = "none"
        /\ Alive(t) => (Entry(t) = "user" <=> Owner(t) # 0)
        /\ State(t) = "ENDED" => Entry(t) = "user" /\ PState(Owner(t)) \in {"ENDED", "ENDING"}
        /\ State(t) = "ALLOCED" => pc = "nt_run" /\ t = tid
        /\ Alive(t) /\ PState(Owner(t)) = "ALLOCED" => pc = "np_run" /\ t = tid
    /\ \A t, u \in Tids :
        Alive(t) /\ Alive(u) /\ Owner(t) # 0 /\ Owner(t) = Owner(u) => t = u

\* new_process() at work.
Start ==
    /\ Starting => PState(pid) = "ALLOCED"
    /\ Starting /\ pc # "np_space" => HasPd(pid)
    /\ \A p \in Pids : PState(p) = "ALLOCED" => p = pid /\ (Starting \/ pc = "fp_clear")
    /\ pc = "nt_run" => tid \in Tids /\ State(tid) = "ALLOCED"
    /\ pc = "np_run" => /\ tid \in Tids /\ State(tid) = "RUNNING" /\ Owner(tid) = pid
                        /\ Entry(tid) = "user"

\* How many threads a process counts: the new one none and then its one thread,
\* a running one its one thread.
Counts ==
    /\ Starting => Count(pid) = IF pc = "np_run" THEN 1 ELSE 0
    /\ \A p \in Pids \ {0} : PState(p) = "RUNNING" => Count(p) = 1

\* kill_process() at work: its loop misses no thread of the process.
Kills ==
    /\ pc = "kp_mark" => PState(pid) = "RUNNING" /\ pid # 0
    /\ Killing => pid # 0
    /\ \A p \in Pids : PState(p) = "ENDING" <=> Killing /\ p = pid
    /\ Killing => \A t \in Tids : State(t) = "RUNNING" /\ Owner(t) = pid =>
                      pc = "kp_loop" /\ left = 1 /\ t >= tid

\* free_process() at work.
Frees ==
    /\ Cleaning /\ ret = "fp_clear" => PState(pid) = "ENDED"
    /\ pc = "fp_clear" => /\ PState(pid) \in {"ENDED", "ALLOCED"}
                          /\ \A t \in Tids : Alive(t) => Owner(t) # pid

\* The user thread that has the processor is one of a running process.
ActiveUser ==
    mode = "run" /\ Entry(active_tid) = "user" /\ State(active_tid) = "RUNNING"
        => PState(Owner(active_tid)) = "RUNNING"

NoPanic == mode \notin Panics

\* The four properties to prove, where no thread has ended in a window.
ThreadLists ==
    LET listed == Listed(threads_ended_arr, threads_ended)
    IN  /\ Distinct(threads_ended_arr, threads_ended)
        /\ \A t \in Tids : /\ State(t) = "ENDED" <=> t \in listed \/ ThreadInHand(t)
                           /\ ~(t \in listed /\ ThreadInHand(t))

ProcessHeld(p) ==
    \/ pc = "cp_free" /\ p = processes_ended_arr[reg - 1]
    \/ pc \in {"kp_push", "kp_count"} /\ p = pid
    \/ Cleaning /\ ret = "fp_clear" /\ p = pid
    \/ pc = "fp_clear" /\ p = pid /\ PState(p) = "ENDED"

ProcessLists ==
    LET listed == Listed(processes_ended_arr, processes_ended)
    IN  /\ Distinct(processes_ended_arr, processes_ended)
        /\ \A p \in Pids : /\ PState(p) = "ENDED" <=> p \in listed \/ ProcessHeld(p)
                           /\ ~(p \in listed /\ ProcessHeld(p))

Pagedirs == \A t \in Tids : Alive(t) => HasPd(Owner(t))

DeadQuiet ==
    \A t \in Tids : State(t) = "RUNNING" /\ PState(Owner(t)) \in Dead
        => Killing /\ pid = Owner(t) /\ PState(pid) = "ENDING"

IInv ==
    /\ Types /\ Registers /\ ThreadSlots /\ Start /\ Counts /\ Kills /\ Frees
    /\ ActiveUser /\ NoPanic
    /\ ThreadLists /\ ProcessLists /\ Pagedirs /\ DeadQuiet

\* What the types say, for the steps below.
Facts ==
    /\ MaxThreads \in Nat /\ MaxProcesses \in Nat /\ 0 \in Tids /\ 0 \in Pids /\ ~torn
    /\ active_tid \in Tids /\ tid \in 0..MaxThreads /\ pid \in Pids
    /\ reg \in Int /\ left \in Int /\ ret \in {"cp_test", "fp_clear", "nt_alloc"}
    /\ threads_ended \in 0..MaxThreads /\ processes_ended \in 0..MaxProcesses
    /\ threads_ended_arr \in [Tids -> Tids]
    /\ processes_ended_arr \in [0..(2 * MaxProcesses) -> Pids]
    /\ threads \in ThreadTable /\ processes \in ProcessTable
    /\ \A t \in Tids : State(t) \in TP_STATES /\ Owner(t) \in Pids /\ Entry(t) \in Entries
    /\ \A p \in Pids : PState(p) \in TP_STATES /\ Count(p) \in Int

LEMMA TypeFacts == Types => Facts
<1> SUFFICES ASSUME Types PROVE Facts
  OBVIOUS
<1>1. \A t \in Tids : State(t) \in TP_STATES /\ Owner(t) \in Pids /\ Entry(t) \in Entries
  BY DEF Types, TypeOK, ThreadTable, State, Owner, Entry
<1>2. \A p \in Pids : PState(p) \in TP_STATES /\ Count(p) \in Int
  BY DEF Types, TypeOK, ProcessTable, PState, Count
<1>3. 0 \in Tids /\ 0 \in Pids /\ MaxThreads \in Nat /\ MaxProcesses \in Nat
  BY SizeAssumption DEF Tids, Pids
<1> QED BY <1>1, <1>2, <1>3 DEF Types, TypeOK, Facts

LEMMA FreeSlot == \A t \in FreeSlots(threads) : t \in Tids /\ State(t) = "FREE"
  BY DEF FreeSlots, State

LEMMA NotPanics == Panics \cap {"boot", "run", "hung"} = {}
  BY DEF Panics

-----------------------------------------------------------------------------
(* What an assignment to a table changes.                                  *)

LEMMA SameThreads ==
  ASSUME threads' = threads
  PROVE  \A t \in Tids : State(t)' = State(t) /\ Owner(t)' = Owner(t) /\ Entry(t)' = Entry(t)
  BY DEF State, Owner, Entry

LEMMA SameProcesses ==
  ASSUME processes' = processes
  PROVE  \A p \in Pids : /\ PState(p)' = PState(p) /\ Count(p)' = Count(p)
                         /\ HasPd(p)' <=> HasPd(p)
  BY DEF PState, Count, HasPd

LEMMA SetThread ==
  ASSUME threads \in ThreadTable, NEW t \in Tids,
         NEW r \in [state : TP_STATES, pid : Pids, entry : Entries],
         threads' = [threads EXCEPT ![t] = r]
  PROVE  /\ threads' \in ThreadTable
         /\ State(t)' = r.state /\ Owner(t)' = r.pid /\ Entry(t)' = r.entry
         /\ \A u \in Tids : u # t =>
              State(u)' = State(u) /\ Owner(u)' = Owner(u) /\ Entry(u)' = Entry(u)
  BY DEF ThreadTable, State, Owner, Entry

LEMMA EndThread ==
  ASSUME threads \in ThreadTable, NEW t \in Tids,
         threads' = [threads EXCEPT ![t].state = "ENDED"]
  PROVE  /\ threads' \in ThreadTable
         /\ State(t)' = "ENDED" /\ Owner(t)' = Owner(t) /\ Entry(t)' = Entry(t)
         /\ \A u \in Tids : u # t =>
              State(u)' = State(u) /\ Owner(u)' = Owner(u) /\ Entry(u)' = Entry(u)
  BY DEF ThreadTable, State, Owner, Entry, TP_STATES

LEMMA SetProcess ==
  ASSUME processes \in ProcessTable, NEW p \in Pids,
         NEW r \in [state : TP_STATES, tid0 : Tids, count : Int, phys_pd : BOOLEAN],
         processes' = [processes EXCEPT ![p] = r]
  PROVE  /\ processes' \in ProcessTable
         /\ PState(p)' = r.state /\ Count(p)' = r.count /\ (HasPd(p)' <=> r.phys_pd)
         /\ \A q \in Pids : q # p =>
              PState(q)' = PState(q) /\ Count(q)' = Count(q) /\ (HasPd(q)' <=> HasPd(q))
  BY DEF ProcessTable, PState, Count, HasPd

LEMMA SetProcessState ==
  ASSUME processes \in ProcessTable, NEW p \in Pids, NEW s \in TP_STATES,
         processes' = [processes EXCEPT ![p].state = s]
  PROVE  /\ processes' \in ProcessTable
         /\ PState(p)' = s /\ Count(p)' = Count(p) /\ (HasPd(p)' <=> HasPd(p))
         /\ \A q \in Pids : q # p =>
              PState(q)' = PState(q) /\ Count(q)' = Count(q) /\ (HasPd(q)' <=> HasPd(q))
  BY DEF ProcessTable, PState, Count, HasPd

LEMMA IncCount ==
  ASSUME processes \in ProcessTable, NEW p \in Pids,
         processes' = [processes EXCEPT ![p].count = @ + 1]
  PROVE  /\ processes' \in ProcessTable
         /\ PState(p)' = PState(p) /\ Count(p)' = Count(p) + 1 /\ (HasPd(p)' <=> HasPd(p))
         /\ \A q \in Pids : q # p =>
              PState(q)' = PState(q) /\ Count(q)' = Count(q) /\ (HasPd(q)' <=> HasPd(q))
  BY DEF ProcessTable, PState, Count, HasPd

LEMMA DecCount ==
  ASSUME processes \in ProcessTable, NEW p \in Pids,
         processes' = [processes EXCEPT ![p].count = @ - 2]
  PROVE  /\ processes' \in ProcessTable
         /\ PState(p)' = PState(p) /\ Count(p)' = Count(p) - 2 /\ (HasPd(p)' <=> HasPd(p))
         /\ \A q \in Pids : q # p =>
              PState(q)' = PState(q) /\ Count(q)' = Count(q) /\ (HasPd(q)' <=> HasPd(q))
  BY DEF ProcessTable, PState, Count, HasPd

-----------------------------------------------------------------------------
(* The lists: arrays of which the first n entries count.                   *)

\* Distinct members of 0..(N-1), x not among them, leave room for one more.
LEMMA Room ==
  ASSUME NEW N \in Nat, NEW n \in Nat, NEW arr, Distinct(arr, n),
         \A i \in 0..(n - 1) : arr[i] \in 0..(N - 1),
         NEW x \in 0..(N - 1), x \notin Listed(arr, n)
  PROVE  n < N
<1> DEFINE I == 0..(n - 1)
           T == (0..(N - 1)) \ {x}
           f == [i \in I |-> arr[i]]
<1>1. IsFiniteSet(I) /\ Cardinality(I) = n
  BY FS_Interval
<1>2. IsFiniteSet(T) /\ Cardinality(T) = N - 1
  <2>1. IsFiniteSet(0..(N - 1)) /\ Cardinality(0..(N - 1)) = N
    <3>1. 0 \in Int /\ N - 1 \in Int /\ ~(0 > N - 1) /\ N - 1 - 0 + 1 = N
      OBVIOUS
    <3> QED BY <3>1, FS_Interval
  <2> QED BY <2>1, FS_RemoveElement, ZenonT(60)
<1>3. f \in [I -> T] /\ \A i \in I : f[i] = arr[i]
  <2>1. \A i \in I : arr[i] # x
    BY DEF Listed
  <2>2. \A i \in I : arr[i] \in T
    BY <2>1
  <2> QED BY <2>2
<1>4. ~(Cardinality(T) < Cardinality(I))
  <2> SUFFICES ASSUME Cardinality(T) < Cardinality(I) PROVE FALSE
    OBVIOUS
  <2> HIDE DEF I, T, f
  <2>1. \E i, j \in I : i # j /\ f[i] = f[j]
    BY <1>1, <1>2, <1>3, FS_PigeonHole
  <2> QED BY <2>1, <1>3 DEF Distinct, I
<1> QED BY <1>1, <1>2, <1>4

\* Writing x behind the last entry and counting it adds x.
LEMMA Push ==
  ASSUME NEW D, NEW R, NEW arr \in [D -> R], NEW n \in Nat, n \in D,
         0..(n - 1) \subseteq D, NEW x, Distinct(arr, n), x \notin Listed(arr, n),
         NEW arr2, arr2 = [arr EXCEPT ![n] = x]
  PROVE  /\ Listed(arr2, n + 1) = Listed(arr, n) \cup {x}
         /\ Distinct(arr2, n + 1)
<1>1. \A i \in 0..(n - 1) : arr2[i] = arr[i]
  OBVIOUS
<1>2. arr2[n] = x
  OBVIOUS
<1>3. 0..(n + 1 - 1) = (0..(n - 1)) \cup {n}
  OBVIOUS
<1>4. Listed(arr2, n + 1) = Listed(arr, n) \cup {x}
  BY <1>1, <1>2, <1>3 DEF Listed
<1>5. Distinct(arr2, n + 1)
  BY <1>1, <1>2, <1>3 DEF Listed, Distinct
<1> QED BY <1>4, <1>5

\* Counting the entry behind the last one adds it.
LEMMA CountOne ==
  ASSUME NEW arr, NEW n \in Nat, Distinct(arr, n), arr[n] \notin Listed(arr, n)
  PROVE  /\ Listed(arr, n + 1) = Listed(arr, n) \cup {arr[n]}
         /\ Distinct(arr, n + 1)
<1>1. 0..(n + 1 - 1) = (0..(n - 1)) \cup {n}
  OBVIOUS
<1>2. Listed(arr, n + 1) = Listed(arr, n) \cup {arr[n]}
  BY <1>1 DEF Listed
<1>3. Distinct(arr, n + 1)
  BY <1>1 DEF Listed, Distinct
<1> QED BY <1>2, <1>3

\* What is written behind the last entry does not count yet.
LEMMA Write ==
  ASSUME NEW D, NEW R, NEW arr \in [D -> R], NEW n \in Nat, NEW x
  PROVE  LET arr2 == [arr EXCEPT ![n] = x]
         IN  /\ 0..(n - 1) \subseteq D => Listed(arr2, n) = Listed(arr, n)
             /\ 0..(n - 1) \subseteq D /\ Distinct(arr, n) => Distinct(arr2, n)
  BY DEF Listed, Distinct

\* Counting one entry less takes the last one off.
LEMMA Pop ==
  ASSUME NEW arr, NEW n \in Nat, n >= 1, Distinct(arr, n)
  PROVE  /\ Listed(arr, n - 1) = Listed(arr, n) \ {arr[n - 1]}
         /\ arr[n - 1] \in Listed(arr, n)
         /\ Distinct(arr, n - 1)
<1>1. 0..(n - 1) = (0..(n - 1 - 1)) \cup {n - 1}
  OBVIOUS
<1>2. arr[n - 1] \in Listed(arr, n)
  BY <1>1 DEF Listed
<1>3. Listed(arr, n - 1) = Listed(arr, n) \ {arr[n - 1]}
  BY <1>1 DEF Listed, Distinct
<1>4. Distinct(arr, n - 1)
  BY <1>1 DEF Distinct
<1> QED BY <1>2, <1>3, <1>4

\* The kernel's list has room for one more.
LEMMA ThreadRoom ==
  ASSUME Facts, ThreadLists, NEW x \in Tids, x \notin Listed(threads_ended_arr, threads_ended)
  PROVE  threads_ended < MaxThreads
<1>1. MaxThreads \in Nat /\ threads_ended \in Nat /\ x \in 0..(MaxThreads - 1)
  BY DEF Facts, Tids
<1>2. \A i \in 0..(threads_ended - 1) : threads_ended_arr[i] \in 0..(MaxThreads - 1)
  <2>1. \A i \in 0..(threads_ended - 1) : i \in Tids
    BY DEF Facts, Tids
  <2>2. threads_ended_arr \in [Tids -> Tids]
    BY DEF Facts
  <2> QED BY <2>1, <2>2 DEF Tids
<1>3. Distinct(threads_ended_arr, threads_ended)
  BY DEF ThreadLists
<1> QED BY <1>1, <1>2, <1>3, Room

\* The kernel's list has room for one more.
LEMMA ProcessRoom ==
  ASSUME Facts, ProcessLists, NEW x \in Pids, x \notin Listed(processes_ended_arr, processes_ended)
  PROVE  processes_ended < MaxProcesses
<1>1. MaxProcesses \in Nat /\ processes_ended \in Nat /\ x \in 0..(MaxProcesses - 1)
  BY DEF Facts, Pids
<1>2. \A i \in 0..(processes_ended - 1) : processes_ended_arr[i] \in 0..(MaxProcesses - 1)
  <2>1. \A i \in 0..(processes_ended - 1) : i \in 0..(2 * MaxProcesses)
    BY DEF Facts, Pids
  <2>2. processes_ended_arr \in [0..(2 * MaxProcesses) -> Pids]
    BY DEF Facts
  <2> QED BY <2>1, <2>2 DEF Pids
<1>3. Distinct(processes_ended_arr, processes_ended)
  BY DEF ProcessLists
<1> QED BY <1>1, <1>2, <1>3, Room

\* An empty list holds nothing.
LEMMA Empty == ASSUME NEW arr PROVE Listed(arr, 0) = {} /\ Distinct(arr, 0)
  BY DEF Listed, Distinct

-----------------------------------------------------------------------------
(* Booting, and the scheduler.                                             *)

LEMMA IdeInitInv == ASSUME IInv, IdeInit, ~torn'
  PROVE  IInv'
<1>i. /\ Types /\ Registers /\ ThreadSlots /\ Start /\ Counts /\ Kills /\ Frees
      /\ ActiveUser /\ NoPanic /\ ThreadLists /\ ProcessLists /\ Pagedirs /\ DeadQuiet
  BY DEF IInv
<1>f. Facts
  BY <1>i, TypeFacts
<1>1. PICK t \in Tids : /\ State(t) = "FREE" /\ last_tid' = t
                         /\ threads' = [threads EXCEPT ![t] = [state |-> "RUNNING",
                                            pid |-> 0, entry |-> "ide_polling"]]
                         /\ processes' = [processes EXCEPT ![0].count = @ + 1]
                         /\ thread_count' \in Int
  <2>1. thread_count + 1 \in Int
    BY <1>i DEF Types, TypeOK
  <2> QED BY <2>1, FreeSlot DEF IdeInit, NewKernelThread
<1>2. /\ threads' \in ThreadTable 
      /\ State(t)' = "RUNNING" /\ Owner(t)' = 0 /\ Entry(t)' = "ide_polling"
      /\ \A u \in Tids : u # t =>
           State(u)' = State(u) /\ Owner(u)' = Owner(u) /\ Entry(u)' = Entry(u)
  BY <1>f, <1>1 DEF Facts, ThreadTable, State, Owner, Entry, TP_STATES, Entries
<1>3. /\ processes' \in ProcessTable 
      /\ PState(0)' = PState(0) /\ Count(0)' = Count(0) + 1 /\ (HasPd(0)' <=> HasPd(0))
      /\ \A q \in Pids : q # 0 =>
           PState(q)' = PState(q) /\ Count(q)' = Count(q) /\ (HasPd(q)' <=> HasPd(q))
  <2>1. processes \in ProcessTable /\ 0 \in Pids
    BY <1>f DEF Facts
  <2> QED BY <1>1, <2>1, IncCount
<1>e. /\ last_tid' = t /\ t \in Tids /\ State(t) = "FREE" /\ thread_count' \in Int
      /\ threads' \in ThreadTable 
      /\ State(t)' = "RUNNING" /\ Owner(t)' = 0 /\ Entry(t)' = "ide_polling"
      /\ \A u \in Tids : u # t =>
           State(u)' = State(u) /\ Owner(u)' = Owner(u) /\ Entry(u)' = Entry(u)
      /\ processes' \in ProcessTable 
      /\ PState(0)' = PState(0) /\ Count(0)' = Count(0) + 1 /\ (HasPd(0)' <=> HasPd(0))
      /\ \A q \in Pids : q # 0 =>
           PState(q)' = PState(q) /\ Count(q)' = Count(q) /\ (HasPd(q)' <=> HasPd(q))
      /\ UNCHANGED << mode, process_count, active_tid, last_run, last_pid,
                      threads_ended_arr, threads_ended, processes_ended_arr,
                      processes_ended, pc, ret, reg, tid, pid, left, torn>>
  BY <1>1, <1>2, <1>3 DEF IdeInit, NewKernelThread, lists, locals
<1>Types. Types'
  BY <1>i, <1>f, <1>e, NotPanics, SMTT(60) DEF Types, TypeOK, PcLabels, Facts
<1>Registers. Registers'
  BY <1>i, <1>f, <1>e, NotPanics DEF Registers, Facts
<1>ThreadSlots. ThreadSlots'
  <2> DEFINE slot(v) ==
        /\ State(v) # "ENDING"
        /\ ~Alive(v) => Owner(v) = 0 /\ Entry(v) = "none"
        /\ Alive(v) => (Entry(v) = "user" <=> Owner(v) # 0)
        /\ State(v) = "ENDED" =>
             Entry(v) = "user" /\ PState(Owner(v)) \in {"ENDED", "ENDING"}
        /\ State(v) = "ALLOCED" => pc = "nt_run" /\ v = tid
        /\ Alive(v) /\ PState(Owner(v)) = "ALLOCED" => pc = "np_run" /\ v = tid
  <2>1. (PState(0) = "RUNNING" /\ HasPd(0))'
    BY <1>i, <1>f, <1>e DEF ThreadSlots, Facts
  <2>2. ASSUME NEW u \in Tids PROVE slot(u)'
    BY <1>i, <1>f, <1>e, SMTT(60)
      DEF ThreadSlots, Alive, Start, Starting, Cleaning, Kills, Killing, Facts
  <2>3. \A u, v \in Tids :
          (Alive(u) /\ Alive(v) /\ Owner(u) # 0 /\ Owner(u) = Owner(v))' => u = v
    <3>1. \A u \in Tids : Alive(u)' /\ Owner(u)' # 0 => Alive(u) /\ Owner(u)' = Owner(u)
      BY <1>e DEF Alive
    <3> QED BY <1>i, <3>1 DEF ThreadSlots
  <2> QED BY <2>1, <2>2, <2>3 DEF ThreadSlots
<1>Start. Start'
  BY <1>i, <1>f, <1>e, NotPanics DEF Start, Starting, Cleaning, Facts
<1>Counts. Counts'
  BY <1>i, <1>f, <1>e DEF Counts, Starting, Cleaning, Start, ThreadSlots, Alive, Facts
<1>Kills. Kills'
  BY <1>i, <1>f, <1>e, NotPanics DEF Kills, Killing, Facts
<1>Frees. Frees'
  BY <1>i, <1>f, <1>e, ZenonT(60)
    DEF Frees, Cleaning, Alive, Start, Starting, Kills, Killing, ThreadSlots, DeadQuiet,
          Dead, Facts
<1>ActiveUser. ActiveUser'
  BY <1>i, <1>f, <1>e, NotPanics DEF ActiveUser, Facts
<1>NoPanic. NoPanic'
  BY <1>i, <1>f, <1>e, NotPanics DEF NoPanic, Facts
<1>ThreadLists. ThreadLists'
  BY <1>i, <1>f, <1>e, NotPanics DEF ThreadLists, ThreadInHand, Facts
<1>ProcessLists. ProcessLists'
  BY <1>i, <1>f, <1>e, NotPanics, SMTT(60) DEF ProcessLists, ProcessHeld, Cleaning, Facts
<1>Pagedirs. Pagedirs'
  BY <1>i, <1>f, <1>e, ZenonT(60)
    DEF Pagedirs, Alive, ThreadSlots, Start, Starting, Cleaning, Frees, Facts
<1>DeadQuiet. DeadQuiet'
  BY <1>i, <1>f, <1>e, SMTT(60)
    DEF DeadQuiet, Killing, Dead, ThreadSlots, Alive, Kills, Start, Starting, Cleaning,
          Facts
<1> QED
  BY <1>Types, <1>Registers, <1>ThreadSlots, <1>Start, <1>Counts, <1>Kills, <1>Frees,
       <1>ActiveUser, <1>NoPanic, <1>ThreadLists, <1>ProcessLists, <1>Pagedirs,
       <1>DeadQuiet DEF IInv

LEMMA ThreadingStartInv == ASSUME IInv, ThreadingStart, ~torn'
  PROVE  IInv'
<1>i. /\ Types /\ Registers /\ ThreadSlots /\ Start /\ Counts /\ Kills /\ Frees
      /\ ActiveUser /\ NoPanic /\ ThreadLists /\ ProcessLists /\ Pagedirs /\ DeadQuiet
  BY DEF IInv
<1>f. Facts
  BY <1>i, TypeFacts
<1>1. /\ \/ mode' = "hung" /\ UNCHANGED <<active_tid, last_run>>
         \/ /\ active_tid' \in Found(threads, processes) /\ last_run' = active_tid'
            /\ mode' = "run"
         \/ UNCHANGED <<mode, active_tid, last_run>>
      /\ \A t \in Found(threads, processes) :
            t \in Tids /\ State(t) = "RUNNING" /\ PState(Owner(t)) = "RUNNING"
      /\ last_run \in Tids
  BY <1>i
    DEF ThreadingStart, SelectNextThread, Found, Runnable, Types, TypeOK, State, Owner,
        PState
<1>e. /\ mode' \in {mode, "run", "hung"}
      /\ active_tid' \in Tids /\ last_run' \in Tids
      /\ \/ active_tid' = active_tid /\ mode' # "run"
         \/ active_tid' = active_tid /\ mode' = mode
         \/ State(active_tid') = "RUNNING" /\ PState(Owner(active_tid')) = "RUNNING" 
      /\ \A u \in Tids :
           State(u)' = State(u) /\ Owner(u)' = Owner(u) /\ Entry(u)' = Entry(u)
      /\ \A q \in Pids :
           PState(q)' = PState(q) /\ Count(q)' = Count(q) /\ (HasPd(q)' <=> HasPd(q))
      /\ UNCHANGED << threads, processes, thread_count, process_count, last_tid,
                      last_pid, threads_ended_arr, threads_ended, processes_ended_arr,
                      processes_ended, pc, ret, reg, tid, pid, left, torn>>
  BY <1>1, <1>f, SameThreads, SameProcesses
    DEF ThreadingStart, lists, locals, Facts, State, Owner, PState
<1>Types. Types'
  BY <1>i, <1>e DEF Types, TypeOK, PcLabels
<1>Registers. Registers'
  BY <1>i, <1>e DEF Registers
<1>ThreadSlots. ThreadSlots'
  BY <1>i, <1>f, <1>e, NotPanics DEF ThreadSlots, Alive, Facts
<1>Start. Start'
  BY <1>i, <1>f, <1>e, NotPanics DEF Start, Starting, Cleaning, Facts
<1>Counts. Counts'
  BY <1>i, <1>f, <1>e, NotPanics DEF Counts, Starting, Cleaning, Facts
<1>Kills. Kills'
  BY <1>i, <1>f, <1>e, NotPanics DEF Kills, Killing, Facts
<1>Frees. Frees'
  BY <1>i, <1>f, <1>e, NotPanics DEF Frees, Cleaning, Alive, Facts
<1>ActiveUser. ActiveUser'
  BY <1>i, <1>f, <1>e, NotPanics DEF ActiveUser, Facts
<1>NoPanic. NoPanic'
  BY <1>i, <1>f, <1>e, NotPanics DEF NoPanic, Facts
<1>ThreadLists. ThreadLists'
  BY <1>i, <1>e DEF ThreadLists, ThreadInHand
<1>ProcessLists. ProcessLists'
  BY <1>i, <1>e DEF ProcessLists, ProcessHeld, Cleaning
<1>Pagedirs. Pagedirs'
  BY <1>i, <1>f, <1>e, NotPanics DEF Pagedirs, Alive, Facts
<1>DeadQuiet. DeadQuiet'
  BY <1>i, <1>f, <1>e, NotPanics DEF DeadQuiet, Killing, Dead, Facts
<1> QED
  BY <1>Types, <1>Registers, <1>ThreadSlots, <1>Start, <1>Counts, <1>Kills, <1>Frees,
       <1>ActiveUser, <1>NoPanic, <1>ThreadLists, <1>ProcessLists, <1>Pagedirs,
       <1>DeadQuiet DEF IInv

LEMMA Kmain2Inv == ASSUME IInv, Kmain2, ~torn'
  PROVE  IInv'
<1>i. /\ Types /\ Registers /\ ThreadSlots /\ Start /\ Counts /\ Kills /\ Frees
      /\ ActiveUser /\ NoPanic /\ ThreadLists /\ ProcessLists /\ Pagedirs /\ DeadQuiet
  BY DEF IInv
<1>f. Facts
  BY <1>i, TypeFacts
<1>1. PICK t \in Tids : /\ State(t) = "FREE" /\ last_tid' = t
                         /\ threads' = [threads EXCEPT ![t] = [state |-> "RUNNING",
                                            pid |-> 0, entry |-> "run_sh"]]
                         /\ processes' = [processes EXCEPT ![0].count = @ + 1]
                         /\ thread_count' \in Int
  <2>1. thread_count + 1 \in Int
    BY <1>i DEF Types, TypeOK
  <2> QED BY <2>1, FreeSlot DEF Kmain2, NewKernelThread
<1>2. /\ threads' \in ThreadTable 
      /\ State(t)' = "RUNNING" /\ Owner(t)' = 0 /\ Entry(t)' = "run_sh"
      /\ \A u \in Tids : u # t =>
           State(u)' = State(u) /\ Owner(u)' = Owner(u) /\ Entry(u)' = Entry(u)
  BY <1>f, <1>1 DEF Facts, ThreadTable, State, Owner, Entry, TP_STATES, Entries
<1>3. /\ processes' \in ProcessTable 
      /\ PState(0)' = PState(0) /\ Count(0)' = Count(0) + 1 /\ (HasPd(0)' <=> HasPd(0))
      /\ \A q \in Pids : q # 0 =>
           PState(q)' = PState(q) /\ Count(q)' = Count(q) /\ (HasPd(q)' <=> HasPd(q))
  <2>1. processes \in ProcessTable /\ 0 \in Pids
    BY <1>f DEF Facts
  <2> QED BY <1>1, <2>1, IncCount
<1>e. /\ last_tid' = t /\ t \in Tids /\ State(t) = "FREE" /\ thread_count' \in Int
      /\ threads' \in ThreadTable 
      /\ State(t)' = "RUNNING" /\ Owner(t)' = 0 /\ Entry(t)' = "run_sh"
      /\ \A u \in Tids : u # t =>
           State(u)' = State(u) /\ Owner(u)' = Owner(u) /\ Entry(u)' = Entry(u)
      /\ processes' \in ProcessTable 
      /\ PState(0)' = PState(0) /\ Count(0)' = Count(0) + 1 /\ (HasPd(0)' <=> HasPd(0))
      /\ \A q \in Pids : q # 0 =>
           PState(q)' = PState(q) /\ Count(q)' = Count(q) /\ (HasPd(q)' <=> HasPd(q))
      /\ UNCHANGED << mode, process_count, active_tid, last_run, last_pid,
                      threads_ended_arr, threads_ended, processes_ended_arr,
                      processes_ended, pc, ret, reg, tid, pid, left, torn>>
  BY <1>1, <1>2, <1>3 DEF Kmain2, NewKernelThread, lists, locals
<1>Types. Types'
  BY <1>i, <1>f, <1>e, NotPanics, ZenonT(60) DEF Types, TypeOK, PcLabels, Facts
<1>Registers. Registers'
  BY <1>i, <1>f, <1>e, NotPanics DEF Registers, Facts
<1>ThreadSlots. ThreadSlots'
  <2> DEFINE slot(v) ==
        /\ State(v) # "ENDING"
        /\ ~Alive(v) => Owner(v) = 0 /\ Entry(v) = "none"
        /\ Alive(v) => (Entry(v) = "user" <=> Owner(v) # 0)
        /\ State(v) = "ENDED" =>
             Entry(v) = "user" /\ PState(Owner(v)) \in {"ENDED", "ENDING"}
        /\ State(v) = "ALLOCED" => pc = "nt_run" /\ v = tid
        /\ Alive(v) /\ PState(Owner(v)) = "ALLOCED" => pc = "np_run" /\ v = tid
  <2>1. (PState(0) = "RUNNING" /\ HasPd(0))'
    BY <1>i, <1>f, <1>e DEF ThreadSlots, Facts
  <2>2. ASSUME NEW u \in Tids PROVE slot(u)'
    BY <1>i, <1>f, <1>e, SMTT(60)
      DEF ThreadSlots, Alive, Start, Starting, Cleaning, Kills, Killing, Facts
  <2>3. \A u, v \in Tids :
          (Alive(u) /\ Alive(v) /\ Owner(u) # 0 /\ Owner(u) = Owner(v))' => u = v
    <3>1. \A u \in Tids : Alive(u)' /\ Owner(u)' # 0 => Alive(u) /\ Owner(u)' = Owner(u)
      BY <1>e DEF Alive
    <3> QED BY <1>i, <3>1 DEF ThreadSlots
  <2> QED BY <2>1, <2>2, <2>3 DEF ThreadSlots
<1>Start. Start'
  BY <1>i, <1>f, <1>e, NotPanics, SMTT(60) DEF Start, Starting, Cleaning, Facts
<1>Counts. Counts'
  BY <1>i, <1>f, <1>e DEF Counts, Starting, Cleaning, Start, ThreadSlots, Alive, Facts
<1>Kills. Kills'
  BY <1>i, <1>f, <1>e, NotPanics DEF Kills, Killing, Facts
<1>Frees. Frees'
  BY <1>i, <1>f, <1>e, ZenonT(60)
    DEF Frees, Cleaning, Alive, Start, Starting, Kills, Killing, ThreadSlots, DeadQuiet,
          Dead, Facts
<1>ActiveUser. ActiveUser'
  BY <1>i, <1>f, <1>e, NotPanics DEF ActiveUser, Facts
<1>NoPanic. NoPanic'
  BY <1>i, <1>f, <1>e, NotPanics DEF NoPanic, Facts
<1>ThreadLists. ThreadLists'
  BY <1>i, <1>f, <1>e, NotPanics DEF ThreadLists, ThreadInHand, Facts
<1>ProcessLists. ProcessLists'
  BY <1>i, <1>f, <1>e, NotPanics, SMTT(60) DEF ProcessLists, ProcessHeld, Cleaning, Facts
<1>Pagedirs. Pagedirs'
  BY <1>i, <1>f, <1>e, ZenonT(60)
    DEF Pagedirs, Alive, ThreadSlots, Start, Starting, Cleaning, Frees, Facts
<1>DeadQuiet. DeadQuiet'
  BY <1>i, <1>f, <1>e, SMTT(60)
    DEF DeadQuiet, Killing, Dead, ThreadSlots, Alive, Kills, Start, Starting, Cleaning,
          Facts
<1> QED
  BY <1>Types, <1>Registers, <1>ThreadSlots, <1>Start, <1>Counts, <1>Kills, <1>Frees,
       <1>ActiveUser, <1>NoPanic, <1>ThreadLists, <1>ProcessLists, <1>Pagedirs,
       <1>DeadQuiet DEF IInv

LEMMA SchedulerInv == ASSUME IInv, Scheduler, ~torn'
  PROVE  IInv'
<1>i. /\ Types /\ Registers /\ ThreadSlots /\ Start /\ Counts /\ Kills /\ Frees
      /\ ActiveUser /\ NoPanic /\ ThreadLists /\ ProcessLists /\ Pagedirs /\ DeadQuiet
  BY DEF IInv
<1>f. Facts
  BY <1>i, TypeFacts
<1>1. /\ \/ mode' = "hung" /\ UNCHANGED <<active_tid, last_run>>
         \/ /\ active_tid' \in Found(threads, processes) /\ last_run' = active_tid'
            /\ mode' = "run"
         \/ UNCHANGED <<mode, active_tid, last_run>>
      /\ \A t \in Found(threads, processes) :
            t \in Tids /\ State(t) = "RUNNING" /\ PState(Owner(t)) = "RUNNING"
      /\ last_run \in Tids
  BY <1>i
    DEF Scheduler, SelectNextThread, Found, Runnable, Types, TypeOK, State, Owner, PState
<1>e. /\ mode' \in {mode, "run", "hung"}
      /\ active_tid' \in Tids /\ last_run' \in Tids
      /\ \/ active_tid' = active_tid /\ mode' # "run"
         \/ active_tid' = active_tid /\ mode' = mode
         \/ State(active_tid') = "RUNNING" /\ PState(Owner(active_tid')) = "RUNNING" 
      /\ \A u \in Tids :
           State(u)' = State(u) /\ Owner(u)' = Owner(u) /\ Entry(u)' = Entry(u)
      /\ \A q \in Pids :
           PState(q)' = PState(q) /\ Count(q)' = Count(q) /\ (HasPd(q)' <=> HasPd(q))
      /\ UNCHANGED << threads, processes, thread_count, process_count, last_tid,
                      last_pid, threads_ended_arr, threads_ended, processes_ended_arr,
                      processes_ended, pc, ret, reg, tid, pid, left, torn>>
  BY <1>1, <1>f, SameThreads, SameProcesses
    DEF Scheduler, lists, locals, Facts, State, Owner, PState
<1>Types. Types'
  BY <1>i, <1>e DEF Types, TypeOK, PcLabels
<1>Registers. Registers'
  BY <1>i, <1>e DEF Registers
<1>ThreadSlots. ThreadSlots'
  BY <1>i, <1>f, <1>e, NotPanics DEF ThreadSlots, Alive, Facts
<1>Start. Start'
  BY <1>i, <1>f, <1>e, NotPanics DEF Start, Starting, Cleaning, Facts
<1>Counts. Counts'
  BY <1>i, <1>f, <1>e, NotPanics DEF Counts, Starting, Cleaning, Facts
<1>Kills. Kills'
  BY <1>i, <1>f, <1>e, NotPanics DEF Kills, Killing, Facts
<1>Frees. Frees'
  BY <1>i, <1>f, <1>e, NotPanics DEF Frees, Cleaning, Alive, Facts
<1>ActiveUser. ActiveUser'
  BY <1>i, <1>f, <1>e, NotPanics DEF ActiveUser, Facts
<1>NoPanic. NoPanic'
  BY <1>i, <1>f, <1>e, NotPanics DEF NoPanic, Facts
<1>ThreadLists. ThreadLists'
  BY <1>i, <1>e DEF ThreadLists, ThreadInHand
<1>ProcessLists. ProcessLists'
  BY <1>i, <1>e DEF ProcessLists, ProcessHeld, Cleaning
<1>Pagedirs. Pagedirs'
  BY <1>i, <1>f, <1>e, NotPanics DEF Pagedirs, Alive, Facts
<1>DeadQuiet. DeadQuiet'
  BY <1>i, <1>f, <1>e, NotPanics DEF DeadQuiet, Killing, Dead, Facts
<1> QED
  BY <1>Types, <1>Registers, <1>ThreadSlots, <1>Start, <1>Counts, <1>Kills, <1>Frees,
       <1>ActiveUser, <1>NoPanic, <1>ThreadLists, <1>ProcessLists, <1>Pagedirs,
       <1>DeadQuiet DEF IInv

-----------------------------------------------------------------------------
(* The shell runs a program: clean_processes() and new_process().          *)

LEMMA ExecInv == ASSUME IInv, Exec, ~torn'
  PROVE  IInv'
<1>i. /\ Types /\ Registers /\ ThreadSlots /\ Start /\ Counts /\ Kills /\ Frees
      /\ ActiveUser /\ NoPanic /\ ThreadLists /\ ProcessLists /\ Pagedirs /\ DeadQuiet
  BY DEF IInv
<1>f. Facts
  BY <1>i, TypeFacts
<1>e. /\ pc = "idle" /\ pc' = "ct_test" /\ ret' = "cp_test" 
      /\ \A u \in Tids :
           State(u)' = State(u) /\ Owner(u)' = Owner(u) /\ Entry(u)' = Entry(u)
      /\ \A q \in Pids :
           PState(q)' = PState(q) /\ Count(q)' = Count(q) /\ (HasPd(q)' <=> HasPd(q))
      /\ UNCHANGED << mode, threads, processes, thread_count, process_count, active_tid,
                      last_run, last_tid, last_pid, threads_ended_arr, threads_ended,
                      processes_ended_arr, processes_ended, reg, tid, pid, left, torn>>
  BY SameThreads, SameProcesses DEF Exec, ShellAt, CallCleanThreads, lists, locals
<1>Types. Types'
  BY <1>i, <1>e DEF Types, TypeOK, PcLabels
<1>Registers. Registers'
  BY <1>i, <1>e DEF Registers
<1>ThreadSlots. ThreadSlots'
  BY <1>i, <1>f, <1>e, NotPanics DEF ThreadSlots, Alive, Facts
<1>Start. Start'
  BY <1>i, <1>e DEF Start, Starting, Cleaning
<1>Counts. Counts'
  BY <1>i, <1>e DEF Counts, Starting, Cleaning
<1>Kills. Kills'
  BY <1>i, <1>e DEF Kills, Killing
<1>Frees. Frees'
  BY <1>i, <1>e DEF Frees, Cleaning, Alive
<1>ActiveUser. ActiveUser'
  BY <1>i, <1>f, <1>e, NotPanics DEF ActiveUser, Facts
<1>NoPanic. NoPanic'
  BY <1>i, <1>e DEF NoPanic
<1>ThreadLists. ThreadLists'
  BY <1>i, <1>e DEF ThreadLists, ThreadInHand
<1>ProcessLists. ProcessLists'
  BY <1>i, <1>e DEF ProcessLists, ProcessHeld, Cleaning
<1>Pagedirs. Pagedirs'
  BY <1>i, <1>f, <1>e, NotPanics DEF Pagedirs, Alive, Facts
<1>DeadQuiet. DeadQuiet'
  BY <1>i, <1>f, <1>e, NotPanics DEF DeadQuiet, Killing, Dead, Facts
<1> QED
  BY <1>Types, <1>Registers, <1>ThreadSlots, <1>Start, <1>Counts, <1>Kills, <1>Frees,
       <1>ActiveUser, <1>NoPanic, <1>ThreadLists, <1>ProcessLists, <1>Pagedirs,
       <1>DeadQuiet DEF IInv

LEMMA CleanThreadsTestInv == ASSUME IInv, CleanThreadsTest, ~torn'
  PROVE  IInv'
<1>i. /\ Types /\ Registers /\ ThreadSlots /\ Start /\ Counts /\ Kills /\ Frees
      /\ ActiveUser /\ NoPanic /\ ThreadLists /\ ProcessLists /\ Pagedirs /\ DeadQuiet
  BY DEF IInv
<1>f. Facts
  BY <1>i, TypeFacts
<1>1. pc = "ct_test" /\ threads_ended = 0 => \A u \in Tids : State(u) # "ENDED"
  <2> SUFFICES ASSUME pc = "ct_test", threads_ended = 0
               PROVE  \A u \in Tids : State(u) # "ENDED"
    OBVIOUS
  <2>1. Listed(threads_ended_arr, threads_ended) = {}
    BY Empty
  <2> QED BY <1>i, <2>1 DEF ThreadLists, ThreadInHand
<1>2. (pc' = "ct_dec" /\ threads_ended # 0) \/ (pc' = ret /\ threads_ended = 0)
  BY DEF CleanThreadsTest
<1>e. /\ pc = "ct_test" /\ reg' = threads_ended
      /\ (pc' = "ct_dec" /\ threads_ended # 0) \/ (pc' = ret /\ threads_ended = 0)
      /\ threads_ended = 0 => \A u \in Tids : State(u) # "ENDED" 
      /\ \A u \in Tids :
           State(u)' = State(u) /\ Owner(u)' = Owner(u) /\ Entry(u)' = Entry(u)
      /\ \A q \in Pids :
           PState(q)' = PState(q) /\ Count(q)' = Count(q) /\ (HasPd(q)' <=> HasPd(q))
      /\ UNCHANGED << mode, threads, processes, thread_count, process_count, active_tid,
                      last_run, last_tid, last_pid, threads_ended_arr, threads_ended,
                      processes_ended_arr, processes_ended, ret, tid, pid, left, torn>>
  BY <1>1, <1>2, SameThreads, SameProcesses DEF CleanThreadsTest, ShellAt, lists
<1>Types. Types'
  BY <1>i, <1>f, <1>e, NotPanics DEF Types, TypeOK, PcLabels, Facts
<1>Registers. Registers'
  BY <1>i, <1>f, <1>e, NotPanics DEF Registers, Facts
<1>ThreadSlots. ThreadSlots'
  BY <1>i, <1>f, <1>e, NotPanics DEF ThreadSlots, Alive, Facts
<1>Start. Start'
  BY <1>i, <1>f, <1>e, NotPanics DEF Start, Starting, Cleaning, Facts
<1>Counts. Counts'
  BY <1>i, <1>f, <1>e, NotPanics DEF Counts, Starting, Cleaning, Facts
<1>Kills. Kills'
  BY <1>i, <1>f, <1>e, NotPanics DEF Kills, Killing, Facts
<1>Frees. Frees'
  BY <1>i, <1>f, <1>e
    DEF Frees, Cleaning, Alive, Start, Starting, Kills, Killing, ThreadSlots, DeadQuiet,
          Dead, Facts
<1>ActiveUser. ActiveUser'
  BY <1>i, <1>f, <1>e, NotPanics DEF ActiveUser, Facts
<1>NoPanic. NoPanic'
  BY <1>i, <1>f, <1>e, NotPanics DEF NoPanic, Facts
<1>ThreadLists. ThreadLists'
  BY <1>i, <1>f, <1>e, NotPanics DEF ThreadLists, ThreadInHand, Facts
<1>ProcessLists. ProcessLists'
  BY <1>i, <1>f, <1>e, NotPanics DEF ProcessLists, ProcessHeld, Cleaning, Facts
<1>Pagedirs. Pagedirs'
  BY <1>i, <1>f, <1>e, NotPanics DEF Pagedirs, Alive, Facts
<1>DeadQuiet. DeadQuiet'
  BY <1>i, <1>f, <1>e, NotPanics DEF DeadQuiet, Killing, Dead, Facts
<1> QED
  BY <1>Types, <1>Registers, <1>ThreadSlots, <1>Start, <1>Counts, <1>Kills, <1>Frees,
       <1>ActiveUser, <1>NoPanic, <1>ThreadLists, <1>ProcessLists, <1>Pagedirs,
       <1>DeadQuiet DEF IInv

LEMMA CleanThreadsDecInv == ASSUME IInv, CleanThreadsDec, ~torn'
  PROVE  IInv'
<1>i. /\ Types /\ Registers /\ ThreadSlots /\ Start /\ Counts /\ Kills /\ Frees
      /\ ActiveUser /\ NoPanic /\ ThreadLists /\ ProcessLists /\ Pagedirs /\ DeadQuiet
  BY DEF IInv
<1>f. Facts
  BY <1>i, TypeFacts
<1>1. pc = "ct_dec" /\ reg = threads_ended /\ reg >= 1 /\ threads_ended' = reg - 1
  BY <1>i DEF CleanThreadsDec, ShellAt, Registers
<1>2. threads_ended \in Nat /\ threads_ended' \in 0..MaxThreads
  BY <1>f, <1>1 DEF Facts
<1>3. /\ Distinct(threads_ended_arr, threads_ended')
      /\ threads_ended_arr[reg - 1] \in Listed(threads_ended_arr, threads_ended)
      /\ Listed(threads_ended_arr, threads_ended')
            = Listed(threads_ended_arr, threads_ended) \ {threads_ended_arr[reg - 1]}
  <2>1. Distinct(threads_ended_arr, threads_ended)
    BY <1>i DEF ThreadLists
  <2> QED BY <1>1, <1>2, <2>1, Pop
<1>e. /\ pc = "ct_dec" /\ pc' = "ct_free" /\ reg = threads_ended /\ reg >= 1
      /\ threads_ended' = reg - 1 /\ threads_ended' \in 0..MaxThreads
      /\ Distinct(threads_ended_arr, threads_ended')
      /\ threads_ended_arr[reg - 1] \in Listed(threads_ended_arr, threads_ended)
      /\ Listed(threads_ended_arr, threads_ended')
            = Listed(threads_ended_arr, threads_ended) \ {threads_ended_arr[reg - 1]}
      /\ \A u \in Tids :
           State(u)' = State(u) /\ Owner(u)' = Owner(u) /\ Entry(u)' = Entry(u)
      /\ \A q \in Pids :
           PState(q)' = PState(q) /\ Count(q)' = Count(q) /\ (HasPd(q)' <=> HasPd(q))
      /\ UNCHANGED << mode, threads, processes, thread_count, process_count, active_tid,
                      last_run, last_tid, last_pid, threads_ended_arr,
                      processes_ended_arr, processes_ended, ret, reg, tid, pid, left,
                      torn>>
  BY <1>1, <1>2, <1>3, SameThreads, SameProcesses DEF CleanThreadsDec, ShellAt, lists
<1>Types. Types'
  BY <1>i, <1>f, <1>e, NotPanics, SMTT(60) DEF Types, TypeOK, PcLabels, Facts
<1>Registers. Registers'
  BY <1>i, <1>f, <1>e, NotPanics DEF Registers, Facts
<1>ThreadSlots. ThreadSlots'
  BY <1>i, <1>f, <1>e, NotPanics, SMTT(60) DEF ThreadSlots, Alive, Facts
<1>Start. Start'
  BY <1>i, <1>f, <1>e, NotPanics DEF Start, Starting, Cleaning, Facts
<1>Counts. Counts'
  BY <1>i, <1>f, <1>e, NotPanics DEF Counts, Starting, Cleaning, Facts
<1>Kills. Kills'
  BY <1>i, <1>f, <1>e, NotPanics DEF Kills, Killing, Facts
<1>Frees. Frees'
  BY <1>i, <1>f, <1>e, NotPanics DEF Frees, Cleaning, Alive, Facts
<1>ActiveUser. ActiveUser'
  BY <1>i, <1>f, <1>e, NotPanics DEF ActiveUser, Facts
<1>NoPanic. NoPanic'
  BY <1>i, <1>f, <1>e, NotPanics DEF NoPanic, Facts
<1>ThreadLists. ThreadLists'
  BY <1>i, <1>f, <1>e, NotPanics DEF ThreadLists, ThreadInHand, Facts
<1>ProcessLists. ProcessLists'
  BY <1>i, <1>f, <1>e, NotPanics DEF ProcessLists, ProcessHeld, Cleaning, Facts
<1>Pagedirs. Pagedirs'
  BY <1>i, <1>f, <1>e, NotPanics DEF Pagedirs, Alive, Facts
<1>DeadQuiet. DeadQuiet'
  BY <1>i, <1>f, <1>e, NotPanics DEF DeadQuiet, Killing, Dead, Facts
<1> QED
  BY <1>Types, <1>Registers, <1>ThreadSlots, <1>Start, <1>Counts, <1>Kills, <1>Frees,
       <1>ActiveUser, <1>NoPanic, <1>ThreadLists, <1>ProcessLists, <1>Pagedirs,
       <1>DeadQuiet DEF IInv

LEMMA FreeThreadInv == ASSUME IInv, FreeThread, ~torn'
  PROVE  IInv'
<1>i. /\ Types /\ Registers /\ ThreadSlots /\ Start /\ Counts /\ Kills /\ Frees
      /\ ActiveUser /\ NoPanic /\ ThreadLists /\ ProcessLists /\ Pagedirs /\ DeadQuiet
  BY DEF IInv
<1>f. Facts
  BY <1>i, TypeFacts
<1>1. PICK t \in Tids : t = threads_ended_arr[reg - 1]
  <2>1. reg = threads_ended + 1 /\ reg <= MaxThreads
    BY <1>i DEF FreeThread, ShellAt, Registers
  <2>2. reg - 1 \in Tids
    BY <1>f, <2>1 DEF Facts, Tids
  <2> QED BY <1>f, <2>2 DEF Facts
<1>2. State(t) = "ENDED" /\ Entry(t) = "user" /\ t # active_tid
  BY <1>i, <1>1 DEF FreeThread, ShellAt, ThreadLists, ThreadInHand, ThreadSlots, Entry
<1>3. /\ threads' = [threads EXCEPT ![t] = NoThread]
      /\ processes' = [processes EXCEPT ![Owner(t)].count = @ - 2]
      /\ pc' = "ct_test"
      /\ UNCHANGED <<mode, thread_count, process_count, last_tid, last_pid, lists, ret,
                     reg, tid, pid, left>>
  BY <1>1, <1>2 DEF FreeThread, FreedThread, State, Owner
<1>4. /\ threads' \in ThreadTable 
      /\ State(t)' = "FREE" /\ Owner(t)' = 0 /\ Entry(t)' = "none"
      /\ \A u \in Tids : u # t =>
           State(u)' = State(u) /\ Owner(u)' = Owner(u) /\ Entry(u)' = Entry(u)
  <2>1. threads \in ThreadTable /\ 0 \in Pids
    BY <1>f DEF Facts
  <2> QED BY <1>3, <2>1 DEF NoThread, ThreadTable, State, Owner, Entry, TP_STATES, Entries
<1>5. /\ processes' \in ProcessTable
      /\ \A q \in Pids : /\ PState(q)' = PState(q) /\ (HasPd(q)' <=> HasPd(q))
                         /\ q # Owner(t) => Count(q)' = Count(q)
  <2>1. PICK p \in Pids : p = Owner(t)
    BY <1>f DEF Facts
  <2>2. processes' = [processes EXCEPT ![p].count = @ - 2]
    BY <1>3, <2>1
  <2>3. processes \in ProcessTable
    BY <1>f DEF Facts
  <2> QED BY <2>1, <2>2, <2>3, DecCount
<1>e. /\ t \in Tids /\ t = threads_ended_arr[reg - 1] /\ State(t) = "ENDED"
      /\ t # active_tid
      /\ pc = "ct_free" /\ pc' = "ct_test"
      /\ threads' \in ThreadTable 
      /\ State(t)' = "FREE" /\ Owner(t)' = 0 /\ Entry(t)' = "none"
      /\ \A u \in Tids : u # t =>
           State(u)' = State(u) /\ Owner(u)' = Owner(u) /\ Entry(u)' = Entry(u)
      /\ processes' \in ProcessTable
      /\ \A q \in Pids : /\ PState(q)' = PState(q) /\ (HasPd(q)' <=> HasPd(q))
                         /\ q # Owner(t) => Count(q)' = Count(q)
      /\ UNCHANGED << mode, thread_count, process_count, active_tid, last_run, last_tid,
                      last_pid, threads_ended_arr, threads_ended, processes_ended_arr,
                      processes_ended, ret, reg, tid, pid, left, torn>>
  BY <1>1, <1>2, <1>3, <1>4, <1>5 DEF FreeThread, ShellAt, lists
<1>Types. Types'
  BY <1>i, <1>f, <1>e, NotPanics DEF Types, TypeOK, PcLabels, Facts
<1>Registers. Registers'
  BY <1>i, <1>f, <1>e, NotPanics DEF Registers, Facts
<1>ThreadSlots. ThreadSlots'
  BY <1>i, <1>f, <1>e, NotPanics, SMTT(60) DEF ThreadSlots, Alive, Facts
<1>Start. Start'
  BY <1>i, <1>f, <1>e, NotPanics DEF Start, Starting, Cleaning, Facts
<1>Counts. Counts'
  BY <1>i, <1>f, <1>e, SMTT(60) DEF Counts, Starting, Cleaning, Start, ThreadSlots, Alive, Facts
<1>Kills. Kills'
  BY <1>i, <1>f, <1>e, NotPanics DEF Kills, Killing, Facts
<1>Frees. Frees'
  BY <1>i, <1>f, <1>e, NotPanics DEF Frees, Cleaning, Alive, Facts
<1>ActiveUser. ActiveUser'
  BY <1>i, <1>f, <1>e, NotPanics DEF ActiveUser, Facts
<1>NoPanic. NoPanic'
  BY <1>i, <1>f, <1>e, NotPanics DEF NoPanic, Facts
<1>ThreadLists. ThreadLists'
  BY <1>i, <1>f, <1>e, NotPanics DEF ThreadLists, ThreadInHand, Facts
<1>ProcessLists. ProcessLists'
  BY <1>i, <1>f, <1>e, NotPanics DEF ProcessLists, ProcessHeld, Cleaning, Facts
<1>Pagedirs. Pagedirs'
  BY <1>i, <1>f, <1>e, NotPanics DEF Pagedirs, Alive, Facts
<1>DeadQuiet. DeadQuiet'
  BY <1>i, <1>f, <1>e, NotPanics, SMTT(60) DEF DeadQuiet, Killing, Dead, Facts
<1> QED
  BY <1>Types, <1>Registers, <1>ThreadSlots, <1>Start, <1>Counts, <1>Kills, <1>Frees,
       <1>ActiveUser, <1>NoPanic, <1>ThreadLists, <1>ProcessLists, <1>Pagedirs,
       <1>DeadQuiet DEF IInv

LEMMA CleanProcessesTestInv == ASSUME IInv, CleanProcessesTest, ~torn'
  PROVE  IInv'
<1>i. /\ Types /\ Registers /\ ThreadSlots /\ Start /\ Counts /\ Kills /\ Frees
      /\ ActiveUser /\ NoPanic /\ ThreadLists /\ ProcessLists /\ Pagedirs /\ DeadQuiet
  BY DEF IInv
<1>f. Facts
  BY <1>i, TypeFacts
<1>e. /\ pc = "cp_test" /\ reg' = processes_ended
      /\ (pc' = "cp_dec" /\ processes_ended # 0) \/ pc' = "np_alloc" 
      /\ \A u \in Tids :
           State(u)' = State(u) /\ Owner(u)' = Owner(u) /\ Entry(u)' = Entry(u)
      /\ \A q \in Pids :
           PState(q)' = PState(q) /\ Count(q)' = Count(q) /\ (HasPd(q)' <=> HasPd(q))
      /\ UNCHANGED << mode, threads, processes, thread_count, process_count, active_tid,
                      last_run, last_tid, last_pid, threads_ended_arr, threads_ended,
                      processes_ended_arr, processes_ended, ret, tid, pid, left, torn>>
  BY SameThreads, SameProcesses DEF CleanProcessesTest, ShellAt, lists
<1>Types. Types'
  BY <1>i, <1>f, <1>e, NotPanics DEF Types, TypeOK, PcLabels, Facts
<1>Registers. Registers'
  BY <1>i, <1>f, <1>e, NotPanics DEF Registers, Facts
<1>ThreadSlots. ThreadSlots'
  BY <1>i, <1>f, <1>e, NotPanics DEF ThreadSlots, Alive, Facts
<1>Start. Start'
  BY <1>i, <1>f, <1>e, NotPanics DEF Start, Starting, Cleaning, Facts
<1>Counts. Counts'
  BY <1>i, <1>f, <1>e, NotPanics DEF Counts, Starting, Cleaning, Facts
<1>Kills. Kills'
  BY <1>i, <1>f, <1>e, NotPanics DEF Kills, Killing, Facts
<1>Frees. Frees'
  BY <1>i, <1>f, <1>e, NotPanics DEF Frees, Cleaning, Alive, Facts
<1>ActiveUser. ActiveUser'
  BY <1>i, <1>f, <1>e, NotPanics DEF ActiveUser, Facts
<1>NoPanic. NoPanic'
  BY <1>i, <1>f, <1>e, NotPanics DEF NoPanic, Facts
<1>ThreadLists. ThreadLists'
  BY <1>i, <1>f, <1>e, NotPanics DEF ThreadLists, ThreadInHand, Facts
<1>ProcessLists. ProcessLists'
  BY <1>i, <1>f, <1>e, NotPanics DEF ProcessLists, ProcessHeld, Cleaning, Facts
<1>Pagedirs. Pagedirs'
  BY <1>i, <1>f, <1>e, NotPanics DEF Pagedirs, Alive, Facts
<1>DeadQuiet. DeadQuiet'
  BY <1>i, <1>f, <1>e, NotPanics DEF DeadQuiet, Killing, Dead, Facts
<1> QED
  BY <1>Types, <1>Registers, <1>ThreadSlots, <1>Start, <1>Counts, <1>Kills, <1>Frees,
       <1>ActiveUser, <1>NoPanic, <1>ThreadLists, <1>ProcessLists, <1>Pagedirs,
       <1>DeadQuiet DEF IInv

LEMMA CleanProcessesDecInv == ASSUME IInv, CleanProcessesDec, ~torn'
  PROVE  IInv'
<1>i. /\ Types /\ Registers /\ ThreadSlots /\ Start /\ Counts /\ Kills /\ Frees
      /\ ActiveUser /\ NoPanic /\ ThreadLists /\ ProcessLists /\ Pagedirs /\ DeadQuiet
  BY DEF IInv
<1>f. Facts
  BY <1>i, TypeFacts
<1>1. pc = "cp_dec" /\ reg = processes_ended /\ reg >= 1 /\ processes_ended' = reg - 1
  BY <1>i DEF CleanProcessesDec, ShellAt, Registers
<1>2. processes_ended \in Nat /\ processes_ended' \in 0..MaxProcesses
  BY <1>f, <1>1 DEF Facts
<1>3. /\ Distinct(processes_ended_arr, processes_ended')
      /\ processes_ended_arr[reg - 1] \in Listed(processes_ended_arr, processes_ended)
      /\ Listed(processes_ended_arr, processes_ended')
            = Listed(processes_ended_arr, processes_ended) \ {processes_ended_arr[reg - 1]}
  <2>1. Distinct(processes_ended_arr, processes_ended)
    BY <1>i DEF ProcessLists
  <2> QED BY <1>1, <1>2, <2>1, Pop
<1>e. /\ pc = "cp_dec" /\ pc' = "cp_free" /\ reg = processes_ended /\ reg >= 1
      /\ processes_ended' = reg - 1 /\ processes_ended' \in 0..MaxProcesses
      /\ Distinct(processes_ended_arr, processes_ended')
      /\ processes_ended_arr[reg - 1] \in Listed(processes_ended_arr, processes_ended)
      /\ Listed(processes_ended_arr, processes_ended')
            = Listed(processes_ended_arr, processes_ended) \ {processes_ended_arr[reg - 1]}
      /\ \A u \in Tids :
           State(u)' = State(u) /\ Owner(u)' = Owner(u) /\ Entry(u)' = Entry(u)
      /\ \A q \in Pids :
           PState(q)' = PState(q) /\ Count(q)' = Count(q) /\ (HasPd(q)' <=> HasPd(q))
      /\ UNCHANGED << mode, threads, processes, thread_count, process_count, active_tid,
                      last_run, last_tid, last_pid, threads_ended_arr, threads_ended,
                      processes_ended_arr, ret, reg, tid, pid, left, torn>>
  BY <1>1, <1>2, <1>3, SameThreads, SameProcesses DEF CleanProcessesDec, ShellAt, lists
<1>Types. Types'
  BY <1>i, <1>f, <1>e, NotPanics, SMTT(60) DEF Types, TypeOK, PcLabels, Facts
<1>Registers. Registers'
  BY <1>i, <1>f, <1>e, NotPanics DEF Registers, Facts
<1>ThreadSlots. ThreadSlots'
  BY <1>i, <1>f, <1>e, NotPanics, SMTT(60) DEF ThreadSlots, Alive, Facts
<1>Start. Start'
  BY <1>i, <1>f, <1>e, NotPanics DEF Start, Starting, Cleaning, Facts
<1>Counts. Counts'
  BY <1>i, <1>f, <1>e, NotPanics DEF Counts, Starting, Cleaning, Facts
<1>Kills. Kills'
  BY <1>i, <1>f, <1>e, NotPanics DEF Kills, Killing, Facts
<1>Frees. Frees'
  BY <1>i, <1>f, <1>e, NotPanics DEF Frees, Cleaning, Alive, Facts
<1>ActiveUser. ActiveUser'
  BY <1>i, <1>f, <1>e, NotPanics DEF ActiveUser, Facts
<1>NoPanic. NoPanic'
  BY <1>i, <1>f, <1>e, NotPanics DEF NoPanic, Facts
<1>ThreadLists. ThreadLists'
  BY <1>i, <1>f, <1>e, NotPanics DEF ThreadLists, ThreadInHand, Facts
<1>ProcessLists. ProcessLists'
  BY <1>i, <1>f, <1>e, NotPanics DEF ProcessLists, ProcessHeld, Cleaning, Facts
<1>Pagedirs. Pagedirs'
  BY <1>i, <1>f, <1>e, NotPanics DEF Pagedirs, Alive, Facts
<1>DeadQuiet. DeadQuiet'
  BY <1>i, <1>f, <1>e, NotPanics DEF DeadQuiet, Killing, Dead, Facts
<1> QED
  BY <1>Types, <1>Registers, <1>ThreadSlots, <1>Start, <1>Counts, <1>Kills, <1>Frees,
       <1>ActiveUser, <1>NoPanic, <1>ThreadLists, <1>ProcessLists, <1>Pagedirs,
       <1>DeadQuiet DEF IInv

LEMMA FreeProcessInv == ASSUME IInv, FreeProcess, ~torn'
  PROVE  IInv'
<1>i. /\ Types /\ Registers /\ ThreadSlots /\ Start /\ Counts /\ Kills /\ Frees
      /\ ActiveUser /\ NoPanic /\ ThreadLists /\ ProcessLists /\ Pagedirs /\ DeadQuiet
  BY DEF IInv
<1>f. Facts
  BY <1>i, TypeFacts
<1>1. PICK p \in Pids : p = processes_ended_arr[reg - 1]
  <2>1. reg = processes_ended + 1 /\ reg <= MaxProcesses
    BY <1>i DEF FreeProcess, ShellAt, Registers
  <2>2. reg - 1 \in 0..(2 * MaxProcesses)
    BY <1>f, <2>1 DEF Facts
  <2> QED BY <1>f, <2>2 DEF Facts
<1>2. PState(p) = "ENDED" /\ p # 0
  BY <1>i, <1>1 DEF FreeProcess, ShellAt, ProcessLists, ProcessHeld, ThreadSlots
<1>3. Owner(active_tid) = 0
  <2>1. Entry(active_tid) = "run_sh" /\ active_tid \in Tids
    BY <1>f DEF FreeProcess, ShellAt, Facts, Entry
  <2> QED BY <1>i, <2>1 DEF ThreadSlots
<1>e. /\ p \in Pids /\ p = processes_ended_arr[reg - 1] /\ p # 0 /\ PState(p) = "ENDED"
      /\ pc = "cp_free" /\ pc' = "ct_test" /\ ret' = "fp_clear" /\ pid' = p
      /\ \A u \in Tids :
           State(u)' = State(u) /\ Owner(u)' = Owner(u) /\ Entry(u)' = Entry(u)
      /\ \A q \in Pids :
           PState(q)' = PState(q) /\ Count(q)' = Count(q) /\ (HasPd(q)' <=> HasPd(q))
      /\ UNCHANGED << mode, threads, processes, thread_count, process_count, active_tid,
                      last_run, last_tid, last_pid, threads_ended_arr, threads_ended,
                      processes_ended_arr, processes_ended, reg, tid, left, torn>>
  BY <1>1, <1>2, <1>3, SameThreads, SameProcesses
    DEF FreeProcess, ShellAt, CallCleanThreads, lists, PState, Owner
<1>Types. Types'
  BY <1>i, <1>f, <1>e, NotPanics DEF Types, TypeOK, PcLabels, Facts
<1>Registers. Registers'
  BY <1>i, <1>f, <1>e, NotPanics DEF Registers, Facts
<1>ThreadSlots. ThreadSlots'
  BY <1>i, <1>f, <1>e, NotPanics DEF ThreadSlots, Alive, Facts
<1>Start. Start'
  BY <1>i, <1>f, <1>e, NotPanics DEF Start, Starting, Cleaning, Facts
<1>Counts. Counts'
  BY <1>i, <1>f, <1>e, NotPanics DEF Counts, Starting, Cleaning, Facts
<1>Kills. Kills'
  BY <1>i, <1>f, <1>e, NotPanics DEF Kills, Killing, Facts
<1>Frees. Frees'
  BY <1>i, <1>f, <1>e, NotPanics DEF Frees, Cleaning, Alive, Facts
<1>ActiveUser. ActiveUser'
  BY <1>i, <1>f, <1>e, NotPanics DEF ActiveUser, Facts
<1>NoPanic. NoPanic'
  BY <1>i, <1>f, <1>e, NotPanics DEF NoPanic, Facts
<1>ThreadLists. ThreadLists'
  BY <1>i, <1>f, <1>e, NotPanics DEF ThreadLists, ThreadInHand, Facts
<1>ProcessLists. ProcessLists'
  BY <1>i, <1>f, <1>e, NotPanics DEF ProcessLists, ProcessHeld, Cleaning, Facts
<1>Pagedirs. Pagedirs'
  BY <1>i, <1>f, <1>e, NotPanics DEF Pagedirs, Alive, Facts
<1>DeadQuiet. DeadQuiet'
  BY <1>i, <1>f, <1>e, NotPanics DEF DeadQuiet, Killing, Dead, Facts
<1> QED
  BY <1>Types, <1>Registers, <1>ThreadSlots, <1>Start, <1>Counts, <1>Kills, <1>Frees,
       <1>ActiveUser, <1>NoPanic, <1>ThreadLists, <1>ProcessLists, <1>Pagedirs,
       <1>DeadQuiet DEF IInv

LEMMA FreeProcessClearInv == ASSUME IInv, FreeProcessClear, ~torn'
  PROVE  IInv'
<1>i. /\ Types /\ Registers /\ ThreadSlots /\ Start /\ Counts /\ Kills /\ Frees
      /\ ActiveUser /\ NoPanic /\ ThreadLists /\ ProcessLists /\ Pagedirs /\ DeadQuiet
  BY DEF IInv
<1>f. Facts
  BY <1>i, TypeFacts
<1>1. PState(pid) \in {"ENDED", "ALLOCED"} /\ pid # 0
  BY <1>i DEF FreeProcessClear, ShellAt, Frees, ThreadSlots
<1>2. PICK p \in Pids : p = pid
  BY <1>f DEF Facts
<1>3. /\ processes' \in ProcessTable 
      /\ PState(p)' = "FREE" /\ Count(p)' = 0 /\ (HasPd(p)' <=> FALSE)
      /\ \A q \in Pids : q # p =>
           PState(q)' = PState(q) /\ Count(q)' = Count(q) /\ (HasPd(q)' <=> HasPd(q))
  <2>1. processes \in ProcessTable /\ 0 \in Tids
    BY <1>f DEF Facts
  <2>2. processes' = [processes EXCEPT ![p] = NoProcess]
    BY <1>2 DEF FreeProcessClear
  <2> QED BY <2>1, <2>2 DEF NoProcess, BlankProcess, ProcessTable, PState, Count, HasPd, TP_STATES
<1>e. /\ pc = "fp_clear" /\ pc' \in {"idle", "cp_test"} /\ pid # 0
      /\ PState(pid) \in {"ENDED", "ALLOCED"}
      /\ processes' \in ProcessTable 
      /\ PState(p)' = "FREE" /\ Count(p)' = 0 /\ (HasPd(p)' <=> FALSE)
      /\ \A q \in Pids : q # p =>
           PState(q)' = PState(q) /\ Count(q)' = Count(q) /\ (HasPd(q)' <=> HasPd(q))
      /\ p = pid /\ p \in Pids
      /\ \A u \in Tids :
           State(u)' = State(u) /\ Owner(u)' = Owner(u) /\ Entry(u)' = Entry(u)
      /\ UNCHANGED << mode, threads, thread_count, process_count, active_tid, last_run,
                      last_tid, last_pid, threads_ended_arr, threads_ended,
                      processes_ended_arr, processes_ended, ret, reg, tid, pid, left,
                      torn>>
  BY <1>1, <1>2, <1>3, SameThreads DEF FreeProcessClear, ShellAt, lists
<1>Types. Types'
  BY <1>i, <1>f, <1>e, NotPanics DEF Types, TypeOK, PcLabels, Facts
<1>Registers. Registers'
  BY <1>i, <1>f, <1>e, NotPanics DEF Registers, Facts
<1>ThreadSlots. ThreadSlots'
  BY <1>i, <1>f, <1>e
    DEF ThreadSlots, Alive, Start, Starting, Cleaning, Kills, Killing, Frees, Facts
<1>Start. Start'
  BY <1>i, <1>f, <1>e, NotPanics DEF Start, Starting, Cleaning, Facts
<1>Counts. Counts'
  BY <1>i, <1>f, <1>e, NotPanics DEF Counts, Starting, Cleaning, Facts
<1>Kills. Kills'
  BY <1>i, <1>f, <1>e, NotPanics DEF Kills, Killing, Facts
<1>Frees. Frees'
  BY <1>i, <1>f, <1>e, NotPanics DEF Frees, Cleaning, Alive, Facts
<1>ActiveUser. ActiveUser'
  BY <1>i, <1>f, <1>e, NotPanics DEF ActiveUser, Facts
<1>NoPanic. NoPanic'
  BY <1>i, <1>f, <1>e, NotPanics DEF NoPanic, Facts
<1>ThreadLists. ThreadLists'
  BY <1>i, <1>f, <1>e, NotPanics DEF ThreadLists, ThreadInHand, Facts
<1>ProcessLists. ProcessLists'
  BY <1>i, <1>f, <1>e, NotPanics DEF ProcessLists, ProcessHeld, Cleaning, Facts
<1>Pagedirs. Pagedirs'
  BY <1>i, <1>f, <1>e
    DEF Pagedirs, Alive, ThreadSlots, Start, Starting, Cleaning, Frees, Facts
<1>DeadQuiet. DeadQuiet'
  BY <1>i, <1>f, <1>e
    DEF DeadQuiet, Killing, Dead, ThreadSlots, Alive, Kills, Start, Starting, Cleaning,
          Facts
<1> QED
  BY <1>Types, <1>Registers, <1>ThreadSlots, <1>Start, <1>Counts, <1>Kills, <1>Frees,
       <1>ActiveUser, <1>NoPanic, <1>ThreadLists, <1>ProcessLists, <1>Pagedirs,
       <1>DeadQuiet DEF IInv

LEMMA AllocProcessInv == ASSUME IInv, AllocProcess, ~torn'
  PROVE  IInv'
<1>i. /\ Types /\ Registers /\ ThreadSlots /\ Start /\ Counts /\ Kills /\ Frees
      /\ ActiveUser /\ NoPanic /\ ThreadLists /\ ProcessLists /\ Pagedirs /\ DeadQuiet
  BY DEF IInv
<1>f. Facts
  BY <1>i, TypeFacts
<1>1. processes \in ProcessTable /\ pid \in Pids /\ last_pid \in Pids /\ 0 \in Tids
  BY <1>i, <1>f DEF Facts, Types, TypeOK
<1>2. PICK p \in Pids :
        \/ pc' = "idle" /\ pid' = p /\ UNCHANGED <<processes, last_pid, pid>>
        \/ /\ pc' = "np_space" /\ pid' = p /\ last_pid' = p /\ PState(p) = "FREE"
           /\ processes' = [processes EXCEPT ![p] = BlankProcess("ALLOCED")]
  BY <1>1 DEF AllocProcess, PState
<1>3. \/ /\ pc' = "idle" /\ pid' = pid /\ last_pid' \in Pids /\ processes' \in ProcessTable
         /\ \A q \in Pids :
                 PState(q)' = PState(q) /\ Count(q)' = Count(q) /\ (HasPd(q)' <=> HasPd(q))
      \/ /\ pc' = "np_space" /\ PState(p) = "FREE" /\ last_pid' \in Pids
         /\ processes' \in ProcessTable 
         /\ PState(p)' = "ALLOCED" /\ Count(p)' = 0 /\ (HasPd(p)' <=> FALSE)
         /\ \A q \in Pids : q # p =>
              PState(q)' = PState(q) /\ Count(q)' = Count(q) /\ (HasPd(q)' <=> HasPd(q))
  <2>1. CASE pc' = "idle" /\ pid' = p /\ UNCHANGED <<processes, last_pid, pid>>
    BY <1>1, <2>1, SameProcesses
  <2>2. CASE /\ pc' = "np_space" /\ pid' = p /\ last_pid' = p /\ PState(p) = "FREE"
             /\ processes' = [processes EXCEPT ![p] = BlankProcess("ALLOCED")]
    <3>1. /\ processes' \in ProcessTable 
          /\ PState(p)' = "ALLOCED" /\ Count(p)' = 0 /\ (HasPd(p)' <=> FALSE)
          /\ \A q \in Pids : q # p =>
               PState(q)' = PState(q) /\ Count(q)' = Count(q) /\ (HasPd(q)' <=> HasPd(q))
      BY <1>1, <2>2 DEF BlankProcess, ProcessTable, PState, Count, HasPd, TP_STATES
    <3> QED BY <2>2, <3>1
  <2> QED BY <1>2, <2>1, <2>2
<1>e. /\ pc = "np_alloc" /\ pid' \in Pids /\ last_pid' \in Pids
      /\ processes' \in ProcessTable
      /\ p \in Pids /\ pid' = p
      /\ \/ /\ pc' = "idle" /\ pid' = pid
            /\ \A q \in Pids :
                    PState(q)' = PState(q) /\ Count(q)' = Count(q) /\ (HasPd(q)' <=> HasPd(q))
         \/ /\ pc' = "np_space" /\ PState(p) = "FREE" /\ PState(p)' = "ALLOCED"
            /\ Count(p)' = 0
            /\ \A q \in Pids : q # p =>
                    PState(q)' = PState(q) /\ Count(q)' = Count(q) /\ (HasPd(q)' <=> HasPd(q))
      /\ \A u \in Tids :
           State(u)' = State(u) /\ Owner(u)' = Owner(u) /\ Entry(u)' = Entry(u)
      /\ UNCHANGED << mode, threads, thread_count, process_count, active_tid, last_run,
                      last_tid, threads_ended_arr, threads_ended, processes_ended_arr,
                      processes_ended, ret, reg, tid, left, torn>>
  BY <1>1, <1>2, <1>3, SameThreads DEF AllocProcess, ShellAt, lists
<1>Types. Types'
  BY <1>i, <1>f, <1>e, NotPanics DEF Types, TypeOK, PcLabels, Facts
<1>Registers. Registers'
  BY <1>i, <1>f, <1>e, NotPanics DEF Registers, Facts
<1>ThreadSlots. ThreadSlots'
  BY <1>i, <1>f, <1>e
    DEF ThreadSlots, Alive, Start, Starting, Cleaning, Kills, Killing, Frees, Facts,
          DeadQuiet, Dead
<1>Start. Start'
  BY <1>i, <1>f, <1>e, NotPanics DEF Start, Starting, Cleaning, Facts
<1>Counts. Counts'
  BY <1>i, <1>f, <1>e, NotPanics DEF Counts, Starting, Cleaning, Facts
<1>Kills. Kills'
  BY <1>i, <1>f, <1>e, NotPanics DEF Kills, Killing, Facts
<1>Frees. Frees'
  BY <1>i, <1>f, <1>e, NotPanics DEF Frees, Cleaning, Alive, Facts
<1>ActiveUser. ActiveUser'
  BY <1>i, <1>f, <1>e, NotPanics DEF ActiveUser, Facts
<1>NoPanic. NoPanic'
  BY <1>i, <1>f, <1>e, NotPanics DEF NoPanic, Facts
<1>ThreadLists. ThreadLists'
  BY <1>i, <1>f, <1>e, NotPanics DEF ThreadLists, ThreadInHand, Facts
<1>ProcessLists. ProcessLists'
  BY <1>i, <1>f, <1>e, NotPanics DEF ProcessLists, ProcessHeld, Cleaning, Facts
<1>Pagedirs. Pagedirs'
  BY <1>i, <1>f, <1>e, ZenonT(60)
    DEF Pagedirs, Alive, ThreadSlots, Start, Starting, Cleaning, Frees, Facts,
          DeadQuiet, Killing, Dead
<1>DeadQuiet. DeadQuiet'
  BY <1>i, <1>f, <1>e, NotPanics DEF DeadQuiet, Killing, Dead, Facts
<1> QED
  BY <1>Types, <1>Registers, <1>ThreadSlots, <1>Start, <1>Counts, <1>Kills, <1>Frees,
       <1>ActiveUser, <1>NoPanic, <1>ThreadLists, <1>ProcessLists, <1>Pagedirs,
       <1>DeadQuiet DEF IInv

LEMMA ProgramSpaceInv == ASSUME IInv, ProgramSpace, ~torn'
  PROVE  IInv'
<1>i. /\ Types /\ Registers /\ ThreadSlots /\ Start /\ Counts /\ Kills /\ Frees
      /\ ActiveUser /\ NoPanic /\ ThreadLists /\ ProcessLists /\ Pagedirs /\ DeadQuiet
  BY DEF IInv
<1>f. Facts
  BY <1>i, TypeFacts
<1>1. PICK p \in Pids : p = pid
  BY <1>f DEF Facts
<1>2. /\ processes' \in ProcessTable 
      /\ PState(p)' = PState(p) /\ Count(p)' = Count(p) /\ (HasPd(p)' <=> TRUE)
      /\ \A q \in Pids : q # p =>
           PState(q)' = PState(q) /\ Count(q)' = Count(q) /\ (HasPd(q)' <=> HasPd(q))
  <2>1. processes \in ProcessTable /\ processes' = [processes EXCEPT ![p].phys_pd = TRUE]
    BY <1>f, <1>1 DEF Facts, ProgramSpace
  <2> QED BY <2>1 DEF ProcessTable, PState, Count, HasPd
<1>e. /\ pc = "np_space" /\ p \in Pids /\ p = pid
      /\ \/ pc' = "fp_clear" /\ ret' = ret
         \/ pc' = "ct_test" /\ ret' = "nt_alloc"
      /\ processes' \in ProcessTable 
      /\ PState(p)' = PState(p) /\ Count(p)' = Count(p) /\ (HasPd(p)' <=> TRUE)
      /\ \A q \in Pids : q # p =>
           PState(q)' = PState(q) /\ Count(q)' = Count(q) /\ (HasPd(q)' <=> HasPd(q))
      /\ \A u \in Tids :
           State(u)' = State(u) /\ Owner(u)' = Owner(u) /\ Entry(u)' = Entry(u)
      /\ UNCHANGED << mode, threads, thread_count, process_count, active_tid, last_run,
                      last_tid, last_pid, threads_ended_arr, threads_ended,
                      processes_ended_arr, processes_ended, reg, tid, pid, left, torn>>
  BY <1>1, <1>2, SameThreads DEF ProgramSpace, ShellAt, CallCleanThreads, lists
<1>Types. Types'
  BY <1>i, <1>f, <1>e, NotPanics DEF Types, TypeOK, PcLabels, Facts
<1>Registers. Registers'
  BY <1>i, <1>f, <1>e, NotPanics DEF Registers, Facts
<1>ThreadSlots. ThreadSlots'
  BY <1>i, <1>f, <1>e, NotPanics DEF ThreadSlots, Alive, Facts
<1>Start. Start'
  BY <1>i, <1>f, <1>e, NotPanics DEF Start, Starting, Cleaning, Facts
<1>Counts. Counts'
  BY <1>i, <1>f, <1>e, NotPanics DEF Counts, Starting, Cleaning, Facts
<1>Kills. Kills'
  BY <1>i, <1>f, <1>e, NotPanics DEF Kills, Killing, Facts
<1>Frees. Frees'
  BY <1>i, <1>f, <1>e
    DEF Frees, Cleaning, Alive, Start, Starting, Kills, Killing, ThreadSlots, DeadQuiet,
          Dead, Facts
<1>ActiveUser. ActiveUser'
  BY <1>i, <1>f, <1>e, NotPanics DEF ActiveUser, Facts
<1>NoPanic. NoPanic'
  BY <1>i, <1>f, <1>e, NotPanics DEF NoPanic, Facts
<1>ThreadLists. ThreadLists'
  BY <1>i, <1>f, <1>e, NotPanics DEF ThreadLists, ThreadInHand, Facts
<1>ProcessLists. ProcessLists'
  BY <1>i, <1>f, <1>e
    DEF ProcessLists, ProcessHeld, Cleaning, Registers, Frees, Alive, Start, Starting,
          Facts
<1>Pagedirs. Pagedirs'
  BY <1>i, <1>f, <1>e, NotPanics DEF Pagedirs, Alive, Facts
<1>DeadQuiet. DeadQuiet'
  BY <1>i, <1>f, <1>e, NotPanics DEF DeadQuiet, Killing, Dead, Facts
<1> QED
  BY <1>Types, <1>Registers, <1>ThreadSlots, <1>Start, <1>Counts, <1>Kills, <1>Frees,
       <1>ActiveUser, <1>NoPanic, <1>ThreadLists, <1>ProcessLists, <1>Pagedirs,
       <1>DeadQuiet DEF IInv

LEMMA AllocThreadInv == ASSUME IInv, AllocThread, ~torn'
  PROVE  IInv'
<1>i. /\ Types /\ Registers /\ ThreadSlots /\ Start /\ Counts /\ Kills /\ Frees
      /\ ActiveUser /\ NoPanic /\ ThreadLists /\ ProcessLists /\ Pagedirs /\ DeadQuiet
  BY DEF IInv
<1>f. Facts
  BY <1>i, TypeFacts
<1>1. /\ threads \in ThreadTable /\ 0 \in Pids /\ 0 \in Tids /\ tid \in 0..MaxThreads
      /\ last_tid \in Tids
      /\ \A u \in Tids : u \in 0..MaxThreads
  BY <1>i, <1>f DEF Facts, Types, TypeOK, Tids
<1>2. PICK t \in Tids :
        \/ pc' = "fp_clear" /\ UNCHANGED <<threads, last_tid, tid>>
        \/ /\ pc' = "nt_run" /\ tid' = t /\ last_tid' = t /\ State(t) = "FREE"
           /\ threads' = [threads EXCEPT ![t] = [NoThread EXCEPT !.state = "ALLOCED"]]
  BY <1>1, FreeSlot DEF AllocThread
<1>3. \/ /\ pc' = "fp_clear" /\ threads' \in ThreadTable /\ tid' \in 0..MaxThreads
         /\ last_tid' \in Tids
         /\ \A u \in Tids :
                 State(u)' = State(u) /\ Owner(u)' = Owner(u) /\ Entry(u)' = Entry(u)
      \/ /\ pc' = "nt_run" /\ tid' = t /\ last_tid' = t /\ State(t) = "FREE"
         /\ threads' \in ThreadTable 
         /\ State(t)' = "ALLOCED" /\ Owner(t)' = 0 /\ Entry(t)' = "none"
         /\ \A u \in Tids : u # t =>
              State(u)' = State(u) /\ Owner(u)' = Owner(u) /\ Entry(u)' = Entry(u)
  <2>1. CASE pc' = "fp_clear" /\ UNCHANGED <<threads, last_tid, tid>>
    BY <1>1, <2>1, SameThreads
  <2>2. CASE /\ pc' = "nt_run" /\ tid' = t /\ last_tid' = t /\ State(t) = "FREE"
             /\ threads' = [threads EXCEPT ![t] = [NoThread EXCEPT !.state = "ALLOCED"]]
    <3>1. /\ threads' \in ThreadTable 
          /\ State(t)' = "ALLOCED" /\ Owner(t)' = 0 /\ Entry(t)' = "none"
          /\ \A u \in Tids : u # t =>
               State(u)' = State(u) /\ Owner(u)' = Owner(u) /\ Entry(u)' = Entry(u)
      BY <1>1, <2>2 DEF NoThread, ThreadTable, State, Owner, Entry, TP_STATES, Entries
    <3> QED BY <2>2, <3>1
  <2> QED BY <1>2, <2>1, <2>2
<1>e. /\ pc = "nt_alloc" /\ threads' \in ThreadTable /\ last_tid' \in Tids
      /\ tid' \in 0..MaxThreads
      /\ t \in Tids
      /\ \/ /\ pc' = "fp_clear"
            /\ \A u \in Tids :
                    State(u)' = State(u) /\ Owner(u)' = Owner(u) /\ Entry(u)' = Entry(u)
         \/ /\ pc' = "nt_run" /\ tid' = t /\ State(t) = "FREE"
            /\ State(t)' = "ALLOCED" /\ Owner(t)' = 0 /\ Entry(t)' = "none"
            /\ \A u \in Tids : u # t =>
                    State(u)' = State(u) /\ Owner(u)' = Owner(u) /\ Entry(u)' = Entry(u)
      /\ \A q \in Pids :
           PState(q)' = PState(q) /\ Count(q)' = Count(q) /\ (HasPd(q)' <=> HasPd(q))
      /\ UNCHANGED << mode, processes, thread_count, process_count, active_tid,
                      last_run, last_pid, threads_ended_arr, threads_ended,
                      processes_ended_arr, processes_ended, ret, reg, pid, left, torn>>
  BY <1>1, <1>2, <1>3, SameProcesses DEF AllocThread, ShellAt, lists
<1>Types. Types'
  BY <1>i, <1>f, <1>e, NotPanics DEF Types, TypeOK, PcLabels, Facts
<1>Registers. Registers'
  BY <1>i, <1>f, <1>e, NotPanics DEF Registers, Facts
<1>ThreadSlots. ThreadSlots'
  BY <1>i, <1>f, <1>e, NotPanics, SMTT(60) DEF ThreadSlots, Alive, Facts
<1>Start. Start'
  BY <1>i, <1>f, <1>e, NotPanics DEF Start, Starting, Cleaning, Facts
<1>Counts. Counts'
  BY <1>i, <1>f, <1>e, NotPanics DEF Counts, Starting, Cleaning, Facts
<1>Kills. Kills'
  BY <1>i, <1>f, <1>e, NotPanics DEF Kills, Killing, Facts
<1>Frees. Frees'
  BY <1>i, <1>f, <1>e
    DEF Frees, Cleaning, Alive, Start, Starting, Kills, Killing, ThreadSlots, DeadQuiet,
          Dead, Facts
<1>ActiveUser. ActiveUser'
  BY <1>i, <1>f, <1>e, NotPanics DEF ActiveUser, Facts
<1>NoPanic. NoPanic'
  BY <1>i, <1>f, <1>e, NotPanics DEF NoPanic, Facts
<1>ThreadLists. ThreadLists'
  BY <1>i, <1>f, <1>e, NotPanics DEF ThreadLists, ThreadInHand, Facts
<1>ProcessLists. ProcessLists'
  BY <1>i, <1>f, <1>e
    DEF ProcessLists, ProcessHeld, Cleaning, Registers, Frees, Alive, Start, Starting,
          Facts
<1>Pagedirs. Pagedirs'
  BY <1>i, <1>f, <1>e, NotPanics DEF Pagedirs, Alive, Facts
<1>DeadQuiet. DeadQuiet'
  BY <1>i, <1>f, <1>e, NotPanics DEF DeadQuiet, Killing, Dead, Facts
<1> QED
  BY <1>Types, <1>Registers, <1>ThreadSlots, <1>Start, <1>Counts, <1>Kills, <1>Frees,
       <1>ActiveUser, <1>NoPanic, <1>ThreadLists, <1>ProcessLists, <1>Pagedirs,
       <1>DeadQuiet DEF IInv

LEMMA NewThreadInv == ASSUME IInv, NewThread, ~torn'
  PROVE  IInv'
<1>i. /\ Types /\ Registers /\ ThreadSlots /\ Start /\ Counts /\ Kills /\ Frees
      /\ ActiveUser /\ NoPanic /\ ThreadLists /\ ProcessLists /\ Pagedirs /\ DeadQuiet
  BY DEF IInv
<1>f. Facts
  BY <1>i, TypeFacts
<1>1. PICK p \in Pids : p = pid
  BY <1>f DEF Facts
<1>2. PICK t \in Tids : t = tid /\ State(t) = "ALLOCED" /\ Entry(active_tid) = "run_sh"
  BY <1>i DEF NewThread, ShellAt, Start, Entry
<1>3. /\ p # 0
      /\ processes' \in ProcessTable 
      /\ PState(p)' = PState(p) /\ Count(p)' = Count(p) + 1 /\ (HasPd(p)' <=> HasPd(p))
      /\ \A q \in Pids : q # p =>
           PState(q)' = PState(q) /\ Count(q)' = Count(q) /\ (HasPd(q)' <=> HasPd(q))
  <2>1. processes \in ProcessTable /\ processes' = [processes EXCEPT ![p].count = @ + 1]
    BY <1>f, <1>1 DEF Facts, NewThread
  <2>2. p # 0
    BY <1>i, <1>1 DEF NewThread, ShellAt, Start, Starting, ThreadSlots
  <2> QED BY <2>1, <2>2, IncCount
<1>4. /\ threads' \in ThreadTable /\ thread_count' \in Int
      /\ \/ pc' = "fp_clear" /\ State(t)' = "FREE" /\ Owner(t)' = 0 /\ Entry(t)' = "none"
         \/ pc' = "np_run" /\ State(t)' = "RUNNING" /\ Owner(t)' = p /\ Entry(t)' = "user"
      /\ \A u \in Tids : u # t =>
              State(u)' = State(u) /\ Owner(u)' = Owner(u) /\ Entry(u)' = Entry(u)
  <2>1. /\ threads \in ThreadTable /\ 0 \in Pids /\ thread_count \in Int
        /\ thread_count + 1 \in Int
    BY <1>i, <1>f DEF Facts, Types, TypeOK
  <2>2. CASE /\ threads' = [threads EXCEPT ![t] = NoThread] /\ pc' = "fp_clear"
             /\ UNCHANGED thread_count
    <3>1. /\ threads' \in ThreadTable 
          /\ State(t)' = "FREE" /\ Owner(t)' = 0 /\ Entry(t)' = "none"
          /\ \A u \in Tids : u # t =>
               State(u)' = State(u) /\ Owner(u)' = Owner(u) /\ Entry(u)' = Entry(u)
      BY <2>1, <2>2 DEF NoThread, ThreadTable, State, Owner, Entry, TP_STATES, Entries
    <3> QED BY <2>1, <2>2, <3>1
  <2>3. CASE /\ threads' = [threads EXCEPT ![t] = [state |-> "RUNNING", pid |-> p, entry |-> "user"]]
             /\ pc' = "np_run" /\ thread_count' = thread_count + 1
    <3>1. /\ threads' \in ThreadTable 
          /\ State(t)' = "RUNNING" /\ Owner(t)' = p /\ Entry(t)' = "user"
          /\ \A u \in Tids : u # t =>
               State(u)' = State(u) /\ Owner(u)' = Owner(u) /\ Entry(u)' = Entry(u)
      BY <2>1, <2>3 DEF ThreadTable, State, Owner, Entry, TP_STATES, Entries
    <3> QED BY <2>1, <2>3, <3>1
  <2> QED BY <1>1, <1>2, <2>2, <2>3 DEF NewThread, FreedThread
<1>e. /\ pc = "nt_run" /\ t \in Tids /\ tid = t /\ State(t) = "ALLOCED"
      /\ Entry(active_tid) = "run_sh"  /\ p \in Pids /\ pid = p /\ p # 0
      /\ thread_count' \in Int
      /\ processes' \in ProcessTable 
      /\ PState(p)' = PState(p) /\ Count(p)' = Count(p) + 1 /\ (HasPd(p)' <=> HasPd(p))
      /\ \A q \in Pids : q # p =>
           PState(q)' = PState(q) /\ Count(q)' = Count(q) /\ (HasPd(q)' <=> HasPd(q))
      /\ threads' \in ThreadTable
      /\ \/ pc' = "fp_clear" /\ State(t)' = "FREE" /\ Owner(t)' = 0 /\ Entry(t)' = "none"
         \/ pc' = "np_run" /\ State(t)' = "RUNNING" /\ Owner(t)' = p /\ Entry(t)' = "user"
      /\ \A u \in Tids : u # t =>
              State(u)' = State(u) /\ Owner(u)' = Owner(u) /\ Entry(u)' = Entry(u)
      /\ UNCHANGED << mode, process_count, active_tid, last_run, last_tid, last_pid,
                      threads_ended_arr, threads_ended, processes_ended_arr,
                      processes_ended, ret, reg, tid, pid, left, torn>>
  BY <1>1, <1>2, <1>3, <1>4 DEF NewThread, ShellAt, lists
<1>Types. Types'
  BY <1>i, <1>f, <1>e, NotPanics DEF Types, TypeOK, PcLabels, Facts
<1>Registers. Registers'
  BY <1>i, <1>f, <1>e, NotPanics DEF Registers, Facts
<1>ThreadSlots. ThreadSlots'
  <2> DEFINE slot(v) ==
        /\ State(v) # "ENDING"
        /\ ~Alive(v) => Owner(v) = 0 /\ Entry(v) = "none"
        /\ Alive(v) => (Entry(v) = "user" <=> Owner(v) # 0)
        /\ State(v) = "ENDED" =>
             Entry(v) = "user" /\ PState(Owner(v)) \in {"ENDED", "ENDING"}
        /\ State(v) = "ALLOCED" => pc = "nt_run" /\ v = tid
        /\ Alive(v) /\ PState(Owner(v)) = "ALLOCED" => pc = "np_run" /\ v = tid
  <2>1. (PState(0) = "RUNNING" /\ HasPd(0))'
    BY <1>i, <1>f, <1>e DEF ThreadSlots, Facts
  <2>2. ASSUME NEW u \in Tids PROVE slot(u)'
    BY <1>i, <1>f, <1>e, SMTT(60)
      DEF ThreadSlots, Alive, Start, Starting, Cleaning, Kills, Killing, Facts
  <2>3. \A u, v \in Tids :
          (Alive(u) /\ Alive(v) /\ Owner(u) # 0 /\ Owner(u) = Owner(v))' => u = v
    <3>1. \A u \in Tids : Alive(u) => Owner(u) # p
      BY <1>i, <1>f, <1>e DEF ThreadSlots, Start, Starting, Facts
    <3>2. \A u \in Tids : Alive(u)' /\ Owner(u)' # 0 =>
              \/ Alive(u) /\ Owner(u)' = Owner(u)
              \/ u = t /\ Owner(u)' = p
      BY <1>e DEF Alive
    <3> QED BY <1>i, <3>1, <3>2 DEF ThreadSlots
  <2> QED BY <2>1, <2>2, <2>3 DEF ThreadSlots
<1>Start. Start'
  BY <1>i, <1>f, <1>e, NotPanics DEF Start, Starting, Cleaning, Facts
<1>Counts. Counts'
  BY <1>i, <1>f, <1>e, NotPanics, SMTT(60) DEF Counts, Starting, Cleaning, Facts
<1>Kills. Kills'
  BY <1>i, <1>f, <1>e, NotPanics DEF Kills, Killing, Facts
<1>Frees. Frees'
  BY <1>i, <1>f, <1>e, SMTT(60)
    DEF Frees, Cleaning, Alive, Start, Starting, Kills, Killing, ThreadSlots, DeadQuiet,
          Dead, Facts
<1>ActiveUser. ActiveUser'
  BY <1>i, <1>f, <1>e DEF ActiveUser, ThreadSlots, Alive, Kills, Killing, Facts
<1>NoPanic. NoPanic'
  BY <1>i, <1>f, <1>e, NotPanics DEF NoPanic, Facts
<1>ThreadLists. ThreadLists'
  BY <1>i, <1>f, <1>e
    DEF ThreadLists, ThreadInHand, Registers, Start, Starting, Cleaning, Facts
<1>ProcessLists. ProcessLists'
  BY <1>i, <1>f, <1>e
    DEF ProcessLists, ProcessHeld, Cleaning, Registers, Frees, Alive, Start, Starting,
          Facts
<1>Pagedirs. Pagedirs'
  BY <1>i, <1>f, <1>e, ZenonT(60)
    DEF Pagedirs, Alive, ThreadSlots, Start, Starting, Cleaning, Frees, Facts
<1>DeadQuiet. DeadQuiet'
  BY <1>i, <1>f, <1>e, SMTT(60)
    DEF DeadQuiet, Killing, Dead, ThreadSlots, Alive, Kills, Start, Starting, Cleaning,
          Facts
<1> QED
  BY <1>Types, <1>Registers, <1>ThreadSlots, <1>Start, <1>Counts, <1>Kills, <1>Frees,
       <1>ActiveUser, <1>NoPanic, <1>ThreadLists, <1>ProcessLists, <1>Pagedirs,
       <1>DeadQuiet DEF IInv

LEMMA ProcessRunningInv == ASSUME IInv, ProcessRunning, ~torn'
  PROVE  IInv'
<1>i. /\ Types /\ Registers /\ ThreadSlots /\ Start /\ Counts /\ Kills /\ Frees
      /\ ActiveUser /\ NoPanic /\ ThreadLists /\ ProcessLists /\ Pagedirs /\ DeadQuiet
  BY DEF IInv
<1>f. Facts
  BY <1>i, TypeFacts
<1>1. PICK p \in Pids : p = pid
  BY <1>f DEF Facts
<1>2. PState(p) = "ALLOCED" /\ Count(p) = 1 /\ HasPd(p) /\ tid \in Tids
  BY <1>i, <1>1 DEF ProcessRunning, ShellAt, Start, Starting, Counts
<1>3. /\ processes' \in ProcessTable 
      /\ PState(p)' = "RUNNING" /\ Count(p)' = Count(p) /\ (HasPd(p)' <=> HasPd(p))
      /\ \A q \in Pids : q # p =>
           PState(q)' = PState(q) /\ Count(q)' = Count(q) /\ (HasPd(q)' <=> HasPd(q))
  <2>1. processes \in ProcessTable
    BY <1>f DEF Facts
  <2>2. processes' = [processes EXCEPT ![p].tid0 = tid, ![p].state = "RUNNING"]
    BY <1>1 DEF ProcessRunning
  <2> QED BY <1>2, <2>1, <2>2 DEF ProcessTable, PState, Count, HasPd, TP_STATES
<1>e. /\ pc = "np_run" /\ pc' = "np_count" /\ p \in Pids /\ p = pid /\ PState(p) = "ALLOCED"
      /\ Count(p) = 1 /\ HasPd(p)
      /\ processes' \in ProcessTable 
      /\ PState(p)' = "RUNNING" /\ Count(p)' = Count(p) /\ (HasPd(p)' <=> HasPd(p))
      /\ \A q \in Pids : q # p =>
           PState(q)' = PState(q) /\ Count(q)' = Count(q) /\ (HasPd(q)' <=> HasPd(q))
      /\ \A u \in Tids :
           State(u)' = State(u) /\ Owner(u)' = Owner(u) /\ Entry(u)' = Entry(u)
      /\ UNCHANGED << mode, threads, thread_count, process_count, active_tid, last_run,
                      last_tid, last_pid, threads_ended_arr, threads_ended,
                      processes_ended_arr, processes_ended, ret, reg, tid, pid, left,
                      torn>>
  BY <1>1, <1>2, <1>3, SameThreads DEF ProcessRunning, ShellAt, lists
<1>Types. Types'
  BY <1>i, <1>f, <1>e, NotPanics DEF Types, TypeOK, PcLabels, Facts
<1>Registers. Registers'
  BY <1>i, <1>f, <1>e, NotPanics DEF Registers, Facts
<1>ThreadSlots. ThreadSlots'
  BY <1>i, <1>f, <1>e
    DEF ThreadSlots, Alive, Start, Starting, Cleaning, Kills, Killing, Frees, Facts
<1>Start. Start'
  BY <1>i, <1>f, <1>e, NotPanics DEF Start, Starting, Cleaning, Facts
<1>Counts. Counts'
  BY <1>i, <1>f, <1>e, NotPanics DEF Counts, Starting, Cleaning, Facts
<1>Kills. Kills'
  BY <1>i, <1>f, <1>e, NotPanics DEF Kills, Killing, Facts
<1>Frees. Frees'
  BY <1>i, <1>f, <1>e, NotPanics DEF Frees, Cleaning, Alive, Facts
<1>ActiveUser. ActiveUser'
  BY <1>i, <1>f, <1>e, NotPanics DEF ActiveUser, Facts
<1>NoPanic. NoPanic'
  BY <1>i, <1>f, <1>e, NotPanics DEF NoPanic, Facts
<1>ThreadLists. ThreadLists'
  BY <1>i, <1>f, <1>e, NotPanics DEF ThreadLists, ThreadInHand, Facts
<1>ProcessLists. ProcessLists'
  BY <1>i, <1>f, <1>e, NotPanics DEF ProcessLists, ProcessHeld, Cleaning, Facts
<1>Pagedirs. Pagedirs'
  BY <1>i, <1>f, <1>e, NotPanics DEF Pagedirs, Alive, Facts
<1>DeadQuiet. DeadQuiet'
  BY <1>i, <1>f, <1>e, NotPanics DEF DeadQuiet, Killing, Dead, Facts
<1> QED
  BY <1>Types, <1>Registers, <1>ThreadSlots, <1>Start, <1>Counts, <1>Kills, <1>Frees,
       <1>ActiveUser, <1>NoPanic, <1>ThreadLists, <1>ProcessLists, <1>Pagedirs,
       <1>DeadQuiet DEF IInv

LEMMA ProcessCountInv == ASSUME IInv, ProcessCount, ~torn'
  PROVE  IInv'
<1>i. /\ Types /\ Registers /\ ThreadSlots /\ Start /\ Counts /\ Kills /\ Frees
      /\ ActiveUser /\ NoPanic /\ ThreadLists /\ ProcessLists /\ Pagedirs /\ DeadQuiet
  BY DEF IInv
<1>f. Facts
  BY <1>i, TypeFacts
<1>1. process_count + 1 \in Int
  BY <1>i DEF Types, TypeOK
<1>e. /\ pc = "np_count" /\ pc' = "idle" /\ process_count' \in Int
      /\ \A u \in Tids :
           State(u)' = State(u) /\ Owner(u)' = Owner(u) /\ Entry(u)' = Entry(u)
      /\ \A q \in Pids :
           PState(q)' = PState(q) /\ Count(q)' = Count(q) /\ (HasPd(q)' <=> HasPd(q))
      /\ UNCHANGED << mode, threads, processes, thread_count, active_tid, last_run,
                      last_tid, last_pid, threads_ended_arr, threads_ended,
                      processes_ended_arr, processes_ended, ret, reg, tid, pid, left,
                      torn>>
  BY <1>1, SameThreads, SameProcesses DEF ProcessCount, ShellAt, lists
<1>Types. Types'
  BY <1>i, <1>f, <1>e, NotPanics DEF Types, TypeOK, PcLabels, Facts
<1>Registers. Registers'
  BY <1>i, <1>f, <1>e, NotPanics DEF Registers, Facts
<1>ThreadSlots. ThreadSlots'
  BY <1>i, <1>f, <1>e, NotPanics DEF ThreadSlots, Alive, Facts
<1>Start. Start'
  BY <1>i, <1>f, <1>e, NotPanics DEF Start, Starting, Cleaning, Facts
<1>Counts. Counts'
  BY <1>i, <1>f, <1>e, NotPanics DEF Counts, Starting, Cleaning, Facts
<1>Kills. Kills'
  BY <1>i, <1>f, <1>e, NotPanics DEF Kills, Killing, Facts
<1>Frees. Frees'
  BY <1>i, <1>f, <1>e, NotPanics DEF Frees, Cleaning, Alive, Facts
<1>ActiveUser. ActiveUser'
  BY <1>i, <1>f, <1>e, NotPanics DEF ActiveUser, Facts
<1>NoPanic. NoPanic'
  BY <1>i, <1>f, <1>e, NotPanics DEF NoPanic, Facts
<1>ThreadLists. ThreadLists'
  BY <1>i, <1>f, <1>e, NotPanics DEF ThreadLists, ThreadInHand, Facts
<1>ProcessLists. ProcessLists'
  BY <1>i, <1>f, <1>e, NotPanics DEF ProcessLists, ProcessHeld, Cleaning, Facts
<1>Pagedirs. Pagedirs'
  BY <1>i, <1>f, <1>e, NotPanics DEF Pagedirs, Alive, Facts
<1>DeadQuiet. DeadQuiet'
  BY <1>i, <1>f, <1>e, NotPanics DEF DeadQuiet, Killing, Dead, Facts
<1> QED
  BY <1>Types, <1>Registers, <1>ThreadSlots, <1>Start, <1>Counts, <1>Kills, <1>Frees,
       <1>ActiveUser, <1>NoPanic, <1>ThreadLists, <1>ProcessLists, <1>Pagedirs,
       <1>DeadQuiet DEF IInv

-----------------------------------------------------------------------------
(* The shell kills a process.                                              *)

LEMMA KillInv == ASSUME KernelNotKilled, IInv, Kill, ~torn'
  PROVE  IInv'
<1>i. /\ Types /\ Registers /\ ThreadSlots /\ Start /\ Counts /\ Kills /\ Frees
      /\ ActiveUser /\ NoPanic /\ ThreadLists /\ ProcessLists /\ Pagedirs /\ DeadQuiet
  BY DEF IInv
<1>f. Facts
  BY <1>i, TypeFacts
<1>1. pc = "idle" /\ pid' \in Pids /\ pid' # 0 /\ PState(pid') \notin Dead
  BY SizeAssumption DEF KernelNotKilled, Kill, MayKill, ShellAt, PState
<1>2. PState(pid') # "ALLOCED"
  BY <1>i, <1>1 DEF Start, Starting, Cleaning
<1>3. PState(pid') = "RUNNING"
  BY <1>f, <1>1, <1>2 DEF Facts, TP_STATES, Dead
<1>e. /\ pc = "idle" /\ pc' = "kp_mark" /\ pid' \in Pids
      /\ PState(pid') = "RUNNING" /\ pid' # 0
      /\ \A u \in Tids :
           State(u)' = State(u) /\ Owner(u)' = Owner(u) /\ Entry(u)' = Entry(u)
      /\ \A q \in Pids :
           PState(q)' = PState(q) /\ Count(q)' = Count(q) /\ (HasPd(q)' <=> HasPd(q))
      /\ UNCHANGED << mode, threads, processes, thread_count, process_count, active_tid,
                      last_run, last_tid, last_pid, threads_ended_arr, threads_ended,
                      processes_ended_arr, processes_ended, ret, reg, tid, left, torn>>
  BY <1>1, <1>2, <1>3, SameThreads, SameProcesses DEF Kill, ShellAt, lists, locals
<1>Types. Types'
  BY <1>i, <1>e DEF Types, TypeOK, PcLabels
<1>Registers. Registers'
  BY <1>i, <1>e DEF Registers
<1>ThreadSlots. ThreadSlots'
  BY <1>i, <1>f, <1>e, NotPanics DEF ThreadSlots, Alive, Facts
<1>Start. Start'
  BY <1>i, <1>e DEF Start, Starting, Cleaning
<1>Counts. Counts'
  BY <1>i, <1>e DEF Counts, Starting, Cleaning
<1>Kills. Kills'
  BY <1>i, <1>e DEF Kills, Killing
<1>Frees. Frees'
  BY <1>i, <1>e DEF Frees, Cleaning, Alive
<1>ActiveUser. ActiveUser'
  BY <1>i, <1>f, <1>e, NotPanics DEF ActiveUser, Facts
<1>NoPanic. NoPanic'
  BY <1>i, <1>e DEF NoPanic
<1>ThreadLists. ThreadLists'
  BY <1>i, <1>e DEF ThreadLists, ThreadInHand
<1>ProcessLists. ProcessLists'
  BY <1>i, <1>e DEF ProcessLists, ProcessHeld, Cleaning
<1>Pagedirs. Pagedirs'
  BY <1>i, <1>f, <1>e, NotPanics DEF Pagedirs, Alive, Facts
<1>DeadQuiet. DeadQuiet'
  BY <1>i, <1>f, <1>e, NotPanics DEF DeadQuiet, Killing, Dead, Facts
<1> QED
  BY <1>Types, <1>Registers, <1>ThreadSlots, <1>Start, <1>Counts, <1>Kills, <1>Frees,
       <1>ActiveUser, <1>NoPanic, <1>ThreadLists, <1>ProcessLists, <1>Pagedirs,
       <1>DeadQuiet DEF IInv

LEMMA KillProcessMarkInv == ASSUME IInv, KillProcessMark, ~torn'
  PROVE  IInv'
<1>i. /\ Types /\ Registers /\ ThreadSlots /\ Start /\ Counts /\ Kills /\ Frees
      /\ ActiveUser /\ NoPanic /\ ThreadLists /\ ProcessLists /\ Pagedirs /\ DeadQuiet
  BY DEF IInv
<1>f. Facts
  BY <1>i, TypeFacts
<1>1. PICK p \in Pids : p = pid
  BY <1>f DEF Facts
<1>2. PState(p) = "RUNNING" /\ p # 0 /\ Count(p) = 1
  BY <1>i, <1>1 DEF KillProcessMark, ShellAt, Kills, Counts
<1>3. /\ processes' \in ProcessTable 
      /\ PState(p)' = "ENDING" /\ Count(p)' = Count(p) /\ (HasPd(p)' <=> HasPd(p))
      /\ \A q \in Pids : q # p =>
           PState(q)' = PState(q) /\ Count(q)' = Count(q) /\ (HasPd(q)' <=> HasPd(q))
  <2>1. processes \in ProcessTable /\ processes' = [processes EXCEPT ![p].state = "ENDING"]
    BY <1>f, <1>1 DEF Facts, KillProcessMark, Ending
  <2> QED BY <2>1 DEF ProcessTable, PState, Count, HasPd, TP_STATES
<1>e. /\ pc = "kp_mark" /\ pc' = "kp_loop" /\ tid' = 0 /\ left' = 1 /\ p \in Pids /\ p = pid
      /\ PState(p) = "RUNNING" /\ p # 0 /\ Entry(active_tid) = "run_sh" /\ \A u \in Tids : u >= 0
      /\ processes' \in ProcessTable 
      /\ PState(p)' = "ENDING" /\ Count(p)' = Count(p) /\ (HasPd(p)' <=> HasPd(p))
      /\ \A q \in Pids : q # p =>
           PState(q)' = PState(q) /\ Count(q)' = Count(q) /\ (HasPd(q)' <=> HasPd(q))
      /\ \A u \in Tids :
           State(u)' = State(u) /\ Owner(u)' = Owner(u) /\ Entry(u)' = Entry(u)
      /\ UNCHANGED << mode, threads, thread_count, process_count, active_tid, last_run,
                      last_tid, last_pid, threads_ended_arr, threads_ended,
                      processes_ended_arr, processes_ended, ret, reg, pid, torn>>
  BY <1>1, <1>2, <1>3, SameThreads
    DEF KillProcessMark, ShellAt, lists, Count, Entry, Tids
<1>Types. Types'
  BY <1>i, <1>f, <1>e, NotPanics DEF Types, TypeOK, PcLabels, Facts
<1>Registers. Registers'
  BY <1>i, <1>f, <1>e, NotPanics DEF Registers, Facts
<1>ThreadSlots. ThreadSlots'
  BY <1>i, <1>f, <1>e, NotPanics DEF ThreadSlots, Alive, Facts
<1>Start. Start'
  BY <1>i, <1>f, <1>e, NotPanics DEF Start, Starting, Cleaning, Facts
<1>Counts. Counts'
  BY <1>i, <1>f, <1>e, NotPanics DEF Counts, Starting, Cleaning, Facts
<1>Kills. Kills'
  BY <1>i, <1>f, <1>e, NotPanics DEF Kills, Killing, Facts
<1>Frees. Frees'
  BY <1>i, <1>f, <1>e, NotPanics DEF Frees, Cleaning, Alive, Facts
<1>ActiveUser. ActiveUser'
  BY <1>i, <1>f, <1>e, NotPanics DEF ActiveUser, Facts
<1>NoPanic. NoPanic'
  BY <1>i, <1>f, <1>e, NotPanics DEF NoPanic, Facts
<1>ThreadLists. ThreadLists'
  BY <1>i, <1>f, <1>e, NotPanics DEF ThreadLists, ThreadInHand, Facts
<1>ProcessLists. ProcessLists'
  BY <1>i, <1>f, <1>e, NotPanics DEF ProcessLists, ProcessHeld, Cleaning, Facts
<1>Pagedirs. Pagedirs'
  BY <1>i, <1>f, <1>e, NotPanics DEF Pagedirs, Alive, Facts
<1>DeadQuiet. DeadQuiet'
  BY <1>i, <1>f, <1>e, NotPanics DEF DeadQuiet, Killing, Dead, Facts
<1> QED
  BY <1>Types, <1>Registers, <1>ThreadSlots, <1>Start, <1>Counts, <1>Kills, <1>Frees,
       <1>ActiveUser, <1>NoPanic, <1>ThreadLists, <1>ProcessLists, <1>Pagedirs,
       <1>DeadQuiet DEF IInv

LEMMA KillThreadInv == ASSUME IInv, KillThread, ~torn'
  PROVE  IInv'
<1>i. /\ Types /\ Registers /\ ThreadSlots /\ Start /\ Counts /\ Kills /\ Frees
      /\ ActiveUser /\ NoPanic /\ ThreadLists /\ ProcessLists /\ Pagedirs /\ DeadQuiet
  BY DEF IInv
<1>f. Facts
  BY <1>i, TypeFacts
<1>1. PICK t \in Tids :
        /\ t >= tid /\ Owner(t) = pid /\ tid' = t + 1 /\ left' = left - 1
        /\ mode = "run" /\ pc = "kp_loop" /\ pid # 0
        /\ \/ State(t) = "FREE"
           \/ State(t) = "ENDED" /\ UNCHANGED <<mode, threads, thread_count, reg, pc>>
           \/ /\ State(t) \notin {"FREE", "ENDED"}
              /\ threads' = IF State(t) = "ALLOCED" THEN threads
                            ELSE [threads EXCEPT ![t].state = "ENDED"]
              /\ thread_count' = thread_count - 1 /\ reg' = threads_ended
              /\ pc' = "kt_push" /\ mode' = mode
  BY <1>i
    DEF KillThread, ShellAt, NextToKill, ToKill, KilledThreads, Kills, Killing, State,
        Owner
<1>2. State(t) \in {"RUNNING", "ENDED"}
  BY <1>i, <1>1 DEF ThreadSlots, Alive
<1>3. threads \in ThreadTable /\ thread_count \in Int /\ thread_count - 1 \in Int
  BY <1>i, <1>f DEF Facts, Types, TypeOK
<1>4. /\ thread_count' \in Int /\ threads' \in ThreadTable /\ mode' = mode
      /\ \/ /\ State(t) = "ENDED" /\ pc' = "kp_loop" /\ reg' = reg
            /\ \A u \in Tids :
                    State(u)' = State(u) /\ Owner(u)' = Owner(u) /\ Entry(u)' = Entry(u)
         \/ /\ State(t) = "RUNNING" /\ pc' = "kt_push" /\ reg' = threads_ended
            /\ State(t)' = "ENDED" /\ Owner(t)' = Owner(t) /\ Entry(t)' = Entry(t)
            /\ \A u \in Tids : u # t =>
                    State(u)' = State(u) /\ Owner(u)' = Owner(u) /\ Entry(u)' = Entry(u)
  <2>1. CASE State(t) = "ENDED"
    BY <1>1, <1>3, <2>1, SameThreads
  <2>2. CASE State(t) = "RUNNING"
    <3>1. threads' = [threads EXCEPT ![t].state = "ENDED"]
      BY <1>1, <2>2
    <3> QED BY <1>1, <1>3, <2>2, <3>1, EndThread
  <2> QED BY <1>2, <2>1, <2>2
<1>5. tid' \in 1..MaxThreads /\ tid' - 1 = t /\ left' \in Int /\ reg' \in Int
  <2>1. /\ MaxThreads \in Nat /\ left \in Int /\ reg \in Int /\ threads_ended \in Int
        /\ t \in 0..(MaxThreads - 1)
    BY <1>f DEF Facts, Tids
  <2>2. tid' = t + 1 /\ left' = left - 1 /\ (reg' = reg \/ reg' = threads_ended)
    BY <1>1, <1>4
  <2> QED BY <2>1, <2>2
<1>e. /\ pc = "kp_loop" /\ t \in Tids /\ Owner(t) = pid /\ pid # 0
      /\ State(t) \in {"RUNNING", "ENDED"}
      /\ t >= tid /\ tid' \in 1..MaxThreads /\ tid' - 1 = t /\ left' \in Int /\ reg' \in Int
      /\ Entry(active_tid) = "run_sh"
      /\ thread_count' \in Int /\ threads' \in ThreadTable
      /\ \/ /\ State(t) = "ENDED" /\ pc' = "kp_loop" /\ reg' = reg
            /\ \A u \in Tids :
                    State(u)' = State(u) /\ Owner(u)' = Owner(u) /\ Entry(u)' = Entry(u)
         \/ /\ State(t) = "RUNNING" /\ pc' = "kt_push" /\ reg' = threads_ended
            /\ State(t)' = "ENDED" /\ Owner(t)' = Owner(t) /\ Entry(t)' = Entry(t)
            /\ \A u \in Tids : u # t =>
                    State(u)' = State(u) /\ Owner(u)' = Owner(u) /\ Entry(u)' = Entry(u)
      /\ \A q \in Pids :
           PState(q)' = PState(q) /\ Count(q)' = Count(q) /\ (HasPd(q)' <=> HasPd(q))
      /\ UNCHANGED << mode, processes, process_count, active_tid, last_run, last_tid,
                      last_pid, threads_ended_arr, threads_ended, processes_ended_arr,
                      processes_ended, ret, pid, torn>>
  BY <1>1, <1>2, <1>3, <1>4, <1>5, SameProcesses DEF KillThread, ShellAt, lists, Entry
<1>Types. Types'
  BY <1>i, <1>f, <1>e, NotPanics, SMTT(60) DEF Types, TypeOK, PcLabels, Facts
<1>Registers. Registers'
  BY <1>i, <1>f, <1>e, NotPanics DEF Registers, Facts
<1>ThreadSlots. ThreadSlots'
  <2> DEFINE slot(v) ==
        /\ State(v) # "ENDING"
        /\ ~Alive(v) => Owner(v) = 0 /\ Entry(v) = "none"
        /\ Alive(v) => (Entry(v) = "user" <=> Owner(v) # 0)
        /\ State(v) = "ENDED" =>
             Entry(v) = "user" /\ PState(Owner(v)) \in {"ENDED", "ENDING"}
        /\ State(v) = "ALLOCED" => pc = "nt_run" /\ v = tid
        /\ Alive(v) /\ PState(Owner(v)) = "ALLOCED" => pc = "np_run" /\ v = tid
  <2>1. (PState(0) = "RUNNING" /\ HasPd(0))'
    BY <1>i, <1>f, <1>e DEF ThreadSlots, Facts
  <2>2. ASSUME NEW u \in Tids PROVE slot(u)'
    BY <1>i, <1>f, <1>e, SMTT(60)
      DEF ThreadSlots, Alive, Start, Starting, Cleaning, Kills, Killing, Facts
  <2>3. \A u, v \in Tids :
          (Alive(u) /\ Alive(v) /\ Owner(u) # 0 /\ Owner(u) = Owner(v))' => u = v
    BY <1>i, <1>f, <1>e, SMTT(60) DEF ThreadSlots, Alive, Start, Starting, Facts
  <2> QED BY <2>1, <2>2, <2>3 DEF ThreadSlots
<1>Start. Start'
  BY <1>i, <1>f, <1>e, NotPanics DEF Start, Starting, Cleaning, Facts
<1>Counts. Counts'
  BY <1>i, <1>f, <1>e, NotPanics DEF Counts, Starting, Cleaning, Facts
<1>Kills. Kills'
  BY <1>i, <1>f, <1>e, ZenonT(60)
    DEF Kills, Killing, Start, Starting, Cleaning, ThreadSlots, Alive, Frees, Facts
<1>Frees. Frees'
  BY <1>i, <1>f, <1>e, NotPanics DEF Frees, Cleaning, Alive, Facts
<1>ActiveUser. ActiveUser'
  BY <1>i, <1>f, <1>e, NotPanics DEF ActiveUser, Facts
<1>NoPanic. NoPanic'
  BY <1>i, <1>f, <1>e, NotPanics DEF NoPanic, Facts
<1>ThreadLists. ThreadLists'
  BY <1>i, <1>f, <1>e, NotPanics DEF ThreadLists, ThreadInHand, Facts
<1>ProcessLists. ProcessLists'
  BY <1>i, <1>f, <1>e, NotPanics DEF ProcessLists, ProcessHeld, Cleaning, Facts
<1>Pagedirs. Pagedirs'
  BY <1>i, <1>f, <1>e, NotPanics DEF Pagedirs, Alive, Facts
<1>DeadQuiet. DeadQuiet'
  BY <1>i, <1>f, <1>e, NotPanics, ZenonT(60) DEF DeadQuiet, Killing, Dead, Facts
<1> QED
  BY <1>Types, <1>Registers, <1>ThreadSlots, <1>Start, <1>Counts, <1>Kills, <1>Frees,
       <1>ActiveUser, <1>NoPanic, <1>ThreadLists, <1>ProcessLists, <1>Pagedirs,
       <1>DeadQuiet DEF IInv

LEMMA PushThreadInv == ASSUME IInv, PushThread, ~torn'
  PROVE  IInv'
<1>i. /\ Types /\ Registers /\ ThreadSlots /\ Start /\ Counts /\ Kills /\ Frees
      /\ ActiveUser /\ NoPanic /\ ThreadLists /\ ProcessLists /\ Pagedirs /\ DeadQuiet
  BY DEF IInv
<1>f. Facts
  BY <1>i, TypeFacts
<1>1. /\ pc = "kt_push" /\ reg = threads_ended /\ tid - 1 \in Tids
      /\ threads_ended_arr' = [threads_ended_arr EXCEPT ![reg] = tid - 1]
  BY <1>i, SizeAssumption DEF PushThread, ShellAt, Registers, Tids
<1>2. reg < MaxThreads
  <2>1. tid - 1 \notin Listed(threads_ended_arr, threads_ended)
    BY <1>i, <1>1 DEF ThreadLists, ThreadInHand
  <2> QED BY <1>i, <1>f, <1>1, <2>1, ThreadRoom
<1>3. threads_ended_arr' \in [Tids -> Tids] /\ threads_ended_arr'[reg] = tid - 1
  <2>1. reg \in Tids
    BY <1>f, <1>1, <1>2 DEF Facts, Tids
  <2>2. threads_ended_arr \in [Tids -> Tids]
    BY <1>f DEF Facts
  <2> QED BY <1>1, <2>1, <2>2
<1>4. /\ Distinct(threads_ended_arr', threads_ended)
      /\ Listed(threads_ended_arr', threads_ended) = Listed(threads_ended_arr, threads_ended)
  <2>1. 0..(threads_ended - 1) \subseteq Tids /\ threads_ended \in Nat
    BY <1>f DEF Facts, Tids
  <2>2. Distinct(threads_ended_arr, threads_ended) /\ threads_ended_arr \in [Tids -> Tids]
    BY <1>i, <1>f DEF ThreadLists, Facts
  <2> QED BY <1>1, <2>1, <2>2, Write, ZenonT(60)
<1>e. /\ pc = "kt_push" /\ pc' = "kt_count" /\ reg = threads_ended /\ reg < MaxThreads
      /\ threads_ended_arr' \in [Tids -> Tids] /\ threads_ended_arr'[reg] = tid - 1
      /\ Distinct(threads_ended_arr', threads_ended)
      /\ Listed(threads_ended_arr', threads_ended) = Listed(threads_ended_arr, threads_ended)
      /\ \A u \in Tids :
           State(u)' = State(u) /\ Owner(u)' = Owner(u) /\ Entry(u)' = Entry(u)
      /\ \A q \in Pids :
           PState(q)' = PState(q) /\ Count(q)' = Count(q) /\ (HasPd(q)' <=> HasPd(q))
      /\ UNCHANGED << mode, threads, processes, thread_count, process_count, active_tid,
                      last_run, last_tid, last_pid, threads_ended, processes_ended_arr,
                      processes_ended, ret, reg, tid, pid, left, torn>>
  BY <1>1, <1>2, <1>3, <1>4, SameThreads, SameProcesses DEF PushThread, ShellAt, lists
<1>Types. Types'
  BY <1>i, <1>f, <1>e, NotPanics DEF Types, TypeOK, PcLabels, Facts
<1>Registers. Registers'
  BY <1>i, <1>f, <1>e, NotPanics DEF Registers, Facts
<1>ThreadSlots. ThreadSlots'
  BY <1>i, <1>f, <1>e, NotPanics, SMTT(60) DEF ThreadSlots, Alive, Facts
<1>Start. Start'
  BY <1>i, <1>f, <1>e, NotPanics DEF Start, Starting, Cleaning, Facts
<1>Counts. Counts'
  BY <1>i, <1>f, <1>e, NotPanics DEF Counts, Starting, Cleaning, Facts
<1>Kills. Kills'
  BY <1>i, <1>f, <1>e, NotPanics DEF Kills, Killing, Facts
<1>Frees. Frees'
  BY <1>i, <1>f, <1>e, NotPanics DEF Frees, Cleaning, Alive, Facts
<1>ActiveUser. ActiveUser'
  BY <1>i, <1>f, <1>e, NotPanics DEF ActiveUser, Facts
<1>NoPanic. NoPanic'
  BY <1>i, <1>f, <1>e, NotPanics DEF NoPanic, Facts
<1>ThreadLists. ThreadLists'
  BY <1>i, <1>f, <1>e, NotPanics DEF ThreadLists, ThreadInHand, Facts
<1>ProcessLists. ProcessLists'
  BY <1>i, <1>f, <1>e, NotPanics DEF ProcessLists, ProcessHeld, Cleaning, Facts
<1>Pagedirs. Pagedirs'
  BY <1>i, <1>f, <1>e, NotPanics DEF Pagedirs, Alive, Facts
<1>DeadQuiet. DeadQuiet'
  BY <1>i, <1>f, <1>e, NotPanics DEF DeadQuiet, Killing, Dead, Facts
<1> QED
  BY <1>Types, <1>Registers, <1>ThreadSlots, <1>Start, <1>Counts, <1>Kills, <1>Frees,
       <1>ActiveUser, <1>NoPanic, <1>ThreadLists, <1>ProcessLists, <1>Pagedirs,
       <1>DeadQuiet DEF IInv

LEMMA CountThreadInv == ASSUME IInv, CountThread, ~torn'
  PROVE  IInv'
<1>i. /\ Types /\ Registers /\ ThreadSlots /\ Start /\ Counts /\ Kills /\ Frees
      /\ ActiveUser /\ NoPanic /\ ThreadLists /\ ProcessLists /\ Pagedirs /\ DeadQuiet
  BY DEF IInv
<1>f. Facts
  BY <1>i, TypeFacts
<1>1. /\ pc = "kt_count" /\ reg = threads_ended /\ tid - 1 \in Tids /\ reg < MaxThreads
      /\ threads_ended_arr[reg] = tid - 1 /\ threads_ended' = reg + 1
  BY <1>i, SizeAssumption DEF CountThread, ShellAt, Registers, Tids
<1>2. threads_ended \in Nat /\ threads_ended' \in 0..MaxThreads
  BY <1>f, <1>1 DEF Facts
<1>3. /\ Distinct(threads_ended_arr, threads_ended')
      /\ Listed(threads_ended_arr, threads_ended')
            = Listed(threads_ended_arr, threads_ended) \cup {tid - 1}
  <2>1. /\ Distinct(threads_ended_arr, threads_ended)
        /\ tid - 1 \notin Listed(threads_ended_arr, threads_ended)
    BY <1>i, <1>1 DEF ThreadLists, ThreadInHand
  <2> QED BY <1>1, <1>2, <2>1, CountOne
<1>e. /\ pc = "kt_count" /\ pc' = "kp_loop" /\ threads_ended' \in 0..MaxThreads
      /\ Distinct(threads_ended_arr, threads_ended')
      /\ Listed(threads_ended_arr, threads_ended')
            = Listed(threads_ended_arr, threads_ended) \cup {tid - 1}
      /\ \A u \in Tids :
           State(u)' = State(u) /\ Owner(u)' = Owner(u) /\ Entry(u)' = Entry(u)
      /\ \A q \in Pids :
           PState(q)' = PState(q) /\ Count(q)' = Count(q) /\ (HasPd(q)' <=> HasPd(q))
      /\ UNCHANGED << mode, threads, processes, thread_count, process_count, active_tid,
                      last_run, last_tid, last_pid, threads_ended_arr,
                      processes_ended_arr, processes_ended, ret, reg, tid, pid, left,
                      torn>>
  BY <1>1, <1>2, <1>3, SameThreads, SameProcesses DEF CountThread, ShellAt, lists
<1>Types. Types'
  BY <1>i, <1>f, <1>e, NotPanics, SMTT(60) DEF Types, TypeOK, PcLabels, Facts
<1>Registers. Registers'
  BY <1>i, <1>f, <1>e, NotPanics DEF Registers, Facts
<1>ThreadSlots. ThreadSlots'
  BY <1>i, <1>f, <1>e, NotPanics DEF ThreadSlots, Alive, Facts
<1>Start. Start'
  BY <1>i, <1>f, <1>e, NotPanics DEF Start, Starting, Cleaning, Facts
<1>Counts. Counts'
  BY <1>i, <1>f, <1>e, NotPanics DEF Counts, Starting, Cleaning, Facts
<1>Kills. Kills'
  BY <1>i, <1>f, <1>e, NotPanics DEF Kills, Killing, Facts
<1>Frees. Frees'
  BY <1>i, <1>f, <1>e, NotPanics DEF Frees, Cleaning, Alive, Facts
<1>ActiveUser. ActiveUser'
  BY <1>i, <1>f, <1>e, NotPanics DEF ActiveUser, Facts
<1>NoPanic. NoPanic'
  BY <1>i, <1>f, <1>e, NotPanics DEF NoPanic, Facts
<1>ThreadLists. ThreadLists'
  BY <1>i, <1>f, <1>e, NotPanics DEF ThreadLists, ThreadInHand, Facts
<1>ProcessLists. ProcessLists'
  BY <1>i, <1>f, <1>e, NotPanics DEF ProcessLists, ProcessHeld, Cleaning, Facts
<1>Pagedirs. Pagedirs'
  BY <1>i, <1>f, <1>e, NotPanics DEF Pagedirs, Alive, Facts
<1>DeadQuiet. DeadQuiet'
  BY <1>i, <1>f, <1>e, NotPanics DEF DeadQuiet, Killing, Dead, Facts
<1> QED
  BY <1>Types, <1>Registers, <1>ThreadSlots, <1>Start, <1>Counts, <1>Kills, <1>Frees,
       <1>ActiveUser, <1>NoPanic, <1>ThreadLists, <1>ProcessLists, <1>Pagedirs,
       <1>DeadQuiet DEF IInv

LEMMA KillProcessEndedInv == ASSUME IInv, KillProcessEnded, ~torn'
  PROVE  IInv'
<1>i. /\ Types /\ Registers /\ ThreadSlots /\ Start /\ Counts /\ Kills /\ Frees
      /\ ActiveUser /\ NoPanic /\ ThreadLists /\ ProcessLists /\ Pagedirs /\ DeadQuiet
  BY DEF IInv
<1>f. Facts
  BY <1>i, TypeFacts
<1>1. PICK p \in Pids : p = pid /\ p # 0 /\ PState(p) = "ENDING"
  BY <1>i, <1>f DEF KillProcessEnded, ShellAt, Kills, Killing, Facts
<1>2. \A t \in Tids : ~(State(t) = "RUNNING" /\ Owner(t) = p)
  BY <1>i, <1>1 DEF KillProcessEnded, ShellAt, ToKill, Kills, Killing, Owner
<1>3. /\ processes' \in ProcessTable 
      /\ PState(p)' = "ENDED" /\ Count(p)' = Count(p) /\ (HasPd(p)' <=> HasPd(p))
      /\ \A q \in Pids : q # p =>
           PState(q)' = PState(q) /\ Count(q)' = Count(q) /\ (HasPd(q)' <=> HasPd(q))
  <2>1. processes \in ProcessTable /\ processes' = [processes EXCEPT ![p].state = "ENDED"]
    BY <1>f, <1>1 DEF Facts, KillProcessEnded, KilledProcesses
  <2> QED BY <2>1 DEF ProcessTable, PState, Count, HasPd, TP_STATES
<1>4. process_count' \in Int
  <2>1. process_count - 1 \in Int
    BY <1>i DEF Types, TypeOK
  <2> QED BY <2>1 DEF KillProcessEnded
<1>e. /\ pc = "kp_loop" /\ pc' = "kp_push" /\ p \in Pids /\ p = pid /\ p # 0
      /\ PState(p) = "ENDING"
      /\ reg' = processes_ended /\ process_count' \in Int
      /\ \A t \in Tids : ~(State(t) = "RUNNING" /\ Owner(t) = p)
      /\ processes' \in ProcessTable 
      /\ PState(p)' = "ENDED" /\ Count(p)' = Count(p) /\ (HasPd(p)' <=> HasPd(p))
      /\ \A q \in Pids : q # p =>
           PState(q)' = PState(q) /\ Count(q)' = Count(q) /\ (HasPd(q)' <=> HasPd(q))
      /\ \A u \in Tids :
           State(u)' = State(u) /\ Owner(u)' = Owner(u) /\ Entry(u)' = Entry(u)
      /\ UNCHANGED << mode, threads, thread_count, active_tid, last_run, last_tid,
                      last_pid, threads_ended_arr, threads_ended, processes_ended_arr,
                      processes_ended, ret, tid, pid, left, torn>>
  BY <1>1, <1>2, <1>3, <1>4, SameThreads DEF KillProcessEnded, ShellAt, lists
<1>Types. Types'
  BY <1>i, <1>f, <1>e, NotPanics DEF Types, TypeOK, PcLabels, Facts
<1>Registers. Registers'
  BY <1>i, <1>f, <1>e, NotPanics DEF Registers, Facts
<1>ThreadSlots. ThreadSlots'
  BY <1>i, <1>f, <1>e, NotPanics DEF ThreadSlots, Alive, Facts
<1>Start. Start'
  BY <1>i, <1>f, <1>e, NotPanics DEF Start, Starting, Cleaning, Facts
<1>Counts. Counts'
  BY <1>i, <1>f, <1>e, NotPanics DEF Counts, Starting, Cleaning, Facts
<1>Kills. Kills'
  BY <1>i, <1>f, <1>e, NotPanics DEF Kills, Killing, Facts
<1>Frees. Frees'
  BY <1>i, <1>f, <1>e, NotPanics DEF Frees, Cleaning, Alive, Facts
<1>ActiveUser. ActiveUser'
  BY <1>i, <1>f, <1>e, NotPanics DEF ActiveUser, Facts
<1>NoPanic. NoPanic'
  BY <1>i, <1>f, <1>e, NotPanics DEF NoPanic, Facts
<1>ThreadLists. ThreadLists'
  BY <1>i, <1>f, <1>e, NotPanics DEF ThreadLists, ThreadInHand, Facts
<1>ProcessLists. ProcessLists'
  BY <1>i, <1>f, <1>e, NotPanics DEF ProcessLists, ProcessHeld, Cleaning, Facts
<1>Pagedirs. Pagedirs'
  BY <1>i, <1>f, <1>e, NotPanics DEF Pagedirs, Alive, Facts
<1>DeadQuiet. DeadQuiet'
  BY <1>i, <1>f, <1>e, NotPanics DEF DeadQuiet, Killing, Dead, Facts
<1> QED
  BY <1>Types, <1>Registers, <1>ThreadSlots, <1>Start, <1>Counts, <1>Kills, <1>Frees,
       <1>ActiveUser, <1>NoPanic, <1>ThreadLists, <1>ProcessLists, <1>Pagedirs,
       <1>DeadQuiet DEF IInv

LEMMA PushProcessInv == ASSUME IInv, PushProcess, ~torn'
  PROVE  IInv'
<1>i. /\ Types /\ Registers /\ ThreadSlots /\ Start /\ Counts /\ Kills /\ Frees
      /\ ActiveUser /\ NoPanic /\ ThreadLists /\ ProcessLists /\ Pagedirs /\ DeadQuiet
  BY DEF IInv
<1>f. Facts
  BY <1>i, TypeFacts
<1>1. /\ pc = "kp_push" /\ reg = processes_ended /\ pid \in Pids
      /\ processes_ended_arr' = [processes_ended_arr EXCEPT ![reg] = pid]
  BY <1>i, <1>f DEF PushProcess, ShellAt, Registers, Facts
<1>2. reg < MaxProcesses
  <2>1. pid \notin Listed(processes_ended_arr, processes_ended)
    BY <1>i, <1>1 DEF ProcessLists, ProcessHeld
  <2> QED BY <1>i, <1>f, <1>1, <2>1, ProcessRoom
<1>3. /\ processes_ended_arr' \in [0..(2 * MaxProcesses) -> Pids]
      /\ processes_ended_arr'[reg] = pid
  BY <1>f, <1>1, <1>2 DEF Facts
<1>4. /\ Distinct(processes_ended_arr', processes_ended)
      /\ Listed(processes_ended_arr', processes_ended)
            = Listed(processes_ended_arr, processes_ended)
  <2>1. 0..(processes_ended - 1) \subseteq 0..(2 * MaxProcesses) /\ processes_ended \in Nat
    BY <1>f DEF Facts
  <2>2. /\ Distinct(processes_ended_arr, processes_ended)
        /\ processes_ended_arr \in [0..(2 * MaxProcesses) -> Pids]
    BY <1>i, <1>f DEF ProcessLists, Facts
  <2> QED BY <1>1, <2>1, <2>2, Write, ZenonT(60)
<1>e. /\ pc = "kp_push" /\ pc' = "kp_count" /\ reg = processes_ended /\ reg < MaxProcesses
      /\ processes_ended_arr' \in [0..(2 * MaxProcesses) -> Pids]
      /\ processes_ended_arr'[reg] = pid
      /\ Distinct(processes_ended_arr', processes_ended)
      /\ Listed(processes_ended_arr', processes_ended)
            = Listed(processes_ended_arr, processes_ended)
      /\ \A u \in Tids :
           State(u)' = State(u) /\ Owner(u)' = Owner(u) /\ Entry(u)' = Entry(u)
      /\ \A q \in Pids :
           PState(q)' = PState(q) /\ Count(q)' = Count(q) /\ (HasPd(q)' <=> HasPd(q))
      /\ UNCHANGED << mode, threads, processes, thread_count, process_count, active_tid,
                      last_run, last_tid, last_pid, threads_ended_arr, threads_ended,
                      processes_ended, ret, reg, tid, pid, left, torn>>
  BY <1>1, <1>2, <1>3, <1>4, SameThreads, SameProcesses DEF PushProcess, ShellAt, lists
<1>Types. Types'
  BY <1>i, <1>f, <1>e, NotPanics DEF Types, TypeOK, PcLabels, Facts
<1>Registers. Registers'
  BY <1>i, <1>f, <1>e, NotPanics DEF Registers, Facts
<1>ThreadSlots. ThreadSlots'
  BY <1>i, <1>f, <1>e, NotPanics DEF ThreadSlots, Alive, Facts
<1>Start. Start'
  BY <1>i, <1>f, <1>e, NotPanics DEF Start, Starting, Cleaning, Facts
<1>Counts. Counts'
  BY <1>i, <1>f, <1>e, NotPanics DEF Counts, Starting, Cleaning, Facts
<1>Kills. Kills'
  BY <1>i, <1>f, <1>e, NotPanics DEF Kills, Killing, Facts
<1>Frees. Frees'
  BY <1>i, <1>f, <1>e, NotPanics DEF Frees, Cleaning, Alive, Facts
<1>ActiveUser. ActiveUser'
  BY <1>i, <1>f, <1>e, NotPanics DEF ActiveUser, Facts
<1>NoPanic. NoPanic'
  BY <1>i, <1>f, <1>e, NotPanics DEF NoPanic, Facts
<1>ThreadLists. ThreadLists'
  BY <1>i, <1>f, <1>e, NotPanics DEF ThreadLists, ThreadInHand, Facts
<1>ProcessLists. ProcessLists'
  BY <1>i, <1>f, <1>e, NotPanics DEF ProcessLists, ProcessHeld, Cleaning, Facts
<1>Pagedirs. Pagedirs'
  BY <1>i, <1>f, <1>e, NotPanics DEF Pagedirs, Alive, Facts
<1>DeadQuiet. DeadQuiet'
  BY <1>i, <1>f, <1>e, NotPanics DEF DeadQuiet, Killing, Dead, Facts
<1> QED
  BY <1>Types, <1>Registers, <1>ThreadSlots, <1>Start, <1>Counts, <1>Kills, <1>Frees,
       <1>ActiveUser, <1>NoPanic, <1>ThreadLists, <1>ProcessLists, <1>Pagedirs,
       <1>DeadQuiet DEF IInv

LEMMA CountProcessInv == ASSUME IInv, CountProcess, ~torn'
  PROVE  IInv'
<1>i. /\ Types /\ Registers /\ ThreadSlots /\ Start /\ Counts /\ Kills /\ Frees
      /\ ActiveUser /\ NoPanic /\ ThreadLists /\ ProcessLists /\ Pagedirs /\ DeadQuiet
  BY DEF IInv
<1>f. Facts
  BY <1>i, TypeFacts
<1>1. /\ pc = "kp_count" /\ reg = processes_ended /\ pid \in Pids /\ reg < MaxProcesses
      /\ processes_ended_arr[reg] = pid /\ processes_ended' = reg + 1
  BY <1>i, <1>f DEF CountProcess, ShellAt, Registers, Facts
<1>2. processes_ended \in Nat /\ processes_ended' \in 0..MaxProcesses
  BY <1>f, <1>1 DEF Facts
<1>3. /\ Distinct(processes_ended_arr, processes_ended')
      /\ Listed(processes_ended_arr, processes_ended')
            = Listed(processes_ended_arr, processes_ended) \cup {pid}
  <2>1. /\ Distinct(processes_ended_arr, processes_ended)
        /\ pid \notin Listed(processes_ended_arr, processes_ended)
    BY <1>i, <1>1 DEF ProcessLists, ProcessHeld
  <2> QED BY <1>1, <1>2, <2>1, CountOne
<1>e. /\ pc = "kp_count" /\ pc' = "idle" /\ processes_ended' \in 0..MaxProcesses
      /\ Distinct(processes_ended_arr, processes_ended')
      /\ Listed(processes_ended_arr, processes_ended')
            = Listed(processes_ended_arr, processes_ended) \cup {pid}
      /\ \A u \in Tids :
           State(u)' = State(u) /\ Owner(u)' = Owner(u) /\ Entry(u)' = Entry(u)
      /\ \A q \in Pids :
           PState(q)' = PState(q) /\ Count(q)' = Count(q) /\ (HasPd(q)' <=> HasPd(q))
      /\ UNCHANGED << mode, threads, processes, thread_count, process_count, active_tid,
                      last_run, last_tid, last_pid, threads_ended_arr, threads_ended,
                      processes_ended_arr, ret, reg, tid, pid, left, torn>>
  BY <1>1, <1>2, <1>3, SameThreads, SameProcesses DEF CountProcess, ShellAt, lists
<1>Types. Types'
  BY <1>i, <1>f, <1>e, NotPanics, SMTT(60) DEF Types, TypeOK, PcLabels, Facts
<1>Registers. Registers'
  BY <1>i, <1>f, <1>e, NotPanics DEF Registers, Facts
<1>ThreadSlots. ThreadSlots'
  BY <1>i, <1>f, <1>e, NotPanics DEF ThreadSlots, Alive, Facts
<1>Start. Start'
  BY <1>i, <1>f, <1>e, NotPanics DEF Start, Starting, Cleaning, Facts
<1>Counts. Counts'
  BY <1>i, <1>f, <1>e, NotPanics DEF Counts, Starting, Cleaning, Facts
<1>Kills. Kills'
  BY <1>i, <1>f, <1>e, NotPanics DEF Kills, Killing, Facts
<1>Frees. Frees'
  BY <1>i, <1>f, <1>e, NotPanics DEF Frees, Cleaning, Alive, Facts
<1>ActiveUser. ActiveUser'
  BY <1>i, <1>f, <1>e, NotPanics DEF ActiveUser, Facts
<1>NoPanic. NoPanic'
  BY <1>i, <1>f, <1>e, NotPanics DEF NoPanic, Facts
<1>ThreadLists. ThreadLists'
  BY <1>i, <1>f, <1>e, NotPanics DEF ThreadLists, ThreadInHand, Facts
<1>ProcessLists. ProcessLists'
  BY <1>i, <1>f, <1>e, NotPanics DEF ProcessLists, ProcessHeld, Cleaning, Facts
<1>Pagedirs. Pagedirs'
  BY <1>i, <1>f, <1>e, NotPanics DEF Pagedirs, Alive, Facts
<1>DeadQuiet. DeadQuiet'
  BY <1>i, <1>f, <1>e, NotPanics DEF DeadQuiet, Killing, Dead, Facts
<1> QED
  BY <1>Types, <1>Registers, <1>ThreadSlots, <1>Start, <1>Counts, <1>Kills, <1>Frees,
       <1>ActiveUser, <1>NoPanic, <1>ThreadLists, <1>ProcessLists, <1>Pagedirs,
       <1>DeadQuiet DEF IInv

-----------------------------------------------------------------------------
(* A user thread ends.                                                     *)

LEMMA UserThreadEndsInv == ASSUME IInv, UserRunning, KillUserThread(active_tid),
         active_tid' \in Tids, last_run' \in Tids, mode' \in {mode, "run", "hung"},
         mode' = "run" => State(active_tid)' # "RUNNING" \/ PState(Owner(active_tid))' = "RUNNING", ~torn'
  PROVE  IInv'
<1>i. /\ Types /\ Registers /\ ThreadSlots /\ Start /\ Counts /\ Kills /\ Frees
      /\ ActiveUser /\ NoPanic /\ ThreadLists /\ ProcessLists /\ Pagedirs /\ DeadQuiet
  BY DEF IInv
<1>f. Facts
  BY <1>i, TypeFacts
<1>1. PICK t \in Tids : t = active_tid
  BY <1>f DEF Facts
<1>2. State(t) = "RUNNING" /\ Entry(t) = "user" /\ mode = "run"
  BY <1>1 DEF UserRunning, State, Entry
<1>3. PICK p \in Pids : p = Owner(t) /\ p # 0 /\ PState(p) = "RUNNING"
  BY <1>i, <1>f, <1>1, <1>2 DEF Facts, ThreadSlots, Alive, ActiveUser
<1>4. /\ pc \notin {"ct_dec", "ct_free", "kt_push", "kt_count", "cp_dec", "cp_free", "kp_push", "kp_count"}
      /\ ~(pc = "kp_mark" /\ pid = p) /\ ~torn /\ ~torn'
  <2>1. ~InWindow(p) /\ ~torn
    BY <1>1, <1>3 DEF KillUserThread, Owner
  <2> QED BY <2>1 DEF InWindow, ThreadWindow, ProcessWindow
<1>5. /\ threads' \in ThreadTable 
      /\ State(t)' = "ENDED" /\ Owner(t)' = Owner(t) /\ Entry(t)' = Entry(t)
      /\ \A u \in Tids : u # t =>
           State(u)' = State(u) /\ Owner(u)' = Owner(u) /\ Entry(u)' = Entry(u)
  <2>1. threads \in ThreadTable /\ threads' = [threads EXCEPT ![t].state = "ENDED"]
    BY <1>f, <1>1 DEF Facts, KillUserThread, KilledThreads
  <2> QED BY <2>1, EndThread
<1>6. /\ processes' \in ProcessTable 
      /\ PState(p)' = "ENDED" /\ Count(p)' = Count(p) /\ (HasPd(p)' <=> HasPd(p))
      /\ \A q \in Pids : q # p =>
           PState(q)' = PState(q) /\ Count(q)' = Count(q) /\ (HasPd(q)' <=> HasPd(q))
  <2>1. processes \in ProcessTable /\ processes' = [processes EXCEPT ![p].state = "ENDED"]
    BY <1>f, <1>1, <1>3 DEF Facts, KillUserThread, KilledProcesses, Owner
  <2> QED BY <2>1 DEF ProcessTable, PState, Count, HasPd, TP_STATES
<1>7. /\ threads_ended_arr' \in [Tids -> Tids] /\ threads_ended' \in 0..MaxThreads
      /\ Listed(threads_ended_arr', threads_ended') = Listed(threads_ended_arr, threads_ended) \cup {t}
      /\ Distinct(threads_ended_arr', threads_ended')
  <2>1. /\ threads_ended_arr' = [threads_ended_arr EXCEPT ![threads_ended] = t]
        /\ threads_ended' = threads_ended + 1
    BY <1>1 DEF KillUserThread
  <2>2. /\ Distinct(threads_ended_arr, threads_ended)
        /\ t \notin Listed(threads_ended_arr, threads_ended)
    BY <1>i, <1>2 DEF ThreadLists
  <2>3. threads_ended < MaxThreads
    BY <1>i, <1>f, <2>2, ThreadRoom
  <2>4. /\ threads_ended \in 0..MaxThreads /\ threads_ended_arr \in [Tids -> Tids]
        /\ MaxThreads \in Nat
    BY <1>f DEF Facts
  <2>5. /\ threads_ended \in Nat /\ threads_ended + 1 \in 0..MaxThreads
        /\ threads_ended \in Tids
        /\ 0..(threads_ended - 1) \subseteq Tids
    BY <2>3, <2>4 DEF Tids
  <2>6. threads_ended_arr' \in [Tids -> Tids] /\ threads_ended_arr'[threads_ended] = t
    BY <2>1, <2>4, <2>5
  <2>7. /\ Listed(threads_ended_arr', threads_ended) = Listed(threads_ended_arr, threads_ended)
        /\ Distinct(threads_ended_arr', threads_ended)
    BY <2>1, <2>2, <2>4, <2>5, Write, ZenonT(60)
  <2>8. /\ Listed(threads_ended_arr', threads_ended + 1) =
              Listed(threads_ended_arr', threads_ended) \cup {threads_ended_arr'[threads_ended]}
        /\ Distinct(threads_ended_arr', threads_ended + 1)
    BY <2>2, <2>5, <2>6, <2>7, CountOne
  <2> QED BY <2>1, <2>5, <2>6, <2>7, <2>8
<1>8. /\ processes_ended_arr' \in [0..(2 * MaxProcesses) -> Pids]
      /\ processes_ended' \in 0..MaxProcesses
      /\ Listed(processes_ended_arr', processes_ended') = Listed(processes_ended_arr, processes_ended) \cup {p}
      /\ Distinct(processes_ended_arr', processes_ended')
  <2>1. /\ processes_ended_arr' = [processes_ended_arr EXCEPT ![processes_ended] = p]
        /\ processes_ended' = processes_ended + 1
    BY <1>1, <1>3 DEF KillUserThread, Owner
  <2>2. /\ Distinct(processes_ended_arr, processes_ended)
        /\ p \notin Listed(processes_ended_arr, processes_ended)
    BY <1>i, <1>3 DEF ProcessLists
  <2>3. processes_ended < MaxProcesses
    BY <1>i, <1>f, <2>2, ProcessRoom
  <2>4. /\ processes_ended \in Nat /\ processes_ended + 1 \in 0..MaxProcesses
        /\ processes_ended \in 0..(2 * MaxProcesses)
        /\ 0..(processes_ended - 1) \subseteq 0..(2 * MaxProcesses)
        /\ processes_ended_arr \in [0..(2 * MaxProcesses) -> Pids]
    BY <1>f, <2>3 DEF Facts
  <2>5. /\ processes_ended_arr' \in [0..(2 * MaxProcesses) -> Pids]
        /\ processes_ended_arr'[processes_ended] = p
    BY <2>1, <2>4
  <2>7. /\ Listed(processes_ended_arr', processes_ended) =
              Listed(processes_ended_arr, processes_ended)
        /\ Distinct(processes_ended_arr', processes_ended)
    BY <2>1, <2>2, <2>4, Write
  <2>8. /\ Listed(processes_ended_arr', processes_ended + 1) =
              Listed(processes_ended_arr', processes_ended)
                  \cup {processes_ended_arr'[processes_ended]}
        /\ Distinct(processes_ended_arr', processes_ended + 1)
    BY <2>2, <2>4, <2>5, <2>7, CountOne
  <2> QED BY <2>1, <2>4, <2>5, <2>7, <2>8
<1>9. thread_count' \in Int /\ process_count' \in Int
  BY <1>i DEF KillUserThread, Types, TypeOK
<1>10. UNCHANGED <<last_tid, last_pid, pc, ret, reg, tid, pid, left>>
  BY DEF KillUserThread, locals
<1>11. /\ active_tid' \in Tids /\ last_run' \in Tids /\ mode' \in {mode, "run", "hung"}
       /\ mode' = "run" =>
            State(active_tid)' # "RUNNING" \/ PState(Owner(active_tid))' = "RUNNING"
  OBVIOUS
<1>12. torn' = torn
  <2>1. torn' \in BOOLEAN
    BY DEF KillUserThread
  <2>2. torn \in BOOLEAN /\ ~torn
    BY <1>i DEF Types, TypeOK
  <2>3. ~torn'
    OBVIOUS
  <2> QED BY <2>1, <2>2, <2>3
<1>e. /\ t \in Tids /\ p \in Pids /\ p = Owner(t) /\ p # 0
      /\ State(t) = "RUNNING" /\ Entry(t) = "user" /\ PState(p) = "RUNNING"
      /\ pc \notin {"ct_dec", "ct_free", "kt_push", "kt_count", "cp_dec", "cp_free", "kp_push", "kp_count"}
      /\ ~(pc = "kp_mark" /\ pid = p)
      /\ thread_count' \in Int /\ process_count' \in Int
      /\ threads' \in ThreadTable 
      /\ State(t)' = "ENDED" /\ Owner(t)' = Owner(t) /\ Entry(t)' = Entry(t)
      /\ \A u \in Tids : u # t =>
           State(u)' = State(u) /\ Owner(u)' = Owner(u) /\ Entry(u)' = Entry(u)
      /\ processes' \in ProcessTable 
      /\ PState(p)' = "ENDED" /\ Count(p)' = Count(p) /\ (HasPd(p)' <=> HasPd(p))
      /\ \A q \in Pids : q # p =>
           PState(q)' = PState(q) /\ Count(q)' = Count(q) /\ (HasPd(q)' <=> HasPd(q))
      /\ threads_ended_arr' \in [Tids -> Tids] /\ threads_ended' \in 0..MaxThreads
      /\ Listed(threads_ended_arr', threads_ended') = Listed(threads_ended_arr, threads_ended) \cup {t}
      /\ Distinct(threads_ended_arr', threads_ended')
      /\ processes_ended_arr' \in [0..(2 * MaxProcesses) -> Pids]
      /\ processes_ended' \in 0..MaxProcesses
      /\ Listed(processes_ended_arr', processes_ended') = Listed(processes_ended_arr, processes_ended) \cup {p}
      /\ Distinct(processes_ended_arr', processes_ended')
      /\ active_tid' \in Tids /\ last_run' \in Tids /\ mode' \in {mode, "run", "hung"}
      /\ mode' = "run" => State(active_tid)' # "RUNNING" \/ PState(Owner(active_tid))' = "RUNNING"
      /\ UNCHANGED << last_tid, last_pid, pc, ret, reg, tid, pid, left, torn>>
  BY <1>1, <1>2, <1>3, <1>4, <1>5, <1>6, <1>7, <1>8, <1>9, <1>10, <1>11, <1>12
<1>Types. Types'
  BY <1>i, <1>f, <1>e, NotPanics, SMTT(60) DEF Types, TypeOK, PcLabels, Facts
<1>Registers. Registers'
  <2>1. /\ pc' = pc
        /\ pc \notin {"ct_dec", "ct_free", "kt_push", "kt_count", "cp_dec", "cp_free",
                     "kp_push", "kp_count"}
    BY <1>e
  <2> QED BY <2>1 DEF Registers
<1>ThreadSlots. ThreadSlots'
  <2>1. /\ \A u \in Tids : u # t =>
                State(u)' = State(u) /\ Owner(u)' = Owner(u) /\ Entry(u)' = Entry(u)
        /\ \A q \in Pids : q # p => PState(q)' = PState(q) /\ (HasPd(q)' <=> HasPd(q))
        /\ State(t)' = "ENDED" /\ Owner(t)' = p /\ Entry(t)' = "user"
        /\ PState(p)' = "ENDED" /\ (HasPd(p)' <=> HasPd(p)) /\ p \in Pids /\ t \in Tids
        /\ p # 0 /\ UNCHANGED <<pc, ret, tid, pid>>
    BY <1>e
  <2>2. /\ State(t) = "RUNNING" /\ Entry(t) = "user" /\ Owner(t) = p
        /\ PState(p) = "RUNNING"
        /\ p # 0
    BY <1>e
  <2>3. /\ \A u \in Tids : Owner(u) \in Pids
        /\ \A u \in Tids : Alive(u) => Alive(t) /\ (u # t => Owner(u) # p)
        /\ 0 \in Pids /\ pid \in Pids
    BY <1>i, <1>f, <2>1, <2>2 DEF Facts, ThreadSlots, Alive
  <2>4. pc = "np_run" => PState(pid) = "ALLOCED"
    BY <1>i DEF Start, Starting
  <2> QED BY <1>i, <2>1, <2>2, <2>3, <2>4 DEF ThreadSlots, Alive
<1>Start. Start'
  BY <1>i, <1>f, <1>e, NotPanics DEF Start, Starting, Cleaning, Facts
<1>Counts. Counts'
  BY <1>i, <1>f, <1>e, SMTT(60) DEF Counts, Starting, Cleaning, Start, ThreadSlots, Alive, Facts
<1>Kills. Kills'
  BY <1>i, <1>f, <1>e, NotPanics DEF Kills, Killing, Facts
<1>Frees. Frees'
  <2>1. /\ \A u \in Tids : u # t =>
                State(u)' = State(u) /\ Owner(u)' = Owner(u) /\ Entry(u)' = Entry(u)
        /\ \A q \in Pids : q # p => PState(q)' = PState(q) /\ (HasPd(q)' <=> HasPd(q))
        /\ State(t)' = "ENDED" /\ Owner(t)' = p /\ Entry(t)' = "user"
        /\ PState(p)' = "ENDED" /\ (HasPd(p)' <=> HasPd(p)) /\ p \in Pids /\ t \in Tids
        /\ p # 0 /\ UNCHANGED <<pc, ret, tid, pid>>
    BY <1>e
  <2>2. /\ State(t) = "RUNNING" /\ Entry(t) = "user" /\ Owner(t) = p
        /\ PState(p) = "RUNNING"
        /\ p # 0
    BY <1>e
  <2>3. /\ \A u \in Tids : Owner(u) \in Pids
        /\ \A u \in Tids : Alive(u) => Alive(t) /\ (u # t => Owner(u) # p)
        /\ 0 \in Pids /\ pid \in Pids
    BY <1>i, <1>f, <2>1, <2>2 DEF Facts, ThreadSlots, Alive
  <2>4. Cleaning' = Cleaning
    BY <2>1 DEF Cleaning
  <2> QED BY <1>i, <2>1, <2>2, <2>3, <2>4 DEF Frees, Alive
<1>ActiveUser. ActiveUser'
  BY <1>i, <1>f, <1>e, NotPanics DEF ActiveUser, Facts
<1>NoPanic. NoPanic'
  BY <1>i, <1>f, <1>e, NotPanics DEF NoPanic, Facts
<1>ThreadLists. ThreadLists'
  BY <1>i, <1>f, <1>e, NotPanics DEF ThreadLists, ThreadInHand, Facts
<1>ProcessLists. ProcessLists'
  BY <1>i, <1>f, <1>e, ZenonT(60)
    DEF ProcessLists, ProcessHeld, Cleaning, Registers, Frees, Alive, Start, Starting,
          Facts
<1>Pagedirs. Pagedirs'
  <2>1. /\ \A u \in Tids : u # t =>
                State(u)' = State(u) /\ Owner(u)' = Owner(u) /\ Entry(u)' = Entry(u)
        /\ \A q \in Pids : q # p => PState(q)' = PState(q) /\ (HasPd(q)' <=> HasPd(q))
        /\ State(t)' = "ENDED" /\ Owner(t)' = p /\ Entry(t)' = "user"
        /\ PState(p)' = "ENDED" /\ (HasPd(p)' <=> HasPd(p)) /\ p \in Pids /\ t \in Tids
        /\ p # 0 /\ UNCHANGED <<pc, ret, tid, pid>>
    BY <1>e
  <2>2. /\ State(t) = "RUNNING" /\ Entry(t) = "user" /\ Owner(t) = p
        /\ PState(p) = "RUNNING"
        /\ p # 0
    BY <1>e
  <2>3. /\ \A u \in Tids : Owner(u) \in Pids
        /\ \A u \in Tids : Alive(u) => Alive(t) /\ (u # t => Owner(u) # p)
        /\ 0 \in Pids /\ pid \in Pids
    BY <1>i, <1>f, <2>1, <2>2 DEF Facts, ThreadSlots, Alive
  <2> QED BY <1>i, <2>1, <2>2, <2>3 DEF Pagedirs, Alive
<1>DeadQuiet. DeadQuiet'
  <2>1. /\ \A u \in Tids : u # t =>
                State(u)' = State(u) /\ Owner(u)' = Owner(u) /\ Entry(u)' = Entry(u)
        /\ \A q \in Pids : q # p => PState(q)' = PState(q) /\ (HasPd(q)' <=> HasPd(q))
        /\ State(t)' = "ENDED" /\ Owner(t)' = p /\ Entry(t)' = "user"
        /\ PState(p)' = "ENDED" /\ (HasPd(p)' <=> HasPd(p)) /\ p \in Pids /\ t \in Tids
        /\ p # 0 /\ UNCHANGED <<pc, ret, tid, pid>>
    BY <1>e
  <2>2. /\ State(t) = "RUNNING" /\ Entry(t) = "user" /\ Owner(t) = p
        /\ PState(p) = "RUNNING"
        /\ p # 0
    BY <1>e
  <2>3. /\ \A u \in Tids : Owner(u) \in Pids
        /\ \A u \in Tids : Alive(u) => Alive(t) /\ (u # t => Owner(u) # p)
        /\ 0 \in Pids /\ pid \in Pids
    BY <1>i, <1>f, <2>1, <2>2 DEF Facts, ThreadSlots, Alive
  <2>4. Killing' = Killing
    BY <2>1 DEF Killing
  <2>5. \A u \in Tids : State(u) = "RUNNING" => Alive(u)
    BY DEF Alive
  <2> QED BY <1>i, <2>1, <2>2, <2>3, <2>4, <2>5 DEF DeadQuiet, Dead
<1> QED
  BY <1>Types, <1>Registers, <1>ThreadSlots, <1>Start, <1>Counts, <1>Kills, <1>Frees,
       <1>ActiveUser, <1>NoPanic, <1>ThreadLists, <1>ProcessLists, <1>Pagedirs,
       <1>DeadQuiet DEF IInv

LEMMA PageFaultHangsInv == ASSUME IInv, mode' = "hung",
         UNCHANGED <<threads, processes, thread_count, process_count, active_tid,
             last_run, last_tid, last_pid, lists, locals, torn>>, ~torn'
  PROVE  IInv'
<1>i. /\ Types /\ Registers /\ ThreadSlots /\ Start /\ Counts /\ Kills /\ Frees
      /\ ActiveUser /\ NoPanic /\ ThreadLists /\ ProcessLists /\ Pagedirs /\ DeadQuiet
  BY DEF IInv
<1>f. Facts
  BY <1>i, TypeFacts
<1>e. /\ mode' = "hung"
      /\ \A u \in Tids :
           State(u)' = State(u) /\ Owner(u)' = Owner(u) /\ Entry(u)' = Entry(u)
      /\ \A q \in Pids :
           PState(q)' = PState(q) /\ Count(q)' = Count(q) /\ (HasPd(q)' <=> HasPd(q))
      /\ UNCHANGED << threads, processes, thread_count, process_count, active_tid,
                      last_run, last_tid, last_pid, threads_ended_arr, threads_ended,
                      processes_ended_arr, processes_ended, pc, ret, reg, tid, pid,
                      left, torn>>
  BY SameThreads, SameProcesses DEF lists, locals
<1>Types. Types'
  BY <1>i, <1>e DEF Types, TypeOK, PcLabels
<1>Registers. Registers'
  BY <1>i, <1>e DEF Registers
<1>ThreadSlots. ThreadSlots'
  BY <1>i, <1>f, <1>e, NotPanics DEF ThreadSlots, Alive, Facts
<1>Start. Start'
  BY <1>i, <1>f, <1>e, NotPanics DEF Start, Starting, Cleaning, Facts
<1>Counts. Counts'
  BY <1>i, <1>f, <1>e, NotPanics DEF Counts, Starting, Cleaning, Facts
<1>Kills. Kills'
  BY <1>i, <1>f, <1>e, NotPanics DEF Kills, Killing, Facts
<1>Frees. Frees'
  BY <1>i, <1>f, <1>e, NotPanics DEF Frees, Cleaning, Alive, Facts
<1>ActiveUser. ActiveUser'
  BY <1>i, <1>e DEF ActiveUser
<1>NoPanic. NoPanic'
  BY <1>i, <1>f, <1>e, NotPanics DEF NoPanic, Facts
<1>ThreadLists. ThreadLists'
  BY <1>i, <1>e DEF ThreadLists, ThreadInHand
<1>ProcessLists. ProcessLists'
  BY <1>i, <1>e DEF ProcessLists, ProcessHeld, Cleaning
<1>Pagedirs. Pagedirs'
  BY <1>i, <1>f, <1>e, NotPanics DEF Pagedirs, Alive, Facts
<1>DeadQuiet. DeadQuiet'
  BY <1>i, <1>f, <1>e, NotPanics DEF DeadQuiet, Killing, Dead, Facts
<1> QED
  BY <1>Types, <1>Registers, <1>ThreadSlots, <1>Start, <1>Counts, <1>Kills, <1>Frees,
       <1>ActiveUser, <1>NoPanic, <1>ThreadLists, <1>ProcessLists, <1>Pagedirs,
       <1>DeadQuiet DEF IInv

LEMMA ThreadEndingInv == ASSUME IInv, ThreadEnding, ~torn'
  PROVE  IInv'
<1>i. Types /\ IInv
  BY DEF IInv
<1>f. Facts
  BY <1>i, TypeFacts
<1>1. UserRunning /\ KillUserThread(active_tid)
  BY DEF ThreadEnding
<1>2. \/ mode' = "hung" /\ UNCHANGED <<active_tid, last_run>>
      \/ /\ active_tid' \in Found(threads', processes') /\ last_run' = active_tid'
         /\ mode' = "run"
      \/ UNCHANGED <<mode, active_tid, last_run>>
  BY DEF ThreadEnding, SelectNextThread
<1>3. \A t \in Found(threads', processes') :
          t \in Tids /\ State(t)' = "RUNNING" /\ PState(Owner(t))' = "RUNNING"
  BY DEF Found, Runnable, State, Owner, PState
<1>4. active_tid \in Tids /\ last_run \in Tids
  BY <1>i DEF Types, TypeOK
<1>5. State(active_tid)' # "RUNNING" \/ active_tid' # active_tid
  <2>1. threads \in ThreadTable /\ threads' = [threads EXCEPT ![active_tid].state = "ENDED"]
    BY <1>f, <1>1 DEF Facts, KillUserThread, KilledThreads
  <2>2. threads'[active_tid].state = "ENDED"
    BY <1>4, <2>1 DEF ThreadTable
  <2> QED BY <2>2 DEF State
<1>6. active_tid' \in Tids /\ last_run' \in Tids /\ mode' \in {mode, "run", "hung"}
  BY <1>2, <1>3, <1>4
<1>7. mode' = "run" => State(active_tid)' # "RUNNING" \/ PState(Owner(active_tid))' = "RUNNING"
  <2>1. CASE active_tid' \in Found(threads', processes')
    <3>1. PICK u \in Tids : u = active_tid' /\ u \in Found(threads', processes')
      BY <1>6, <2>1
    <3>2. PState(Owner(u))' = "RUNNING"
      BY <1>3, <3>1
    <3> QED BY <3>1, <3>2 DEF PState, Owner
  <2>2. CASE mode' = "hung"
    BY <2>2
  <2>3. CASE active_tid' = active_tid
    BY <1>5, <2>3
  <2> QED BY <1>2, <2>1, <2>2, <2>3
<1> QED BY <1>1, <1>6, <1>7, <1>i, UserThreadEndsInv

LEMMA PageFaultInv == ASSUME IInv, PageFault, ~torn'
  PROVE  IInv'
<1>i. Types /\ ThreadSlots /\ IInv
  BY DEF IInv
<1>f. Facts
  BY <1>i, TypeFacts
<1>1. CASE mode' = "hung" /\ UNCHANGED <<threads, processes, thread_count, process_count,
              active_tid, last_run, last_tid, last_pid, lists, locals, torn>>
  BY <1>1, <1>i, PageFaultHangsInv
<1>2. CASE /\ KillUserThread(active_tid)
           /\ active_tid' \in Found(threads, processes) \ {active_tid}
           /\ last_run' = active_tid' /\ mode' = mode
  <2>1. UserRunning /\ KillUserThread(active_tid)
    BY <1>2 DEF PageFault
  <2>2. PICK u \in Tids : u = active_tid'
    BY <1>2 DEF Found
  <2>3. u # active_tid /\ State(u) = "RUNNING" /\ PState(Owner(u)) = "RUNNING"
    BY <1>2, <2>2 DEF Found, Runnable, State, Owner, PState
  <2>4. /\ active_tid \in Tids /\ threads \in ThreadTable /\ processes \in ProcessTable
        /\ Owner(u) \in Pids /\ Owner(active_tid) \in Pids
    BY <1>f DEF Facts
  <2>5. Owner(u) # Owner(active_tid)
    <3>1. State(active_tid) = "RUNNING" /\ Entry(active_tid) = "user"
      BY <2>1 DEF UserRunning, State, Entry
    <3> QED BY <1>i, <2>3, <2>4, <3>1 DEF ThreadSlots, Alive
  <2>6. Owner(u)' = Owner(u)
    <3>1. threads' = [threads EXCEPT ![active_tid].state = "ENDED"]
      BY <2>1 DEF KillUserThread, KilledThreads
    <3> QED BY <2>3, <2>4, <3>1, EndThread
  <2>7. PState(Owner(u))' = "RUNNING"
    <3>1. processes' = [processes EXCEPT ![Owner(active_tid)].state = "ENDED"]
      BY <2>1 DEF KillUserThread, KilledProcesses, Owner
    <3>2. processes'[Owner(u)] = processes[Owner(u)]
      BY <2>4, <2>5, <3>1 DEF ProcessTable
    <3> QED BY <2>3, <2>6, <3>2 DEF PState, Owner
  <2>8. PState(Owner(active_tid))' = "RUNNING"
    BY <2>2, <2>7 DEF PState, Owner
  <2>9. active_tid' \in Tids /\ last_run' \in Tids /\ mode' \in {mode, "run", "hung"}
    BY <1>2, <2>2
  <2> QED BY <2>1, <2>8, <2>9, <1>i, UserThreadEndsInv
<1> QED BY <1>1, <1>2 DEF PageFault

\* The shell, a thread of process 0, is not among the threads it kills.
LEMMA KillOwnThreadInv == ASSUME IInv, KillOwnThread PROVE FALSE
<1>i. Types /\ ThreadSlots /\ Kills
  BY DEF IInv
<1>f. Facts
  BY <1>i, TypeFacts
<1>1. /\ pc = "kp_loop" /\ State(active_tid) = "RUNNING" /\ Entry(active_tid) = "run_sh"
      /\ Owner(active_tid) = pid
  BY DEF KillOwnThread, NextToKill, ToKill, State, Entry, Owner
<1>2. pid # 0
  BY <1>i, <1>1 DEF Kills, Killing
<1>3. Owner(active_tid) = 0
  BY <1>i, <1>f, <1>1 DEF Facts, ThreadSlots, Alive
<1> QED BY <1>1, <1>2, <1>3


-----------------------------------------------------------------------------
(* Every step keeps the invariant.                                         *)

LEMMA StutterInv == ASSUME IInv, UNCHANGED vars, ~torn'
  PROVE  IInv'
<1>i. /\ Types /\ Registers /\ ThreadSlots /\ Start /\ Counts /\ Kills /\ Frees
      /\ ActiveUser /\ NoPanic /\ ThreadLists /\ ProcessLists /\ Pagedirs /\ DeadQuiet
  BY DEF IInv
<1>f. Facts
  BY <1>i, TypeFacts
<1>e. /\ mode' = mode
      /\ \A u \in Tids :
           State(u)' = State(u) /\ Owner(u)' = Owner(u) /\ Entry(u)' = Entry(u)
      /\ \A q \in Pids :
           PState(q)' = PState(q) /\ Count(q)' = Count(q) /\ (HasPd(q)' <=> HasPd(q))
      /\ UNCHANGED << mode, threads, processes, thread_count, process_count, active_tid,
                      last_run, last_tid, last_pid, threads_ended_arr, threads_ended,
                      processes_ended_arr, processes_ended, pc, ret, reg, tid, pid,
                      left, torn>>
  BY SameThreads, SameProcesses DEF vars, lists, locals
<1>Types. Types'
  BY <1>i, <1>e DEF Types, TypeOK, PcLabels
<1>Registers. Registers'
  BY <1>i, <1>e DEF Registers
<1>ThreadSlots. ThreadSlots'
  BY <1>i, <1>f, <1>e, NotPanics DEF ThreadSlots, Alive, Facts
<1>Start. Start'
  BY <1>i, <1>f, <1>e, NotPanics DEF Start, Starting, Cleaning, Facts
<1>Counts. Counts'
  BY <1>i, <1>f, <1>e, NotPanics DEF Counts, Starting, Cleaning, Facts
<1>Kills. Kills'
  BY <1>i, <1>f, <1>e, NotPanics DEF Kills, Killing, Facts
<1>Frees. Frees'
  BY <1>i, <1>f, <1>e, NotPanics DEF Frees, Cleaning, Alive, Facts
<1>ActiveUser. ActiveUser'
  BY <1>i, <1>f, <1>e, NotPanics DEF ActiveUser, Facts
<1>NoPanic. NoPanic'
  BY <1>i, <1>e DEF NoPanic
<1>ThreadLists. ThreadLists'
  BY <1>i, <1>e DEF ThreadLists, ThreadInHand
<1>ProcessLists. ProcessLists'
  BY <1>i, <1>e DEF ProcessLists, ProcessHeld, Cleaning
<1>Pagedirs. Pagedirs'
  BY <1>i, <1>f, <1>e, NotPanics DEF Pagedirs, Alive, Facts
<1>DeadQuiet. DeadQuiet'
  BY <1>i, <1>f, <1>e, NotPanics DEF DeadQuiet, Killing, Dead, Facts
<1> QED
  BY <1>Types, <1>Registers, <1>ThreadSlots, <1>Start, <1>Counts, <1>Kills, <1>Frees,
       <1>ActiveUser, <1>NoPanic, <1>ThreadLists, <1>ProcessLists, <1>Pagedirs,
       <1>DeadQuiet DEF IInv

LEMMA InitInv == Init => IInv
<1> SUFFICES ASSUME Init PROVE IInv
  OBVIOUS
<1>1. /\ 0 \in Tids /\ 0 \in Pids /\ MaxThreads \in Nat /\ MaxProcesses \in Nat
      /\ MaxThreads - 1 \in Tids
  BY SizeAssumption DEF Tids, Pids
<1>2. /\ \A t \in Tids : /\ State(t) = IF t = 0 THEN "RUNNING" ELSE "FREE"
                         /\ Owner(t) = 0
                         /\ Entry(t) = IF t = 0 THEN "kmain2" ELSE "none"
      /\ \A p \in Pids : /\ PState(p) = IF p = 0 THEN "RUNNING" ELSE "FREE"
                         /\ Count(p) = IF p = 0 THEN 1 ELSE 0
                         /\ HasPd(p) <=> p = 0
  BY DEF Init, State, Owner, Entry, PState, Count, HasPd, NoThread, NoProcess, BlankProcess
<1>3. /\ pc = "idle" /\ ret = "cp_test" /\ mode = "boot" /\ torn = FALSE
      /\ threads_ended = 0 /\ processes_ended = 0
  BY DEF Init
<1>4. TypeOK
  <2>1. threads \in ThreadTable
    BY <1>1 DEF Init, ThreadTable, NoThread, TP_STATES, Entries
  <2>2. processes \in ProcessTable
    BY <1>1 DEF Init, ProcessTable, NoProcess, BlankProcess, TP_STATES
  <2>3. /\ threads_ended_arr \in [Tids -> Tids]
        /\ processes_ended_arr \in [0..(2 * MaxProcesses) -> Pids]
    BY <1>1 DEF Init
  <2>4. /\ mode \in {"boot", "run", "hung"} \cup Panics /\ pc \in PcLabels
        /\ ret \in {"cp_test", "fp_clear", "nt_alloc"} /\ torn \in BOOLEAN
        /\ last_run \in Tids
    BY <1>1 DEF Init, PcLabels
  <2>5. /\ thread_count = 1 /\ process_count = 1 /\ active_tid = 0 /\ last_tid = 0
        /\ last_pid = 0 /\ threads_ended = 0 /\ processes_ended = 0 /\ reg = 0
        /\ tid = 0 /\ pid = 0 /\ left = 0
    BY DEF Init
  <2> QED BY <1>1, <2>1, <2>2, <2>3, <2>4, <2>5 DEF TypeOK
<1>5. Types /\ Registers /\ Start /\ Kills /\ Frees /\ NoPanic
  <2>1. ~Cleaning /\ ~Starting /\ ~Killing
    BY <1>3 DEF Cleaning, Starting, Killing
  <2>2. Types
    BY <1>1, <1>3, <1>4 DEF Types
  <2>3. Registers
    BY <1>3 DEF Registers
  <2>4. Start
    BY <1>2, <1>3, <2>1 DEF Start
  <2>5. Kills
    BY <1>2, <1>3, <2>1 DEF Kills
  <2>6. Frees
    BY <1>3, <2>1 DEF Frees
  <2>7. NoPanic
    BY <1>3 DEF NoPanic, Panics
  <2> QED BY <2>2, <2>3, <2>4, <2>5, <2>6, <2>7
<1>6. ThreadSlots /\ Counts /\ ActiveUser
  <2>1. ThreadSlots
    BY <1>1, <1>2 DEF ThreadSlots, Alive
  <2>2. Counts
    BY <1>2, <1>3 DEF Counts, Starting, Cleaning
  <2>3. ActiveUser
    BY <1>3 DEF ActiveUser
  <2> QED BY <2>1, <2>2, <2>3
<1>7. ThreadLists /\ ProcessLists
  <2>1. ThreadLists
    BY <1>2, <1>3, Empty DEF ThreadLists, ThreadInHand
  <2>2. ProcessLists
    BY <1>2, <1>3, Empty DEF ProcessLists, ProcessHeld, Cleaning
  <2> QED BY <2>1, <2>2
<1>8. Pagedirs /\ DeadQuiet
  BY <1>1, <1>2 DEF Pagedirs, DeadQuiet, Alive, Dead
<1> QED BY <1>4, <1>5, <1>6, <1>7, <1>8 DEF IInv

LEMMA NextInv == ASSUME KernelNotKilled, IInv, Next, ~torn'
  PROVE  IInv'
<1>1. CASE Scheduler
  BY <1>1, SchedulerInv
<1>2. CASE Boot
  BY <1>2, IdeInitInv, ThreadingStartInv, Kmain2Inv DEF Boot
<1>3. CASE ThreadEnding
  BY <1>3, ThreadEndingInv
<1>4. CASE PageFault
  BY <1>4, PageFaultInv
<1>5. CASE Command
  BY <1>5, ExecInv, KillInv DEF Command
<1>6. CASE CleanThreads
  BY <1>6, CleanThreadsTestInv, CleanThreadsDecInv, FreeThreadInv DEF CleanThreads
<1>7. CASE CleanProcesses
  BY <1>7, CleanProcessesTestInv, CleanProcessesDecInv, FreeProcessInv,
     FreeProcessClearInv DEF CleanProcesses
<1>8. CASE NewProcess
  BY <1>8, AllocProcessInv, ProgramSpaceInv, AllocThreadInv, NewThreadInv,
     ProcessRunningInv, ProcessCountInv DEF NewProcess
<1>9. CASE KillProcess
  BY <1>9, KillProcessMarkInv, KillThreadInv, KillOwnThreadInv, PushThreadInv,
     CountThreadInv, KillProcessEndedInv, PushProcessInv, CountProcessInv DEF KillProcess
<1> QED BY <1>1, <1>2, <1>3, <1>4, <1>5, <1>6, <1>7, <1>8, <1>9 DEF Next, ShellStep

\* Once a thread has ended in a window, it has for good.
LEMMA TornStays == ASSUME [Next]_vars, ~torn' PROVE ~torn
<1>1. CASE UNCHANGED vars
  BY <1>1 DEF vars
<1>2. CASE Next
  <2>1. CASE Scheduler \/ Boot
    BY <2>1 DEF Scheduler, Boot, IdeInit, ThreadingStart, Kmain2
  <2>2. CASE ThreadEnding \/ PageFault
    BY <2>2 DEF ThreadEnding, PageFault, KillUserThread
  <2>3. CASE Command \/ CleanThreads
    BY <2>3 DEF Command, Exec, Kill, CleanThreads, CleanThreadsTest, CleanThreadsDec,
       FreeThread, ShellAt
  <2>4. CASE CleanProcesses \/ NewProcess
    BY <2>4 DEF CleanProcesses, CleanProcessesTest, CleanProcessesDec, FreeProcess,
       FreeProcessClear, NewProcess, AllocProcess, ProgramSpace, AllocThread, NewThread,
       ProcessRunning, ProcessCount, ShellAt
  <2>5. CASE KillProcess
    BY <2>5 DEF KillProcess, KillProcessMark, KillThread, KillOwnThread, PushThread,
       CountThread, KillProcessEnded, PushProcess, CountProcess, ShellAt
  <2> QED BY <1>2, <2>1, <2>2, <2>3, <2>4, <2>5 DEF Next, ShellStep
<1> QED BY <1>1, <1>2

\* Whatever the shell and the programs do, the invariant holds until a thread ends
\* inside a window of the shell's list code.
THEOREM Invariance == ASSUME KernelNotKilled PROVE Spec => [](torn \/ IInv)
<1>1. Init => torn \/ IInv
  BY InitInv
<1>2. (torn \/ IInv) /\ [Next]_vars => (torn \/ IInv)'
  <2> SUFFICES ASSUME torn \/ IInv, [Next]_vars, ~torn'
  PROVE  IInv'
    OBVIOUS
  <2>1. IInv
    BY TornStays
  <2>2. CASE Next
    BY <2>1, <2>2, KernelNotKilled, NextInv
  <2>3. CASE UNCHANGED vars
    BY <2>1, <2>3, StutterInv
  <2> QED BY <2>2, <2>3
<1> QED BY <1>1, <1>2, PTL DEF Spec

-----------------------------------------------------------------------------
(* What the invariant says of the code.                                    *)

\* In a run where no thread ends inside a window, every variable keeps its type.
THEOREM TypeCorrectness == ASSUME KernelNotKilled PROVE QuietSpec => []TypeOK
<1>1. Init => IInv
  BY InitInv
<1>2. IInv /\ [Next /\ ~torn']_vars => IInv'
  <2> SUFFICES ASSUME IInv, [Next /\ ~torn']_vars PROVE IInv'
    OBVIOUS
  <2>1. CASE Next /\ ~torn'
    BY <2>1, NextInv
  <2>2. CASE UNCHANGED vars
    <3>1. ~torn'
      BY <2>2 DEF IInv, Types, vars
    <3> QED BY <2>2, <3>1, StutterInv
  <2> QED BY <2>1, <2>2
<1>3. IInv => TypeOK
  BY DEF IInv, Types
<1> QED BY <1>1, <1>2, <1>3, PTL DEF QuietSpec

\* No ended thread is lost and none is on the list of clean_threads() twice, however
\* exits, faults, kills and clean-ups interleave outside the windows.
THEOREM ThreadsListedOnce ==
  ASSUME KernelNotKilled PROVE Spec => []EveryEndedThreadListedOnce
<1>1. torn \/ IInv => EveryEndedThreadListedOnce
  BY DEF IInv, ThreadLists, EveryEndedThreadListedOnce, State
<1> QED BY <1>1, Invariance, PTL

\* The same of ended processes and the list of clean_processes().
THEOREM ProcessesListedOnce ==
  ASSUME KernelNotKilled PROVE Spec => []EveryEndedProcessListedOnce
<1>1. \A p : ProcessHeld(p) <=> ProcessInHand(p)
  BY DEF ProcessHeld, ProcessInHand, Cleaning, PState
<1>2. torn \/ IInv => EveryEndedProcessListedOnce
  BY <1>1 DEF IInv, ProcessLists, EveryEndedProcessListedOnce, PState
<1> QED BY <1>2, Invariance, PTL

\* free_process() never takes the page directory from under a thread that runs, or
\* from under an ended one whose stack free_thread() has yet to unmap.
THEOREM PagedirsOutliveThreads ==
  ASSUME KernelNotKilled PROVE Spec => []PagedirOutlivesThreads
<1>1. torn \/ IInv => PagedirOutlivesThreads
  BY DEF IInv, Pagedirs, Alive, PagedirOutlivesThreads, State, Owner, HasPd
<1> QED BY <1>1, Invariance, PTL

\* No thread of a killed or ended process is left running.
THEOREM DeadProcessesRest ==
  ASSUME KernelNotKilled PROVE Spec => []DeadProcessHasNoLiveThread
<1>1. torn \/ IInv => DeadProcessHasNoLiveThread
  BY DEF IInv, DeadQuiet, Killing, DeadProcessHasNoLiveThread, State, Owner, PState
<1> QED BY <1>1, Invariance, PTL

-----------------------------------------------------------------------------
(* The counters and the tables.  Outside the windows the counters agree    *)
(* with the tables, the processor is with a live thread, a command leaves  *)
(* nothing half made, and neither an assertion fires nor does the          *)
(* scheduler search for ever.  TInv is proved beside IInv, and assumes     *)
(* KernelNotKilled as that does.  From the same invariant, the tables      *)
(* implement ProcessLifecycle.                                             *)

RunningThreads == {t \in Tids : State(t) = "RUNNING"}
LiveProcesses  == {p \in Pids : PState(p) \in {"RUNNING", "ENDING"}}

\* new_process() counts the process when it may run already.
Uncounted == IF pc = "np_count" THEN 1 ELSE 0

ThreadsCounted   == thread_count = Cardinality(RunningThreads)
ProcessesCounted == process_count + Uncounted = Cardinality(LiveProcesses)

\* kmain2 always runs, and from the first time slice on ide_polling does: the scheduler
\* finds a thread, and there is another one beside any user thread.
KernelThreads ==
    /\ State(0) = "RUNNING" /\ Owner(0) = 0 /\ Entry(0) = "kmain2"
    /\ mode = "run" => \E t \in Tids : t # 0 /\ State(t) = "RUNNING" /\ Owner(t) = 0

\* The search goes on behind the thread that has the processor, and that one runs.
Scheduling ==
    mode = "run" => /\ last_run = active_tid
                    /\ Entry(active_tid) = "user" => State(active_tid) = "RUNNING"

FreeBlank == \A p \in Pids : PState(p) = "FREE" => ~HasPd(p)
NotHung   == mode # "hung"

TInv == /\ ThreadsCounted /\ ProcessesCounted /\ KernelThreads /\ Scheduling
        /\ FreeBlank /\ NotHung

-----------------------------------------------------------------------------
(* Counting.                                                               *)

LEMMA FiniteTables ==
  ASSUME Facts
  PROVE  /\ IsFiniteSet(RunningThreads) /\ Cardinality(RunningThreads) \in Nat
         /\ IsFiniteSet(LiveProcesses) /\ Cardinality(LiveProcesses) \in Nat
<1>1. IsFiniteSet(Tids) /\ IsFiniteSet(Pids)
  <2>1. 0 \in Int /\ MaxThreads - 1 \in Int /\ MaxProcesses - 1 \in Int
    BY DEF Facts
  <2> QED BY <2>1, FS_Interval DEF Tids, Pids
<1>2. RunningThreads \in SUBSET Tids /\ LiveProcesses \in SUBSET Pids
  BY DEF RunningThreads, LiveProcesses
<1>3. IsFiniteSet(RunningThreads) /\ IsFiniteSet(LiveProcesses)
  BY <1>1, <1>2, FS_Subset
<1> QED BY <1>3, FS_CardinalityType

LEMMA ThreadsStay ==
  ASSUME \A t \in Tids : State(t)' = "RUNNING" <=> State(t) = "RUNNING"
  PROVE  Cardinality(RunningThreads)' = Cardinality(RunningThreads)
<1>1. RunningThreads' = RunningThreads
  BY DEF RunningThreads
<1> QED BY <1>1

LEMMA ThreadStarts ==
  ASSUME Facts, NEW t \in Tids, State(t) # "RUNNING", State(t)' = "RUNNING",
         \A u \in Tids : u # t => State(u)' = State(u)
  PROVE  Cardinality(RunningThreads)' = Cardinality(RunningThreads) + 1
<1>1. RunningThreads' = RunningThreads \cup {t} /\ t \notin RunningThreads
  BY DEF RunningThreads
<1> QED BY <1>1, FiniteTables, FS_AddElement

LEMMA ThreadEnds ==
  ASSUME Facts, NEW t \in Tids, State(t) = "RUNNING", State(t)' # "RUNNING",
         \A u \in Tids : u # t => State(u)' = State(u)
  PROVE  Cardinality(RunningThreads)' = Cardinality(RunningThreads) - 1
<1>1. RunningThreads' = RunningThreads \ {t} /\ t \in RunningThreads
  BY DEF RunningThreads
<1> QED BY <1>1, FiniteTables, FS_RemoveElement

LEMMA ProcessesStay ==
  ASSUME \A p \in Pids : PState(p)' \in {"RUNNING", "ENDING"} <=> PState(p) \in {"RUNNING", "ENDING"}
  PROVE  Cardinality(LiveProcesses)' = Cardinality(LiveProcesses)
<1>1. LiveProcesses' = LiveProcesses
  BY DEF LiveProcesses
<1> QED BY <1>1

LEMMA ProcessStarts ==
  ASSUME Facts, NEW p \in Pids, PState(p) \notin {"RUNNING", "ENDING"}, PState(p)' = "RUNNING",
         \A q \in Pids : q # p => PState(q)' = PState(q)
  PROVE  Cardinality(LiveProcesses)' = Cardinality(LiveProcesses) + 1
<1>1. LiveProcesses' = LiveProcesses \cup {p} /\ p \notin LiveProcesses
  BY DEF LiveProcesses
<1> QED BY <1>1, FiniteTables, FS_AddElement

LEMMA ProcessEnds ==
  ASSUME Facts, NEW p \in Pids, PState(p) \in {"RUNNING", "ENDING"}, PState(p)' = "ENDED",
         \A q \in Pids : q # p => PState(q)' = PState(q)
  PROVE  Cardinality(LiveProcesses)' = Cardinality(LiveProcesses) - 1
<1>1. LiveProcesses' = LiveProcesses \ {p} /\ p \in LiveProcesses
  BY DEF LiveProcesses
<1> QED BY <1>1, FiniteTables, FS_RemoveElement

\* Three threads that run are counted.
LEMMA ThreeRun ==
  ASSUME Facts, NEW t \in RunningThreads, NEW u \in RunningThreads, NEW v \in RunningThreads,
         t # u, t # v, u # v
  PROVE  Cardinality(RunningThreads) > 2
<1>1. IsFiniteSet({t}) /\ Cardinality({t}) = 1 /\ u \notin {t}
  BY FS_Singleton
<1>2. IsFiniteSet({t} \cup {u}) /\ Cardinality({t} \cup {u}) = 2 /\ v \notin {t} \cup {u}
  BY <1>1, FS_AddElement
<1>3. Cardinality(({t} \cup {u}) \cup {v}) = 3
  BY <1>2, FS_AddElement, SMTT(60)
<1>4. ({t} \cup {u}) \cup {v} \in SUBSET RunningThreads
  OBVIOUS
<1>5. Cardinality(({t} \cup {u}) \cup {v}) <= Cardinality(RunningThreads)
  BY <1>4, FiniteTables, FS_Subset
<1> QED BY <1>3, <1>5, FiniteTables

-----------------------------------------------------------------------------
(* The search of the scheduler.                                            *)

\* A set of natural numbers has a least member.
LEMMA Least ==
  ASSUME NEW S \in SUBSET Nat, S # {} PROVE \E x \in S : \A y \in S : x <= y
<1>1. PICK x \in S : \A y \in S : ~ (<<y, x>> \in OpToRel(<, Nat))
  BY NatLessThanWellFounded, WFMin
<1>2. ASSUME NEW y \in S PROVE x <= y
  <2>1. ~ (y < x)
    BY <1>1 DEF OpToRel
  <2> QED BY <2>1
<1> QED BY <1>2

\* find_running_thread() finds a thread when one may run.
LEMMA FoundOne ==
  ASSUME Facts, last_run \in Tids, NEW ts, NEW ps, NEW t \in Tids, Runnable(ts, ps, t)
  PROVE  Found(ts, ps) # {}
<1> DEFINE R == {u \in Tids : Runnable(ts, ps, u)}
           S == {Turn(u) : u \in R}
<1>1. \A u \in Tids : Turn(u) \in Nat
  BY SizeAssumption DEF Tids, Turn
<1>2. S \in SUBSET Nat /\ S # {}
  BY <1>1
<1>3. PICK x \in S : \A y \in S : x <= y
  BY <1>2, Least
<1>4. PICK u \in R : x = Turn(u)
  BY <1>3
<1>5. u \in Found(ts, ps)
  BY <1>3, <1>4 DEF Found
<1> QED BY <1>5

\* The thread that has the processor is the last one found.
LEMMA FoundLast ==
  ASSUME Facts, last_run = active_tid, NEW ts, NEW ps,
         NEW t \in Tids, t # active_tid, Runnable(ts, ps, t)
  PROVE  Found(ts, ps) \ {active_tid} # {}
<1>1. last_run \in Tids
  BY DEF Facts
<1>2. PICK u \in Found(ts, ps) : TRUE
  BY <1>1, FoundOne
<1>3. Turn(active_tid) = MaxThreads - 1
  BY <1>1, SizeAssumption DEF Turn, Tids
<1>4. Turn(t) \in Int /\ Turn(t) < MaxThreads - 1
  BY <1>1, SizeAssumption DEF Turn, Tids
<1>5. u # active_tid
  <2>1. Turn(u) <= Turn(t)
    BY <1>2 DEF Found
  <2>2. MaxThreads - 1 \in Int
    BY SizeAssumption
  <2> QED BY <1>3, <1>4, <2>1, <2>2
<1> QED BY <1>2, <1>5

-----------------------------------------------------------------------------
(* The steps of the shell.                                                 *)

\* A step leaves the threads of the kernel as they are.
KernelThreadsStay ==
    \A t \in Tids : State(t) = "RUNNING" /\ Owner(t) = 0 =>
                        State(t)' = "RUNNING" /\ Owner(t)' = 0 /\ Entry(t)' = Entry(t)

\* The shell is a thread of the kernel; a step of it that panics would break IInv.
LEMMA ShellKeeps ==
  ASSUME IInv, TInv, IInv', mode = "run", threads[active_tid].entry = "run_sh",
         UNCHANGED <<active_tid, last_run>>, mode' \in {mode} \cup Panics,
         KernelThreadsStay, ThreadsCounted', ProcessesCounted', FreeBlank'
  PROVE  TInv'
<1>1. Facts
  BY TypeFacts DEF IInv
<1>2. mode' = mode
  BY DEF IInv, NoPanic
<1>3. PICK a \in Tids : a = active_tid
  BY <1>1 DEF Facts
<1>4. Entry(a) = "run_sh"
  BY <1>3 DEF Entry
<1>5. State(a) = "RUNNING" /\ Owner(a) = 0
  BY <1>1, <1>4 DEF IInv, ThreadSlots, Alive, Facts
<1>6. Entry(a)' = "run_sh"
  BY <1>4, <1>5 DEF KernelThreadsStay
<1>7. Entry(active_tid)' = "run_sh"
  BY <1>3, <1>6 DEF Entry
<1>8. KernelThreads'
  <2>1. State(0)' = "RUNNING" /\ Owner(0)' = 0 /\ Entry(0)' = "kmain2"
    BY <1>1 DEF TInv, KernelThreads, KernelThreadsStay, Facts
  <2>2. PICK t \in Tids : t # 0 /\ State(t) = "RUNNING" /\ Owner(t) = 0
    BY DEF TInv, KernelThreads
  <2>3. State(t)' = "RUNNING" /\ Owner(t)' = 0
    BY <2>2 DEF KernelThreadsStay
  <2> QED BY <2>1, <2>2, <2>3 DEF KernelThreads
<1>9. Scheduling'
  BY <1>2, <1>7 DEF TInv, Scheduling
<1> QED BY <1>2, <1>8, <1>9 DEF TInv, NotHung

LEMMA SameThreadsCounted ==
  ASSUME TInv, threads' = threads, thread_count' = thread_count
  PROVE  KernelThreadsStay /\ ThreadsCounted'
<1>1. \A t \in Tids : State(t)' = State(t) /\ Owner(t)' = Owner(t) /\ Entry(t)' = Entry(t)
  BY SameThreads
<1>2. Cardinality(RunningThreads)' = Cardinality(RunningThreads)
  BY <1>1, ThreadsStay
<1> QED BY <1>1, <1>2 DEF KernelThreadsStay, TInv, ThreadsCounted

\* A step that makes no process live, and lets none die, and gives no page directory to a
\* free one.
LEMMA SameProcessesCounted ==
  ASSUME TInv, process_count' = process_count, pc # "np_count", pc' # "np_count",
         \A p \in Pids :
            /\ PState(p)' \in {"RUNNING", "ENDING"} <=> PState(p) \in {"RUNNING", "ENDING"}
            /\ PState(p)' = "FREE" => (PState(p) = "FREE" /\ (HasPd(p)' => HasPd(p))) \/ ~HasPd(p)'
  PROVE  ProcessesCounted' /\ FreeBlank'
<1>1. Cardinality(LiveProcesses)' = Cardinality(LiveProcesses)
  BY ProcessesStay
<1>2. FreeBlank'
  BY DEF TInv, FreeBlank
<1> QED BY <1>1, <1>2 DEF TInv, ProcessesCounted, Uncounted

LEMMA ListSteps ==
  ASSUME IInv, TInv, IInv',
         \/ Command \/ CleanThreadsTest \/ CleanThreadsDec \/ CleanProcessesTest
         \/ CleanProcessesDec \/ FreeProcess \/ PushThread \/ CountThread
         \/ PushProcess \/ CountProcess
  PROVE  TInv'
<1>1. /\ UNCHANGED <<threads, processes, thread_count, process_count, active_tid, last_run>>
      /\ mode = "run" /\ threads[active_tid].entry = "run_sh" /\ mode' \in {mode} \cup Panics
      /\ pc # "np_count" /\ pc' # "np_count"
  <2>1. ret # "np_count"
    BY DEF IInv, Types, TypeOK
  <2>2. CASE Command
    BY <2>2 DEF Command, Exec, Kill, CallCleanThreads, ShellAt
  <2>3. CASE CleanThreadsTest \/ CleanThreadsDec \/ CleanProcessesTest \/ CleanProcessesDec
    BY <2>1, <2>3 DEF CleanThreadsTest, CleanThreadsDec, CleanProcessesTest, CleanProcessesDec, ShellAt
  <2>4. CASE PushThread \/ CountThread \/ PushProcess \/ CountProcess
    BY <2>4 DEF PushThread, CountThread, PushProcess, CountProcess, ShellAt
  <2>5. CASE FreeProcess
    <3>1. /\ UNCHANGED <<threads, processes, thread_count, process_count, active_tid, last_run>>
          /\ mode = "run" /\ threads[active_tid].entry = "run_sh"
      BY <2>5 DEF FreeProcess, Panic, ShellAt
    <3>2. pc = "cp_free" /\ pc' \in {"cp_free", "ct_test"}
      BY <2>5 DEF FreeProcess, CallCleanThreads, Panic, ShellAt, locals
    <3>3. mode' \in {mode, "free_process: not ended!", "free_process: process active!"}
      BY <2>5 DEF FreeProcess, Panic
    <3> QED BY <3>1, <3>2, <3>3 DEF Panics
  <2> QED BY <2>2, <2>3, <2>4, <2>5
<1>2. KernelThreadsStay /\ ThreadsCounted'
  BY <1>1, SameThreadsCounted
<1>3. ProcessesCounted' /\ FreeBlank'
  BY <1>1, SameProcesses, SameProcessesCounted
<1> QED BY <1>1, <1>2, <1>3, ShellKeeps

LEMMA FreeThreadStep ==
  ASSUME IInv, TInv, IInv', FreeThread PROVE TInv'
<1>1. Facts
  BY TypeFacts DEF IInv
<1>2. /\ UNCHANGED <<thread_count, process_count, active_tid, last_run>>
      /\ mode = "run" /\ threads[active_tid].entry = "run_sh" /\ pc = "ct_free"
      /\ mode' \in {mode} \cup Panics
  <2>1. /\ UNCHANGED <<thread_count, process_count, active_tid, last_run>>
        /\ mode = "run" /\ threads[active_tid].entry = "run_sh" /\ pc = "ct_free"
    BY DEF FreeThread, Panic, ShellAt
  <2>2. mode' \in {mode, "free_thread: not ended!", "free_thread: thread active!"}
    BY DEF FreeThread, Panic
  <2> QED BY <2>1, <2>2 DEF Panics
<1>3. reg - 1 \in Tids
  <2>1. reg = threads_ended + 1 /\ reg <= MaxThreads
    BY <1>2 DEF IInv, Registers
  <2> QED BY <1>1, <2>1 DEF Facts, Tids
<1>4. PICK t \in Tids : t = threads_ended_arr[reg - 1]
  BY <1>1, <1>3 DEF Facts
<1>5. State(t) = "ENDED"
  BY <1>2, <1>4 DEF IInv, ThreadLists, ThreadInHand
<1>6. PICK p \in Pids : p = Owner(t)
  BY <1>1 DEF Facts
<1>7. mode' = mode
  BY <1>2 DEF IInv, NoPanic
<1>8. /\ threads' = FreedThread(t) /\ processes' = [processes EXCEPT ![p].count = @ - 2]
      /\ pc' = "ct_test"
  <2>1. threads[t].state = "ENDED" /\ p = threads[t].pid
    BY <1>5, <1>6 DEF State, Owner
  <2>2. mode' \notin {"free_thread: not ended!", "free_thread: thread active!"}
    BY <1>2, <1>7
  <2> QED BY <1>4, <2>1, <2>2 DEF FreeThread, Panic
<1>9. NoThread \in [state : TP_STATES, pid : Pids, entry : Entries]
  BY <1>1 DEF NoThread, TP_STATES, Entries, Facts
<1>10. /\ State(t)' = "FREE"
       /\ \A u \in Tids : u # t =>
            State(u)' = State(u) /\ Owner(u)' = Owner(u) /\ Entry(u)' = Entry(u)
  BY <1>1, <1>8, <1>9, SetThread DEF Facts, FreedThread, NoThread
<1>11. KernelThreadsStay /\ ThreadsCounted'
  <2>1. Cardinality(RunningThreads)' = Cardinality(RunningThreads)
    BY <1>5, <1>10, ThreadsStay
  <2> QED BY <1>2, <1>5, <1>10, <2>1 DEF KernelThreadsStay, TInv, ThreadsCounted
<1>12. ProcessesCounted' /\ FreeBlank'
  <2>1. \A q \in Pids : PState(q)' = PState(q) /\ (HasPd(q)' <=> HasPd(q))
    BY <1>1, <1>8, DecCount DEF Facts
  <2> QED BY <1>2, <1>8, <2>1, SameProcessesCounted
<1> QED BY <1>2, <1>11, <1>12, ShellKeeps

\* The steps after which no other process is live: of one in the making, or one given back.
LEMMA DeadProcessSteps ==
  ASSUME IInv, TInv, IInv', FreeProcessClear \/ AllocProcess \/ ProgramSpace \/ KillProcessMark
  PROVE  TInv'
<1>1. Facts
  BY TypeFacts DEF IInv
<1>2. /\ UNCHANGED <<threads, thread_count, process_count, active_tid, last_run, mode>>
      /\ mode = "run" /\ threads[active_tid].entry = "run_sh"
      /\ pc # "np_count" /\ pc' # "np_count"
  BY DEF FreeProcessClear, AllocProcess, ProgramSpace, KillProcessMark, CallCleanThreads, ShellAt
<1>3. KernelThreadsStay /\ ThreadsCounted'
  BY <1>2, SameThreadsCounted
<1>4. PICK p \in Pids : p = pid
  BY <1>1 DEF Facts
<1>5. \A q \in Pids :
         /\ PState(q)' \in {"RUNNING", "ENDING"} <=> PState(q) \in {"RUNNING", "ENDING"}
         /\ PState(q)' = "FREE" => (PState(q) = "FREE" /\ (HasPd(q)' => HasPd(q))) \/ ~HasPd(q)'
  <2>1. CASE FreeProcessClear
    <3>1. PState(p) \in {"ENDED", "ALLOCED"} /\ processes' = [processes EXCEPT ![p] = NoProcess]
      BY <1>4, <2>1 DEF IInv, Frees, FreeProcessClear, ShellAt
    <3>2. NoProcess \in [state : TP_STATES, tid0 : Tids, count : Int, phys_pd : BOOLEAN]
      BY <1>1 DEF NoProcess, BlankProcess, TP_STATES, Facts
    <3>3. /\ PState(p)' = "FREE" /\ ~HasPd(p)'
          /\ \A q \in Pids : q # p => PState(q)' = PState(q) /\ (HasPd(q)' <=> HasPd(q))
      BY <1>1, <3>1, <3>2, SetProcess DEF Facts, NoProcess, BlankProcess
    <3> QED BY <3>1, <3>3
  <2>2. CASE AllocProcess
    <3>1. CASE processes' = processes
      BY <3>1, SameProcesses
    <3>2. CASE \E q \in Pids : PState(q) = "FREE" /\ processes' = [processes EXCEPT ![q] = BlankProcess("ALLOCED")]
      <4>1. PICK q \in Pids : PState(q) = "FREE" /\ processes' = [processes EXCEPT ![q] = BlankProcess("ALLOCED")]
        BY <3>2
      <4>2. BlankProcess("ALLOCED") \in [state : TP_STATES, tid0 : Tids, count : Int, phys_pd : BOOLEAN]
        BY <1>1 DEF BlankProcess, TP_STATES, Facts
      <4>3. /\ PState(q)' = "ALLOCED"
            /\ \A r \in Pids : r # q => PState(r)' = PState(r) /\ (HasPd(r)' <=> HasPd(r))
        BY <1>1, <4>1, <4>2, SetProcess DEF Facts, BlankProcess
      <4> QED BY <4>1, <4>3
    <3> QED BY <2>2, <3>1, <3>2 DEF AllocProcess, PState
  <2>3. CASE ProgramSpace
    <3>1. PState(p) = "ALLOCED"
      BY <1>4, <2>3 DEF IInv, Start, Starting, ProgramSpace, ShellAt
    <3>2. /\ \A q \in Pids : PState(q)' = PState(q)
          /\ \A q \in Pids : q # p => (HasPd(q)' <=> HasPd(q))
      BY <1>1, <1>4, <2>3 DEF Facts, ProgramSpace, ProcessTable, PState, HasPd
    <3> QED BY <3>1, <3>2
  <2>4. CASE KillProcessMark
    <3>1. PState(p) = "RUNNING" /\ processes' = [processes EXCEPT ![p].state = "ENDING"]
      BY <1>4, <2>4 DEF IInv, Kills, KillProcessMark, Ending, ShellAt
    <3>2. /\ PState(p)' = "ENDING"
          /\ \A q \in Pids : q # p => PState(q)' = PState(q) /\ (HasPd(q)' <=> HasPd(q))
      BY <1>1, <3>1, SetProcessState DEF Facts, TP_STATES
    <3> QED BY <3>1, <3>2
  <2> QED BY <2>1, <2>2, <2>3, <2>4
<1>6. ProcessesCounted' /\ FreeBlank'
  BY <1>2, <1>5, SameProcessesCounted
<1> QED BY <1>2, <1>3, <1>6, ShellKeeps

LEMMA AllocThreadStep ==
  ASSUME IInv, TInv, IInv', AllocThread PROVE TInv'
<1>1. Facts
  BY TypeFacts DEF IInv
<1>2. /\ UNCHANGED <<processes, thread_count, process_count, active_tid, last_run, mode>>
      /\ mode = "run" /\ threads[active_tid].entry = "run_sh"
      /\ pc # "np_count" /\ pc' # "np_count"
  BY DEF AllocThread, ShellAt
<1>3. ProcessesCounted' /\ FreeBlank'
  BY <1>2, SameProcesses, SameProcessesCounted
<1>4. CASE threads' = threads
  <2>1. KernelThreadsStay /\ ThreadsCounted'
    BY <1>2, <1>4, SameThreadsCounted
  <2> QED BY <1>2, <1>3, <2>1, ShellKeeps
<1>5. CASE \E t \in FreeSlots(threads) : threads' = [threads EXCEPT ![t] = [NoThread EXCEPT !.state = "ALLOCED"]]
  <2>1. PICK t \in FreeSlots(threads) : threads' = [threads EXCEPT ![t] = [NoThread EXCEPT !.state = "ALLOCED"]]
    BY <1>5
  <2>2. t \in Tids /\ State(t) = "FREE"
    BY FreeSlot
  <2>3. [NoThread EXCEPT !.state = "ALLOCED"] = [state |-> "ALLOCED", pid |-> 0, entry |-> "none"]
    BY DEF NoThread
  <2>4. [state |-> "ALLOCED", pid |-> 0, entry |-> "none"] \in [state : TP_STATES, pid : Pids, entry : Entries]
    BY <1>1 DEF TP_STATES, Entries, Facts
  <2>5. threads' = [threads EXCEPT ![t] = [state |-> "ALLOCED", pid |-> 0, entry |-> "none"]]
    BY <2>1, <2>3
  <2>6. /\ State(t)' = "ALLOCED"
        /\ \A u \in Tids : u # t =>
             State(u)' = State(u) /\ Owner(u)' = Owner(u) /\ Entry(u)' = Entry(u)
    BY <1>1, <2>2, <2>4, <2>5, SetThread DEF Facts
  <2>7. Cardinality(RunningThreads)' = Cardinality(RunningThreads)
    BY <2>2, <2>6, ThreadsStay
  <2>8. KernelThreadsStay /\ ThreadsCounted'
    BY <1>2, <2>2, <2>6, <2>7 DEF KernelThreadsStay, TInv, ThreadsCounted
  <2> QED BY <1>2, <1>3, <2>8, ShellKeeps
<1> QED BY <1>4, <1>5 DEF AllocThread

LEMMA NewThreadStep ==
  ASSUME IInv, TInv, IInv', NewThread PROVE TInv'
<1>1. Facts
  BY TypeFacts DEF IInv
<1>2. /\ UNCHANGED <<process_count, active_tid, last_run, mode>>
      /\ mode = "run" /\ threads[active_tid].entry = "run_sh"
      /\ pc = "nt_run" /\ pc' # "np_count"
  BY DEF NewThread, ShellAt
<1>3. PICK t \in Tids : t = tid /\ State(t) = "ALLOCED"
  BY <1>2 DEF IInv, Start
<1>4. PICK p \in Pids : p = pid
  BY <1>1 DEF Facts
<1>5. \A q \in Pids : PState(q)' = PState(q) /\ (HasPd(q)' <=> HasPd(q))
  BY <1>1, <1>4, IncCount DEF Facts, NewThread
<1>6. ProcessesCounted' /\ FreeBlank'
  BY <1>2, <1>5, SameProcessesCounted
<1>7. CASE threads' = [threads EXCEPT ![t] = NoThread] /\ thread_count' = thread_count
  <2>1. NoThread \in [state : TP_STATES, pid : Pids, entry : Entries]
    BY <1>1 DEF NoThread, TP_STATES, Entries, Facts
  <2>2. /\ State(t)' = "FREE"
        /\ \A u \in Tids : u # t =>
             State(u)' = State(u) /\ Owner(u)' = Owner(u) /\ Entry(u)' = Entry(u)
    BY <1>1, <1>7, <2>1, SetThread DEF Facts, NoThread
  <2>3. Cardinality(RunningThreads)' = Cardinality(RunningThreads)
    BY <1>3, <2>2, ThreadsStay
  <2>4. KernelThreadsStay /\ ThreadsCounted'
    BY <1>3, <1>7, <2>2, <2>3 DEF KernelThreadsStay, TInv, ThreadsCounted
  <2> QED BY <1>2, <1>6, <2>4, ShellKeeps
<1>8. CASE /\ threads' = [threads EXCEPT ![t] = [state |-> "RUNNING", pid |-> p, entry |-> "user"]]
           /\ thread_count' = thread_count + 1
  <2>1. [state |-> "RUNNING", pid |-> p, entry |-> "user"] \in [state : TP_STATES, pid : Pids, entry : Entries]
    BY DEF TP_STATES, Entries
  <2>2. /\ State(t)' = "RUNNING"
        /\ \A u \in Tids : u # t =>
             State(u)' = State(u) /\ Owner(u)' = Owner(u) /\ Entry(u)' = Entry(u)
    BY <1>1, <1>8, <2>1, SetThread DEF Facts
  <2>3. Cardinality(RunningThreads)' = Cardinality(RunningThreads) + 1
    BY <1>1, <1>3, <2>2, ThreadStarts
  <2>4. KernelThreadsStay /\ ThreadsCounted'
    BY <1>3, <1>8, <2>2, <2>3 DEF KernelThreadsStay, TInv, ThreadsCounted
  <2> QED BY <1>2, <1>6, <2>4, ShellKeeps
<1> QED BY <1>3, <1>4, <1>7, <1>8 DEF NewThread, FreedThread

\* A process is live from here on, and counted with the next statement.
LEMMA ProcessRunningStep ==
  ASSUME IInv, TInv, IInv', ProcessRunning PROVE TInv'
<1>1. Facts
  BY TypeFacts DEF IInv
<1>2. /\ UNCHANGED <<threads, thread_count, process_count, active_tid, last_run, mode>>
      /\ mode = "run" /\ threads[active_tid].entry = "run_sh"
      /\ pc = "np_run" /\ pc' = "np_count" /\ process_count \in Int
  BY DEF ProcessRunning, ShellAt, IInv, Types, TypeOK
<1>3. KernelThreadsStay /\ ThreadsCounted'
  BY <1>2, SameThreadsCounted
<1>4. PICK p \in Pids : p = pid /\ PState(p) = "ALLOCED"
  BY <1>1, <1>2 DEF IInv, Start, Starting, Facts
<1>5. /\ PState(p)' = "RUNNING"
      /\ \A q \in Pids : q # p => PState(q)' = PState(q) /\ (HasPd(q)' <=> HasPd(q))
  BY <1>1, <1>4 DEF Facts, ProcessRunning, ProcessTable, PState, HasPd
<1>6. Cardinality(LiveProcesses)' = Cardinality(LiveProcesses) + 1
  BY <1>1, <1>4, <1>5, ProcessStarts
<1>7. ProcessesCounted'
  BY <1>2, <1>6 DEF TInv, ProcessesCounted, Uncounted
<1>8. FreeBlank'
  BY <1>5 DEF TInv, FreeBlank
<1> QED BY <1>2, <1>3, <1>7, <1>8, ShellKeeps

LEMMA ProcessCountStep ==
  ASSUME IInv, TInv, IInv', ProcessCount PROVE TInv'
<1>1. /\ UNCHANGED <<threads, processes, thread_count, active_tid, last_run, mode>>
      /\ mode = "run" /\ threads[active_tid].entry = "run_sh"
      /\ pc = "np_count" /\ pc' = "idle" /\ process_count' = process_count + 1
      /\ process_count \in Int
  BY DEF ProcessCount, ShellAt, IInv, Types, TypeOK
<1>2. KernelThreadsStay /\ ThreadsCounted'
  BY <1>1, SameThreadsCounted
<1>3. \A p \in Pids : PState(p)' = PState(p) /\ (HasPd(p)' <=> HasPd(p))
  BY <1>1, SameProcesses
<1>4. Cardinality(LiveProcesses)' = Cardinality(LiveProcesses)
  BY <1>3, ProcessesStay
<1>5. ProcessesCounted'
  BY <1>1, <1>4 DEF TInv, ProcessesCounted, Uncounted
<1>6. FreeBlank'
  BY <1>3 DEF TInv, FreeBlank
<1> QED BY <1>1, <1>2, <1>5, <1>6, ShellKeeps

LEMMA KillThreadStep ==
  ASSUME IInv, TInv, IInv', KillThread PROVE TInv'
<1>1. Facts
  BY TypeFacts DEF IInv
<1>2. /\ UNCHANGED <<processes, process_count, active_tid, last_run>>
      /\ mode = "run" /\ threads[active_tid].entry = "run_sh" /\ pc = "kp_loop"
  BY DEF KillThread, ShellAt
<1>3. /\ mode' \in {mode} \cup Panics
      /\ pc' # "np_count"
      /\ \/ UNCHANGED <<threads, thread_count>>
         \/ \E t \in Tids : /\ State(t) = "RUNNING" /\ Owner(t) = pid
                            /\ threads' = [threads EXCEPT ![t].state = "ENDED"]
                            /\ thread_count' = thread_count - 1
  <2>1. PICK t \in NextToKill :
          CASE threads[t].state = "FREE" ->
                    /\ mode' = "kill_thread: state == FREE"
                    /\ UNCHANGED <<threads, thread_count, reg, pc>>
            [] threads[t].state = "ENDED" ->
                    UNCHANGED <<mode, threads, thread_count, reg, pc>>
            [] OTHER ->
                    /\ threads' = IF threads[t].state = "ALLOCED" THEN threads
                                  ELSE KilledThreads(t)
                    /\ thread_count' = thread_count - 1
                    /\ reg' = threads_ended
                    /\ pc' = "kt_push"
                    /\ UNCHANGED mode
    BY DEF KillThread
  <2>2. t \in Tids /\ Owner(t) = pid
    BY DEF NextToKill, ToKill, Owner
  <2>3. CASE threads[t].state = "FREE"
    BY <1>2, <2>1, <2>3 DEF Panics
  <2>4. CASE threads[t].state = "ENDED"
    BY <1>2, <2>1, <2>4
  <2>5. CASE threads[t].state \notin {"FREE", "ENDED"}
    <3>1. State(t) = "RUNNING"
      BY <1>1, <1>2, <2>2, <2>5 DEF IInv, ThreadSlots, Facts, TP_STATES, State
    <3> QED BY <2>1, <2>2, <2>5, <3>1 DEF State, KilledThreads
  <2> QED BY <2>3, <2>4, <2>5
<1>4. ProcessesCounted' /\ FreeBlank'
  BY <1>2, <1>3, SameProcesses, SameProcessesCounted
<1>5. CASE UNCHANGED <<threads, thread_count>>
  <2>1. KernelThreadsStay /\ ThreadsCounted'
    BY <1>5, SameThreadsCounted
  <2> QED BY <1>2, <1>3, <1>4, <2>1, ShellKeeps
<1>6. CASE \E t \in Tids : /\ State(t) = "RUNNING" /\ Owner(t) = pid
                           /\ threads' = [threads EXCEPT ![t].state = "ENDED"]
                           /\ thread_count' = thread_count - 1
  <2>1. PICK t \in Tids : /\ State(t) = "RUNNING" /\ Owner(t) = pid
                           /\ threads' = [threads EXCEPT ![t].state = "ENDED"]
                           /\ thread_count' = thread_count - 1
    BY <1>6
  <2>2. /\ State(t)' = "ENDED"
        /\ \A u \in Tids : u # t =>
             State(u)' = State(u) /\ Owner(u)' = Owner(u) /\ Entry(u)' = Entry(u)
    BY <1>1, <2>1, EndThread DEF Facts
  <2>3. pid # 0
    BY <1>2 DEF IInv, Kills, Killing
  <2>4. Cardinality(RunningThreads)' = Cardinality(RunningThreads) - 1
    BY <1>1, <2>1, <2>2, ThreadEnds
  <2>5. KernelThreadsStay /\ ThreadsCounted'
    BY <2>1, <2>2, <2>3, <2>4 DEF KernelThreadsStay, TInv, ThreadsCounted
  <2> QED BY <1>2, <1>3, <1>4, <2>5, ShellKeeps
<1> QED BY <1>3, <1>5, <1>6

LEMMA KillProcessEndedStep ==
  ASSUME IInv, TInv, IInv', KillProcessEnded PROVE TInv'
<1>1. Facts
  BY TypeFacts DEF IInv
<1>2. /\ UNCHANGED <<threads, thread_count, active_tid, last_run, mode>>
      /\ mode = "run" /\ threads[active_tid].entry = "run_sh"
      /\ pc = "kp_loop" /\ pc' = "kp_push" /\ process_count' = process_count - 1
      /\ process_count \in Int
  BY DEF KillProcessEnded, ShellAt, IInv, Types, TypeOK
<1>3. KernelThreadsStay /\ ThreadsCounted'
  BY <1>2, SameThreadsCounted
<1>4. PICK p \in Pids : p = pid /\ PState(p) = "ENDING"
  BY <1>1, <1>2 DEF IInv, Kills, Killing, Facts
<1>5. processes' = [processes EXCEPT ![p].state = "ENDED"]
  BY <1>4 DEF KillProcessEnded, KilledProcesses
<1>6. /\ PState(p)' = "ENDED"
      /\ \A q \in Pids : q # p => PState(q)' = PState(q) /\ (HasPd(q)' <=> HasPd(q))
  BY <1>1, <1>5, SetProcessState DEF Facts, TP_STATES
<1>7. Cardinality(LiveProcesses)' = Cardinality(LiveProcesses) - 1
  BY <1>1, <1>4, <1>6, ProcessEnds
<1>8. ProcessesCounted'
  BY <1>2, <1>7 DEF TInv, ProcessesCounted, Uncounted
<1>9. FreeBlank'
  BY <1>6 DEF TInv, FreeBlank
<1> QED BY <1>2, <1>3, <1>8, <1>9, ShellKeeps

-----------------------------------------------------------------------------
(* Boot, the scheduler, and the end of a user thread.                      *)

\* thread_count and the tables together let find_running_thread() find a thread.
LEMMA SearchEnds ==
  ASSUME Facts, last_run \in Tids, NEW ts, NEW ps, ts[0].state = "RUNNING", ts[0].pid = 0,
         ps[0].state = "RUNNING"
  PROVE  Found(ts, ps) # {}
<1>1. 0 \in Tids /\ Runnable(ts, ps, 0)
  BY DEF Facts, Runnable
<1> QED BY <1>1, FoundOne

\* A time slice: another thread may run, and no table changes.
LEMMA SchedulerStep ==
  ASSUME IInv, TInv, Scheduler \/ ThreadingStart PROVE TInv'
<1>1. Facts /\ PState(0) = "RUNNING" /\ last_run \in Tids
  BY TypeFacts DEF IInv, ThreadSlots, Types, TypeOK
<1>2. /\ UNCHANGED <<threads, processes, thread_count, process_count, pc>>
      /\ SelectNextThread(threads, processes, thread_count)
  BY DEF Scheduler, ThreadingStart, locals
<1>3. Found(threads, processes) # {}
  BY <1>1, SearchEnds DEF TInv, KernelThreads, State, Owner, PState
<1>4. \/ /\ active_tid' \in Found(threads, processes) /\ last_run' = active_tid' /\ mode' = "run"
      \/ UNCHANGED <<mode, active_tid, last_run>>
  BY <1>2, <1>3 DEF SelectNextThread
<1>5. \A t \in Tids : State(t)' = State(t) /\ Owner(t)' = Owner(t) /\ Entry(t)' = Entry(t)
  BY <1>2, SameThreads
<1>6. \A p \in Pids : PState(p)' = PState(p) /\ (HasPd(p)' <=> HasPd(p))
  BY <1>2, SameProcesses
<1>7. ThreadsCounted' /\ ProcessesCounted' /\ FreeBlank'
  <2>1. Cardinality(RunningThreads)' = Cardinality(RunningThreads)
    BY <1>5, ThreadsStay
  <2>2. Cardinality(LiveProcesses)' = Cardinality(LiveProcesses)
    BY <1>6, ProcessesStay
  <2> QED BY <1>2, <1>6, <2>1, <2>2
    DEF TInv, ThreadsCounted, ProcessesCounted, Uncounted, FreeBlank
<1>8. KernelThreads'
  <2>1. \E t \in Tids : t # 0 /\ State(t) = "RUNNING" /\ Owner(t) = 0
    <3>1. CASE mode = "run"
      BY <3>1 DEF TInv, KernelThreads
    <3>2. CASE mode # "run"
      <4>1. PICK t \in Tids : Entry(t) = "ide_polling"
        BY <3>2 DEF Scheduler, ThreadingStart, Started, Entry
      <4>2. State(t) = "RUNNING" /\ Owner(t) = 0
        BY <1>1, <4>1 DEF IInv, ThreadSlots, Alive, Facts
      <4>3. t # 0
        BY <4>1 DEF TInv, KernelThreads
      <4> QED BY <4>2, <4>3
    <3> QED BY <3>1, <3>2
  <2>2. State(0)' = "RUNNING" /\ Owner(0)' = 0 /\ Entry(0)' = "kmain2"
    BY <1>1, <1>5 DEF TInv, KernelThreads, Facts
  <2>3. \E t \in Tids : t # 0 /\ State(t)' = "RUNNING" /\ Owner(t)' = 0
    BY <1>5, <2>1
  <2> QED BY <2>2, <2>3 DEF KernelThreads
<1>9. Scheduling'
  <2>1. CASE active_tid' \in Found(threads, processes) /\ last_run' = active_tid'
    <3>1. threads[active_tid'].state = "RUNNING"
      BY <2>1 DEF Found, Runnable
    <3> QED BY <1>2, <2>1, <3>1 DEF Scheduling, State
  <2>2. CASE UNCHANGED <<mode, active_tid, last_run>>
    BY <1>2, <2>2 DEF TInv, Scheduling, State, Entry
  <2> QED BY <1>4, <2>1, <2>2
<1>10. NotHung'
  BY <1>4 DEF TInv, NotHung
<1> QED BY <1>7, <1>8, <1>9, <1>10 DEF TInv

\* A thread of the kernel is added and counted.
LEMMA KernelThreadStep ==
  ASSUME IInv, TInv, IdeInit \/ Kmain2 PROVE TInv'
<1>1. Facts /\ PState(0) = "RUNNING" /\ thread_count \in Int
  BY TypeFacts DEF IInv, ThreadSlots, Types, TypeOK
<1>2. PICK e \in {"ide_polling", "run_sh"} : NewKernelThread(e)
  BY DEF IdeInit, Kmain2
<1>3. UNCHANGED <<mode, process_count, active_tid, last_run, pc>>
  BY DEF IdeInit, Kmain2, locals
<1>4. PICK t \in FreeSlots(threads) :
        threads' = [threads EXCEPT ![t] = [state |-> "RUNNING", pid |-> 0, entry |-> e]]
  BY <1>2 DEF NewKernelThread
<1>5. t \in Tids /\ State(t) = "FREE"
  BY FreeSlot
<1>6. [state |-> "RUNNING", pid |-> 0, entry |-> e] \in [state : TP_STATES, pid : Pids, entry : Entries]
  BY <1>1 DEF Facts, TP_STATES, Entries
<1>7. /\ State(t)' = "RUNNING" /\ Owner(t)' = 0
      /\ \A u \in Tids : u # t =>
           State(u)' = State(u) /\ Owner(u)' = Owner(u) /\ Entry(u)' = Entry(u)
  BY <1>1, <1>4, <1>5, <1>6, SetThread, ZenonT(60) DEF Facts
<1>8. \A p \in Pids : PState(p)' = PState(p) /\ (HasPd(p)' <=> HasPd(p))
  BY <1>1, <1>2, IncCount DEF Facts, NewKernelThread
<1>9. ThreadsCounted'
  <2>1. Cardinality(RunningThreads)' = Cardinality(RunningThreads) + 1
    BY <1>1, <1>5, <1>7, ThreadStarts
  <2> QED BY <1>2, <2>1 DEF NewKernelThread, TInv, ThreadsCounted
<1>10. ProcessesCounted' /\ FreeBlank'
  <2>1. Cardinality(LiveProcesses)' = Cardinality(LiveProcesses)
    BY <1>8, ProcessesStay
  <2> QED BY <1>3, <1>8, <2>1 DEF TInv, ProcessesCounted, Uncounted, FreeBlank
<1>11. KernelThreads'
  <2>1. State(0)' = "RUNNING" /\ Owner(0)' = 0 /\ Entry(0)' = "kmain2"
    BY <1>1, <1>5, <1>7 DEF TInv, KernelThreads, Facts
  <2>2. \A u \in Tids : State(u) = "RUNNING" /\ Owner(u) = 0 => State(u)' = "RUNNING" /\ Owner(u)' = 0
    BY <1>5, <1>7
  <2> QED BY <1>3, <2>1, <2>2 DEF TInv, KernelThreads
<1>12. Scheduling'
  <2>1. PICK a \in Tids : a = active_tid
    BY <1>1 DEF Facts
  <2>2. Entry(a)' = "user" /\ mode = "run" => State(a)' = "RUNNING"
    <3>1. mode = "run" /\ Entry(a) = "user" => State(a) = "RUNNING"
      BY <2>1 DEF TInv, Scheduling, Entry, State
    <3> QED BY <1>7, <3>1
  <2> QED BY <1>3, <2>1, <2>2 DEF TInv, Scheduling, Entry, State
<1> QED BY <1>3, <1>9, <1>10, <1>11, <1>12 DEF TInv, NotHung

\* A user thread is not alone: kmain2 and ide_polling run beside it.
LEMMA NotAlone ==
  ASSUME IInv, TInv, UserRunning PROVE thread_count > 2 /\ active_tid # 0
<1>1. Facts
  BY TypeFacts DEF IInv
<1>2. PICK t \in Tids : t = active_tid
  BY <1>1 DEF Facts
<1>3. State(t) = "RUNNING" /\ Entry(t) = "user" /\ mode = "run"
  BY <1>2 DEF UserRunning, State, Entry
<1>4. Owner(t) # 0
  BY <1>3 DEF IInv, ThreadSlots, Alive
<1>5. PICK u \in Tids : u # 0 /\ State(u) = "RUNNING" /\ Owner(u) = 0
  BY <1>3 DEF TInv, KernelThreads
<1>6. 0 \in RunningThreads /\ t \in RunningThreads /\ u \in RunningThreads
  BY <1>1, <1>3, <1>5 DEF RunningThreads, TInv, KernelThreads, Facts
<1>7. t # 0 /\ t # u
  BY <1>4, <1>5 DEF TInv, KernelThreads
<1>8. Cardinality(RunningThreads) > 2
  BY <1>1, <1>5, <1>6, <1>7, ThreeRun
<1> QED BY <1>2, <1>7, <1>8 DEF TInv, ThreadsCounted

\* A user thread ends and its process with it; both are counted off.
LEMMA UserThreadEnds ==
  ASSUME IInv, TInv, UserRunning, KillUserThread(active_tid), Scheduling', NotHung'
  PROVE  TInv'
<1>1. Facts /\ thread_count \in Int /\ process_count \in Int
  BY TypeFacts DEF IInv, Types, TypeOK
<1>2. PICK t \in Tids : t = active_tid
  BY <1>1 DEF Facts
<1>3. State(t) = "RUNNING" /\ Entry(t) = "user" /\ mode = "run"
  BY <1>2 DEF UserRunning, State, Entry
<1>4. PICK p \in Pids : p = Owner(t)
  BY <1>1 DEF Facts
<1>5. p # 0 /\ PState(p) = "RUNNING"
  <2>1. p # 0
    BY <1>3, <1>4 DEF IInv, ThreadSlots, Alive
  <2>2. PState(p) = "RUNNING"
    BY <1>2, <1>3, <1>4 DEF IInv, ActiveUser, UserRunning
  <2> QED BY <2>1, <2>2
<1>6. /\ threads' = [threads EXCEPT ![t].state = "ENDED"]
      /\ processes' = [processes EXCEPT ![p].state = "ENDED"]
      /\ thread_count' = thread_count - 1 /\ process_count' = process_count - 1
      /\ pc' = pc
  BY <1>2, <1>4 DEF KillUserThread, KilledThreads, KilledProcesses, Owner, locals
<1>7. /\ State(t)' = "ENDED"
      /\ \A u \in Tids : u # t =>
           State(u)' = State(u) /\ Owner(u)' = Owner(u) /\ Entry(u)' = Entry(u)
  BY <1>1, <1>6, EndThread DEF Facts
<1>8. /\ PState(p)' = "ENDED"
      /\ \A q \in Pids : q # p => PState(q)' = PState(q) /\ (HasPd(q)' <=> HasPd(q))
  BY <1>1, <1>6, SetProcessState DEF Facts, TP_STATES
<1>9. ThreadsCounted'
  <2>1. Cardinality(RunningThreads)' = Cardinality(RunningThreads) - 1
    BY <1>1, <1>3, <1>7, ThreadEnds
  <2> QED BY <1>6, <2>1 DEF TInv, ThreadsCounted
<1>10. ProcessesCounted'
  <2>1. Cardinality(LiveProcesses)' = Cardinality(LiveProcesses) - 1
    BY <1>1, <1>5, <1>8, ProcessEnds
  <2>2. Uncounted' = Uncounted /\ Uncounted \in Int
    BY <1>6 DEF Uncounted
  <2> QED BY <1>1, <1>6, <2>1, <2>2 DEF TInv, ProcessesCounted
<1>11. FreeBlank'
  BY <1>8 DEF TInv, FreeBlank
<1>12. KernelThreads'
  <2>1. \A u \in Tids : State(u) = "RUNNING" /\ Owner(u) = 0 =>
           State(u)' = "RUNNING" /\ Owner(u)' = 0 /\ Entry(u)' = Entry(u)
    BY <1>4, <1>5, <1>7
  <2>2. State(0)' = "RUNNING" /\ Owner(0)' = 0 /\ Entry(0)' = "kmain2"
    BY <1>1, <2>1 DEF TInv, KernelThreads, Facts
  <2>3. PICK u \in Tids : u # 0 /\ State(u) = "RUNNING" /\ Owner(u) = 0
    BY <1>3 DEF TInv, KernelThreads
  <2>4. u # 0 /\ State(u)' = "RUNNING" /\ Owner(u)' = 0
    BY <2>1, <2>3
  <2> QED BY <2>2, <2>4 DEF KernelThreads
<1> QED BY <1>9, <1>10, <1>11, <1>12 DEF TInv

LEMMA ThreadEndingStep ==
  ASSUME IInv, TInv, ThreadEnding PROVE TInv'
<1>1. Facts /\ PState(0) = "RUNNING" /\ last_run \in Tids /\ thread_count \in Int
  BY TypeFacts DEF IInv, ThreadSlots, Types, TypeOK
<1>2. UserRunning /\ KillUserThread(active_tid) /\ SelectNextThread(threads', processes', thread_count')
  BY DEF ThreadEnding
<1>3. active_tid # 0 /\ thread_count' > 1
  BY <1>1, <1>2, NotAlone DEF KillUserThread
<1>4. threads'[0] = threads[0]
  BY <1>1, <1>2, <1>3 DEF KillUserThread, KilledThreads, Facts, ThreadTable
<1>5. processes'[0] = processes[0]
  <2>1. PICK p \in Pids : p = threads[active_tid].pid
    BY <1>1 DEF Facts, Owner
  <2>2. p # 0
    BY <1>1, <1>2, <2>1 DEF IInv, ThreadSlots, Alive, UserRunning, State, Entry, Owner, Facts
  <2>3. processes' = [processes EXCEPT ![p].state = "ENDED"]
    BY <1>2, <2>1 DEF KillUserThread, KilledProcesses
  <2> QED BY <1>1, <2>2, <2>3 DEF Facts, ProcessTable
<1>6. Found(threads', processes') # {}
  <2>1. threads'[0].state = "RUNNING" /\ threads'[0].pid = 0 /\ processes'[0].state = "RUNNING"
    BY <1>1, <1>4, <1>5 DEF TInv, KernelThreads, State, Owner, PState
  <2> QED BY <1>1, <2>1, SearchEnds
<1>7. active_tid' \in Found(threads', processes') /\ last_run' = active_tid' /\ mode' = "run"
  BY <1>2, <1>3, <1>6 DEF SelectNextThread
<1>8. threads'[active_tid'].state = "RUNNING"
  BY <1>7 DEF Found, Runnable
<1>9. Scheduling' /\ NotHung'
  BY <1>7, <1>8 DEF Scheduling, NotHung, State
<1> QED BY <1>2, <1>9, UserThreadEnds

\* A fault that cannot be served: there is always another thread to run.
LEMMA PageFaultStep ==
  ASSUME IInv, TInv, PageFault PROVE TInv'
<1>1. Facts /\ PState(0) = "RUNNING" /\ thread_count \in Int /\ UserRunning
  BY TypeFacts DEF IInv, ThreadSlots, Types, TypeOK, PageFault
<1>2. thread_count > 1 /\ active_tid # 0
  BY <1>1, NotAlone
<1>3. last_run = active_tid
  BY <1>1 DEF TInv, Scheduling, UserRunning
<1>4. Found(threads, processes) \ {active_tid} # {}
  <2>1. 0 \in Tids /\ Runnable(threads, processes, 0)
    BY <1>1 DEF Runnable, TInv, KernelThreads, State, Owner, PState, Facts
  <2> QED BY <1>1, <1>2, <1>3, <2>1, FoundLast
<1>5. /\ KillUserThread(active_tid) /\ active_tid' \in Found(threads, processes) \ {active_tid}
      /\ last_run' = active_tid' /\ mode' = mode
  BY <1>2, <1>4 DEF PageFault
<1>6. PICK u \in Tids : u = active_tid'
  BY <1>5 DEF Found
<1>7. u # active_tid /\ threads[u].state = "RUNNING"
  BY <1>5, <1>6 DEF Found, Runnable
<1>8. threads'[u].state = "RUNNING"
  BY <1>1, <1>5, <1>6, <1>7 DEF KillUserThread, KilledThreads, Facts, ThreadTable
<1>9. Scheduling' /\ NotHung'
  BY <1>1, <1>5, <1>6, <1>8 DEF Scheduling, NotHung, State, UserRunning
<1> QED BY <1>1, <1>5, <1>9, UserThreadEnds

-----------------------------------------------------------------------------
(* The theorem.                                                            *)

LEMMA TablesInit == ASSUME Init PROVE TInv
<1>1. 0 \in Tids /\ 0 \in Pids
  BY SizeAssumption DEF Tids, Pids
<1>2. RunningThreads = {0} /\ LiveProcesses = {0}
  BY <1>1 DEF Init, RunningThreads, LiveProcesses, State, PState, NoThread, NoProcess, BlankProcess
<1>3. ThreadsCounted /\ ProcessesCounted
  <2>1. Cardinality({0}) = 1
    BY FS_Singleton
  <2>2. thread_count = 1 /\ process_count = 1 /\ Uncounted = 0
    BY DEF Init, Uncounted
  <2>3. Cardinality(RunningThreads) = 1 /\ Cardinality(LiveProcesses) = 1
    BY <1>2, <2>1
  <2> QED BY <2>2, <2>3 DEF ThreadsCounted, ProcessesCounted
<1>4. KernelThreads
  BY <1>1 DEF Init, KernelThreads, State, Owner, Entry
<1>5. FreeBlank
  BY DEF Init, FreeBlank, PState, HasPd, NoProcess, BlankProcess
<1>6. Scheduling /\ NotHung
  BY DEF Init, Scheduling, NotHung
<1> QED BY <1>3, <1>4, <1>5, <1>6 DEF TInv

LEMMA TablesNext ==
  ASSUME IInv, TInv, IInv', Next PROVE TInv'
<1>1. CASE Scheduler \/ Boot
  BY <1>1, SchedulerStep, KernelThreadStep DEF Boot
<1>2. CASE ThreadEnding \/ PageFault
  BY <1>2, ThreadEndingStep, PageFaultStep
<1>3. CASE Command \/ CleanThreads
  BY <1>3, ListSteps, FreeThreadStep DEF CleanThreads
<1>4. CASE CleanProcesses
  BY <1>4, ListSteps, DeadProcessSteps DEF CleanProcesses
<1>5. CASE NewProcess
  BY <1>5, DeadProcessSteps, AllocThreadStep, NewThreadStep, ProcessRunningStep,
     ProcessCountStep DEF NewProcess
<1>6. CASE KillProcess
  BY <1>6, DeadProcessSteps, KillThreadStep, KillOwnThreadInv, ListSteps, KillProcessEndedStep
     DEF KillProcess
<1> QED BY <1>1, <1>2, <1>3, <1>4, <1>5, <1>6 DEF Next, ShellStep

LEMMA TablesStutter ==
  ASSUME TInv, UNCHANGED vars PROVE TInv'
<1>1. Cardinality(RunningThreads)' = Cardinality(RunningThreads)
  BY ThreadsStay DEF vars, State
<1>2. Cardinality(LiveProcesses)' = Cardinality(LiveProcesses)
  BY ProcessesStay DEF vars, PState
<1> QED BY <1>1, <1>2
  DEF TInv, ThreadsCounted, ProcessesCounted, KernelThreads, Scheduling, FreeBlank, NotHung,
      Uncounted, vars, locals, State, Owner, Entry, PState, HasPd

\* What both invariants say of the tables.
LEMMA Agreement == ASSUME IInv, TInv PROVE TablesAgree
<1>1. Facts
  BY TypeFacts DEF IInv
<1>2. CountersAgree
  <2>1. Cardinality(LiveProcesses) \in Int /\ process_count \in Int /\ Uncounted \in Int
    BY <1>1, FiniteTables DEF IInv, Types, TypeOK, Uncounted
  <2>2. process_count = Cardinality(LiveProcesses) - Uncounted
    BY <2>1 DEF TInv, ProcessesCounted
  <2> QED BY <2>2 DEF TInv, ThreadsCounted, CountersAgree, RunningThreads, LiveProcesses, Uncounted,
                      State, PState
<1>3. OnlyLiveUserThreadsRun
  <2> SUFFICES ASSUME mode = "run", threads[active_tid].entry = "user"
               PROVE  /\ threads[active_tid].state = "RUNNING"
                      /\ processes[threads[active_tid].pid].state = "RUNNING"
                      /\ processes[threads[active_tid].pid].phys_pd
    BY DEF OnlyLiveUserThreadsRun
  <2>1. PICK a \in Tids : a = active_tid
    BY <1>1 DEF Facts
  <2>2. State(a) = "RUNNING" /\ Entry(a) = "user"
    BY <2>1 DEF TInv, Scheduling, State, Entry
  <2>3. PState(Owner(a)) = "RUNNING"
    BY <2>1, <2>2 DEF IInv, ActiveUser
  <2>4. HasPd(Owner(a))
    BY <2>2 DEF IInv, Pagedirs, Alive
  <2> QED BY <2>1, <2>2, <2>3, <2>4 DEF State, PState, HasPd, Owner
<1>4. NothingHalfMade
  <2> SUFFICES ASSUME pc = "idle"
               PROVE  /\ \A t \in Tids : State(t) # "ALLOCED"
                      /\ \A p \in Pids : /\ PState(p) \notin {"ALLOCED", "ENDING"}
                                         /\ PState(p) = "FREE" => ~HasPd(p)
    BY DEF NothingHalfMade, State, PState, HasPd
  <2>1. \A t \in Tids : State(t) # "ALLOCED"
    BY DEF IInv, ThreadSlots
  <2>2. \A p \in Pids : PState(p) # "ALLOCED"
    BY DEF IInv, Start, Starting, Cleaning
  <2>3. \A p \in Pids : PState(p) # "ENDING"
    BY DEF IInv, Kills, Killing
  <2> QED BY <2>1, <2>2, <2>3 DEF TInv, FreeBlank
<1>5. NoPanicOutsideWindows
  BY DEF IInv, NoPanic, Types, TypeOK, TInv, NotHung, NoPanicOutsideWindows
<1> QED BY <1>2, <1>3, <1>4, <1>5 DEF TablesAgree

\* Outside the windows of src/src/multitasking the counters agree with the tables, only a live
\* thread has the processor, a command leaves nothing half made, and no assertion fires, for
\* every size of the tables and every order of exits, faults, kills and starts.
THEOREM TablesAgreement == ASSUME KernelNotKilled PROVE QuietSpec => []TablesAgree
<1>1. Init => IInv /\ TInv
  BY InitInv, TablesInit
<1>2. IInv /\ TInv /\ [Next /\ ~torn']_vars => (IInv /\ TInv)'
  <2> SUFFICES ASSUME IInv, TInv, [Next /\ ~torn']_vars PROVE IInv' /\ TInv'
    OBVIOUS
  <2>1. CASE Next /\ ~torn'
    <3>1. IInv'
      BY <2>1, NextInv
    <3> QED BY <2>1, <3>1, TablesNext
  <2>2. CASE UNCHANGED vars
    <3>1. ~torn'
      BY <2>2 DEF IInv, Types, vars
    <3> QED BY <2>2, <3>1, StutterInv, TablesStutter
  <2> QED BY <2>1, <2>2
<1>3. IInv /\ TInv => TablesAgree
  BY Agreement
<1> QED BY <1>1, <1>2, <1>3, PTL DEF QuietSpec

-----------------------------------------------------------------------------
(* The tables of threads and processes implement ProcessLifecycle, as long *)
(* as no thread ends inside a window of the shell.                         *)

\* What ProcessLifecycle sees of a process and of a thread.
Phase(p) ==
    CASE PState(p) \in {"FREE", "ALLOCED"} -> "free"
      [] PState(p) = "RUNNING" -> "live"
      [] OTHER -> "dead"

Belongs(t) ==
    IF \/ State(t) \in {"FREE", "ALLOCED"}
       \/ PState(Owner(t)) = "ALLOCED"
    THEN NoOwner ELSE Owner(t)

Phases == [p \in Pids |-> Phase(p)]
Owners == [t \in Tids |-> Belongs(t)]

PhasesStay   == \A p \in Pids : Phase(p)' = Phase(p)
OwnersStay   == \A t \in Tids : Belongs(t)' = Belongs(t)
OnlyPhase(p) == \A q \in Pids : q # p => Phase(q)' = Phase(q)
OnlyOwner(t) == \A u \in Tids : u # t => Belongs(u)' = Belongs(u)

-----------------------------------------------------------------------------
(* The steps of ProcessLifecycle, in these terms.                          *)

LEMMA Stutters ==
  ASSUME PhasesStay, OwnersStay PROVE UNCHANGED Lifecycle!vars
<1>1. Phases' = Phases
  BY DEF Phases, PhasesStay
<1>2. Owners' = Owners
  BY DEF Owners, OwnersStay
<1> QED BY <1>1, <1>2 DEF Phases, Owners, Phase, Belongs, PState, State, Owner, Lifecycle!vars

LEMMA Adds ==
  ASSUME NEW t \in Tids, Belongs(t) = NoOwner, Belongs(t)' = 0, OnlyOwner(t), PhasesStay
  PROVE  Lifecycle!Next
<1>1. Phases' = Phases
  BY DEF Phases, PhasesStay
<1>2. Owners[t] = NoOwner /\ Owners' = [Owners EXCEPT ![t] = 0]
  BY DEF Owners, OnlyOwner
<1>3. Lifecycle!AddKernelThread(t)
  BY <1>1, <1>2 DEF Phases, Owners, Phase, Belongs, PState, State, Owner, Lifecycle!AddKernelThread
<1> QED BY <1>3 DEF Lifecycle!Next

LEMMA Starts ==
  ASSUME NEW p \in Pids, NEW t \in Tids,
         Phase(p) = "free", Phase(p)' = "live", OnlyPhase(p),
         Belongs(t) = NoOwner, Belongs(t)' = p, OnlyOwner(t)
  PROVE  Lifecycle!Next
<1>1. Phases[p] = "free" /\ Phases' = [Phases EXCEPT ![p] = "live"]
  BY DEF Phases, OnlyPhase
<1>2. Owners[t] = NoOwner /\ Owners' = [Owners EXCEPT ![t] = p]
  BY DEF Owners, OnlyOwner
<1>3. Lifecycle!Start(p, t)
  BY <1>1, <1>2 DEF Phases, Owners, Phase, Belongs, PState, State, Owner, Lifecycle!Start
<1> QED BY <1>3 DEF Lifecycle!Next

LEMMA Dies ==
  ASSUME NEW p \in Pids, p # 0, Phase(p) = "live", Phase(p)' = "dead", OnlyPhase(p), OwnersStay
  PROVE  Lifecycle!Next
<1>1. Phases[p] = "live" /\ Phases' = [Phases EXCEPT ![p] = "dead"]
  BY DEF Phases, OnlyPhase
<1>2. Owners' = Owners
  BY DEF Owners, OwnersStay
<1>3. Lifecycle!Die(p)
  BY <1>1, <1>2 DEF Phases, Owners, Phase, Belongs, PState, State, Owner, Lifecycle!Die
<1> QED BY <1>3 DEF Lifecycle!Next

LEMMA FreesThread ==
  ASSUME NEW t \in Tids, NEW p \in Pids, Belongs(t) = p, p # NoOwner, Phase(p) = "dead",
         Belongs(t)' = NoOwner, OnlyOwner(t), PhasesStay
  PROVE  Lifecycle!Next
<1>1. Phases[p] = "dead" /\ Phases' = Phases
  BY DEF Phases, PhasesStay
<1>2. Owners[t] = p /\ Owners' = [Owners EXCEPT ![t] = NoOwner]
  BY DEF Owners, OnlyOwner
<1>3. Owners[t] # NoOwner /\ Phases[Owners[t]] = "dead"
  BY <1>1, <1>2
<1>4. Lifecycle!FreeThread(t)
  BY <1>1, <1>2, <1>3 DEF Phases, Owners, Phase, Belongs, PState, State, Owner, Lifecycle!FreeThread
<1> QED BY <1>4 DEF Lifecycle!Next

LEMMA FreesProcess ==
  ASSUME NEW p \in Pids, Phase(p) = "dead", Phase(p)' = "free", OnlyPhase(p), OwnersStay,
         \A t \in Tids : Belongs(t) # p
  PROVE  Lifecycle!Next
<1>1. Phases[p] = "dead" /\ Phases' = [Phases EXCEPT ![p] = "free"]
  BY DEF Phases, OnlyPhase
<1>2. Owners' = Owners /\ \A t \in Tids : Owners[t] # p
  BY DEF Owners, OwnersStay
<1>3. Lifecycle!FreeProcess(p)
  BY <1>1, <1>2 DEF Phases, Owners, Phase, Belongs, PState, State, Owner, Lifecycle!FreeProcess
<1> QED BY <1>3 DEF Lifecycle!Next

-----------------------------------------------------------------------------
(* The steps of the kernel.                                                *)

\* What a step leaves alone keeps its phase and its owner.
LEMMA SameTables ==
  ASSUME IInv, UNCHANGED <<threads, processes>> PROVE UNCHANGED Lifecycle!vars
<1>1. PhasesStay
  BY DEF PhasesStay, Phase, PState
<1>2. OwnersStay
  BY DEF OwnersStay, Belongs, State, Owner, PState
<1> QED BY <1>1, <1>2, Stutters

LEMMA QuietSteps ==
  ASSUME IInv,
         \/ Scheduler \/ ThreadingStart \/ Command
         \/ CleanThreadsTest \/ CleanThreadsDec \/ CleanProcessesTest \/ CleanProcessesDec
         \/ FreeProcess \/ ProcessCount \/ PushThread \/ CountThread \/ PushProcess \/ CountProcess
         \/ UNCHANGED vars
  PROVE  UNCHANGED Lifecycle!vars
<1>1. UNCHANGED <<threads, processes>>
  BY DEF Scheduler, ThreadingStart, Command, Exec, Kill, CleanThreadsTest, CleanThreadsDec,
         CleanProcessesTest, CleanProcessesDec, FreeProcess, Panic, ProcessCount, PushThread,
         CountThread, PushProcess, CountProcess, vars
<1> QED BY <1>1, SameTables

\* A kernel thread is added to process 0.
LEMMA KernelThreadRefines ==
  ASSUME IInv, NEW e \in {"ide_polling", "run_sh"}, NewKernelThread(e) PROVE Lifecycle!Next
<1>1. Facts /\ PState(0) = "RUNNING"
  BY TypeFacts DEF IInv, ThreadSlots
<1>2. PICK t \in FreeSlots(threads) :
        threads' = [threads EXCEPT ![t] = [state |-> "RUNNING", pid |-> 0, entry |-> e]]
  BY DEF NewKernelThread
<1>3. t \in Tids /\ State(t) = "FREE"
  BY <1>2, FreeSlot
<1>4. [state |-> "RUNNING", pid |-> 0, entry |-> e] \in [state : TP_STATES, pid : Pids, entry : Entries]
  BY <1>1 DEF Facts, TP_STATES, Entries
<1>5. /\ State(t)' = "RUNNING" /\ Owner(t)' = 0
      /\ \A u \in Tids : u # t => State(u)' = State(u) /\ Owner(u)' = Owner(u)
  BY <1>1, <1>2, <1>3, <1>4, SetThread, ZenonT(60) DEF Facts
<1>6. \A p \in Pids : PState(p)' = PState(p)
  BY <1>1, IncCount DEF Facts, NewKernelThread
<1>7. PhasesStay
  BY <1>6 DEF PhasesStay, Phase
<1>8. Belongs(t) = NoOwner /\ Belongs(t)' = 0
  BY <1>1, <1>3, <1>5, <1>6 DEF Belongs, Facts
<1>9. OnlyOwner(t)
  BY <1>1, <1>5, <1>6 DEF OnlyOwner, Belongs, Facts
<1> QED BY <1>3, <1>7, <1>8, <1>9, Adds

\* A thread that exits or faults ends its process with it.
LEMMA UserThreadRefines ==
  ASSUME IInv, UserRunning, KillUserThread(active_tid) PROVE Lifecycle!Next
<1>1. Facts
  BY TypeFacts DEF IInv
<1>2. PICK t \in Tids : t = active_tid
  BY <1>1 DEF Facts
<1>3. PICK p \in Pids : p = Owner(t)
  BY <1>1, <1>2 DEF Facts
<1>4. Facts /\ t \in Tids /\ p \in Pids
  BY <1>1
<1>5. State(t) = "RUNNING" /\ p # 0 /\ PState(p) = "RUNNING"
  <2>1. State(t) = "RUNNING" /\ Entry(t) = "user"
    BY <1>2 DEF UserRunning, State, Entry
  <2>2. p # 0
    BY <1>4, <1>3, <2>1 DEF IInv, ThreadSlots, Alive
  <2>3. PState(p) = "RUNNING"
    BY <1>2, <1>3, <2>1 DEF IInv, ActiveUser, UserRunning
  <2> QED BY <2>1, <2>2, <2>3
<1>6. threads' = [threads EXCEPT ![t].state = "ENDED"]
  BY <1>2 DEF KillUserThread, KilledThreads
<1>7. processes' = [processes EXCEPT ![p].state = "ENDED"]
  BY <1>2, <1>3 DEF KillUserThread, KilledProcesses, Owner
<1>8. /\ State(t)' = "ENDED" /\ Owner(t)' = p
      /\ \A u \in Tids : u # t => State(u)' = State(u) /\ Owner(u)' = Owner(u)
  BY <1>4, <1>3, <1>6, EndThread DEF Facts
<1>9. /\ PState(p)' = "ENDED"
      /\ \A q \in Pids : q # p => PState(q)' = PState(q)
  BY <1>4, <1>7, SetProcessState DEF Facts, TP_STATES
<1>10. Phase(p) = "live" /\ Phase(p)' = "dead" /\ OnlyPhase(p)
  BY <1>5, <1>9 DEF Phase, OnlyPhase
<1>11. ASSUME NEW u \in Tids PROVE Belongs(u)' = Belongs(u)
  <2>1. Owner(u)' = Owner(u) /\ Owner(u) \in Pids
    BY <1>4, <1>3, <1>8 DEF Facts
  <2>2. PState(Owner(u))' = "ALLOCED" <=> PState(Owner(u)) = "ALLOCED"
    BY <1>5, <1>9, <2>1
  <2>3. State(u)' \in {"FREE", "ALLOCED"} <=> State(u) \in {"FREE", "ALLOCED"}
    BY <1>5, <1>8
  <2> QED BY <2>1, <2>2, <2>3 DEF Belongs
<1>12. OwnersStay
  BY <1>11 DEF OwnersStay
<1> QED BY <1>4, <1>5, <1>10, <1>12, Dies

LEMMA PageFaultRefines ==
  ASSUME IInv, PageFault PROVE [Lifecycle!Next]_Lifecycle!vars
<1>1. CASE UserRunning /\ KillUserThread(active_tid)
  BY <1>1, UserThreadRefines
<1>2. CASE UNCHANGED <<threads, processes>>
  BY <1>2, SameTables
<1> QED BY <1>1, <1>2 DEF PageFault

\* free_thread() frees the slot of a thread whose process is dead.
LEMMA FreeThreadRefines ==
  ASSUME IInv, FreeThread PROVE [Lifecycle!Next]_Lifecycle!vars
<1>1. Facts
  BY TypeFacts DEF IInv
<1>2. pc = "ct_free" /\ reg - 1 \in 0..(MaxThreads - 1)
  <2>1. pc = "ct_free"
    BY DEF FreeThread, ShellAt
  <2>2. reg = threads_ended + 1 /\ reg <= MaxThreads
    BY <2>1 DEF IInv, Registers
  <2> QED BY <1>1, <2>1, <2>2 DEF Facts
<1>3. PICK t \in Tids : t = threads_ended_arr[reg - 1]
  BY <1>1, <1>2 DEF Facts, Tids
<1>4. State(t) = "ENDED"
  BY <1>2, <1>3 DEF IInv, ThreadLists, ThreadInHand
<1>5. PICK p \in Pids : p = Owner(t)
  BY <1>1 DEF Facts
<1>6. PState(p) \in {"ENDED", "ENDING"}
  BY <1>4, <1>5 DEF IInv, ThreadSlots, Alive
<1>7. CASE UNCHANGED <<threads, processes>>
  BY <1>7, SameTables
<1>8. CASE /\ threads' = FreedThread(t)
           /\ processes' = [processes EXCEPT ![p].count = @ - 2]
  <2>1. NoThread \in [state : TP_STATES, pid : Pids, entry : Entries]
    BY <1>1 DEF NoThread, TP_STATES, Entries, Facts
  <2>2. /\ State(t)' = "FREE"
        /\ \A u \in Tids : u # t => State(u)' = State(u) /\ Owner(u)' = Owner(u)
    BY <1>1, <1>8, <2>1, SetThread DEF Facts, FreedThread, NoThread
  <2>3. \A q \in Pids : PState(q)' = PState(q)
    BY <1>1, <1>8, DecCount DEF Facts
  <2>4. PhasesStay /\ Phase(p) = "dead"
    BY <1>6, <2>3 DEF PhasesStay, Phase
  <2>5. Belongs(t) = p /\ Belongs(t)' = NoOwner
    BY <1>4, <1>5, <1>6, <2>2 DEF Belongs
  <2>6. OnlyOwner(t)
    BY <1>1, <2>2, <2>3 DEF OnlyOwner, Belongs, Facts
  <2>7. p # NoOwner
    BY DEF Pids, NoOwner
  <2> QED BY <2>4, <2>5, <2>6, <2>7, FreesThread
<1>9. UNCHANGED <<threads, processes>> \/ ( /\ threads' = FreedThread(t)
                                            /\ processes' = [processes EXCEPT ![p].count = @ - 2])
  <2>1. threads[t].state = "ENDED" /\ p = threads[t].pid
    BY <1>4, <1>5 DEF State, Owner
  <2> QED BY <1>3, <2>1 DEF FreeThread, Panic
<1> QED BY <1>7, <1>8, <1>9

\* free_process() frees a dead process that no thread belongs to, or one that has not begun.
LEMMA FreeProcessClearRefines ==
  ASSUME IInv, FreeProcessClear PROVE [Lifecycle!Next]_Lifecycle!vars
<1>1. Facts
  BY TypeFacts DEF IInv
<1>2. PICK p \in Pids : p = pid
  BY <1>1 DEF Facts
<1>3. /\ PState(p) \in {"ENDED", "ALLOCED"}
      /\ \A t \in Tids : Alive(t) => Owner(t) # p
  BY <1>2 DEF IInv, Frees, FreeProcessClear, ShellAt
<1>4. processes' = [processes EXCEPT ![p] = NoProcess] /\ threads' = threads
  BY <1>2 DEF FreeProcessClear
<1>5. NoProcess \in [state : TP_STATES, tid0 : Tids, count : Int, phys_pd : BOOLEAN]
  BY <1>1 DEF NoProcess, BlankProcess, TP_STATES, Facts
<1>6. PState(p)' = "FREE" /\ \A q \in Pids : q # p => PState(q)' = PState(q)
  BY <1>1, <1>4, <1>5, SetProcess DEF Facts, NoProcess, BlankProcess
<1>7. \A t \in Tids : State(t)' = State(t) /\ Owner(t)' = Owner(t)
  BY <1>4, SameThreads
<1>8. ASSUME NEW t \in Tids PROVE Belongs(t)' = Belongs(t) /\ Belongs(t) # p
  <2>1. CASE Alive(t)
    <3>1. Owner(t) \in Pids /\ Owner(t) # p
      BY <1>1, <1>3, <2>1 DEF Facts
    <3>2. PState(Owner(t))' = PState(Owner(t))
      BY <1>6, <1>7, <3>1
    <3>3. p # NoOwner
      BY DEF Pids, NoOwner
    <3> QED BY <1>7, <3>1, <3>2, <3>3 DEF Belongs
  <2>2. CASE ~Alive(t)
    <3>1. State(t) \in {"FREE", "ALLOCED"}
      BY <1>1, <2>2 DEF Alive, Facts, TP_STATES, IInv, ThreadSlots
    <3>2. p # NoOwner
      BY DEF Pids, NoOwner
    <3> QED BY <1>7, <3>1, <3>2 DEF Belongs
  <2> QED BY <2>1, <2>2
<1>9. OwnersStay
  BY <1>8 DEF OwnersStay
<1>10. CASE PState(p) = "ENDED"
  <2>1. Phase(p) = "dead" /\ Phase(p)' = "free" /\ OnlyPhase(p)
    BY <1>6, <1>10 DEF Phase, OnlyPhase
  <2> QED BY <1>8, <1>9, <2>1, FreesProcess
<1>11. CASE PState(p) = "ALLOCED"
  <2>1. PhasesStay
    BY <1>6, <1>11 DEF Phase, PhasesStay
  <2> QED BY <1>9, <2>1, Stutters
<1> QED BY <1>3, <1>10, <1>11

\* alloc_process() and build_new_pagedir(): a process in the making is still free.
LEMMA AllocProcessRefines ==
  ASSUME IInv, AllocProcess PROVE UNCHANGED Lifecycle!vars
<1>1. Facts /\ threads' = threads /\ pc = "np_alloc"
  BY TypeFacts DEF IInv, AllocProcess, ShellAt
<1>2. CASE processes' = processes
  BY <1>1, <1>2, SameTables
<1>3. CASE \E p \in Pids : PState(p) = "FREE" /\ processes' = [processes EXCEPT ![p] = BlankProcess("ALLOCED")]
  <2>1. PICK p \in Pids : PState(p) = "FREE" /\ processes' = [processes EXCEPT ![p] = BlankProcess("ALLOCED")]
    BY <1>3
  <2>2. BlankProcess("ALLOCED") \in [state : TP_STATES, tid0 : Tids, count : Int, phys_pd : BOOLEAN]
    BY <1>1 DEF BlankProcess, TP_STATES, Facts
  <2>3. PState(p)' = "ALLOCED" /\ \A q \in Pids : q # p => PState(q)' = PState(q)
    BY <1>1, <2>1, <2>2, SetProcess DEF Facts, BlankProcess
  <2>4. PhasesStay
    BY <2>1, <2>3 DEF PhasesStay, Phase
  <2>5. \A t \in Tids : Alive(t) => Owner(t) # p
    BY <1>1, <2>1 DEF IInv, ThreadSlots, DeadQuiet, Dead, Killing, Alive
  <2>6. ASSUME NEW t \in Tids PROVE Belongs(t)' = Belongs(t)
    <3>1. State(t)' = State(t) /\ Owner(t)' = Owner(t) /\ Owner(t) \in Pids
      BY <1>1, SameThreads DEF Facts
    <3>2. CASE Alive(t)
      <4>1. PState(Owner(t))' = PState(Owner(t))
        BY <2>3, <2>5, <3>1, <3>2
      <4> QED BY <3>1, <4>1 DEF Belongs
    <3>3. CASE ~Alive(t)
      <4>1. State(t) \in {"FREE", "ALLOCED"}
        BY <1>1, <3>3 DEF Alive, Facts, TP_STATES, IInv, ThreadSlots
      <4> QED BY <3>1, <4>1 DEF Belongs
    <3> QED BY <3>2, <3>3
  <2>7. OwnersStay
    BY <2>6 DEF OwnersStay
  <2> QED BY <2>4, <2>7, Stutters
<1> QED BY <1>2, <1>3 DEF AllocProcess, PState

LEMMA ProgramSpaceRefines ==
  ASSUME IInv, ProgramSpace PROVE UNCHANGED Lifecycle!vars
<1>1. Facts /\ threads' = threads
  BY TypeFacts DEF IInv, ProgramSpace
<1>2. processes' = [processes EXCEPT ![pid].phys_pd = TRUE]
  BY DEF ProgramSpace
<1>3. \A p \in Pids : PState(p)' = PState(p)
  BY <1>1, <1>2 DEF Facts, ProcessTable, PState
<1>4. \A t \in Tids : State(t)' = State(t) /\ Owner(t)' = Owner(t) /\ Owner(t) \in Pids
  BY <1>1, SameThreads DEF Facts
<1>5. PhasesStay
  BY <1>3 DEF PhasesStay, Phase
<1>6. OwnersStay
  BY <1>3, <1>4 DEF OwnersStay, Belongs
<1> QED BY <1>5, <1>6, Stutters

\* alloc_thread() and prepare_thread(): a thread of a process in the making is nobody's.
LEMMA AllocThreadRefines ==
  ASSUME IInv, AllocThread PROVE UNCHANGED Lifecycle!vars
<1>1. Facts /\ processes' = processes
  BY TypeFacts DEF IInv, AllocThread
<1>2. CASE threads' = threads
  BY <1>1, <1>2, SameTables
<1>3. CASE \E t \in FreeSlots(threads) : threads' = [threads EXCEPT ![t] = [NoThread EXCEPT !.state = "ALLOCED"]]
  <2>1. PICK t \in FreeSlots(threads) : threads' = [threads EXCEPT ![t] = [NoThread EXCEPT !.state = "ALLOCED"]]
    BY <1>3
  <2>2. t \in Tids /\ State(t) = "FREE"
    BY FreeSlot
  <2>3. [NoThread EXCEPT !.state = "ALLOCED"] = [state |-> "ALLOCED", pid |-> 0, entry |-> "none"]
    BY DEF NoThread
  <2>4. [state |-> "ALLOCED", pid |-> 0, entry |-> "none"] \in [state : TP_STATES, pid : Pids, entry : Entries]
    BY <1>1 DEF TP_STATES, Entries, Facts
  <2>5. threads' = [threads EXCEPT ![t] = [state |-> "ALLOCED", pid |-> 0, entry |-> "none"]]
    BY <2>1, <2>3
  <2>6. /\ State(t)' = "ALLOCED"
        /\ \A u \in Tids : u # t => State(u)' = State(u) /\ Owner(u)' = Owner(u)
    BY <1>1, <2>2, <2>4, <2>5, SetThread DEF Facts
  <2>7. \A p \in Pids : PState(p)' = PState(p)
    BY <1>1, SameProcesses
  <2>8. PhasesStay
    BY <2>7 DEF PhasesStay, Phase
  <2>9. OwnersStay
    BY <1>1, <2>2, <2>6, <2>7 DEF OwnersStay, Belongs, Facts
  <2> QED BY <2>8, <2>9, Stutters
<1> QED BY <1>2, <1>3 DEF AllocThread

LEMMA NewThreadRefines ==
  ASSUME IInv, NewThread PROVE UNCHANGED Lifecycle!vars
<1>1. Facts /\ pc = "nt_run"
  BY TypeFacts DEF IInv, NewThread, ShellAt
<1>2. PICK t \in Tids : t = tid /\ State(t) = "ALLOCED"
  BY <1>1 DEF IInv, Start
<1>3. PICK p \in Pids : p = pid /\ PState(p) = "ALLOCED"
  BY <1>1 DEF IInv, Start, Starting, Facts
<1>4. \A q \in Pids : PState(q)' = PState(q)
  BY <1>1, <1>3, IncCount DEF Facts, NewThread
<1>5. PICK r \in {NoThread, [state |-> "RUNNING", pid |-> p, entry |-> "user"]} :
        threads' = [threads EXCEPT ![t] = r]
  BY <1>2, <1>3 DEF NewThread, FreedThread
<1>6. r \in [state : TP_STATES, pid : Pids, entry : Entries]
  BY <1>1, <1>5 DEF NoThread, TP_STATES, Entries, Facts
<1>7. /\ State(t)' = "FREE" \/ (State(t)' = "RUNNING" /\ Owner(t)' = p)
      /\ \A u \in Tids : u # t => State(u)' = State(u) /\ Owner(u)' = Owner(u)
  <2>1. threads \in ThreadTable
    BY <1>1 DEF Facts
  <2>2. /\ State(t)' = r.state /\ Owner(t)' = r.pid
        /\ \A u \in Tids : u # t => State(u)' = State(u) /\ Owner(u)' = Owner(u)
    BY <1>5, <1>6, <2>1, SetThread, ZenonT(60)
  <2>3. r.state = "FREE" \/ (r.state = "RUNNING" /\ r.pid = p)
    BY <1>5 DEF NoThread
  <2> QED BY <2>2, <2>3
<1>8. PhasesStay
  BY <1>4 DEF PhasesStay, Phase
<1>9. Belongs(t)' = Belongs(t)
  BY <1>2, <1>3, <1>4, <1>7 DEF Belongs
<1>10. OwnersStay
  BY <1>1, <1>4, <1>7, <1>9 DEF OwnersStay, Belongs, Facts
<1> QED BY <1>8, <1>10, Stutters

\* new_process() lets the process run: it starts with its one thread.
LEMMA ProcessRunningRefines ==
  ASSUME IInv, ProcessRunning PROVE Lifecycle!Next
<1>1. Facts /\ pc = "np_run" /\ threads' = threads
  BY TypeFacts DEF IInv, ProcessRunning, ShellAt
<1>2. PICK t \in Tids : t = tid /\ State(t) = "RUNNING" /\ Owner(t) = pid
  BY <1>1 DEF IInv, Start
<1>3. PICK p \in Pids : p = pid /\ PState(p) = "ALLOCED"
  BY <1>1 DEF IInv, Start, Starting, Facts
<1>4. PState(p)' = "RUNNING" /\ \A q \in Pids : q # p => PState(q)' = PState(q)
  BY <1>1, <1>3 DEF Facts, ProcessRunning, ProcessTable, PState
<1>5. \A u \in Tids : State(u)' = State(u) /\ Owner(u)' = Owner(u) /\ Owner(u) \in Pids
  BY <1>1, SameThreads DEF Facts
<1>6. Phase(p) = "free" /\ Phase(p)' = "live" /\ OnlyPhase(p)
  BY <1>3, <1>4 DEF Phase, OnlyPhase
<1>7. Belongs(t) = NoOwner /\ Belongs(t)' = p
  BY <1>2, <1>3, <1>4, <1>5 DEF Belongs
<1>8. ASSUME NEW u \in Tids, u # t PROVE Belongs(u)' = Belongs(u)
  <2>1. CASE Alive(u)
    <3>1. Owner(u) # p
      BY <1>1, <1>2, <1>3, <1>8, <2>1 DEF IInv, ThreadSlots
    <3>2. PState(Owner(u))' = PState(Owner(u))
      BY <1>4, <1>5, <3>1
    <3> QED BY <1>5, <3>2 DEF Belongs
  <2>2. CASE ~Alive(u)
    <3>1. State(u) \in {"FREE", "ALLOCED"}
      BY <1>1, <2>2 DEF Alive, Facts, TP_STATES, IInv, ThreadSlots
    <3> QED BY <1>5, <3>1 DEF Belongs
  <2> QED BY <2>1, <2>2
<1>9. OnlyOwner(t)
  BY <1>8 DEF OnlyOwner
<1> QED BY <1>6, <1>7, <1>9, Starts

\* kill_process() marks the process, which dies then; what follows takes its threads.
LEMMA KillProcessMarkRefines ==
  ASSUME IInv, KillProcessMark PROVE Lifecycle!Next
<1>1. Facts /\ pc = "kp_mark" /\ threads' = threads
  BY TypeFacts DEF IInv, KillProcessMark, ShellAt
<1>2. PICK p \in Pids : p = pid /\ PState(p) = "RUNNING" /\ p # 0
  BY <1>1 DEF IInv, Kills, Facts
<1>3. processes' = [processes EXCEPT ![p].state = "ENDING"]
  BY <1>2 DEF KillProcessMark, Ending
<1>4. PState(p)' = "ENDING" /\ \A q \in Pids : q # p => PState(q)' = PState(q)
  BY <1>1, <1>3, SetProcessState DEF Facts, TP_STATES
<1>5. Phase(p) = "live" /\ Phase(p)' = "dead" /\ OnlyPhase(p)
  BY <1>2, <1>4 DEF Phase, OnlyPhase
<1>6. ASSUME NEW t \in Tids PROVE Belongs(t)' = Belongs(t)
  <2>1. State(t)' = State(t) /\ Owner(t)' = Owner(t) /\ Owner(t) \in Pids
    BY <1>1, SameThreads DEF Facts
  <2>2. PState(Owner(t))' = "ALLOCED" <=> PState(Owner(t)) = "ALLOCED"
    BY <1>2, <1>4, <2>1
  <2> QED BY <2>1, <2>2 DEF Belongs
<1>7. OwnersStay
  BY <1>6 DEF OwnersStay
<1> QED BY <1>2, <1>5, <1>7, Dies

LEMMA KillThreadRefines ==
  ASSUME IInv, KillThread PROVE UNCHANGED Lifecycle!vars
<1>1. Facts /\ processes' = processes
  BY TypeFacts DEF IInv, KillThread
<1>2. CASE threads' = threads
  BY <1>1, <1>2, SameTables
<1>3. CASE \E t \in Tids : State(t) \notin {"FREE", "ENDED", "ALLOCED"} /\ threads' = [threads EXCEPT ![t].state = "ENDED"]
  <2>1. PICK t \in Tids : State(t) \notin {"FREE", "ENDED", "ALLOCED"} /\ threads' = [threads EXCEPT ![t].state = "ENDED"]
    BY <1>3
  <2>2. /\ State(t)' = "ENDED" /\ Owner(t)' = Owner(t)
        /\ \A u \in Tids : u # t => State(u)' = State(u) /\ Owner(u)' = Owner(u)
    BY <1>1, <2>1, EndThread DEF Facts
  <2>3. \A p \in Pids : PState(p)' = PState(p)
    BY <1>1, SameProcesses
  <2>4. PhasesStay
    BY <2>3 DEF PhasesStay, Phase
  <2>5. OwnersStay
    BY <1>1, <2>1, <2>2, <2>3 DEF OwnersStay, Belongs, Facts
  <2> QED BY <2>4, <2>5, Stutters
<1>4. \/ threads' = threads
      \/ \E t \in Tids : State(t) \notin {"FREE", "ENDED", "ALLOCED"} /\ threads' = [threads EXCEPT ![t].state = "ENDED"]
  <2>1. PICK t \in NextToKill :
          \/ threads' = threads
          \/ /\ threads[t].state \notin {"FREE", "ENDED"}
             /\ threads' = IF threads[t].state = "ALLOCED" THEN threads ELSE KilledThreads(t)
    BY DEF KillThread
  <2>2. t \in Tids
    BY DEF NextToKill, ToKill
  <2> QED BY <2>1, <2>2 DEF State, KilledThreads
<1> QED BY <1>2, <1>3, <1>4

LEMMA KillProcessEndedRefines ==
  ASSUME IInv, KillProcessEnded PROVE UNCHANGED Lifecycle!vars
<1>1. Facts /\ pc = "kp_loop" /\ threads' = threads
  BY TypeFacts DEF IInv, KillProcessEnded, ShellAt
<1>2. PICK p \in Pids : p = pid /\ PState(p) = "ENDING"
  BY <1>1 DEF IInv, Kills, Killing, Facts
<1>3. processes' = [processes EXCEPT ![p].state = "ENDED"]
  BY <1>2 DEF KillProcessEnded, KilledProcesses
<1>4. PState(p)' = "ENDED" /\ \A q \in Pids : q # p => PState(q)' = PState(q)
  BY <1>1, <1>3, SetProcessState DEF Facts, TP_STATES
<1>5. PhasesStay
  BY <1>2, <1>4 DEF Phase, PhasesStay
<1>6. ASSUME NEW t \in Tids PROVE Belongs(t)' = Belongs(t)
  <2>1. State(t)' = State(t) /\ Owner(t)' = Owner(t) /\ Owner(t) \in Pids
    BY <1>1, SameThreads DEF Facts
  <2>2. PState(Owner(t))' = "ALLOCED" <=> PState(Owner(t)) = "ALLOCED"
    BY <1>2, <1>4, <2>1
  <2> QED BY <2>1, <2>2 DEF Belongs
<1>7. OwnersStay
  BY <1>6 DEF OwnersStay
<1> QED BY <1>5, <1>7, Stutters

-----------------------------------------------------------------------------
(* The refinement.                                                         *)

LEMMA LifecycleInit == Init => Lifecycle!Init
<1> SUFFICES ASSUME Init PROVE Lifecycle!Init
  OBVIOUS
<1>1. 0 \in Tids /\ 0 \in Pids
  BY SizeAssumption DEF Tids, Pids
<1>2. ASSUME NEW p \in Pids PROVE Phase(p) = IF p = 0 THEN "live" ELSE "free"
  BY DEF Init, Phase, PState, NoProcess, BlankProcess
<1>3. ASSUME NEW t \in Tids PROVE Belongs(t) = IF t = 0 THEN 0 ELSE NoOwner
  BY <1>1 DEF Init, Belongs, State, Owner, PState, NoThread
<1>4. Phases = [p \in Pids |-> IF p = 0 THEN "live" ELSE "free"]
  BY <1>2 DEF Phases
<1>5. Owners = [t \in Tids |-> IF t = 0 THEN 0 ELSE NoOwner]
  BY <1>3 DEF Owners
<1> QED BY <1>1, <1>4, <1>5
  DEF Phases, Owners, Phase, Belongs, PState, State, Owner, Lifecycle!Init

LEMMA LifecycleNext ==
  ASSUME IInv, Next PROVE [Lifecycle!Next]_Lifecycle!vars
<1>1. CASE Scheduler \/ ThreadingStart \/ Command \/ CleanThreadsTest \/ CleanThreadsDec
           \/ CleanProcessesTest \/ CleanProcessesDec \/ FreeProcess \/ ProcessCount
           \/ PushThread \/ CountThread \/ PushProcess \/ CountProcess
  BY <1>1, QuietSteps
<1>2. CASE IdeInit \/ Kmain2
  BY <1>2, KernelThreadRefines DEF IdeInit, Kmain2
<1>3. CASE ThreadEnding
  BY <1>3, UserThreadRefines DEF ThreadEnding
<1>4. CASE PageFault
  BY <1>4, PageFaultRefines
<1>5. CASE FreeThread
  BY <1>5, FreeThreadRefines
<1>6. CASE FreeProcessClear
  BY <1>6, FreeProcessClearRefines
<1>7. CASE AllocProcess \/ ProgramSpace \/ AllocThread \/ NewThread
  BY <1>7, AllocProcessRefines, ProgramSpaceRefines, AllocThreadRefines, NewThreadRefines
<1>8. CASE ProcessRunning
  BY <1>8, ProcessRunningRefines
<1>9. CASE KillProcessMark \/ KillThread \/ KillProcessEnded
  BY <1>9, KillProcessMarkRefines, KillThreadRefines, KillProcessEndedRefines
<1>10. CASE KillOwnThread
  BY <1>10, KillOwnThreadInv
<1> QED BY <1>1, <1>2, <1>3, <1>4, <1>5, <1>6, <1>7, <1>8, <1>9, <1>10
  DEF Next, Boot, ShellStep, CleanThreads, CleanProcesses, NewProcess, KillProcess

\* Outside the windows the invariant holds throughout.
THEOREM QuietInvariance == ASSUME KernelNotKilled PROVE QuietSpec => []IInv
<1>1. Init => IInv
  BY InitInv
<1>2. IInv /\ [Next /\ ~torn']_vars => IInv'
  <2> SUFFICES ASSUME IInv, [Next /\ ~torn']_vars PROVE IInv'
    OBVIOUS
  <2>1. CASE Next /\ ~torn'
    BY <2>1, NextInv
  <2>2. CASE UNCHANGED vars
    <3>1. ~torn'
      BY <2>2 DEF IInv, Types, vars
    <3> QED BY <2>2, <3>1, StutterInv
  <2> QED BY <2>1, <2>2
<1> QED BY <1>1, <1>2, PTL DEF QuietSpec

\* However exits, faults, kills, starts and clean-ups interleave outside the windows, a
\* process lives, dies as a whole and is free again after its threads: the tables of
\* src/src/multitasking implement ProcessLifecycle.
THEOREM LifecycleRefinement == ASSUME KernelNotKilled PROVE QuietSpec => ImplementsLifecycle
<1>1. Init => Lifecycle!Init
  BY LifecycleInit
<1>2. IInv /\ [Next /\ ~torn']_vars => [Lifecycle!Next]_Lifecycle!vars
  BY LifecycleNext, QuietSteps
<1> QED BY <1>1, <1>2, QuietInvariance, PTL DEF QuietSpec, ImplementsLifecycle, Lifecycle!Spec
=============================================================================
