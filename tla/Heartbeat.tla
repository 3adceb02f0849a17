----------------------------- MODULE Heartbeat -----------------------------
(***************************************************************************)
(* Heartbeats in shared memory: CPActive and CSEM of public/_public.cpp,   *)
(* as the file clients use them.  A chat client has one CPActive in its    *)
(* `pfile' and one in its `gfile'; each enters the process in a table that *)
(* all processes share, and takes it out again in its destructor.          *)
(*                                                                         *)
(* Only the pid of a record is kept here.  The rest (name, timeout, time   *)
(* of the last heartbeat) is written to the slot without any guard.        *)
(***************************************************************************)
EXTENDS Integers, FiniteSets

CONSTANTS Proc,     \* processes; one that has ended may be started again
          Pid,      \* process ids, which are used again
          NoPid,    \* 0
          Object,   \* the CPActive objects of a process
          MaxNump   \* MAXNUMP

ASSUME HeartbeatAssumption ==
  /\ MaxNump \in Nat \ {0}
  /\ NoPid \notin Pid
  /\ Object # {} /\ IsFiniteSet(Object)

Slot == 1 .. MaxNump
NoSlot == 0          \* m_pos = -1

VARIABLES table,  \* m_shm: the pid in each slot, or NoPid
          sem,    \* the semaphore: "absent", "created" with value 0, "free", "taken"
          pid,    \* the pid of each process that runs, else NoPid
          pc,     \* where the process is: see AddPInfo
          this,   \* the object AddPInfo was called on
          pos,    \* m_pos of each object, a Slot or NoSlot
          semid,  \* objects whose m_sem has been initialised
          undo,   \* processes whose end undoes a P operation
          twice   \* history: a process has exited with two objects in the table

memory == <<table, sem, undo>>
process == <<pid, pc, this, pos, semid>>
vars == <<memory, process, twice>>

Running == {p \in Proc : pid[p] # NoPid}
AnObject == CHOOSE o \in Object : TRUE

Init ==
  /\ table = [s \in Slot |-> NoPid]
  /\ sem = "absent" /\ undo = {}
  /\ pid = [p \in Proc |-> NoPid]
  /\ pc = [p \in Proc |-> "none"]
  /\ this = [p \in Proc |-> AnObject]
  /\ pos = [p \in Proc |-> [o \in Object |-> NoSlot]]
  /\ semid = {}
  /\ twice = FALSE

At(p, l) == pc[p] = l
Go(p, l) == pc' = [pc EXCEPT ![p] = l]
Leave(p, l) == Go(p, l) /\ this' = [this EXCEPT ![p] = AnObject]
MyPos(p) == pos[p][this[p]]
SetPos(p, s) == pos' = [pos EXCEPT ![p][this[p]] = s]

-----------------------------------------------------------------------------
(* AddPInfo.                                                               *)

\* A new client, with a pid that no running process has.
Start(p) ==
  /\ At(p, "none")
  /\ \E i \in Pid \ {pid[q] : q \in Proc} : pid' = [pid EXCEPT ![p] = i]
  /\ Go(p, "menu")
  /\ UNCHANGED <<memory, this, pos, semid, twice>>

\* login.  An object that has a slot returns, and so does one that was refused
\* a slot: its semaphore is initialised, and CSEM::init fails.
AddPInfo(p, o) ==
  /\ At(p, "menu")
  /\ pos[p][o] = NoSlot /\ <<p, o>> \notin semid
  /\ this' = [this EXCEPT ![p] = o]
  /\ Go(p, "init")
  /\ UNCHANGED <<memory, pid, pos, semid, twice>>

\* CSEM::init: semget; one process creates the semaphore, with value 0.
InitSem(p) ==
  /\ At(p, "init")
  /\ semid' = semid \cup {<<p, this[p]>>}
  /\ \/ sem = "absent" /\ sem' = "created" /\ Go(p, "setval")
     \/ sem # "absent" /\ Go(p, "search") /\ UNCHANGED sem
  /\ UNCHANGED <<table, undo, pid, this, pos, twice>>

\* semctl(SETVAL).
SetVal(p) ==
  /\ At(p, "setval")
  /\ sem' = "free"
  /\ Go(p, "search")
  /\ UNCHANGED <<table, undo, pid, this, pos, semid, twice>>

\* The slot with the process's own pid, if there is one: not locked.
Search(p) ==
  /\ At(p, "search")
  /\ \/ \E s \in Slot : /\ table[s] = pid[p]
                        /\ \A r \in 1 .. s - 1 : table[r] # pid[p]
                        /\ SetPos(p, s)
     \/ (\A s \in Slot : table[s] # pid[p]) /\ UNCHANGED pos
  /\ Go(p, "lock")
  /\ UNCHANGED <<memory, pid, this, semid, twice>>

\* Mutant: P does not wait.
Lock_NoWait(p) ==
  /\ At(p, "lock") /\ sem # "created"
  /\ sem' = "taken" /\ undo' = undo \cup {p}
  /\ Go(p, "find")
  /\ UNCHANGED <<table, pid, this, pos, semid, twice>>

Lock(p) ==
  /\ At(p, "lock") /\ sem = "free"
  /\ sem' = "taken" /\ undo' = undo \cup {p}
  /\ Go(p, "find")
  /\ UNCHANGED <<table, pid, this, pos, semid, twice>>

Release(p) == sem' = "free" /\ undo' = undo \ {p}

\* Else the first empty slot, or none, and AddPInfo returns false.
Find(p) ==
  /\ At(p, "find")
  /\ \/ MyPos(p) # NoSlot /\ Go(p, "write") /\ UNCHANGED pos
     \/ MyPos(p) = NoSlot
        /\ (\E s \in Slot : /\ table[s] = NoPid
                            /\ \A r \in 1 .. s - 1 : table[r] # NoPid
                            /\ SetPos(p, s))
        /\ Go(p, "write")
     \/ MyPos(p) = NoSlot
        /\ (\A s \in Slot : table[s] # NoPid)
        /\ Go(p, "unlock") /\ UNCHANGED pos
  /\ UNCHANGED <<memory, pid, this, semid, twice>>

Write(p) ==
  /\ At(p, "write")
  /\ table' = [table EXCEPT ![MyPos(p)] = pid[p]]
  /\ Go(p, "unlock")
  /\ UNCHANGED <<sem, undo, pid, this, pos, semid, twice>>

Unlock(p) ==
  /\ At(p, "unlock")
  /\ Release(p)
  /\ Leave(p, "menu")
  /\ UNCHANGED <<table, pid, pos, semid, twice>>

-----------------------------------------------------------------------------
(* The end of a process.                                                   *)

Placed(p) == {o \in Object : pos[p][o] # NoSlot}

\* exit: by the menu, or by the reading thread wherever the menu's thread is.
Exit(p) ==
  /\ p \in Running /\ ~ At(p, "exit")
  /\ Leave(p, "exit")
  /\ twice' = (twice \/ Cardinality(Placed(p)) > 1)
  /\ semid' = {i \in semid : i[1] # p}
  /\ UNCHANGED <<memory, pid, pos>>

\* ~CPActive of one of the objects: not locked.
Destroy(p) ==
  /\ At(p, "exit")
  /\ \E o \in Placed(p) :
       /\ table' = [table EXCEPT ![pos[p][o]] = NoPid]
       /\ pos' = [pos EXCEPT ![p][o] = NoSlot]
  /\ UNCHANGED <<sem, undo, pid, pc, this, semid, twice>>

\* Mutant: without SEM_UNDO.
Undo_Nothing(p) == UNCHANGED <<sem, undo>>

\* SEM_UNDO.
Undo(p) == IF p \in undo THEN Release(p) ELSE UNCHANGED <<sem, undo>>

Gone(p) ==
  /\ pid' = [pid EXCEPT ![p] = NoPid]
  /\ Leave(p, "none")
  /\ pos' = [pos EXCEPT ![p] = [o \in Object |-> NoSlot]]
  /\ semid' = {i \in semid : i[1] # p}
  /\ Undo(p)
  /\ UNCHANGED <<table, twice>>

End(p) == At(p, "exit") /\ Placed(p) = {} /\ Gone(p)

\* A signal: no destructor runs.
Crash(p) == p \in Running /\ Gone(p)

-----------------------------------------------------------------------------
Add(p) ==
  \/ InitSem(p) \/ SetVal(p) \/ Search(p) \/ Lock(p) \/ Find(p) \/ Write(p) \/ Unlock(p)

Next ==
  \E p \in Proc :
    \/ Start(p) \/ (\E o \in Object : AddPInfo(p, o)) \/ Add(p)
    \/ Exit(p) \/ Destroy(p) \/ End(p) \/ Crash(p)

Spec == Init /\ [][Next]_vars

\* A process that has begun to enter itself, or to exit, goes on.  The kernel
\* hands the semaphore over to the process that has waited longest for it.
Fairness ==
  \A p \in Proc : WF_vars(Add(p) \/ Destroy(p) \/ End(p)) /\ SF_vars(Lock(p))

FairSpec == Spec /\ Fairness

-----------------------------------------------------------------------------
(* Properties.                                                             *)

\* Object o of p has been given a slot, and the record is written.
Entered(p, o) ==
  /\ pos[p][o] # NoSlot /\ ~ At(p, "exit")
  /\ o = this[p] => ~ (At(p, "find") \/ At(p, "write"))

\* A running process that has entered itself is in its slot and in no other,
\* whatever records earlier processes with its pid have left and although
\* neither the search for the pid nor the destructor takes the semaphore: no
\* other process shares or clears its slot, until one has exited with two
\* objects at its one slot (_public.cpp:2283-2317, 2333; client/main.cpp:30-31).
OwnSlot ==
  ~ twice =>
    \A p \in Running, o \in Object : Entered(p, o) =>
      \A s \in Slot : table[s] = pid[p] <=> s = pos[p][o]

\* The semaphore has been created by a process that ended before SETVAL.
Orphaned == sem = "created" /\ \A p \in Proc : ~ At(p, "setval")

Adding == {"init", "setval", "search", "lock", "find", "write", "unlock"}

\* A call of AddPInfo ends, wherever other processes are killed, unless the
\* creator of the semaphore is killed before it sets its value
\* (_public.cpp:2170-2190, 2293-2317).
AddEnds ==
  \A p \in Proc : pc[p] \in Adding ~> (pc[p] \notin Adding \/ Orphaned)
=============================================================================
