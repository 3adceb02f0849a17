--------------------------- MODULE HeartbeatProofs ---------------------------
(***************************************************************************)
(* OwnSlot, for any number of processes, pids, objects and slots, and for  *)
(* processes that exit or are killed at any point.                         *)
(***************************************************************************)
EXTENDS Heartbeat, FiniteSetTheorems, TLAPS

PC == {"none", "menu", "init", "setval", "search", "lock", "find", "write",
       "unlock", "exit"}

Types ==
  /\ table \in [Slot -> Pid \cup {NoPid}]
  /\ sem \in {"absent", "created", "free", "taken"}
  /\ pid \in [Proc -> Pid \cup {NoPid}]
  /\ pc \in [Proc -> PC]
  /\ this \in [Proc -> Object]
  /\ pos \in [Proc -> [Object -> Slot \cup {NoSlot}]]
  /\ undo \subseteq Proc
  /\ twice \in BOOLEAN

\* Running processes have different pids.
Pids ==
  /\ \A p \in Proc : At(p, "none") <=> pid[p] = NoPid
  /\ \A p, q \in Running : pid[p] = pid[q] => p = q

\* One process has the semaphore, and one creates it.
Semaphore ==
  /\ undo # {} => sem = "taken"
  /\ \A p, q \in undo : p = q
  /\ \A p \in Proc : At(p, "find") \/ At(p, "write") \/ At(p, "unlock") => p \in undo
  /\ \A p \in Proc : At(p, "setval") => sem = "created"
  /\ \A p, q \in Proc : At(p, "setval") /\ At(q, "setval") => p = q

\* A pid is in one slot of the table at most, also that of a dead process.
Once == \A s, r \in Slot : table[s] = table[r] /\ table[s] # NoPid => s = r

\* What the search, which takes no semaphore, has found is still so: nobody
\* else writes the pid of p.
Searched ==
  \A p \in Proc : At(p, "lock") \/ At(p, "find") \/ At(p, "write") =>
    \A s \in Slot : table[s] = pid[p] => s = MyPos(p)

\* About to write, with the semaphore: the process is where it found itself,
\* or where the slot was empty.
Filling(p, o) ==
  /\ p \in undo /\ table[pos[p][o]] = NoPid
  /\ At(p, "exit") \/ (At(p, "write") /\ o = this[p])

\* A position is that of the process's own record, or of the empty slot it is
\* about to fill.
Positions ==
  \A p \in Proc, o \in Object : pos[p][o] # NoSlot =>
    /\ p \in Running
    /\ table[pos[p][o]] = pid[p] \/ Filling(p, o)

\* AddPInfo writes only when it has a slot.
WritesOwn == \A p \in Proc : At(p, "write") => MyPos(p) # NoSlot

\* A process that exits has one object to destroy.
ExitsOnce ==
  \A p \in Proc : At(p, "exit") => \A o, k \in Placed(p) : o = k

IInv ==
  /\ Types /\ Pids /\ Semaphore /\ Once /\ WritesOwn /\ Searched
  /\ ~ twice => Positions /\ ExitsOnce

\* Two processes do not have one position.
LEMMA Apart ==
  ASSUME Types, Pids, Semaphore, Positions,
         NEW p \in Proc, NEW q \in Proc, p # q, NEW o \in Object, NEW k \in Object,
         pos[p][o] # NoSlot
  PROVE  pos[p][o] # pos[q][k]
<1> SUFFICES ASSUME pos[p][o] = pos[q][k] PROVE FALSE
  OBVIOUS
<1>1. /\ p \in Running /\ (table[pos[p][o]] = pid[p] \/ Filling(p, o))
      /\ q \in Running /\ (table[pos[p][o]] = pid[q] \/ Filling(q, k))
  BY DEF Positions
<1>2. pid[p] # NoPid /\ pid[q] # NoPid /\ pid[p] # pid[q]
  BY <1>1 DEF Pids, Running, Positions
<1>3. Filling(p, o) /\ Filling(q, k)
  BY <1>1, <1>2 DEF Filling
<1> QED
  BY <1>3 DEF Filling, Semaphore

\* One object at most is placed, if the number of those placed is not above 1.
LEMMA TwoPlaced ==
  ASSUME NEW p \in Proc, Types, ~ (Cardinality(Placed(p)) > 1)
  PROVE  \A o, k \in Placed(p) : o = k
<1> SUFFICES ASSUME NEW o \in Placed(p), NEW k \in Placed(p), o # k PROVE FALSE
  OBVIOUS
<1>1. IsFiniteSet(Placed(p))
  BY FS_Subset, HeartbeatAssumption DEF Placed
<1>2. IsFiniteSet({o}) /\ Cardinality({o}) = 1
  BY FS_Singleton
<1>3. Cardinality({o} \cup {k}) = 2
  <2>1. k \notin {o}
    OBVIOUS
  <2>2. Cardinality({o} \cup {k}) = Cardinality({o}) + 1
    BY <1>2, <2>1, FS_AddElement
  <2> QED
    BY <1>2, <2>2
<1>4. {o} \cup {k} \subseteq Placed(p)
  OBVIOUS
<1>5. Cardinality({o} \cup {k}) <= Cardinality(Placed(p)) /\ Cardinality(Placed(p)) \in Nat
  BY <1>1, <1>4, FS_Subset, FS_CardinalityType
<1> QED
  BY <1>3, <1>5

\* m_pos of the object AddPInfo was called on, and of that object only.
LEMMA SetPosTyped ==
  ASSUME Types, NEW p \in Proc, NEW s \in Slot, SetPos(p, s)
  PROVE  /\ pos' \in [Proc -> [Object -> Slot \cup {NoSlot}]]
         /\ pos'[p][this[p]] = s
         /\ \A q \in Proc, o \in Object :
              q # p \/ o # this[p] => pos'[q][o] = pos[q][o]
<1> DEFINE mine == [pos[p] EXCEPT ![this[p]] = s]
<1>1. pos' = [pos EXCEPT ![p] = mine]
  BY DEF SetPos
<1>2. /\ mine \in [Object -> Slot \cup {NoSlot}]
      /\ mine[this[p]] = s
      /\ \A o \in Object : o # this[p] => mine[o] = pos[p][o]
  BY DEF Types
<1> HIDE DEF mine
<1>3. pos \in [Proc -> [Object -> Slot \cup {NoSlot}]]
  BY DEF Types
<1>4. pos' \in [Proc -> [Object -> Slot \cup {NoSlot}]]
  BY <1>1, <1>2, <1>3
<1>5. pos'[p] = mine /\ \A q \in Proc : q # p => pos'[q] = pos[q]
  BY <1>1, <1>3
<1> QED
  BY <1>2, <1>4, <1>5

\* The search sets the object's position to where the pid is, or leaves it.
LEMMA SearchFrame ==
  ASSUME Types, NEW p \in Proc, Search(p)
  PROVE  /\ At(p, "search") /\ pc' = [pc EXCEPT ![p] = "lock"]
         /\ \A q \in Proc, o \in Object :
              q # p \/ o # this[p] => pos'[q][o] = pos[q][o]
         /\ \/ (\A s \in Slot : table[s] # pid[p]) /\ pos' = pos
            \/ pos'[p][this[p]] \in Slot /\ table[pos'[p][this[p]]] = pid[p]
         /\ UNCHANGED <<memory, pid, this, twice>>
<1>1. CASE \E s \in Slot : table[s] = pid[p] /\ SetPos(p, s)
  <2>1. PICK s \in Slot : table[s] = pid[p] /\ SetPos(p, s)
    BY <1>1
  <2>2. /\ pos'[p][this[p]] = s
        /\ \A q \in Proc, o \in Object :
             q # p \/ o # this[p] => pos'[q][o] = pos[q][o]
    BY <2>1, SetPosTyped
  <2> QED
    BY <2>1, <2>2 DEF Search, Go
<1>2. CASE (\A s \in Slot : table[s] # pid[p]) /\ pos' = pos
  BY <1>2 DEF Search, Go
<1> QED
  BY <1>1, <1>2 DEF Search

\* Find leaves the position, or sets it to a slot that is empty.
LEMMA FindFrame ==
  ASSUME Types, NEW p \in Proc, Find(p)
  PROVE  /\ At(p, "find")
         /\ \A q \in Proc : q # p => pc'[q] = pc[q]
         /\ \A q \in Proc, o \in Object :
              q # p \/ o # this[p] => pos'[q][o] = pos[q][o]
         /\ \/ /\ pc'[p] = "write"
               /\ \/ MyPos(p) # NoSlot /\ pos' = pos
                  \/ /\ MyPos(p) = NoSlot /\ pos'[p][this[p]] \in Slot
                     /\ table[pos'[p][this[p]]] = NoPid
            \/ pc'[p] = "unlock" /\ pos' = pos
         /\ UNCHANGED <<memory, pid, this, twice>>
<1>1. CASE MyPos(p) = NoSlot /\ \E s \in Slot : table[s] = NoPid /\ SetPos(p, s)
  <2>1. PICK s \in Slot : table[s] = NoPid /\ SetPos(p, s)
    BY <1>1
  <2>2. /\ pos'[p][this[p]] = s
        /\ \A q \in Proc, o \in Object :
             q # p \/ o # this[p] => pos'[q][o] = pos[q][o]
    BY <2>1, SetPosTyped
  <2>3. pc' = [pc EXCEPT ![p] = "write"]
    BY <1>1, <2>1 DEF Find, Go
  <2> QED
    BY <1>1, <2>1, <2>2, <2>3 DEF Find, Types
<1>2. CASE MyPos(p) # NoSlot /\ Go(p, "write") /\ UNCHANGED pos
  BY <1>2 DEF Find, Go, Types
<1>3. CASE Go(p, "unlock") /\ UNCHANGED pos
  BY <1>3 DEF Find, Go, Types
<1>4. \/ MyPos(p) = NoSlot /\ \E s \in Slot : table[s] = NoPid /\ SetPos(p, s)
      \/ MyPos(p) # NoSlot /\ Go(p, "write") /\ UNCHANGED pos
      \/ Go(p, "unlock") /\ UNCHANGED pos
  BY DEF Find
<1> QED
  BY <1>1, <1>2, <1>3, <1>4

\* Every step keeps the types.
LEMMA TypesStep ==
  ASSUME Types, Pids, WritesOwn, [Next]_vars
  PROVE  Types'
<1>1. ASSUME NEW p \in Proc, Start(p) PROVE Types'
  BY <1>1, HeartbeatAssumption DEF Start, Go, At, memory, Types, PC, AnObject,
     Slot, NoSlot
<1>2. ASSUME NEW p \in Proc, NEW o \in Object, AddPInfo(p, o) PROVE Types'
  BY <1>2, HeartbeatAssumption DEF AddPInfo, Go, At, memory, Types, PC,
     AnObject, Slot, NoSlot
<1>3. ASSUME NEW p \in Proc, InitSem(p) PROVE Types'
  BY <1>3, HeartbeatAssumption DEF InitSem, Go, At, memory, Types, PC,
     AnObject, Slot, NoSlot
<1>4. ASSUME NEW p \in Proc, SetVal(p) PROVE Types'
  BY <1>4, HeartbeatAssumption DEF SetVal, Go, At, memory, Types, PC, AnObject,
     Slot, NoSlot
<1>5. ASSUME NEW p \in Proc, Search(p) PROVE Types'
  BY <1>5, HeartbeatAssumption, SetPosTyped DEF Search, Go, At, memory, Types,
     PC, AnObject, Slot, NoSlot
<1>6. ASSUME NEW p \in Proc, Lock(p) PROVE Types'
  BY <1>6, HeartbeatAssumption DEF Lock, Go, At, memory, Types, PC, AnObject,
     Slot, NoSlot
<1>7. ASSUME NEW p \in Proc, Find(p) PROVE Types'
  BY <1>7, HeartbeatAssumption, SetPosTyped DEF Find, Go, At, memory, Types,
     PC, AnObject, Slot, NoSlot
<1>8. ASSUME NEW p \in Proc, Write(p) PROVE Types'
  BY <1>8, HeartbeatAssumption DEF Write, Go, At, memory, Types, PC, AnObject,
     Slot, NoSlot, MyPos, WritesOwn, Pids, Running
<1>9. ASSUME NEW p \in Proc, Unlock(p) PROVE Types'
  BY <1>9, HeartbeatAssumption DEF Unlock, Release, Leave, Go, At, memory,
     Types, PC, AnObject, Slot, NoSlot
<1>10. ASSUME NEW p \in Proc, Exit(p) PROVE Types'
  BY <1>10, HeartbeatAssumption DEF Exit, Leave, Go, At, memory, Types, PC,
     AnObject, Slot, NoSlot
<1>11. ASSUME NEW p \in Proc, Destroy(p) PROVE Types'
  BY <1>11, HeartbeatAssumption DEF Destroy, Go, At, memory, Types, PC,
     AnObject, Slot, NoSlot, Placed
<1>12. ASSUME NEW p \in Proc, End(p) PROVE Types'
  BY <1>12, HeartbeatAssumption DEF End, Gone, Undo, Release, Leave, Go, At,
     memory, Types, PC, AnObject, Slot, NoSlot
<1>13. ASSUME NEW p \in Proc, Crash(p) PROVE Types'
  BY <1>13, HeartbeatAssumption DEF Crash, Gone, Undo, Release, Leave, Go, At,
     memory, Types, PC, AnObject, Slot, NoSlot
<1>14. CASE UNCHANGED vars
  BY <1>14 DEF vars, memory, process, At, Types, PC, AnObject, Slot, NoSlot
<1> QED
  BY <1>1, <1>2, <1>3, <1>4, <1>5, <1>6, <1>7, <1>8, <1>9, <1>10, <1>11, <1>12,
     <1>13, <1>14 DEF Next, Add

\* A pid is given to one process at a time.
LEMMA PidsStep ==
  ASSUME Types, Pids, [Next]_vars
  PROVE  Pids'
<1>1. ASSUME NEW p \in Proc, Start(p) PROVE Pids'
  BY <1>1, HeartbeatAssumption DEF Start, Go, At, memory, Types, Pids, Running
<1>2. ASSUME NEW p \in Proc, NEW o \in Object, AddPInfo(p, o) PROVE Pids'
  BY <1>2 DEF AddPInfo, Go, At, memory, Types, Pids, Running
<1>3. ASSUME NEW p \in Proc, InitSem(p) PROVE Pids'
  BY <1>3 DEF InitSem, Go, At, memory, Types, Pids, Running
<1>4. ASSUME NEW p \in Proc, SetVal(p) PROVE Pids'
  BY <1>4 DEF SetVal, Go, At, memory, Types, Pids, Running
<1>5. ASSUME NEW p \in Proc, Search(p) PROVE Pids'
  BY <1>5, SearchFrame DEF At, memory, Types, Pids, Running
<1>6. ASSUME NEW p \in Proc, Lock(p) PROVE Pids'
  BY <1>6 DEF Lock, Go, At, memory, Types, Pids, Running
<1>7. ASSUME NEW p \in Proc, Find(p) PROVE Pids'
  BY <1>7, FindFrame DEF At, memory, Types, Pids, Running
<1>8. ASSUME NEW p \in Proc, Write(p) PROVE Pids'
  BY <1>8 DEF Write, Go, At, memory, Types, Pids, Running
<1>9. ASSUME NEW p \in Proc, Unlock(p) PROVE Pids'
  BY <1>9 DEF Unlock, Release, Leave, Go, At, memory, Types, Pids, Running
<1>10. ASSUME NEW p \in Proc, Exit(p) PROVE Pids'
  BY <1>10 DEF Exit, Leave, Go, At, memory, Types, Pids, Running
<1>11. ASSUME NEW p \in Proc, Destroy(p) PROVE Pids'
  BY <1>11 DEF Destroy, Go, At, memory, Types, Pids, Running
<1>12. ASSUME NEW p \in Proc, End(p) PROVE Pids'
  BY <1>12 DEF End, Gone, Undo, Release, Leave, Go, At, memory, Types, Pids,
     Running
<1>13. ASSUME NEW p \in Proc, Crash(p) PROVE Pids'
  BY <1>13 DEF Crash, Gone, Undo, Release, Leave, Go, At, memory, Types, Pids,
     Running
<1>14. CASE UNCHANGED vars
  BY <1>14 DEF vars, memory, process, At, Types, Pids, Running
<1> QED
  BY <1>1, <1>2, <1>3, <1>4, <1>5, <1>6, <1>7, <1>8, <1>9, <1>10, <1>11, <1>12,
     <1>13, <1>14 DEF Next, Add

\* The semaphore is taken by one process, and released by it or its end.
LEMMA SemaphoreStep ==
  ASSUME Types, Pids, Semaphore, [Next]_vars
  PROVE  Semaphore'
<1>1. ASSUME NEW p \in Proc, Start(p) PROVE Semaphore'
  BY <1>1 DEF Start, Go, At, memory, Types, Pids, Semaphore
<1>2. ASSUME NEW p \in Proc, NEW o \in Object, AddPInfo(p, o) PROVE Semaphore'
  BY <1>2 DEF AddPInfo, Go, At, memory, Types, Pids, Semaphore
<1>3. ASSUME NEW p \in Proc, InitSem(p) PROVE Semaphore'
  BY <1>3 DEF InitSem, Go, At, memory, Types, Pids, Semaphore
<1>4. ASSUME NEW p \in Proc, SetVal(p) PROVE Semaphore'
  BY <1>4 DEF SetVal, Go, At, memory, Types, Pids, Semaphore
<1>5. ASSUME NEW p \in Proc, Search(p) PROVE Semaphore'
  BY <1>5, SearchFrame DEF At, memory, Types, Pids, Semaphore
<1>6. ASSUME NEW p \in Proc, Lock(p) PROVE Semaphore'
  BY <1>6 DEF Lock, Go, At, memory, Types, Pids, Semaphore
<1>7. ASSUME NEW p \in Proc, Find(p) PROVE Semaphore'
  BY <1>7, FindFrame DEF At, memory, Types, Pids, Semaphore
<1>8. ASSUME NEW p \in Proc, Write(p) PROVE Semaphore'
  BY <1>8 DEF Write, Go, At, memory, Types, Pids, Semaphore
<1>9. ASSUME NEW p \in Proc, Unlock(p) PROVE Semaphore'
  BY <1>9 DEF Unlock, Release, Leave, Go, At, memory, Types, Pids, Semaphore
<1>10. ASSUME NEW p \in Proc, Exit(p) PROVE Semaphore'
  BY <1>10 DEF Exit, Leave, Go, At, memory, Types, Pids, Semaphore
<1>11. ASSUME NEW p \in Proc, Destroy(p) PROVE Semaphore'
  BY <1>11 DEF Destroy, Go, At, memory, Types, Pids, Semaphore
<1>12. ASSUME NEW p \in Proc, End(p) PROVE Semaphore'
  BY <1>12 DEF End, Gone, Undo, Release, Leave, Go, At, memory, Types, Pids,
     Semaphore
<1>13. ASSUME NEW p \in Proc, Crash(p) PROVE Semaphore'
  BY <1>13 DEF Crash, Gone, Undo, Release, Leave, Go, At, memory, Types, Pids,
     Semaphore
<1>14. CASE UNCHANGED vars
  BY <1>14 DEF vars, memory, process, At, Types, Pids, Semaphore
<1> QED
  BY <1>1, <1>2, <1>3, <1>4, <1>5, <1>6, <1>7, <1>8, <1>9, <1>10, <1>11, <1>12,
     <1>13, <1>14 DEF Next, Add

\* A process does not write its pid beside another record of the same pid.
LEMMA OnceStep ==
  ASSUME Types, Pids, WritesOwn, Searched, Once, [Next]_vars
  PROVE  Once'
<1>1. ASSUME NEW p \in Proc, Start(p) PROVE Once'
  BY <1>1 DEF Start, Go, At, memory, Types, Once
<1>2. ASSUME NEW p \in Proc, NEW o \in Object, AddPInfo(p, o) PROVE Once'
  BY <1>2 DEF AddPInfo, Go, At, memory, Types, Once
<1>3. ASSUME NEW p \in Proc, InitSem(p) PROVE Once'
  BY <1>3 DEF InitSem, Go, At, memory, Types, Once
<1>4. ASSUME NEW p \in Proc, SetVal(p) PROVE Once'
  BY <1>4 DEF SetVal, Go, At, memory, Types, Once
<1>5. ASSUME NEW p \in Proc, Search(p) PROVE Once'
  BY <1>5 DEF Search, Go, At, memory, Types, Once
<1>6. ASSUME NEW p \in Proc, Lock(p) PROVE Once'
  BY <1>6 DEF Lock, Go, At, memory, Types, Once
<1>7. ASSUME NEW p \in Proc, Find(p) PROVE Once'
  BY <1>7 DEF Find, Go, At, memory, Types, Once
<1>8. ASSUME NEW p \in Proc, Write(p) PROVE Once'
  BY <1>8 DEF Write, Go, At, memory, Types, Once, MyPos, Pids, Running,
     WritesOwn, Searched, NoSlot
<1>9. ASSUME NEW p \in Proc, Unlock(p) PROVE Once'
  BY <1>9 DEF Unlock, Release, Leave, Go, At, memory, Types, Once
<1>10. ASSUME NEW p \in Proc, Exit(p) PROVE Once'
  BY <1>10 DEF Exit, Leave, Go, At, memory, Types, Once
<1>11. ASSUME NEW p \in Proc, Destroy(p) PROVE Once'
  BY <1>11 DEF Destroy, Go, At, memory, Types, Once
<1>12. ASSUME NEW p \in Proc, End(p) PROVE Once'
  BY <1>12 DEF End, Gone, Undo, Release, Leave, Go, At, memory, Types, Once
<1>13. ASSUME NEW p \in Proc, Crash(p) PROVE Once'
  BY <1>13 DEF Crash, Gone, Undo, Release, Leave, Go, At, memory, Types, Once
<1>14. CASE UNCHANGED vars
  BY <1>14 DEF vars, memory, process, At, Types, Once
<1> QED
  BY <1>1, <1>2, <1>3, <1>4, <1>5, <1>6, <1>7, <1>8, <1>9, <1>10, <1>11, <1>12,
     <1>13, <1>14 DEF Next, Add

\* AddPInfo writes into a slot it has found.
LEMMA WritesOwnStep ==
  ASSUME Types, WritesOwn, [Next]_vars
  PROVE  WritesOwn'
<1>1. ASSUME NEW p \in Proc, Start(p) PROVE WritesOwn'
  BY <1>1 DEF Start, Go, At, memory, Types, WritesOwn, MyPos, NoSlot, Slot
<1>2. ASSUME NEW p \in Proc, NEW o \in Object, AddPInfo(p, o) PROVE WritesOwn'
  BY <1>2 DEF AddPInfo, Go, At, memory, Types, WritesOwn, MyPos, NoSlot, Slot
<1>3. ASSUME NEW p \in Proc, InitSem(p) PROVE WritesOwn'
  BY <1>3 DEF InitSem, Go, At, memory, Types, WritesOwn, MyPos, NoSlot, Slot
<1>4. ASSUME NEW p \in Proc, SetVal(p) PROVE WritesOwn'
  BY <1>4 DEF SetVal, Go, At, memory, Types, WritesOwn, MyPos, NoSlot, Slot
<1>5. ASSUME NEW p \in Proc, Search(p) PROVE WritesOwn'
  BY <1>5, SearchFrame DEF At, memory, Types, WritesOwn, MyPos, NoSlot, Slot
<1>6. ASSUME NEW p \in Proc, Lock(p) PROVE WritesOwn'
  BY <1>6 DEF Lock, Go, At, memory, Types, WritesOwn, MyPos, NoSlot, Slot
<1>7. ASSUME NEW p \in Proc, Find(p) PROVE WritesOwn'
  BY <1>7, FindFrame DEF At, memory, Types, WritesOwn, MyPos, NoSlot, Slot
<1>8. ASSUME NEW p \in Proc, Write(p) PROVE WritesOwn'
  BY <1>8 DEF Write, Go, At, memory, Types, WritesOwn, MyPos, NoSlot, Slot
<1>9. ASSUME NEW p \in Proc, Unlock(p) PROVE WritesOwn'
  BY <1>9 DEF Unlock, Release, Leave, Go, At, memory, Types, WritesOwn, MyPos,
     NoSlot, Slot
<1>10. ASSUME NEW p \in Proc, Exit(p) PROVE WritesOwn'
  BY <1>10 DEF Exit, Leave, Go, At, memory, Types, WritesOwn, MyPos, NoSlot,
     Slot
<1>11. ASSUME NEW p \in Proc, Destroy(p) PROVE WritesOwn'
  BY <1>11 DEF Destroy, Go, At, memory, Types, WritesOwn, MyPos, NoSlot, Slot
<1>12. ASSUME NEW p \in Proc, End(p) PROVE WritesOwn'
  BY <1>12 DEF End, Gone, Undo, Release, Leave, Go, At, memory, Types,
     WritesOwn, MyPos, NoSlot, Slot
<1>13. ASSUME NEW p \in Proc, Crash(p) PROVE WritesOwn'
  BY <1>13 DEF Crash, Gone, Undo, Release, Leave, Go, At, memory, Types,
     WritesOwn, MyPos, NoSlot, Slot
<1>14. CASE UNCHANGED vars
  BY <1>14 DEF vars, memory, process, At, Types, WritesOwn, MyPos, NoSlot, Slot
<1> QED
  BY <1>1, <1>2, <1>3, <1>4, <1>5, <1>6, <1>7, <1>8, <1>9, <1>10, <1>11, <1>12,
     <1>13, <1>14 DEF Next, Add

\* Nobody else writes the pid a search has looked for.
LEMMA SearchedStep ==
  ASSUME Types, Pids, WritesOwn, Searched, Once, [Next]_vars
  PROVE  Searched'
<1>1. ASSUME NEW p \in Proc, Start(p) PROVE Searched'
  BY <1>1 DEF Start, Go, At, memory, Types, Searched, MyPos, Pids, Running,
     NoSlot, Once
<1>2. ASSUME NEW p \in Proc, NEW o \in Object, AddPInfo(p, o) PROVE Searched'
  BY <1>2 DEF AddPInfo, Go, At, memory, Types, Searched, MyPos, Pids, Running,
     NoSlot, Once
<1>3. ASSUME NEW p \in Proc, InitSem(p) PROVE Searched'
  BY <1>3 DEF InitSem, Go, At, memory, Types, Searched, MyPos, Pids, Running,
     NoSlot, Once
<1>4. ASSUME NEW p \in Proc, SetVal(p) PROVE Searched'
  BY <1>4 DEF SetVal, Go, At, memory, Types, Searched, MyPos, Pids, Running,
     NoSlot, Once
<1>5. ASSUME NEW p \in Proc, Search(p) PROVE Searched'
  <2> SUFFICES ASSUME NEW q \in Proc, pc'[q] \in {"lock", "find", "write"},
                      NEW s \in Slot, table[s] = pid[q]
               PROVE  s = pos'[q][this[q]]
    BY <1>5, SearchFrame DEF At, memory, Searched, MyPos
  <2>1. CASE q = p
    <3>1. pid[p] # NoPid
      BY <1>5 DEF Search, At, Pids
    <3> QED
      BY <1>5, <2>1, <3>1, SearchFrame DEF Once
  <2>2. CASE q # p
    <3>1. this[q] \in Object
      BY DEF Types
    <3> QED
      BY <1>5, <2>2, <3>1, SearchFrame DEF Searched, MyPos, At, Types
  <2> QED
    BY <2>1, <2>2
<1>6. ASSUME NEW p \in Proc, Lock(p) PROVE Searched'
  BY <1>6 DEF Lock, Go, At, memory, Types, Searched, MyPos, Pids, Running,
     NoSlot, Once
<1>7. ASSUME NEW p \in Proc, Find(p) PROVE Searched'
  <2> SUFFICES ASSUME NEW q \in Proc, pc'[q] \in {"lock", "find", "write"},
                      NEW s \in Slot, table[s] = pid[q]
               PROVE  s = pos'[q][this[q]]
    BY <1>7, FindFrame DEF At, memory, Searched, MyPos
  <2>1. this[q] \in Object
    BY DEF Types
  <2>2. CASE q = p
    BY <1>7, <2>1, <2>2, FindFrame DEF Searched, MyPos, At, Slot, NoSlot
  <2>3. CASE q # p
    BY <1>7, <2>1, <2>3, FindFrame DEF Searched, MyPos, At
  <2> QED
    BY <2>2, <2>3
<1>8. ASSUME NEW p \in Proc, Write(p) PROVE Searched'
  BY <1>8 DEF Write, Go, At, memory, Types, Searched, MyPos, Pids, Running,
     NoSlot, Once
<1>9. ASSUME NEW p \in Proc, Unlock(p) PROVE Searched'
  BY <1>9 DEF Unlock, Release, Leave, Go, At, memory, Types, Searched, MyPos,
     Pids, Running, NoSlot, Once
<1>10. ASSUME NEW p \in Proc, Exit(p) PROVE Searched'
  BY <1>10 DEF Exit, Leave, Go, At, memory, Types, Searched, MyPos, Pids,
     Running, NoSlot, Once
<1>11. ASSUME NEW p \in Proc, Destroy(p) PROVE Searched'
  BY <1>11 DEF Destroy, Go, At, memory, Types, Searched, MyPos, Pids, Running,
     NoSlot, Once
<1>12. ASSUME NEW p \in Proc, End(p) PROVE Searched'
  BY <1>12 DEF End, Gone, Undo, Release, Leave, Go, At, memory, Types,
     Searched, MyPos, Pids, Running, NoSlot, Once
<1>13. ASSUME NEW p \in Proc, Crash(p) PROVE Searched'
  BY <1>13 DEF Crash, Gone, Undo, Release, Leave, Go, At, memory, Types,
     Searched, MyPos, Pids, Running, NoSlot, Once
<1>14. CASE UNCHANGED vars
  BY <1>14 DEF vars, memory, process, At, Types, Searched, MyPos, Pids,
     Running, NoSlot, Once
<1> QED
  BY <1>1, <1>2, <1>3, <1>4, <1>5, <1>6, <1>7, <1>8, <1>9, <1>10, <1>11, <1>12,
     <1>13, <1>14 DEF Next, Add

\* A position stays that of the process's own record.
LEMMA PositionsStep ==
  ASSUME Types, Pids, Semaphore, WritesOwn, Searched, Positions, ExitsOnce, [Next]_vars
  PROVE  Positions'
<1>1. ASSUME NEW p \in Proc, Start(p) PROVE Positions'
  BY <1>1 DEF Start, Go, At, memory, Types, Positions, Filling, Running, Pids,
     MyPos, NoSlot
<1>2. ASSUME NEW p \in Proc, NEW o \in Object, AddPInfo(p, o) PROVE Positions'
  BY <1>2 DEF AddPInfo, Go, At, memory, Types, Positions, Filling, Running,
     Pids, MyPos, NoSlot
<1>3. ASSUME NEW p \in Proc, InitSem(p) PROVE Positions'
  BY <1>3 DEF InitSem, Go, At, memory, Types, Positions, Filling, Running,
     Pids, MyPos, NoSlot
<1>4. ASSUME NEW p \in Proc, SetVal(p) PROVE Positions'
  BY <1>4 DEF SetVal, Go, At, memory, Types, Positions, Filling, Running, Pids,
     MyPos, NoSlot
<1>5. ASSUME NEW p \in Proc, Search(p) PROVE Positions'
  <2> SUFFICES ASSUME NEW q \in Proc, NEW k \in Object, pos'[q][k] # NoSlot
               PROVE  q \in Running /\ (table[pos'[q][k]] = pid[q] \/ Filling(q, k)')
    BY <1>5, SearchFrame DEF Positions, Running, memory
  <2>1. CASE pos'[q][k] = pos[q][k]
    BY <1>5, <2>1, SearchFrame DEF Positions, Filling, At, memory, Types
  <2>2. CASE q = p /\ table[pos'[p][k]] = pid[p]
    BY <1>5, <2>2 DEF Search, At, Running, Pids
  <2>3. CASE q # p \/ k # this[p]
    BY <1>5, <2>1, <2>3, SearchFrame
  <2>4. CASE q = p /\ k = this[p]
    BY <1>5, <2>1, <2>2, <2>4, SearchFrame DEF Types
  <2> QED
    BY <2>3, <2>4
<1>6. ASSUME NEW p \in Proc, Lock(p) PROVE Positions'
  BY <1>6 DEF Lock, Go, At, memory, Types, Positions, Filling, Running, Pids,
     MyPos, NoSlot
<1>7. ASSUME NEW p \in Proc, Find(p) PROVE Positions'
  BY <1>7, FindFrame DEF At, memory, Types, Semaphore, Positions, Filling, Running, Pids, MyPos, NoSlot
<1>8. ASSUME NEW p \in Proc, Write(p) PROVE Positions'
  BY <1>8, Apart DEF Write, Go, At, memory, Types, WritesOwn, Semaphore, Positions, Filling, Running, Pids, MyPos, NoSlot
<1>9. ASSUME NEW p \in Proc, Unlock(p) PROVE Positions'
  BY <1>9 DEF Unlock, Release, Leave, Go, At, memory, Types, Positions,
     Filling, Running, Pids, MyPos, NoSlot
<1>10. ASSUME NEW p \in Proc, Exit(p) PROVE Positions'
  BY <1>10 DEF Exit, Leave, Go, At, memory, Types, Positions, Filling, Running,
     Pids, MyPos, NoSlot
<1>11. ASSUME NEW p \in Proc, Destroy(p) PROVE Positions'
  <2>1. PICK o \in Placed(p) :
          /\ table' = [table EXCEPT ![pos[p][o]] = NoPid]
          /\ pos' = [pos EXCEPT ![p][o] = NoSlot]
    BY <1>11 DEF Destroy
  <2> SUFFICES ASSUME NEW q \in Proc, NEW k \in Object, pos'[q][k] # NoSlot
               PROVE  q \in Running /\ (table'[pos'[q][k]] = pid[q] \/ Filling(q, k)')
    BY <1>11 DEF Destroy, Positions, Running
  <2>2. o \in Object /\ pos[p][o] # NoSlot
    BY DEF Placed
  <2>3. q # p
    BY <1>11, <2>1, <2>2 DEF Destroy, ExitsOnce, Placed, At, Types
  <2>4. pos'[q] = pos[q]
    BY <2>1, <2>3 DEF Types
  <2>5. table'[pos[q][k]] = table[pos[q][k]]
    BY <2>1, <2>2, <2>3, Apart DEF Types, Slot, NoSlot
  <2> QED
    BY <1>11, <2>4, <2>5 DEF Destroy, Positions, Filling, At
<1>12. ASSUME NEW p \in Proc, End(p) PROVE Positions'
  BY <1>12 DEF End, Gone, Undo, Release, Leave, Go, At, memory, Types,
     Positions, Filling, Running, Pids, MyPos, NoSlot
<1>13. ASSUME NEW p \in Proc, Crash(p) PROVE Positions'
  BY <1>13 DEF Crash, Gone, Undo, Release, Leave, Go, At, memory, Types,
     Positions, Filling, Running, Pids, MyPos, NoSlot
<1>14. CASE UNCHANGED vars
  BY <1>14 DEF vars, memory, process, At, Types, Positions, Filling, Running,
     Pids, MyPos, NoSlot
<1> QED
  BY <1>1, <1>2, <1>3, <1>4, <1>5, <1>6, <1>7, <1>8, <1>9, <1>10, <1>11, <1>12,
     <1>13, <1>14 DEF Next, Add

\* A process that exits with two objects in the table is recorded.
LEMMA ExitsOnceStep ==
  ASSUME Types, Pids, WritesOwn, ExitsOnce, ~ twice', [Next]_vars
  PROVE  ExitsOnce'
<1>1. ASSUME NEW p \in Proc, Start(p) PROVE ExitsOnce'
  BY <1>1 DEF Start, Go, At, memory, Types, ExitsOnce, Placed
<1>2. ASSUME NEW p \in Proc, NEW o \in Object, AddPInfo(p, o) PROVE ExitsOnce'
  BY <1>2 DEF AddPInfo, Go, At, memory, Types, ExitsOnce, Placed
<1>3. ASSUME NEW p \in Proc, InitSem(p) PROVE ExitsOnce'
  BY <1>3 DEF InitSem, Go, At, memory, Types, ExitsOnce, Placed
<1>4. ASSUME NEW p \in Proc, SetVal(p) PROVE ExitsOnce'
  BY <1>4 DEF SetVal, Go, At, memory, Types, ExitsOnce, Placed
<1>5. ASSUME NEW p \in Proc, Search(p) PROVE ExitsOnce'
  <2> SUFFICES ASSUME NEW q \in Proc, pc'[q] = "exit",
                      NEW o \in Placed(q)', NEW k \in Placed(q)'
               PROVE  o = k
    BY DEF ExitsOnce, At
  <2>1. q # p /\ pc[q] = "exit"
    BY <1>5, SearchFrame DEF At, Types
  <2>2. pos'[q][o] = pos[q][o] /\ pos'[q][k] = pos[q][k]
    BY <1>5, <2>1, SearchFrame DEF Placed
  <2> QED
    BY <2>1, <2>2 DEF ExitsOnce, Placed, At
<1>6. ASSUME NEW p \in Proc, Lock(p) PROVE ExitsOnce'
  BY <1>6 DEF Lock, Go, At, memory, Types, ExitsOnce, Placed
<1>7. ASSUME NEW p \in Proc, Find(p) PROVE ExitsOnce'
  <2> SUFFICES ASSUME NEW q \in Proc, pc'[q] = "exit",
                      NEW o \in Placed(q)', NEW k \in Placed(q)'
               PROVE  o = k
    BY DEF ExitsOnce, At
  <2>1. q # p /\ pc[q] = "exit"
    BY <1>7, FindFrame DEF At, Types
  <2>2. pos'[q][o] = pos[q][o] /\ pos'[q][k] = pos[q][k]
    BY <1>7, <2>1, FindFrame DEF Placed
  <2> QED
    BY <2>1, <2>2 DEF ExitsOnce, Placed, At
<1>8. ASSUME NEW p \in Proc, Write(p) PROVE ExitsOnce'
  BY <1>8 DEF Write, Go, At, memory, Types, ExitsOnce, Placed
<1>9. ASSUME NEW p \in Proc, Unlock(p) PROVE ExitsOnce'
  BY <1>9 DEF Unlock, Release, Leave, Go, At, memory, Types, ExitsOnce, Placed
<1>10. ASSUME NEW p \in Proc, Exit(p) PROVE ExitsOnce'
  <2>1. ~ twice' => \A o, k \in Placed(p) : o = k
    BY <1>10, TwoPlaced DEF Exit
  <2> QED
    BY <1>10, <2>1 DEF Exit, Leave, Go, At, Types, ExitsOnce, Placed
<1>11. ASSUME NEW p \in Proc, Destroy(p) PROVE ExitsOnce'
  <2>1. PICK o \in Placed(p) : pos' = [pos EXCEPT ![p][o] = NoSlot]
    BY <1>11 DEF Destroy
  <2>2. \A q \in Proc : Placed(q)' \subseteq Placed(q)
    BY <2>1 DEF Placed, Types
  <2> QED
    BY <1>11, <2>2 DEF Destroy, At, ExitsOnce
<1>12. ASSUME NEW p \in Proc, End(p) PROVE ExitsOnce'
  BY <1>12 DEF End, Gone, Undo, Release, Leave, Go, At, memory, Types,
     ExitsOnce, Placed
<1>13. ASSUME NEW p \in Proc, Crash(p) PROVE ExitsOnce'
  BY <1>13 DEF Crash, Gone, Undo, Release, Leave, Go, At, memory, Types,
     ExitsOnce, Placed
<1>14. CASE UNCHANGED vars
  BY <1>14 DEF vars, memory, process, At, Types, ExitsOnce, Placed
<1> QED
  BY <1>1, <1>2, <1>3, <1>4, <1>5, <1>6, <1>7, <1>8, <1>9, <1>10, <1>11, <1>12,
     <1>13, <1>14 DEF Next, Add

\* The conjuncts of IInv together.
LEMMA IInvStep ==
  ASSUME IInv, [Next]_vars
  PROVE  IInv'
<1>1. Types' /\ Pids' /\ Semaphore' /\ Once' /\ WritesOwn' /\ Searched'
  BY TypesStep, PidsStep, SemaphoreStep, OnceStep, WritesOwnStep, SearchedStep
     DEF IInv
<1>2. twice => twice'
  <2>1. ASSUME NEW p \in Proc, Search(p) PROVE UNCHANGED twice
    BY <2>1 DEF Search
  <2>2. ASSUME NEW p \in Proc, Find(p) PROVE UNCHANGED twice
    BY <2>2 DEF Find
  <2> QED
    BY <2>1, <2>2 DEF Next, Add, vars, Start, AddPInfo, InitSem, SetVal, Lock,
       Write, Unlock, Exit, Destroy, End, Crash, Gone
<1>3. ASSUME ~ twice' PROVE Positions' /\ ExitsOnce'
  BY <1>2, <1>3, PositionsStep, ExitsOnceStep DEF IInv
<1> QED
  BY <1>1, <1>3 DEF IInv

-----------------------------------------------------------------------------
\* OwnSlot: a running process that has entered itself is in its slot and in
\* no other, and nobody shares or clears it, until a process has exited with
\* two objects in one slot.  The searches and the destructors, which take no
\* semaphore, do no harm: only a process with the pid writes or clears it,
\* and it is the only one that runs (_public.cpp:2283-2317, 2333).
THEOREM HeartbeatOwnSlot == Spec => []OwnSlot
<1>1. Init => IInv
  <2> SUFFICES ASSUME Init PROVE IInv
    OBVIOUS
  <2>1. AnObject \in Object
    BY HeartbeatAssumption DEF AnObject
  <2>2. Types
    BY <2>1, HeartbeatAssumption DEF Init, Types, PC, NoSlot, Slot
  <2>3. Pids /\ Semaphore /\ WritesOwn /\ Searched /\ ExitsOnce
    BY DEF Init, Pids, Running, At, Semaphore, WritesOwn, Searched, ExitsOnce
  <2>4. Once /\ Positions
    BY DEF Init, Once, Positions, NoSlot
  <2> QED
    BY <2>2, <2>3, <2>4 DEF IInv
<1>2. IInv /\ [Next]_vars => IInv'
  BY IInvStep
<1>3. IInv => OwnSlot
  BY DEF IInv, OwnSlot, Entered, Positions, Filling, Once, Pids, Running, Types,
     At, NoSlot, Slot
<1> QED
  BY <1>1, <1>2, <1>3, PTL DEF Spec
=============================================================================
