---------------------------- MODULE AddressSpace ----------------------------
(***************************************************************************)
(* The memory of user tasks (paging.c): areas, page tables, page faults,   *)
(* copy on write, and how schedule() (task.c) passes memories on to kernel *)
(* tasks, which have none and keep running on the tables of the task       *)
(* before them.                                                            *)
(*                                                                         *)
(* One processor.  A user task may be preempted in a page fault, in        *)
(* execve() and in exit.  doPageFault() and execve() may sleep.            *)
(* No task shares the memory of another: fork() passes ForkShareNothing.   *)
(***************************************************************************)
EXTENDS Integers, Sequences, FiniteSets, SequencesExt

CONSTANTS
  User, Kernel,   \* the tasks
  Mem, NoMem,     \* the TaskMemory structures
  Frame, NoFrame, \* the pages of physical memory
  Pages,          \* the pages of an address space are 0 .. Pages - 1
  TableSize,      \* how many of them one page table maps
  Image,          \* the programs: the sequence of areas each is mapped to
  LeakLimit       \* bound: no fork and no fault fails once as many references are lost

Page == 0 .. Pages - 1
Area == [start : Page, length : 1 .. Pages, file : BOOLEAN, write : BOOLEAN]

ASSUME AddressSpaceAssumption ==
  /\ IsFiniteSet(User) /\ IsFiniteSet(Kernel) /\ IsFiniteSet(Mem)
  /\ User \cap Kernel = {} /\ NoMem \notin Mem /\ NoFrame \notin Frame
  /\ Pages \in Nat \ {0} /\ TableSize \in Nat \ {0}
  /\ Image \subseteq Seq(Area)

VARIABLES
  current,  \* the task that runs
  cr3,      \* the memory whose tables the processor uses
  mm,       \* Task.mm
  active,   \* Task.activeMM
  at,       \* what a user task is doing in the kernel
  mem,      \* TaskMemory with its areas and its page tables
  frame,    \* PhysicsPage: its count, and what is in the page
  meant,    \* history: what the program has put into its memory
  blurred,  \* history: pages that the kernel has lost or has written across
  leaked,   \* history: references to frames that nobody will give back
  halted    \* the machine has stopped, or kernel memory is corrupted

memoryVars == <<current, cr3, mm, active, at, mem, frame, meant, blurred, leaked, halted>>

Task == User \cup Kernel
Data == {"zero", "file", "written"}
Absent == [frame |-> NoFrame, write |-> FALSE]
Nothing == [p \in Page |-> "zero"]
Unmapped == [p \in Page |-> Absent]
FreeFrame == [count |-> 0, cache |-> FALSE, data |-> "zero"]
NewFrame(data) == [count |-> 1, cache |-> FALSE, data |-> data]
NoMemory == [live |-> FALSE, ref |-> 0, vm |-> <<>>, pte |-> Unmapped,
             table |-> [k \in 0 .. Pages \div TableSize |-> 0]]
InUser == [op |-> "user", page |-> 0, frame |-> NoFrame, old |-> NoMem]
Unborn == [InUser EXCEPT !.op = "unborn"]
Doing(t, op) == at[t].op = op
Runs(t, op) == ~halted /\ current = t /\ Doing(t, op)

\* kinit() is about to load the first program.
MemoryInit ==
  /\ \E t \in User :
       /\ current = t
       /\ at = [u \in User |-> IF u = t THEN InUser ELSE Unborn]
  /\ cr3 = NoMem
  /\ mm = [t \in Task |-> NoMem] /\ active = [t \in Task |-> NoMem]
  /\ mem = [m \in Mem |-> NoMemory]
  /\ frame = [f \in Frame |-> FreeFrame]
  /\ meant = [m \in Mem |-> Nothing]
  /\ blurred = [m \in Mem |-> {}]
  /\ leaked = [f \in Frame |-> 0]
  /\ halted = FALSE

-----------------------------------------------------------------------------
(* Areas.                                                                  *)

End(a) == a.start + a.length

\* lookForVirtualMemoryArea(): how many areas stand before the first that ends
\* after p.
Before(vm, p) ==
  LET later == {k \in DOMAIN vm : End(vm[k]) > p}
  IN IF later = {} THEN Len(vm) ELSE Min(later) - 1

\* lookForFreeVirtualMemoryArea() with an address, as execve() calls it: the
\* area goes behind those before it, unless the next one begins too early.
Fits(vm, a) ==
  LET n == Before(vm, a.start)
  IN n > 0 /\ n < Len(vm) => vm[n + 1].start >= End(a)
MMap(vm, a) == InsertAt(vm, Before(vm, a.start) + 1, a)

AreaOf(m, p) == CHOOSE a \in ToSet(mem[m].vm) : a.start <= p /\ p < End(a)
Covered(m, p) == \E a \in ToSet(mem[m].vm) : a.start <= p /\ p < End(a)
Fresh(a) == IF a.file THEN "file" ELSE "zero"

\* The pages of an area that taskForkMemory() and __doMUNMap() walk: in each
\* table they begin at the index of the first page of the area.
Walked(a) ==
  {p \in Page : a.start <= p /\ p < End(a) /\ p % TableSize >= a.start % TableSize}
WalkedIn(m) == UNION {Walked(a) : a \in ToSet(mem[m].vm)}

TableOf(p) == p \div TableSize
Present(m, p) == mem[m].pte[p] # Absent
Mappings(f) == {x \in Mem \X Page : mem[x[1]].pte[x[2]].frame = f}
Free(f) == frame[f] = FreeFrame

-----------------------------------------------------------------------------
(* Frames and memories.                                                    *)

\* freePages(): the page cache gives its frame up with the last user.
Put(fr, n) ==
  LET left == fr.count - n
  IN IF left = (IF fr.cache THEN 1 ELSE 0) THEN FreeFrame ELSE [fr EXCEPT !.count = left]

\* setPTEEntry(), and the count of the page table that has the entry; a table
\* that is missing is allocated first, with the count 1.
Map(memory, p, entry) ==
  LET k == TableOf(p)
      was == memory.table[k]
  IN [memory EXCEPT !.pte[p] = entry,
        !.table[k] = (IF was = 0 THEN 1 ELSE was)
                     + (IF memory.pte[p] = Absent THEN 1 ELSE 0)]

\* __doMUNMap() of all areas, when the last reference goes.  The tables are
\* never freed: their count stays above 0.
Entries(m, walked) == {p \in walked : Present(m, p)}
MappedTo(m, f, ps) == Cardinality({p \in ps : mem[m].pte[p].frame = f})

Unmap(m) ==
  /\ frame' = [f \in Frame |->
       IF MappedTo(m, f, WalkedIn(m)) = 0 THEN frame[f]
       ELSE Put(frame[f], MappedTo(m, f, WalkedIn(m)))]
  /\ leaked' = [f \in Frame |-> leaked[f] + MappedTo(m, f, Page \ WalkedIn(m))]
  /\ blurred' = [blurred EXCEPT ![m] = {}]

\* kmalloc() of a TaskMemory.  A freed one that something still points to is
\* not given out again, so that its use shows.
Unused(m) ==
  /\ ~mem[m].live /\ m # cr3
  /\ \A t \in Task : active[t] # m /\ mm[t] # m

-----------------------------------------------------------------------------
(* The user's accesses, those of the kernel for the user, and page faults.  *)

Entry(t, p) == mem[mm[t]].pte[p]

\* Programs stay within their areas, and write to those they may write to.
Reads(t, p) == Runs(t, "user") /\ mm[t] # NoMem /\ Covered(mm[t], p)
Writes(t, p) == Reads(t, p) /\ AreaOf(mm[t], p).write
Missing(t, p) == Reads(t, p) /\ ~Present(mm[t], p)
Shared(t, p) == Writes(t, p) /\ Present(mm[t], p) /\ ~Entry(t, p).write

Store(t, p) ==
  /\ frame' = [frame EXCEPT ![Entry(t, p).frame].data = "written"]
  /\ meant' = [meant EXCEPT ![mm[t]][p] = "written"]

Write(t, p) ==
  /\ Writes(t, p) /\ Present(mm[t], p) /\ Entry(t, p).write
  /\ Store(t, p)
  /\ UNCHANGED <<current, cr3, mm, active, at, mem, blurred, leaked, halted>>

\* putUser8() .. memcpyUser0(): start.S clears CR0.WP, so that the kernel
\* writes to a page that is mapped read-only, be it shared or not.
CopyOut(t, p) ==
  /\ Writes(t, p) /\ Present(mm[t], p)
  /\ Store(t, p)
  /\ blurred' = [m \in Mem |-> blurred[m] \cup
       {q \in Page : <<m, q>> \in Mappings(Entry(t, p).frame) \ {<<mm[t], p>>}}]
  /\ UNCHANGED <<current, cr3, mm, active, at, mem, leaked, halted>>

Becomes(t, op, p, f) == at' = [at EXCEPT ![t] = [InUser EXCEPT !.op = op, !.page = p, !.frame = f]]
Returns(t) == at' = [at EXCEPT ![t] = InUser]
MapsTo(t, p, f, write) ==
  mem' = [mem EXCEPT ![mm[t]] = Map(@, p, [frame |-> f, write |-> write])]

\* doPageFault() follows, at the first access.  Where it has no memory nothing is
\* changed and the access fails; for one of the program handleException() then
\* stops the machine.

\* nofile:
FillZero(t, p, f) ==
  /\ Missing(t, p) /\ Free(f) /\ ~AreaOf(mm[t], p).file
  /\ frame' = [frame EXCEPT ![f] = NewFrame("zero")]
  /\ MapsTo(t, p, f, TRUE)
  /\ UNCHANGED <<current, cr3, mm, active, at, meant, blurred, leaked, halted>>

\* getPage(): the radix tree of the page cache stays empty (see Disk), so that
\* every fault reads a page of its own.  The task sleeps for the disk.
GetPage(t, p, f) ==
  /\ Missing(t, p) /\ Free(f) /\ AreaOf(mm[t], p).file
  /\ frame' = [frame EXCEPT ![f] = [count |-> 2, cache |-> TRUE, data |-> "file"]]
  /\ Becomes(t, "page", p, f)
  /\ UNCHANGED <<current, cr3, mm, active, mem, meant, blurred, leaked, halted>>

MapPage(t) ==
  /\ Runs(t, "page") /\ ~AreaOf(mm[t], at[t].page).write
  /\ MapsTo(t, at[t].page, at[t].frame, FALSE) /\ Returns(t)
  /\ UNCHANGED <<current, cr3, mm, active, frame, meant, blurred, leaked, halted>>

\* copyfile: a private copy, and putPage().
CopyPage(t, f) ==
  /\ Runs(t, "page") /\ AreaOf(mm[t], at[t].page).write /\ Free(f)
  /\ frame' = [frame EXCEPT ![f] = NewFrame("file"),
                               ![at[t].frame] = Put(frame[at[t].frame], 1)]
  /\ MapsTo(t, at[t].page, f, TRUE) /\ Returns(t)
  /\ UNCHANGED <<current, cr3, mm, active, meant, blurred, leaked, halted>>

\* With no memory the page stays referenced.
CopyPageFails(t) ==
  /\ Runs(t, "page") /\ AreaOf(mm[t], at[t].page).write /\ \A f \in Frame : ~Free(f)
  /\ \A f \in Frame : leaked[f] < LeakLimit
  /\ leaked' = [leaked EXCEPT ![at[t].frame] = @ + 1]
  /\ Returns(t)
  /\ UNCHANGED <<current, cr3, mm, active, mem, frame, meant, blurred, halted>>

\* A slip: a frame that one other memory has is taken for one's own.
TakeBackShared(t, p) ==
  /\ Shared(t, p) /\ frame[Entry(t, p).frame].count <= 2
  /\ MapsTo(t, p, Entry(t, p).frame, TRUE)
  /\ UNCHANGED <<current, cr3, mm, active, at, frame, meant, blurred, leaked, halted>>

\* cow: with the count 1 the frame is the task's own.
TakeBack(t, p) ==
  /\ Shared(t, p) /\ frame[Entry(t, p).frame].count = 1
  /\ MapsTo(t, p, Entry(t, p).frame, TRUE)
  /\ UNCHANGED <<current, cr3, mm, active, at, frame, meant, blurred, leaked, halted>>

AllocCopy(t, p, f) ==
  /\ Shared(t, p) /\ frame[Entry(t, p).frame].count # 1 /\ Free(f)
  /\ frame' = [frame EXCEPT ![f] = NewFrame("zero")]
  /\ Becomes(t, "copy", p, f)
  /\ UNCHANGED <<current, cr3, mm, active, mem, meant, blurred, leaked, halted>>

\* A slip: the new frame is mapped as it is.
MapCopyEmpty(t) ==
  LET p == at[t].page  old == Entry(t, p).frame
  IN /\ Runs(t, "copy")
     /\ MapsTo(t, p, at[t].frame, TRUE)
     /\ Becomes(t, "drop", p, old)
     /\ UNCHANGED <<current, cr3, mm, active, frame, meant, blurred, leaked, halted>>

\* memcpy() and setPTEEntry(): the copy may be written to.
MapCopy(t) ==
  LET p == at[t].page  old == Entry(t, p).frame
  IN /\ Runs(t, "copy")
     /\ frame' = [frame EXCEPT ![at[t].frame].data = frame[old].data]
     /\ MapsTo(t, p, at[t].frame, TRUE)
     /\ Becomes(t, "drop", p, old)
     /\ UNCHANGED <<current, cr3, mm, active, meant, blurred, leaked, halted>>

\* dereferencePage(): the others may have gone in the meantime.
DropOld(t) ==
  /\ Runs(t, "drop")
  /\ frame' = [frame EXCEPT ![at[t].frame] = Put(@, 1)]
  /\ Returns(t)
  /\ UNCHANGED <<current, cr3, mm, active, mem, meant, blurred, leaked, halted>>

-----------------------------------------------------------------------------
(* taskForkMemory() for a child.                                           *)

ReadOnly(pte, ps) == [p \in Page |-> IF p \in ps THEN [pte[p] EXCEPT !.write = FALSE] ELSE pte[p]]

\* Both get the pages read-only, and the TLB is flushed when doFork() ends.
\* The pages that are not walked are lost to the child.
Fork(t, c, m) ==
  LET ps == Entries(mm[t], WalkedIn(mm[t]))
      child == [mem[mm[t]] EXCEPT !.ref = 1, !.table = [k \in DOMAIN @ |->
                  LET n == Cardinality({p \in ps : TableOf(p) = k})
                  IN IF n = 0 THEN 0 ELSE n + 1],
                !.pte = ReadOnly([p \in Page |-> IF p \in ps THEN @[p] ELSE Absent], ps)]
  IN /\ Runs(t, "user") /\ mm[t] # NoMem /\ Doing(c, "unborn") /\ Unused(m)
     /\ mem' = [mem EXCEPT ![m] = child, ![mm[t]].pte = ReadOnly(@, ps)]
     /\ frame' = [f \in Frame |-> [frame[f] EXCEPT !.count = @ + MappedTo(mm[t], f, ps)]]
     /\ meant' = [meant EXCEPT ![m] = meant[mm[t]]]
     /\ blurred' = [blurred EXCEPT ![m] = blurred[mm[t]] \cup (Page \ WalkedIn(mm[t]))]
     /\ mm' = [mm EXCEPT ![c] = m] /\ active' = [active EXCEPT ![c] = m]
     /\ at' = [at EXCEPT ![c] = InUser]
     /\ UNCHANGED <<current, cr3, leaked, halted>>

\* "failed:": no memory for the table of page q, in area n.  The area is not in
\* the child's list yet, and what it has got stays referenced.
ForkFails(t, n, q) ==
  LET m == mm[t]
      part == Entries(m, {p \in Walked(mem[m].vm[n]) : p < q})
      done == UNION {Walked(mem[m].vm[i]) : i \in 1 .. n - 1}
  IN /\ Runs(t, "user") /\ m # NoMem /\ n \in DOMAIN mem[m].vm
     /\ q \in Entries(m, Walked(mem[m].vm[n]))
     /\ \A p \in Entries(m, done) \cup part : TableOf(p) # TableOf(q)
     /\ \A f \in Frame : leaked[f] < LeakLimit
     /\ mem' = [mem EXCEPT ![m].pte = ReadOnly(@, Entries(m, done) \cup part)]
     /\ frame' = [f \in Frame |-> [frame[f] EXCEPT !.count = @ + MappedTo(m, f, part)]]
     /\ leaked' = [f \in Frame |-> leaked[f] + MappedTo(m, f, part)]
     /\ UNCHANGED <<current, cr3, mm, active, at, meant, blurred, halted>>

-----------------------------------------------------------------------------
(* doExecve() and doExit().                                                *)

\* The new, empty memory is in use while the program is read.  kinit(), the
\* first task, tries only once.
ExecBegin(t, m) ==
  /\ Runs(t, "user") /\ Unused(m)
  /\ mm[t] = NoMem => active[t] = NoMem
  /\ mem' = [mem EXCEPT ![m] = [NoMemory EXCEPT !.live = TRUE, !.ref = 1]]
  /\ at' = [at EXCEPT ![t] = [InUser EXCEPT !.op = "exec", !.old = mm[t]]]
  /\ mm' = [mm EXCEPT ![t] = m] /\ active' = [active EXCEPT ![t] = m]
  /\ cr3' = m
  /\ UNCHANGED <<current, frame, meant, blurred, leaked, halted>>

\* doMMap() of the areas of image i, one after the other.
Areas(i) == FoldSeq(LAMBDA a, vm : MMap(vm, a), <<>>, i)
AllFit(i) == \A n \in DOMAIN i : Fits(Areas(SubSeq(i, 1, n - 1)), i[n])

ExecSucceeds(t, i) ==
  LET old == at[t].old  vm == Areas(i)
      fresh(p) == IF \E a \in ToSet(vm) : a.start <= p /\ p < End(a)
                  THEN Fresh(CHOOSE a \in ToSet(vm) : a.start <= p /\ p < End(a)) ELSE "zero"
  IN /\ Runs(t, "exec") /\ AllFit(i)
     /\ mem' = [m \in Mem |-> IF m = mm[t] THEN [mem[m] EXCEPT !.vm = vm]
                              ELSE IF m = old THEN NoMemory ELSE mem[m]]
     /\ meant' = [m \in Mem |-> IF m = mm[t] THEN [p \in Page |-> fresh(p)]
                               ELSE IF m = old THEN Nothing ELSE meant[m]]
     /\ IF old = NoMem THEN UNCHANGED <<frame, blurred, leaked>> ELSE Unmap(old)
     /\ at' = [at EXCEPT ![t] = InUser]
     /\ UNCHANGED <<current, cr3, mm, active, halted>>

\* "failed:" does not restore activeMM.
ExecFails(t) ==
  LET old == at[t].old
  IN /\ Runs(t, "exec")
     /\ cr3' = IF old = NoMem THEN cr3 ELSE old
     /\ mem' = [mem EXCEPT ![mm[t]] = NoMemory]
     /\ mm' = [mm EXCEPT ![t] = old]
     /\ at' = [at EXCEPT ![t] = InUser]
     /\ UNCHANGED <<current, active, frame, meant, blurred, leaked, halted>>

ExitMemory(t) ==
  /\ Runs(t, "user") /\ mm[t] # NoMem
  /\ mem' = [mem EXCEPT ![mm[t]] = NoMemory]
  /\ Unmap(mm[t])
  /\ meant' = [meant EXCEPT ![mm[t]] = Nothing]
  /\ at' = [at EXCEPT ![t].op = "exiting"]
  /\ UNCHANGED <<current, cr3, mm, active, halted>>

\* The files have been closed.
ExitDone(t) ==
  /\ Runs(t, "exiting")
  /\ mm' = [mm EXCEPT ![t] = NoMem] /\ active' = [active EXCEPT ![t] = NoMem]
  /\ at' = [at EXCEPT ![t].op = "dead"]
  /\ UNCHANGED <<current, cr3, mem, frame, meant, blurred, leaked, halted>>

-----------------------------------------------------------------------------
(* schedule()                                                              *)

Dangling(m) == m # NoMem /\ ~mem[m].live
Add(memory, n) == [memory EXCEPT !.ref = @ + n]

\* A slip: finishScheduling() does not give the memory back.
SwitchKeeping(next) ==
  LET prev == current
      a == active[prev]
      borrows == mm[next] = NoMem
      n == IF borrows THEN a ELSE mm[next]
      returns == mm[prev] = NoMem
  IN /\ ~halted /\ next # prev
     /\ next \in User => at[next].op \notin {"unborn", "exiting", "dead"}
     /\ halted' = ((borrows \/ returns) /\ Dangling(a))
     /\ current' = next
     /\ cr3' = IF n \in {NoMem, a} THEN cr3 ELSE n
     /\ mem' = IF a = NoMem THEN mem
               ELSE [mem EXCEPT ![a] = Add(@, IF borrows THEN 1 ELSE 0)]
     /\ active' = [t \in Task |-> IF t = next THEN n
                                  ELSE IF t = prev /\ returns THEN NoMem ELSE active[t]]
     /\ UNCHANGED <<mm, at, frame, meant, blurred, leaked>>

\* A task without memory takes a reference to the one before it, the task that
\* is left gives back what it has taken (finishScheduling()).  On a freed
\* TaskMemory either one corrupts the heap.
Switch(next) ==
  LET prev == current
      a == active[prev]
      borrows == mm[next] = NoMem
      n == IF borrows THEN a ELSE mm[next]
      returns == mm[prev] = NoMem
  IN /\ ~halted /\ next # prev
     /\ next \in User => at[next].op \notin {"unborn", "exiting", "dead"}
     /\ halted' = ((borrows \/ returns) /\ Dangling(a))
     /\ current' = next
     /\ cr3' = IF n \in {NoMem, a} THEN cr3 ELSE n
     /\ mem' = IF a = NoMem THEN mem
               ELSE [mem EXCEPT ![a] = Add(@, (IF borrows THEN 1 ELSE 0) - (IF returns THEN 1 ELSE 0))]
     /\ active' = [t \in Task |-> IF t = next THEN n
                                  ELSE IF t = prev /\ returns THEN NoMem ELSE active[t]]
     /\ UNCHANGED <<mm, at, frame, meant, blurred, leaked>>

\* A kernel task goes on, or nothing does.
Stays == (halted \/ current \in Kernel) /\ UNCHANGED memoryVars

-----------------------------------------------------------------------------

PageFault(t, p) ==
  \/ TakeBack(t, p)
  \/ \E f \in Frame : FillZero(t, p, f) \/ GetPage(t, p, f) \/ AllocCopy(t, p, f)

FaultGoesOn(t) ==
  \/ MapPage(t) \/ CopyPageFails(t) \/ MapCopy(t) \/ DropOld(t)
  \/ \E f \in Frame : CopyPage(t, f)

MemoryNext ==
  \/ \E t \in User :
       \/ \E p \in Page : Write(t, p) \/ CopyOut(t, p) \/ PageFault(t, p)
       \/ FaultGoesOn(t)
       \/ \E c \in User, m \in Mem : Fork(t, c, m)
       \/ \E n \in 1 .. Pages, q \in Page : ForkFails(t, n, q)
       \/ \E m \in Mem : ExecBegin(t, m)
       \/ \E i \in Image : ExecSucceeds(t, i)
       \/ ExecFails(t) \/ ExitMemory(t) \/ ExitDone(t)
  \/ \E t \in Task : Switch(t)
  \/ Stays

MemorySpec == MemoryInit /\ [][MemoryNext]_memoryVars

-----------------------------------------------------------------------------
(* Properties.                                                             *)

\* What a task finds in its memory is what it has put there, or its parent
\* before the fork, whatever the other tasks write, and however the page got
\* there; but for the pages that a fork does not walk, and those that the kernel
\* has written to across copy on write.
MemoryPrivate ==
  \A m \in Mem : mem[m].live =>
    \A p \in Page \ blurred[m] : Covered(m, p) =>
      meant[m][p] = IF Present(m, p) THEN frame[mem[m].pte[p].frame].data
                    ELSE Fresh(AreaOf(m, p))

\* The count of a frame is the number of entries that map it, plus the faults
\* that hold it, the page cache, and what has been lost; and a frame that can be
\* written to through an entry is mapped by no other.  The count of a page table
\* is one more than the entries it has.
FramesAccounted ==
  /\ \A f \in Frame :
       frame[f].count = Cardinality(Mappings(f)) + leaked[f]
                        + Cardinality({t \in User : at[t].frame = f})
                        + (IF frame[f].cache THEN 1 ELSE 0)
  /\ \A m \in Mem, p \in Page :
       mem[m].pte[p].write => /\ Mappings(mem[m].pte[p].frame) = {<<m, p>>}
                              /\ ~frame[mem[m].pte[p].frame].cache
  /\ \A m \in Mem, k \in 0 .. Pages \div TableSize :
       LET n == Cardinality({p \in Page : TableOf(p) = k /\ Present(m, p)})
       IN mem[m].table[k] = IF n = 0 /\ mem[m].table[k] = 0 THEN 0 ELSE n + 1

\* Those who count as users of a memory.
Owners(m) == {t \in Task : mm[t] = m /\ ~(t \in User /\ Doing(t, "exiting"))}
Borrowers(m) == {t \in Task : mm[t] = NoMem /\ active[t] = m}
Replaced(m) == {t \in User : at[t].old = m}

\* A memory is freed with the last task that has it or has borrowed it, and the
\* tables of a task that runs in user mode are the loaded ones.  (Until the
\* machine halts: see Switch.)
MemoryOwned ==
  ~halted =>
    /\ \A m \in Mem :
         IF mem[m].live
         THEN mem[m].ref = Cardinality(Owners(m) \cup Borrowers(m) \cup Replaced(m)) /\ mem[m].ref > 0
         ELSE Owners(m) \cup Replaced(m) \cup (Borrowers(m) \cap Kernel) = {}
    /\ \A t \in User : current = t /\ mm[t] # NoMem /\ ~Doing(t, "exiting") => cr3 = mm[t]

=============================================================================
