--------------------------------- MODULE Disk ---------------------------------
(***************************************************************************)
(* Reading the disc: the drivers of AHCI and IDE drives (ahci.c, ide.c),   *)
(* the driver list and the block layer (driver.c, block.c), the page cache *)
(* with its radix tree (pagecache.c, radixtree.c) and the reads of         *)
(* iso9660.c, on top of RunQueue: a task acts while it is current and      *)
(* runs, a tick preempts it anywhere, interrupts come at any moment.       *)
(*                                                                         *)
(* A driver takes the semaphore of the channel, leaves its task in the     *)
(* data of the interrupt, issues one command and calls schedule().         *)
(* Whatever ends that wait is taken for the interrupt of the command.      *)
(*                                                                         *)
(* The first task boots: it enables the drives, mounts the root file       *)
(* system and creates the other tasks.  All reads of the kernel start at a *)
(* sector and take at most a page, which is one command.                   *)
(***************************************************************************)
EXTENDS RunQueue, FiniteSets, Functions

CONSTANTS
  NoTask, Stale,   \* no data for the interrupt; data on a stack that is gone
  Port, NoPort,    \* the drives
  Inode, NoInode,  \* the files, each with the semaphore of its inode
  Request,         \* what tasks ask of the file system
  Volume,          \* the descriptors iso9660Mount() looks at, in order
  Junk             \* what a fresh page holds

ASSUME DiskAssumption ==
  /\ NoTask \notin Task \cup {Stale} /\ Stale \notin Task /\ NoPort \notin Port
  /\ "ahci" \notin Port /\ Inode \cap (Port \cup {"ahci"}) = {}
  /\ Request \subseteq [for: {"read", "readdir", "lookup"}, inode: Inode, todo: Seq(Nat)]

VARIABLES
  kind,     \* what a drive is: "ahci", or "ide" on a channel of its own
  dma,      \* IDEDevice.dma
  untried,  \* the drives that no driver has enabled yet
  parts,    \* the parts of block devices that mountRoot() has not tried
  root,     \* the drive of the root file system
  tree,     \* the RadixTreeRoot of each inode's page cache
  sem,      \* the semaphores: who has it, and who waits, head first
  irqData,  \* what setIRQData() left for the interrupt of a channel
  irq,      \* an interrupt of the channel is on its way
  raised,   \* the interrupt bit of the drive (port, bus master status)
  drive,    \* the command in the drive
  moved,    \* header->prdbc = transferSize
  answer,   \* what the handler left for the task: "none" if it has not run
  buffer,   \* the contents of the buffer of the transfer
  ret,      \* whether the read will report success
  doubtful, \* (history) it reports on something else than its own command
  early,    \* (history) whose wait for a drive ended before the interrupt
  over,     \* the model ends: an interrupt has followed stale data, the task
            \* that was early has reported, or an inode stays taken for ever
  job, pc,  \* what a task does, and where it is
  calling,  \* the tasks that are about to call schedule()
  have      \* the pages a task holds

setupVars == <<kind, dma, untried, parts, root>>
cacheVars == <<tree, have>>
lineVars  == <<irq, raised, drive>>
endVars   == <<ret, doubtful, early>>
ioVars == <<setupVars, cacheVars, lineVars, endVars, sem, irqData, moved,
            answer, buffer, over, job, pc, calling>>
diskVars == <<vars, ioVars>>

Channel == {"ahci"} \cup Port
ChannelOf(p) == IF kind[p] = "ahci" THEN "ahci" ELSE p
NoJob == [for |-> "none", port |-> NoPort, inode |-> NoInode, todo |-> <<>>]
Quiet == [phase |-> "idle", by |-> NoTask, sector |-> Junk, ok |-> FALSE]

Places == {"boot", "identify", "identified", "sync", "spawn", "new", "out",
           "lock", "page", "down", "setup", "ready", "arm", "issue", "wait",
           "drq", "again", "read", "wait2", "up", "check", "done", "leave", "halt"}

DiskTypeOK ==
  /\ kind \in [Port -> {"ahci", "ide"}] /\ dma \in [Port -> BOOLEAN]
  /\ untried \subseteq Port /\ parts \subseteq Port /\ root \in Port \cup {NoPort}
  /\ irqData \in [Channel -> Task \cup {NoTask, Stale}]
  /\ irq \in [Channel -> BOOLEAN] /\ raised \in [Port -> BOOLEAN]
  /\ \A p \in Port : /\ drive[p].phase \in {"idle", "busy", "drq", "failed", "ending"}
                     /\ drive[p].by \in Task \cup {NoTask}
  /\ answer \in [Task -> {"none", "good", "bad"}]
  /\ pc \in [Task -> Places] /\ calling \subseteq Tasks
  /\ have \in [Task -> 0..2]
  /\ \A l \in Channel \cup Inode : /\ sem[l].holder \in Task \cup {NoTask}
                                   /\ ToSet(sem[l].queue) \subseteq Task

\* initPCI() has registered the controllers; there is no driver yet.
DiskInit ==
  /\ Init
  /\ kind \in [Port -> {"ahci", "ide"}] /\ dma = [p \in Port |-> FALSE]
  /\ untried = Port /\ parts = {} /\ root = NoPort
  /\ tree = [i \in Inode |-> [height |-> 0, rooted |-> FALSE, items |-> {}]]
  /\ sem = [l \in Channel \cup Inode |-> [holder |-> NoTask, queue |-> <<>>]]
  /\ irqData = [c \in Channel |-> NoTask] /\ irq = [c \in Channel |-> FALSE]
  /\ raised = [p \in Port |-> FALSE]
  /\ drive = [p \in Port |-> Quiet] /\ moved = [p \in Port |-> FALSE]
  /\ answer = [t \in Task |-> "none"] /\ buffer = [t \in Task |-> Junk]
  /\ ret = [t \in Task |-> FALSE] /\ doubtful = [t \in Task |-> FALSE]
  /\ early = NoTask /\ over = FALSE
  /\ job = [t \in Task |-> NoJob]
  /\ pc = [t \in Task |-> IF state[t] = "None" THEN "new" ELSE "boot"]
  /\ calling = {Idle} /\ have = [t \in Task |-> 0]

-----------------------------------------------------------------------------
(* The radix tree of a page cache: of its nodes only whether there is a    *)
(* root, of its items the indices.                                         *)

\* getRadixTreeMaxIndex(): 4 bits of the index to a level.
MaxIndex(height) == 16 ^ height - 1

\* extandRadixTree() of a tree without a root (with one it does not end).
Extended(tr, index) ==
  [tr EXCEPT !.height = CHOOSE h \in (@ + 1)..(@ + 8) :
     index < MaxIndex(h) /\ \A g \in (@ + 1)..(h - 1) : index >= MaxIndex(g)]

\* insertIntoRadixTree(): a node is created below its parent.  The root has
\* none, so that it never is, and nothing is kept.
Inserted(tr, index) ==
  LET high == IF MaxIndex(tr.height) <= index THEN Extended(tr, index) ELSE tr
  IN [high EXCEPT !.items = IF high.rooted THEN @ \cup {index} ELSE @]

\* getFromRadixTree(), removeFromRadixTree()
Found(tr, index) == tr.rooted /\ index < MaxIndex(tr.height) /\ index \in tr.items
Removed(tr, index) ==
  IF Found(tr, index)
  THEN [tr EXCEPT !.items = @ \ {index}, !.rooted = tr.items # {index}]
  ELSE tr

-----------------------------------------------------------------------------
(* Tasks, and what they call.                                              *)

Runs(t) == current = t /\ t \notin calling /\ state[t] = "Running"
PortOf(t) == job[t].port
OfKind(t, k) == kind[PortOf(t)] = k
ByDma(t) == OfKind(t, "ahci") \/ dma[PortOf(t)]
Wanted(t) == <<job[t].inode, Head(job[t].todo)>>
Goto(t, there) == pc' = [pc EXCEPT ![t] = there]

\* A task puts its state down and goes on to call schedule().
Sleep(t) == Block("Uninterruptible") /\ calling' = calling \cup {t}

\* A slip: nobody looks whether the semaphore is free.
DownAtOnce(t, l, there) ==
  /\ sem' = [sem EXCEPT ![l] =
               [holder |-> t, queue |-> SelectSeq(@.queue, LAMBDA u : u # t)]]
  /\ Goto(t, there)
  /\ UNCHANGED <<vars, calling>>

\* downSemaphore(): t gets it, or sleeps and will try again.
Down(t, l, there) ==
  \/ /\ sem[l].holder = NoTask
     /\ sem' = [sem EXCEPT ![l] =
                  [holder |-> t, queue |-> SelectSeq(@.queue, LAMBDA u : u # t)]]
     /\ Goto(t, there)
     /\ UNCHANGED <<vars, calling>>
  \/ /\ sem[l].holder # NoTask
     /\ sem' = [sem EXCEPT ![l].queue = IF t \in ToSet(@) THEN @ ELSE Cons(t, @)]
     /\ Sleep(t)
     /\ UNCHANGED pc

\* upSemaphore(): the head of the queue tries again.
Up(t, l, there) ==
  /\ sem' = [sem EXCEPT ![l].holder = NoTask]
  /\ Goto(t, there)
  /\ LET q == sem[l].queue IN
     IF q # <<>> /\ state[Head(q)] = "Uninterruptible"
     THEN Wake(Head(q))
     ELSE UNCHANGED vars
  /\ UNCHANGED calling

\* schedule() switches, or returns at once when nobody else is there to run.
\* Of the tasks that RunQueue may resume by mistake only those that wait for a
\* drive matter (one that waits for a semaphore looks again and sleeps), and
\* one mistake is enough; no task exits here.
ToTask ==
  \/ state[current'] = "Running"
  \/ early = NoTask /\ current' \in Task /\ pc[current'] \in {"wait", "wait2"}

Schedule ==
  /\ current \in calling
  /\ \/ (GiveUp \/ Preempt) /\ ToTask
     \/ runnable = <<>> /\ state[current] = "Running" /\ UNCHANGED vars
  /\ calling' = calling \ ({current} \ {Idle})
  /\ UNCHANGED <<setupVars, cacheVars, lineVars, endVars, sem, irqData, moved,
                 answer, buffer, over, job, pc>>

Tick == Preempt /\ ToTask /\ UNCHANGED ioVars

-----------------------------------------------------------------------------
(* One command: ahciSendCommandATAPI(), ideSendCommandATAPI().             *)

TakeChannel(t) ==
  /\ pc[t] = "down" /\ Runs(t)
  /\ Down(t, ChannelOf(PortOf(t)), IF OfKind(t, "ahci") THEN "arm" ELSE "setup")
  /\ UNCHANGED <<setupVars, cacheVars, lineVars, endVars, irqData, moved,
                 answer, buffer, over, job>>

\* The IDE driver sets up the transfer, which clears the interrupt bit ...
Setup(t) ==
  /\ pc[t] = "setup" /\ Runs(t)
  /\ raised' = [raised EXCEPT ![PortOf(t)] = @ /\ ~ByDma(t)]
  /\ Goto(t, "ready")
  /\ UNCHANGED <<vars, setupVars, cacheVars, irq, drive, endVars, sem, irqData,
                 moved, answer, buffer, over, job, calling>>

\* ideWaitReady(), ideWaitDRQ(): the other tasks run while the drive is busy.
Poll(t) ==
  /\ drive[PortOf(t)].phase \in {"busy", "ending"}
  /\ calling' = calling \cup {t}
  /\ UNCHANGED <<vars, lineVars, endVars, pc>>
Answers(t) == drive[PortOf(t)].phase \notin {"busy", "ending"}

\* ... and waits until the drive takes a packet, or reports an error.
Ready(t) ==
  /\ pc[t] = "ready" /\ Runs(t)
  /\ \/ Poll(t)
     \/ /\ Answers(t)
        /\ \/ Goto(t, "arm") /\ UNCHANGED ret
           \/ Goto(t, "up") /\ ret' = [ret EXCEPT ![t] = FALSE]
        /\ UNCHANGED <<vars, lineVars, doubtful, early, calling>>
  /\ UNCHANGED <<setupVars, cacheVars, sem, irqData, moved, answer, buffer,
                 over, job>>

\* A task that has given the port back may still have to look at prdbc.
Overtaken(t) == {u \in Task \ {t} : pc[u] = "check" /\ PortOf(u) = PortOf(t)}

\* The task will sleep, and leaves itself to the interrupt.  The AHCI driver
\* has cleared the header of the command.
Arm(t) ==
  /\ pc[t] = "arm" /\ Runs(t)
  /\ Block("Uninterruptible")
  /\ irqData' = [irqData EXCEPT ![ChannelOf(PortOf(t))] = t]
  /\ answer' = [answer EXCEPT ![t] = "none"]
  /\ moved' = [moved EXCEPT ![PortOf(t)] = FALSE]
  /\ doubtful' = [u \in Task |-> u # t /\ (doubtful[u] \/ u \in Overtaken(t))]
  /\ Goto(t, "issue")
  /\ UNCHANGED <<setupVars, cacheVars, lineVars, ret, early, sem, buffer, over,
                 job, calling>>

\* The command goes out, and the task calls schedule().
Issue(t) ==
  /\ pc[t] = "issue" /\ current = t
  /\ drive' = [drive EXCEPT ![PortOf(t)] =
                 [phase |-> "busy", by |-> t, sector |-> Wanted(t), ok |-> FALSE]]
  /\ calling' = calling \cup {t}
  /\ Goto(t, "wait")
  /\ UNCHANGED <<vars, setupVars, cacheVars, irq, raised, endVars, sem, irqData,
                 moved, answer, buffer, over, job>>

\* A slip: the status of the transfer is not looked at.
ClearTrusting(t) ==
  /\ pc[t] = "wait" /\ Runs(t)
  /\ irqData' = [irqData EXCEPT ![ChannelOf(PortOf(t))] = NoTask]
  /\ drive' = [drive EXCEPT ![PortOf(t)] =
                 IF OfKind(t, "ahci") \/ @.phase = "idle" THEN Quiet ELSE @]
  /\ ret' = [ret EXCEPT ![t] = TRUE]
  /\ answer' = [answer EXCEPT ![t] = "none"]
  /\ early' = IF early = NoTask /\ answer[t] = "none" THEN t ELSE early
  /\ doubtful' = [doubtful EXCEPT ![t] = @ \/ (early' # NoTask /\ OfKind(t, "ide") /\ ByDma(t))]
  /\ Goto(t, CASE job[t].for = "identify" -> "identified"
               [] ~ByDma(t)               -> "drq"
               [] OTHER                   -> "up")
  /\ UNCHANGED <<vars, setupVars, cacheVars, irq, raised, sem, moved,
                 buffer, over, job, calling>>

\* schedule() has returned.  An AHCI port is stopped.  The IDE driver takes
\* the status of the transfer from its wait, which is zero before the handler
\* has run.
Clear(t) ==
  /\ pc[t] = "wait" /\ Runs(t)
  /\ irqData' = [irqData EXCEPT ![ChannelOf(PortOf(t))] = NoTask]
  /\ drive' = [drive EXCEPT ![PortOf(t)] =
                 IF OfKind(t, "ahci") \/ @.phase = "idle" THEN Quiet ELSE @]
  /\ ret' = [ret EXCEPT ![t] = answer[t] # "bad"]
  /\ answer' = [answer EXCEPT ![t] = "none"]
  /\ early' = IF early = NoTask /\ answer[t] = "none" THEN t ELSE early
  /\ doubtful' = [doubtful EXCEPT ![t] = @ \/ (early' # NoTask /\ OfKind(t, "ide") /\ ByDma(t))]
  /\ Goto(t, CASE job[t].for = "identify" -> "identified"
               [] ~ByDma(t)               -> "drq"
               [] OTHER                   -> "up")
  /\ UNCHANGED <<vars, setupVars, cacheVars, irq, raised, sem, moved,
                 buffer, over, job, calling>>

\* Without DMA the task reads the data itself when the drive has it, and waits
\* for the interrupt of the end.
DataReady(t) ==
  /\ pc[t] = "drq" /\ Runs(t)
  /\ \/ Poll(t)
     \/ /\ Answers(t)
        /\ Goto(t, IF drive[PortOf(t)].phase = "drq" THEN "again" ELSE "up")
        /\ ret' = [ret EXCEPT ![t] = FALSE]
        /\ UNCHANGED <<vars, lineVars, doubtful, early, calling>>
  /\ UNCHANGED <<setupVars, cacheVars, sem, irqData, moved, answer, buffer,
                 over, job>>

ArmAgain(t) ==
  /\ pc[t] = "again" /\ Runs(t)
  /\ Block("Uninterruptible")
  /\ irqData' = [irqData EXCEPT ![ChannelOf(PortOf(t))] = t]
  /\ answer' = [answer EXCEPT ![t] = "none"]
  /\ Goto(t, "read")
  /\ UNCHANGED <<setupVars, cacheVars, lineVars, endVars, sem, moved, buffer,
                 over, job, calling>>

\* As much as the drive says, which may be too little.
ReadData(t) ==
  /\ pc[t] = "read" /\ current = t
  /\ \E all \in BOOLEAN :
       /\ ret' = [ret EXCEPT ![t] = all]
       /\ buffer' = [buffer EXCEPT ![t] = IF all THEN drive[PortOf(t)].sector ELSE @]
  /\ drive' = [drive EXCEPT ![PortOf(t)].phase = "ending"]
  /\ calling' = calling \cup {t}
  /\ Goto(t, "wait2")
  /\ UNCHANGED <<vars, setupVars, cacheVars, irq, raised, doubtful, early, sem,
                 irqData, moved, answer, over, job>>

\* ide.c:350: the wait, on the stack, stays behind as the interrupt's data.
LeaveStale(t) ==
  /\ pc[t] = "wait2" /\ Runs(t)
  /\ irqData' = [irqData EXCEPT ![ChannelOf(PortOf(t))] = Stale]
  /\ answer' = [answer EXCEPT ![t] = "none"]
  /\ early' = IF early = NoTask /\ answer[t] = "none" THEN t ELSE early
  /\ Goto(t, "up")
  /\ UNCHANGED <<vars, setupVars, cacheVars, lineVars, ret, doubtful, sem, moved,
                 buffer, over, job, calling>>

GiveChannel(t) ==
  /\ pc[t] = "up" /\ Runs(t)
  /\ Up(t, ChannelOf(PortOf(t)), IF OfKind(t, "ahci") THEN "check" ELSE "done")
  /\ UNCHANGED <<setupVars, cacheVars, lineVars, endVars, irqData, moved, answer,
                 buffer, over, job>>

\* ahci.c:216: the count of the port's header, which is no longer the task's.
Check(t) ==
  /\ pc[t] = "check" /\ Runs(t)
  /\ ret' = [ret EXCEPT ![t] = moved[PortOf(t)]]
  /\ moved' = [moved EXCEPT ![PortOf(t)] = @ /\ Overtaken(t) # {}]
  /\ Goto(t, "done")
  /\ UNCHANGED <<vars, setupVars, cacheVars, lineVars, doubtful, early, sem,
                 irqData, answer, buffer, over, job, calling>>

-----------------------------------------------------------------------------
(* The drive and its interrupt.                                            *)

\* The line is an edge: it does not rise for a bit that is still up.
Edge(p) == [irq EXCEPT ![ChannelOf(p)] = @ \/ ~raised[p] \/ kind[p] = "ide"]

\* A transfer by DMA ends, or fails.
Complete(p, ok) ==
  /\ drive[p].phase = "busy" /\ (kind[p] = "ahci" \/ dma[p])
  /\ drive' = [drive EXCEPT ![p].phase = "idle", ![p].ok = ok]
  /\ buffer' = [buffer EXCEPT ![drive[p].by] = IF ok THEN drive[p].sector ELSE @]
  /\ moved' = [moved EXCEPT ![p] = ok]
  /\ irq' = Edge(p) /\ raised' = [raised EXCEPT ![p] = TRUE]
  /\ UNCHANGED <<vars, setupVars, cacheVars, endVars, sem, irqData, answer, over,
                 job, pc, calling>>

\* The data of one without DMA is there; and it has been read.
Present(p) ==
  /\ \/ /\ drive[p].phase = "busy" /\ kind[p] = "ide" /\ ~dma[p]
        /\ \E ph \in {"drq", "failed"} : drive' = [drive EXCEPT ![p].phase = ph]
     \/ /\ drive[p].phase = "ending"
        /\ drive' = [drive EXCEPT ![p].phase = "idle"]
  /\ irq' = Edge(p) /\ raised' = [raised EXCEPT ![p] = TRUE]
  /\ UNCHANGED <<vars, setupVars, cacheVars, endVars, sem, irqData, moved, answer,
                 buffer, over, job, pc, calling>>

\* wakeUpTask(t, ..)
WakeWaiter(t) == IF state[t] = "Uninterruptible" THEN Wake(t) ELSE UNCHANGED vars

\* A slip: nobody is woken after a command that failed.
NotifySuccess(t, p) ==
  /\ raised' = [raised EXCEPT ![p] = FALSE]
  /\ IF raised[p] /\ drive[p].ok
     THEN answer' = [answer EXCEPT ![t] = "good"] /\ WakeWaiter(t)
     ELSE UNCHANGED <<answer, vars>>

\* The handler has found the data of t, whose command is in p: it leaves the
\* status there (IDE) and wakes it.
Notify(t, p) ==
  /\ raised' = [raised EXCEPT ![p] = FALSE]
  /\ IF raised[p]
     THEN /\ answer' = [answer EXCEPT ![t] = IF drive[p].ok \/ kind[p] = "ahci"
                                             THEN "good" ELSE "bad"]
          /\ WakeWaiter(t)
     ELSE UNCHANGED <<answer, vars>>

\* ahciIRQ(): without data it leaves the bit of the port up, and the line.
AhciIRQ ==
  /\ irq["ahci"]
  /\ irq' = [irq EXCEPT !["ahci"] = FALSE]
  /\ IF irqData["ahci"] = NoTask
     THEN UNCHANGED <<raised, answer, vars>>
     ELSE Notify(irqData["ahci"], PortOf(irqData["ahci"]))
  /\ UNCHANGED <<setupVars, cacheVars, drive, endVars, sem, irqData, moved, buffer,
                 over, job, pc, calling>>

\* ideIRQCommon()
IdeIRQ(p) ==
  /\ irq[p]
  /\ irq' = [irq EXCEPT ![p] = FALSE]
  /\ IF irqData[p] \in Task
     THEN Notify(irqData[p], p) /\ UNCHANGED over
     ELSE /\ raised' = [raised EXCEPT ![p] = FALSE]
          /\ over' = (over \/ (irqData[p] = Stale /\ raised[p]))
          /\ UNCHANGED <<answer, vars>>
  /\ UNCHANGED <<setupVars, cacheVars, drive, endVars, sem, irqData, moved, buffer,
                 job, pc, calling>>

-----------------------------------------------------------------------------
(* Booting.                                                                *)

Job(for, p, inode, todo) == [for |-> for, port |-> p, inode |-> inode, todo |-> todo]
Give(t, j) == job' = [job EXCEPT ![t] = j]
Take(t, n) == /\ have' = [have EXCEPT ![t] = @ + n]
              /\ buffer' = [buffer EXCEPT ![t] = Junk]
              /\ ret' = [ret EXCEPT ![t] = FALSE]
              /\ doubtful' = [doubtful EXCEPT ![t] = FALSE]
Release(t) == /\ have' = [have EXCEPT ![t] = 0]
              /\ buffer' = [buffer EXCEPT ![t] = Junk]
              /\ ret' = [ret EXCEPT ![t] = FALSE]
              /\ doubtful' = [doubtful EXCEPT ![t] = FALSE]
              /\ over' = (over \/ early = t)

\* registerDriver(): it probes the devices and enables the next one, whose
\* drive is asked what it is.
Enable(t) ==
  /\ pc[t] = "boot" /\ Runs(t)
  /\ \/ \E p \in untried :
          /\ untried' = untried \ {p}
          /\ Give(t, Job("identify", p, NoInode, <<0>>))
          /\ Goto(t, IF kind[p] = "ahci" THEN "arm" ELSE "identify")
          /\ Take(t, 1)
     \/ /\ untried = {}
        /\ Goto(t, "sync")
        /\ UNCHANGED <<untried, job, have, buffer, ret, doubtful>>
  /\ UNCHANGED <<vars, kind, dma, parts, root, tree, lineVars, early, sem,
                 irqData, moved, answer, over, calling>>

\* The answer of an AHCI drive: a CD-ROM becomes a block device.  Nobody looks
\* whether there was an answer.
AhciIdentified(t) ==
  /\ pc[t] = "identified" /\ Runs(t)
  /\ \E cdrom \in BOOLEAN : parts' = IF cdrom THEN parts \cup {PortOf(t)} ELSE parts
  /\ Release(t)
  /\ Goto(t, "boot")
  /\ UNCHANGED <<vars, kind, dma, untried, root, tree, lineVars, early, sem,
                 irqData, moved, answer, job, calling>>

\* The answer of an IDE drive, without interrupts: no CD-ROM, one without DMA
\* or one with, where a read shows whether the data gets to the buffer.
IdeIdentified(t) ==
  /\ pc[t] = "identify" /\ Runs(t)
  /\ \/ /\ Release(t) /\ Goto(t, "boot")
        /\ UNCHANGED <<parts, dma, job>>
     \/ /\ parts' = parts \cup {PortOf(t)}
        /\ Release(t) /\ Goto(t, "boot")
        /\ UNCHANGED <<dma, job>>
     \/ /\ dma' = [dma EXCEPT ![PortOf(t)] = TRUE]
        /\ Give(t, [job[t] EXCEPT !.for = "probe"])
        /\ Goto(t, "down")
        /\ UNCHANGED <<parts, have, buffer, ret, doubtful, over>>
  /\ UNCHANGED <<vars, kind, untried, root, tree, lineVars, early, sem, irqData,
                 moved, answer, calling>>

\* ideGetDMASupportATAPI(), for one sector: a buffer that does not change is
\* taken for a drive without DMA at once, not after the same read without it.
Probed(t) ==
  /\ pc[t] = "done" /\ Runs(t) /\ job[t].for = "probe"
  /\ dma' = [dma EXCEPT ![PortOf(t)] = ret[t] /\ buffer[t] # Junk]
  /\ parts' = parts \cup {PortOf(t)}
  /\ Release(t)
  /\ Goto(t, "boot")
  /\ UNCHANGED <<vars, kind, untried, root, tree, lineVars, early, sem, irqData,
                 moved, answer, job, calling>>

\* syncBlockDevice(): iso9660Mount() of one part after the other.
Sync(t) ==
  /\ pc[t] = "sync" /\ Runs(t)
  /\ \/ \E p \in parts :
          /\ parts' = parts \ {p}
          /\ Give(t, Job("mount", p, NoInode, Volume))
          /\ Goto(t, "down")
          /\ Take(t, 1)
     \/ /\ parts = {}
        /\ Goto(t, "spawn")
        /\ UNCHANGED <<parts, job, have, buffer, ret, doubtful>>
  /\ UNCHANGED <<vars, kind, dma, untried, root, tree, lineVars, early, sem,
                 irqData, moved, answer, over, calling>>

\* A descriptor: none, or the last; another one; the primary one.
Mount(t) ==
  /\ pc[t] = "done" /\ Runs(t) /\ job[t].for = "mount"
  /\ \/ Goto(t, "sync") /\ Release(t) /\ UNCHANGED <<root, job>>
     \/ /\ ret[t] /\ Tail(job[t].todo) # <<>>
        /\ Give(t, [job[t] EXCEPT !.todo = Tail(@)])
        /\ buffer' = [buffer EXCEPT ![t] = Junk]
        /\ Goto(t, "down") /\ UNCHANGED <<root, have, ret, doubtful, over>>
     \/ /\ ret[t]
        /\ root' = PortOf(t)
        /\ Goto(t, "spawn") /\ Release(t) /\ UNCHANGED job
  /\ UNCHANGED <<vars, kind, dma, untried, parts, tree, lineVars, early, sem,
                 irqData, moved, answer, calling>>

\* The first task creates the others and wakes them.
Spawn(t) ==
  /\ pc[t] = "spawn" /\ Runs(t)
  /\ \/ \E n \in Task : Create(n) /\ UNCHANGED pc
     \/ \E n \in Task :
          pc[n] = "new" /\ Wake(n) /\ pc' = [pc EXCEPT ![n] = "out"]
     \/ /\ \A n \in Task : pc[n] # "new"
        /\ Goto(t, "out") /\ UNCHANGED vars
  /\ UNCHANGED <<setupVars, cacheVars, lineVars, endVars, sem, irqData, moved,
                 answer, buffer, over, job, calling>>

-----------------------------------------------------------------------------
(* Reading files.                                                          *)

\* iso9660Read(), iso9660ReadDir(), iso9660LookUp(): the last without the
\* semaphore of the inode.  Bound: nothing is asked for after a wait that ended
\* early.
Ask(t) ==
  /\ pc[t] = "out" /\ Runs(t) /\ root # NoPort /\ early = NoTask
  /\ \E r \in Request :
       /\ Give(t, Job(r.for, root, r.inode, r.todo))
       /\ Goto(t, IF r.for = "lookup" THEN "page" ELSE "lock")
  /\ UNCHANGED <<vars, setupVars, cacheVars, lineVars, endVars, sem, irqData,
                 moved, answer, buffer, over, calling>>

TakeInode(t) ==
  /\ pc[t] = "lock" /\ Runs(t)
  /\ Down(t, job[t].inode, "page")
  /\ UNCHANGED <<setupVars, cacheVars, lineVars, endVars, irqData, moved, answer,
                 buffer, over, job>>

\* The page has been used and is put back: the next one, or the end.  A
\* directory is left at the entry looked for, or when the caller's buffer is
\* full.
Advance(t) ==
  LET rest == Tail(job[t].todo)
      end == IF job[t].for = "lookup" THEN "out" ELSE "leave"
  IN /\ tree' = [tree EXCEPT ![job[t].inode] =
                   Removed(Inserted(@, Head(job[t].todo)), Head(job[t].todo))]
     /\ \/ rest # <<>> /\ Give(t, [job[t] EXCEPT !.todo = rest]) /\ Goto(t, "page")
        \/ /\ rest = <<>> \/ job[t].for # "read"
           /\ Give(t, IF end = "out" THEN NoJob ELSE [job[t] EXCEPT !.todo = <<>>])
           /\ Goto(t, end)

\* getPageFromPageCache(), up to the command of the read.  A page that is not
\* there ends the call; in iso9660ReadDir() the first one is put back all the
\* same (:419), a later one leaves the semaphore taken (:392).  Without a
\* buffer for the transfer the page stays as it is, and nobody asks.
First(t) == \E r \in Request : r.for = "readdir" /\ r.todo = job[t].todo

GetPage(t) ==
  /\ pc[t] = "page" /\ Runs(t)
  /\ \/ /\ Give(t, IF job[t].for = "read" THEN [job[t] EXCEPT !.todo = <<>>] ELSE NoJob)
        /\ Goto(t, CASE job[t].for = "read"                 -> "leave"
                     [] job[t].for = "readdir" /\ First(t)  -> "halt"
                     [] OTHER                               -> "out")
        /\ over' = (over \/ job[t].for = "readdir")
        /\ UNCHANGED <<tree, have, buffer, ret, doubtful>>
     \/ Advance(t) /\ UNCHANGED <<have, buffer, ret, doubtful, over>>
     \/ /\ ~Found(tree[job[t].inode], Head(job[t].todo))
        /\ Take(t, 2)
        /\ Goto(t, "down")
        /\ UNCHANGED <<tree, job, over>>
  /\ UNCHANGED <<vars, setupVars, lineVars, early, sem, irqData, moved, answer,
                 calling>>

\* Whatever submitBlockIO() returned, the page is inserted, read and put back.
UsePage(t) ==
  /\ pc[t] = "done" /\ Runs(t) /\ job[t].for \in {"read", "readdir", "lookup"}
  /\ Advance(t)
  /\ Release(t)
  /\ UNCHANGED <<vars, setupVars, lineVars, early, sem, irqData, moved, answer,
                 calling>>

GiveInode(t) ==
  /\ pc[t] = "leave" /\ Runs(t)
  /\ Up(t, job[t].inode, "out")
  /\ Give(t, NoJob)
  /\ UNCHANGED <<setupVars, cacheVars, lineVars, endVars, irqData, moved, answer,
                 buffer, over>>

-----------------------------------------------------------------------------

Step(t) ==
  \/ Enable(t) \/ AhciIdentified(t) \/ IdeIdentified(t) \/ Probed(t)
  \/ Sync(t) \/ Mount(t) \/ Spawn(t)
  \/ Ask(t) \/ TakeInode(t) \/ GetPage(t) \/ UsePage(t) \/ GiveInode(t)
  \/ TakeChannel(t) \/ Setup(t) \/ Ready(t) \/ Arm(t) \/ Issue(t) \/ Clear(t)
  \/ DataReady(t) \/ ArmAgain(t) \/ ReadData(t) \/ LeaveStale(t)
  \/ GiveChannel(t) \/ Check(t)

Device(p) == Present(p) \/ \E ok \in BOOLEAN : Complete(p, ok)
Interrupt == AhciIRQ \/ \E p \in Port : IdeIRQ(p)

\* Nothing is said of the system after a handler has followed stale data.
DiskNext ==
  \/ ~over /\ \E t \in Task : Step(t)
  \/ ~over /\ ((\E p \in Port : Device(p)) \/ Interrupt)
  \/ Schedule
  \/ Tick

DiskSpec == DiskInit /\ [][DiskNext]_diskVars

\* The scheduler is as fair as RunQueue says, a task that gets the CPU again
\* and again gets on, and a drive ends a command and interrupts.
DiskFairness ==
  /\ Fairness
  /\ \A t \in Task : SF_diskVars(~over /\ (Step(t) \/ (current = t /\ Schedule)))
  /\ \A p \in Port : WF_diskVars(~over /\ Device(p))
  /\ WF_diskVars(~over /\ Interrupt)

FairDiskSpec == DiskSpec /\ DiskFairness

-----------------------------------------------------------------------------
(* Properties.                                                             *)

\* A drive works for the task that has its channel, into a buffer the task
\* still has, until a wait ends early.
DriveServesHolder ==
  \A p \in Port : LET d == drive[p] IN
    d.phase = "busy" /\ early = NoTask =>
      /\ pc[d.by] = "wait" /\ irqData[ChannelOf(p)] = d.by /\ have[d.by] > 0
      /\ \A t \in Task : pc[t] = "wait" /\ ChannelOf(PortOf(t)) = ChannelOf(p) => t = d.by

\* A read that reports success has its sector in the buffer - unless, as an
\* AHCI driver, it looked at the header after another task had cleared it
\* (ahci.c:215), or, as an IDE driver with DMA, it or a task before it was
\* resumed by something else than its interrupt.
ReadsExact ==
  \A t \in Task : pc[t] = "done" /\ ret[t] /\ ~doubtful[t] => buffer[t] = Wanted(t)

\* A channel that is taken is given back: no interrupt is missed, and nobody
\* sleeps with the command done.
ChannelComesFree ==
  \A p \in Port : LET s == sem[ChannelOf(p)] IN
    s.holder # NoTask ~> (s.holder = NoTask \/ early # NoTask \/ over)

=============================================================================
