-------------------------------- MODULE Files --------------------------------
(***************************************************************************)
(* Paths, descriptors and working directories (virtual.c), and the         *)
(* directories of devfs (devfs.c) and of ISO 9660 (iso9660.c).             *)
(*                                                                         *)
(* A reference to a directory entry counts in the entry, in all above it,  *)
(* and in the mount points passed on the way up, but not in the roots of   *)
(* mounted file systems; an entry with the count 0 is not cached.  How     *)
(* entries are found and removed without a lock is the subject of          *)
(* Dentries; here that is one step.  A task may be preempted, or sleep for *)
(* the disk, between two components of a path.                             *)
(***************************************************************************)
EXTENDS Integers, Sequences, FiniteSets, KernelList

CONSTANTS
  Task, Kinit,     \* the tasks, and the first of them
  Fd,              \* the descriptors, 0 .. TASK_MAX_FILES - 1
  FileId, NoFile,  \* the VFSFile structures
  Node, NoNode,    \* the entries of the tree
  Base,            \* the kernel's own root, on which Root is mounted
  Root, DevRoot,   \* the roots of the ISO 9660 file system and of devfs
  Device,          \* the devices, entries of DevRoot
  Up,              \* the parent of an entry; NoNode for Base and mounted roots
  Point,           \* where the roots are mounted; else NoNode
  Directory,       \* the entries that are directories
  Openable,        \* the devices with operations: no block devices
  Runnable,        \* the entries that execve() can load
  IsoOrder,        \* the entries of Root as they stand on the disk
  Request,         \* the look-ups that programs ask for
  Room,            \* how many entries a buffer of getdents64() takes
  WalkLimit,       \* bound: how many tasks walk a path at a time
  StrayLimit       \* bound: no O_DIRECTORY once openFile() has lost as many

ASSUME FilesAssumption ==
  /\ Kinit \in Task /\ NoFile \notin FileId /\ NoNode \notin Node
  /\ Fd \subseteq Nat /\ 0 \in Fd
  /\ Device \cap FileId = {} /\ Device \subseteq Node
  /\ {Base, Root, DevRoot} \subseteq Directory /\ Directory \subseteq Node
  /\ Runnable \cap Directory = {}
  /\ Request \subseteq [kind : {"open", "exec", "chdir"}, absolute : BOOLEAN,
                        mode : {"read", "write", "directory", "cloexec"},
                        steps : Seq(Node \cup {".."})]
  /\ IsFiniteSet(Task) /\ IsFiniteSet(Fd) /\ IsFiniteSet(FileId) /\ IsFiniteSet(Device)
  /\ Room \subseteq Nat /\ IsoOrder \in Seq(Node) /\ IsInjective(IsoOrder)

VARIABLES
  mounts,   \* the mounted roots
  ref,      \* VFSDentry.ref, without the flag of a mount point
  stray,    \* history: references that nobody will give back
  pwd,      \* TaskFileSystem.pwd, NoNode for a task that does not exist
  fd,       \* TaskFiles.fd
  exec,     \* TaskMemory.exec
  file,     \* VFSFile
  walk,     \* the path a task is walking
  devList,  \* devfsRoot.children: devices, and the places of open directories
  listed    \* history: how often a scan of a directory has returned an entry

filesVars == <<mounts, ref, stray, pwd, fd, exec, file, walk, devList, listed>>

NotOpen == [ref |-> 0, node |-> NoNode, seek |-> 0, cloexec |-> FALSE]
NoWalk == [kind |-> "none", mode |-> "read", at |-> NoNode, rest |-> <<>>]
Unlisted == [n \in Node |-> 0]

\* The entry that counts a step up from n: the mount point of a mounted root.
Place(n) == IF Up[n] = NoNode /\ Point[n] # NoNode THEN Point[n] ELSE n

\* The entries a reference to n counts in, from its own place up to Base:
\* vfsLookUpDentry(), vfsLookUpClear().
GoesUp(S) == \A e \in S : Up[e] # NoNode => Place(Up[e]) \in S
Counted == [n \in Node \cup {NoNode} |->
  IF n = NoNode THEN {}
  ELSE {d \in Node : \A S \in SUBSET Node : Place(n) \in S /\ GoesUp(S) => d \in S}]

\* Base has no other entries than what is mounted on it; nothing is below itself.
ASSUME TreeAssumption ==
  /\ Up \in [Node -> Node \cup {NoNode}] /\ Point \in [Node -> Node \cup {NoNode}]
  /\ Base # Root /\ Root # DevRoot /\ DevRoot # Base
  /\ Point[Root] = Base /\ Point[DevRoot] \in Node \ {Base, Root, DevRoot}
  /\ \A n \in Node \ {Base, Root, DevRoot} :
       Up[n] \in Node \ {Base} /\ Point[n] = NoNode /\ n \notin Counted[Up[n]]
  /\ \A n \in {Base, Root, DevRoot} : Up[n] = NoNode
  /\ Point[Base] = NoNode

Load(n, d) == IF d \in Counted[n] THEN 1 ELSE 0
Refer(n) == ref' = [d \in Node |-> ref[d] + Load(n, d)]
Clear(n) == ref' = [d \in Node |-> ref[d] - Load(n, d)]

Alive(t) == pwd[t] # NoNode
Idle(t) == Alive(t) /\ walk[t] = NoWalk

\* mountRoot(): Base has a count of its own, Root and the working directory of
\* the first task refer to it.
FilesInit ==
  /\ mounts = {Root}
  /\ ref = [d \in Node |-> IF d = Base THEN 3 ELSE 0]
  /\ stray = [d \in Node |-> 0]
  /\ pwd = [t \in Task |-> IF t = Kinit THEN Root ELSE NoNode]
  /\ fd = [t \in Task |-> [i \in Fd |-> NoFile]]
  /\ exec = [t \in Task |-> NoFile]
  /\ file = [f \in FileId |-> NotOpen]
  /\ walk = [t \in Task |-> NoWalk]
  /\ devList = SetToSeq(Device)
  /\ listed = [f \in FileId |-> Unlisted]

\* doMount() of devfs, called by kinit() before there is another task.  The
\* mount keeps the reference of its look-up; a mount point in use is -EBUSY.
Mount ==
  /\ DevRoot \notin mounts /\ Idle(Kinit) /\ \A t \in Task \ {Kinit} : ~Alive(t)
  /\ ref[Point[DevRoot]] = 0
  /\ Refer(Point[DevRoot])
  /\ mounts' = mounts \cup {DevRoot}
  /\ UNCHANGED <<stray, pwd, fd, exec, file, walk, devList, listed>>

-----------------------------------------------------------------------------
(* References to files.  drop says how many each file loses.               *)

NoDrop == [f \in FileId |-> 0]
One(f) == [NoDrop EXCEPT ![f] = 1]
Closed(drop) == {f \in FileId : drop[f] > 0 /\ file[f].ref = drop[f]}

\* A slip: the entry of a closed file is not given back.
DroppedKeepingEntry(drop, d) == 0

Dropped(drop, d) == Cardinality({f \in Closed(drop) : d \in Counted[file[f].node]})

\* closeFile(): the last reference takes the cursor out of the directory
\* (devfsClose) and gives the entry back (destoryFile).
CloseFiles(drop) ==
  /\ file' = [f \in FileId |-> IF f \in Closed(drop) THEN NotOpen
                               ELSE [file[f] EXCEPT !.ref = @ - drop[f]]]
  /\ devList' = Without(devList, Closed(drop))
  /\ listed' = [f \in FileId |-> IF f \in Closed(drop) THEN Unlisted ELSE listed[f]]

Uses(t, f) == Cardinality({i \in Fd : fd[t][i] = f}) + (IF exec[t] = f THEN 1 ELSE 0)

Close(t, i) ==
  /\ Idle(t) /\ fd[t][i] # NoFile
  /\ fd' = [fd EXCEPT ![t][i] = NoFile]
  /\ CloseFiles(One(fd[t][i]))
  /\ ref' = [d \in Node |-> ref[d] - Dropped(One(fd[t][i]), d)]
  /\ UNCHANGED <<mounts, stray, pwd, exec, walk>>

\* doDup2(): what the new descriptor was open for is closed first.
Dup2(t, i, j) ==
  LET f == fd[t][i]  old == fd[t][j]
      drop == [g \in FileId |-> (IF g = old THEN 1 ELSE 0) - (IF g = f THEN 1 ELSE 0)]
  IN /\ Idle(t) /\ f # NoFile /\ i # j
     /\ fd' = [fd EXCEPT ![t][j] = f]
     /\ CloseFiles(drop)
     /\ ref' = [d \in Node |-> ref[d] - Dropped(drop, d)]
     /\ UNCHANGED <<mounts, stray, pwd, exec, walk>>

\* doDup() looks at no other descriptor than 0.
Dup(t, i) == fd[t][0] = NoFile /\ Dup2(t, i, 0)

-----------------------------------------------------------------------------
(* vfsLookUp(): kind says for whom.                                        *)

FreeFd(t) == {i \in Fd : fd[t][i] = NoFile}

Begin(t, r) ==
  /\ Idle(t)
  /\ r.kind = "open" => FreeFd(t) # {}
  /\ Cardinality({x \in Task : walk[x] # NoWalk}) < WalkLimit
  /\ r.mode = "directory" => \A n \in Node : stray[n] < StrayLimit
  /\ LET start == IF r.absolute THEN Root ELSE pwd[t]
     IN /\ Refer(start)
        /\ walk' = [walk EXCEPT ![t] =
                      [kind |-> r.kind, mode |-> r.mode, at |-> start, rest |-> r.steps]]
  /\ UNCHANGED <<mounts, stray, pwd, fd, exec, file, devList, listed>>

Walking(t) == walk[t] # NoWalk /\ walk[t].rest # <<>>
Moves(t, n) == walk' = [walk EXCEPT ![t].at = n, ![t].rest = Tail(@)]

\* What is mounted on n, or n: vfsDentryCacheLookUp().
MountedOn(n) ==
  IF \E m \in mounts : Point[m] = n THEN CHOOSE m \in mounts : Point[m] = n ELSE n

\* "..": to the parent, from a mounted root to the parent of its mount point,
\* and nowhere from the root.
Ascend(t) ==
  /\ Walking(t) /\ Head(walk[t].rest) = ".."
  /\ LET n == walk[t].at  up == Up[n]  point == Point[n]
     IN \/ /\ up # NoNode
           /\ ref' = [ref EXCEPT ![n] = @ - 1]
           /\ Moves(t, up)
        \/ /\ up = NoNode /\ n # Root
           /\ ref' = [ref EXCEPT ![point] = @ - 1]
           /\ Moves(t, Up[point])
        \/ /\ n = Root
           /\ Moves(t, n)
           /\ UNCHANGED ref
  /\ UNCHANGED <<mounts, stray, pwd, fd, exec, file, devList, listed>>

Leads(t) ==
  LET c == Head(walk[t].rest)
  IN /\ c # ".." /\ Up[c] = walk[t].at
     /\ Len(walk[t].rest) > 1 => c \in Directory

Descend(t) ==
  /\ Walking(t) /\ Leads(t)
  /\ LET c == Head(walk[t].rest)
     IN /\ ref' = [ref EXCEPT ![c] = @ + 1]
        /\ Moves(t, MountedOn(c))
  /\ UNCHANGED <<mounts, stray, pwd, fd, exec, file, devList, listed>>

\* "failed:", for what is not there and for a file in the middle of a path.
LookUpFails(t) ==
  /\ Walking(t) /\ Head(walk[t].rest) # ".." /\ ~Leads(t)
  /\ Clear(walk[t].at)
  /\ walk' = [walk EXCEPT ![t] = NoWalk]
  /\ UNCHANGED <<mounts, stray, pwd, fd, exec, file, devList, listed>>

Arrived(t, kind) == walk[t] # NoWalk /\ walk[t].rest = <<>> /\ walk[t].kind = kind

-----------------------------------------------------------------------------
(* doOpen(), doChdir() and doExecve() after the look-up.                   *)

\* O_DIRECTORY for something else: openFile() returns without giving the
\* reference back.
OpenStrays(t) ==
  /\ Arrived(t, "open") /\ walk[t].mode = "directory" /\ walk[t].at \notin Directory
  /\ stray' = [d \in Node |-> stray[d] + Load(walk[t].at, d)]
  /\ walk' = [walk EXCEPT ![t] = NoWalk]
  /\ UNCHANGED <<mounts, ref, pwd, fd, exec, file, devList, listed>>

\* No operations (devfsOpen), not read-only (iso9660Open), or no memory.
CanOpen(t) ==
  LET n == walk[t].at
  IN IF n \in Device \cup {DevRoot} THEN n \in Openable \cup {DevRoot}
     ELSE walk[t].mode # "write"

OpenFails(t) ==
  /\ walk[t].kind \in {"open", "exec"} /\ Arrived(t, walk[t].kind)
  /\ ~(walk[t].mode = "directory" /\ walk[t].at \notin Directory)
  /\ ~CanOpen(t) \/ \A f \in FileId : file[f].ref > 0
  /\ Clear(walk[t].at)
  /\ walk' = [walk EXCEPT ![t] = NoWalk]
  /\ UNCHANGED <<mounts, stray, pwd, fd, exec, file, devList, listed>>

\* createFile() and the file system's open; devfsOpen() puts a cursor before
\* all the devices.
NewFile(t, f) ==
  [ref |-> 1, node |-> walk[t].at, seek |-> 0, cloexec |-> walk[t].mode = "cloexec"]

Open(t, f) ==
  /\ Arrived(t, "open") /\ CanOpen(t) /\ file[f].ref = 0
  /\ walk[t].mode = "directory" => walk[t].at \in Directory
  /\ fd' = [fd EXCEPT ![t][Min(FreeFd(t))] = f]
  /\ file' = [file EXCEPT ![f] = NewFile(t, f)]
  /\ devList' = IF walk[t].at = DevRoot THEN Cons(f, devList) ELSE devList
  /\ walk' = [walk EXCEPT ![t] = NoWalk]
  /\ UNCHANGED <<mounts, ref, stray, pwd, exec, listed>>

Chdir(t) ==
  /\ Arrived(t, "chdir")
  /\ LET n == IF walk[t].at \in Directory THEN pwd[t] ELSE walk[t].at
     IN Clear(n)
  /\ pwd' = [pwd EXCEPT ![t] = IF walk[t].at \in Directory THEN walk[t].at ELSE @]
  /\ walk' = [walk EXCEPT ![t] = NoWalk]
  /\ UNCHANGED <<mounts, stray, fd, exec, file, devList, listed>>

\* doExecve() gives up after it has opened the file: closeFile().
ExecFails(t) ==
  /\ Arrived(t, "exec") /\ CanOpen(t)
  /\ Clear(walk[t].at)
  /\ walk' = [walk EXCEPT ![t] = NoWalk]
  /\ UNCHANGED <<mounts, stray, pwd, fd, exec, file, devList, listed>>

\* The file stays open for the new memory, that of the old memory and those
\* opened with O_CLOEXEC are closed.
Exec(t, f) ==
  LET closing == {i \in Fd : fd[t][i] # NoFile /\ file[fd[t][i]].cloexec}
      drop == [g \in FileId |-> Cardinality({i \in closing : fd[t][i] = g})
                                + (IF exec[t] = g THEN 1 ELSE 0)]
  IN /\ Arrived(t, "exec") /\ walk[t].at \in Runnable /\ file[f].ref = 0
     /\ fd' = [fd EXCEPT ![t] = [i \in Fd |-> IF i \in closing THEN NoFile ELSE @[i]]]
     /\ exec' = [exec EXCEPT ![t] = f]
     /\ file' = [g \in FileId |->
          IF g = f THEN NewFile(t, f)
          ELSE IF g \in Closed(drop) THEN NotOpen ELSE [file[g] EXCEPT !.ref = @ - drop[g]]]
     /\ devList' = Without(devList, Closed(drop))
     /\ listed' = [g \in FileId |-> IF g \in Closed(drop) THEN Unlisted ELSE listed[g]]
     /\ ref' = [d \in Node |-> ref[d] - Dropped(drop, d)]
     /\ walk' = [walk EXCEPT ![t] = NoWalk]
     /\ UNCHANGED <<mounts, stray, pwd>>

-----------------------------------------------------------------------------
(* doFork() and doExit().                                                  *)

\* A slip: the child gets the descriptors, but not the references.
ForkUncounted(t, c) ==
  /\ Idle(t) /\ DevRoot \in mounts /\ ~Alive(c)
  /\ pwd' = [pwd EXCEPT ![c] = pwd[t]]
  /\ fd' = [fd EXCEPT ![c] = fd[t]]
  /\ exec' = [exec EXCEPT ![c] = exec[t]]
  /\ file' = [f \in FileId |-> [file[f] EXCEPT !.ref = @ + (IF exec[t] = f THEN 1 ELSE 0)]]
  /\ ref' = [d \in Node |-> ref[d] + Load(Root, d) + Load(pwd[t], d)]
  /\ UNCHANGED <<mounts, stray, walk, devList, listed>>

\* taskForkMemory(), taskForkFileSystem(), taskForkFiles()
Fork(t, c) ==
  /\ Idle(t) /\ DevRoot \in mounts /\ ~Alive(c)
  /\ pwd' = [pwd EXCEPT ![c] = pwd[t]]
  /\ fd' = [fd EXCEPT ![c] = fd[t]]
  /\ exec' = [exec EXCEPT ![c] = exec[t]]
  /\ file' = [f \in FileId |-> [file[f] EXCEPT !.ref = @ + Uses(t, f)]]
  /\ ref' = [d \in Node |-> ref[d] + Load(Root, d) + Load(pwd[t], d)]
  /\ UNCHANGED <<mounts, stray, walk, devList, listed>>

\* taskExitMemory(), taskExitFileSystem(), taskExitFiles()
Exit(t) ==
  LET drop == [f \in FileId |-> Uses(t, f)]
  IN /\ Idle(t) /\ t # Kinit
     /\ pwd' = [pwd EXCEPT ![t] = NoNode]
     /\ fd' = [fd EXCEPT ![t] = [i \in Fd |-> NoFile]]
     /\ exec' = [exec EXCEPT ![t] = NoFile]
     /\ CloseFiles(drop)
     /\ ref' = [d \in Node |->
                  ref[d] - Load(Root, d) - Load(pwd[t], d) - Dropped(drop, d)]
     /\ UNCHANGED <<mounts, stray, walk>>

-----------------------------------------------------------------------------
(* doGetDents64(): what has no room is not stored.                         *)

Smaller(m, n) == IF m < n THEN m ELSE n
Lists(f, entries) ==
  listed' = [listed EXCEPT ![f] = [n \in Node |-> @[n] + (IF n \in ToSet(entries) THEN 1 ELSE 0)]]

\* The devices behind the cursor.
Remaining(f) == Without(devList, FileId \cup {d \in Device : Precedes(d, f, devList)})

\* A slip: the cursor is put behind the entry that had no room.
MoveCursorBehind(f, n) ==
  LET others == Without(devList, {f})
      later == SubSeq(Remaining(f), n + 1, Len(Remaining(f)))
  IN devList' = IF later = <<>> THEN Append(others, f)
                ELSE InsertAt(others, (CHOOSE k \in DOMAIN others : others[k] = Head(later)) + 1, f)

\* The cursor moves to just before the first entry that has not been stored.
MoveCursor(f, n) ==
  LET others == Without(devList, {f})
      later == SubSeq(Remaining(f), n + 1, Len(Remaining(f)))
  IN devList' = IF later = <<>> THEN Append(others, f)
                ELSE InsertAt(others, CHOOSE k \in DOMAIN others : others[k] = Head(later), f)

\* devfsReadDir(): "." and ".." first (seek), then the devices after the
\* cursor, passing other cursors over.
DevfsReadDir(f, room) ==
  LET dots == Smaller(2, file[f].seek + room)
      left == room - (dots - file[f].seek)
      n == Smaller(left, Len(Remaining(f)))
  IN /\ file[f].node = DevRoot
     /\ file' = [file EXCEPT ![f].seek = dots]
     /\ IF dots = 2
        THEN MoveCursor(f, n) /\ Lists(f, SubSeq(Remaining(f), 1, n))
        ELSE UNCHANGED <<devList, listed>>

\* iso9660ReadDir(): seek goes past the entry that had no room, too.
Iso9660ReadDir(f, room) ==
  LET seek == file[f].seek
      last == Smaller(seek + room, Len(IsoOrder))
  IN /\ file[f].node = Root
     /\ file' = [file EXCEPT ![f].seek = Smaller(last + 1, Len(IsoOrder))]
     /\ Lists(f, SubSeq(IsoOrder, seek + 1, last))
     /\ UNCHANGED devList

GetDents(t, i, room) ==
  /\ Idle(t) /\ fd[t][i] # NoFile
  /\ DevfsReadDir(fd[t][i], room) \/ Iso9660ReadDir(fd[t][i], room)
  /\ UNCHANGED <<mounts, ref, stray, pwd, fd, exec, walk>>

-----------------------------------------------------------------------------

Call(t) ==
  \/ \E i \in Fd : Close(t, i) \/ Dup(t, i) \/ \E j \in Fd : Dup2(t, i, j)
  \/ \E i \in Fd, room \in Room : GetDents(t, i, room)
  \/ \E r \in Request : Begin(t, r)
  \/ Exit(t) \/ \E c \in Task : Fork(t, c)

Continue(t) ==
  \/ Ascend(t) \/ Descend(t) \/ LookUpFails(t)
  \/ OpenStrays(t) \/ OpenFails(t) \/ Chdir(t) \/ ExecFails(t)
  \/ \E f \in FileId : Open(t, f) \/ Exec(t, f)

FilesNext == Mount \/ \E t \in Task : Call(t) \/ Continue(t)

FilesSpec == FilesInit /\ [][FilesNext]_filesVars

-----------------------------------------------------------------------------
(* Properties.                                                             *)

\* The count of an entry is the number of those who stand at it or below it:
\* tasks by their root, their working directory and the path they walk, open
\* files, and mounts; plus what openFile() has lost.  The count of a file is the
\* number of descriptors and of memories that refer to it.
CountsExact ==
  /\ \A d \in Node :
       ref[d] = (IF d = Base THEN 1 ELSE 0) + stray[d]
                + Cardinality({t \in Task : Alive(t) /\ d \in Counted[Root]})
                + Cardinality({t \in Task : d \in Counted[pwd[t]]})
                + Cardinality({t \in Task : d \in Counted[walk[t].at]})
                + Cardinality({f \in FileId : d \in Counted[file[f].node]})
                + Cardinality({m \in mounts \ {Root} : d \in Counted[Point[m]]})
  /\ \A f \in FileId :
       file[f].ref = Cardinality({x \in Task \X Fd : fd[x[1]][x[2]] = f})
                     + Cardinality({t \in Task : exec[t] = f})

\* A scan of the devices returns each of them once, however it is cut into
\* calls and whatever other scans there are: those before the cursor have been
\* returned, those behind it are still to come.  A scan of an ISO 9660
\* directory returns none twice (it may leave some out).
ScansExact ==
  \A f \in FileId :
    /\ file[f].node = DevRoot =>
         \A d \in Device :
           listed[f][d] = IF Precedes(d, f, devList) THEN 1 ELSE 0
    /\ file[f].node = Root =>
         \A k \in DOMAIN IsoOrder :
           listed[f][IsoOrder[k]] <= IF k <= file[f].seek THEN 1 ELSE 0

\* A file is open exactly as long as somebody refers to it: see Descriptors.
D == INSTANCE Descriptors
       WITH open <- [f \in {g \in FileId : file[g].ref > 0} |-> file[f].node]
ImplementsDescriptors == D!Spec

=============================================================================
