-------------------------------- MODULE Buddy --------------------------------
(***************************************************************************)
(* The buddy system (buddy.c): allocPages(), allocAlignedPages(),          *)
(* allocDMAPages(), freePages(), which is dereferencePage() too, and       *)
(* referencePage().                                                        *)
(*                                                                         *)
(* A step is what happens under the lock of one order, or between two such *)
(* steps.  The locks do not cover what surrounds them: a block that is     *)
(* taken off its list looks free until its count is raised, and a tick in  *)
(* between lets another task merge it.  What calls promise that do not     *)
(* overlap is stated here: a call ends before another task begins one.     *)
(*                                                                         *)
(* The pages begin at a multiple of the largest block and their number is  *)
(* one: beyond them freePages() would read what is not a PhysicsPage.      *)
(***************************************************************************)
EXTENDS Integers, Sequences, FiniteSets, KernelList

CONSTANTS
  Top,         \* MAX_ORDER - 1
  PageCount,   \* physicsPageCount
  Usable,      \* the pages parseMemoryInformation() frees
  Low,         \* the pages allocDMAPages() may use are those below this one
  Caller,
  MaxCount     \* bound of a page's reference count

Order == 0..Top
PageIndex == 0..PageCount - 1

\* 1 << order: the pages of a block.
Size[o \in Order] == IF o = 0 THEN 1 ELSE 2 * Size[o - 1]
Aligned(p, o) == p % Size[o] = 0

ASSUME BuddyAssumption ==
  /\ Top \in Nat /\ PageCount \in Nat \ {0} /\ Aligned(PageCount, Top)
  /\ Usable \subseteq PageIndex /\ Low \in Nat
  /\ MaxCount \in Nat \ {0}

VARIABLES
  list,    \* buddyFreeList, the first pages of the free blocks of each order
  count,   \* PhysicsPage.count
  flag,    \* PageData in PhysicsPage.flags
  blockOrder, \* PhysicsPage.data, the order of a free block
  held,    \* the blocks in use, as <<first page, order>>
  doing    \* where the call of each task is

fields == <<count, flag, blockOrder>>
buddyVars == <<list, count, flag, blockOrder, held, doing>>

(***************************************************************************)
(* A call that looks for a block of an order in the list of order "at",    *)
(* has taken it, splits it, has put the upper half on a list, or returns   *)
(* 0; and a call that frees: "page" is its argument, "index" pageIndex.    *)
(***************************************************************************)
NoCall == [pc |-> "idle"]
AllocCall == [pc : {"look", "taken", "split", "put", "refused"}, order : Order,
              low : BOOLEAN, at : Order, page : PageIndex]
FreeCall == [pc : {"merge"}, page : PageIndex, index : PageIndex, at : Order]

BuddyTypeOK ==
  /\ list \in [Order -> Seq(PageIndex)]
  /\ \A o \in Order : IsInjective(list[o]) /\ \A p \in ToSet(list[o]) : Aligned(p, o)
  /\ count \in [PageIndex -> 0..MaxCount]
  /\ flag \in [PageIndex -> BOOLEAN]
  /\ blockOrder \in [PageIndex -> Order]
  /\ held \in SUBSET (PageIndex \X Order)
  /\ doing \in [Caller -> {NoCall} \cup AllocCall \cup FreeCall]

\* initBuddySystem(): every page is in use; booting will free the usable ones.
BuddyInit ==
  /\ list = [o \in Order |-> <<>>]
  /\ count = [p \in PageIndex |-> 1]
  /\ flag = [p \in PageIndex |-> FALSE]
  /\ blockOrder = [p \in PageIndex |-> 0]
  /\ held = Usable \X {0}
  /\ doing = [t \in Caller |-> NoCall]

-----------------------------------------------------------------------------

Begins(t) ==
  /\ doing[t] = NoCall
  /\ \A u \in Caller : doing[u].pc \in {"idle", "refused"}
Goes(t, c) == doing' = [doing EXCEPT ![t] = c]

(* allocPages(), allocAlignedPages(), allocDMAPages()                      *)

AllocPages(t, o, low) ==
  /\ Begins(t)
  /\ Goes(t, [pc |-> "look", order |-> o, low |-> low, at |-> o, page |-> 0])
  /\ UNCHANGED <<list, count, flag, blockOrder, held>>

\* Free blocks are aligned, as allocAlignedPages() demands.
Suits(p, low) == low => p < Low

\* The first free block of the list that suits is taken off; and when there is
\* none the next list comes.
TakeFirst(t) ==
  LET c == doing[t]
      l == list[c.at]
  IN \E k \in DOMAIN l :
       /\ Suits(l[k], c.low) /\ \A j \in 1..k - 1 : ~Suits(l[j], c.low)
       /\ list' = [list EXCEPT ![c.at] = ListDelete(@, l[k])]
       /\ Goes(t, [c EXCEPT !.pc = "taken", !.page = l[k]])
NoneSuits(t) == \A p \in ToSet(list[doing[t].at]) : ~Suits(p, doing[t].low)

\* A slip: the last order is left out.
LookBelow(t) ==
  LET c == doing[t]
  IN /\ c.pc = "look"
     /\ \/ TakeFirst(t)
        \/ /\ NoneSuits(t)
           /\ Goes(t, IF c.at + 1 < Top THEN [c EXCEPT !.at = @ + 1]
                                        ELSE [c EXCEPT !.pc = "refused"])
           /\ UNCHANGED list
     /\ UNCHANGED <<count, flag, blockOrder, held>>

Look(t) ==
  LET c == doing[t]
  IN /\ c.pc = "look"
     /\ \/ TakeFirst(t)
        \/ /\ NoneSuits(t)
           /\ Goes(t, IF c.at < Top THEN [c EXCEPT !.at = @ + 1]
                                    ELSE [c EXCEPT !.pc = "refused"])
           /\ UNCHANGED list
     /\ UNCHANGED <<count, flag, blockOrder, held>>

AllocFails(t) ==
  /\ doing[t].pc = "refused"
  /\ Goes(t, NoCall)
  /\ UNCHANGED <<list, count, flag, blockOrder, held>>

\* The lock is released; only now the block stops to look free.
Taken(t) ==
  LET p == doing[t].page
  IN /\ doing[t].pc = "taken"
     /\ count' = [count EXCEPT ![p] = @ + 1]
     /\ flag' = [flag EXCEPT ![p] = FALSE]
     /\ blockOrder' = [blockOrder EXCEPT ![p] = 0]
     /\ Goes(t, [doing[t] EXCEPT !.pc = "split"])
     /\ UNCHANGED <<list, held>>

\* "Split the page": the upper half goes to the list of its order ...
Split(t) ==
  LET c == doing[t]
  IN /\ c.pc = "split" /\ c.at > c.order
     /\ list' = [list EXCEPT ![c.at - 1] = Append(@, c.page + Size[c.at - 1])]
     /\ Goes(t, [c EXCEPT !.pc = "put", !.at = @ - 1])
     /\ UNCHANGED <<count, flag, blockOrder, held>>

\* ... and looks free after that.
PutUpper(t) ==
  LET c == doing[t]
      buddy == c.page + Size[c.at]
  IN /\ c.pc = "put"
     /\ flag' = [flag EXCEPT ![buddy] = TRUE]
     /\ blockOrder' = [blockOrder EXCEPT ![buddy] = c.at]
     /\ Goes(t, [c EXCEPT !.pc = "split"])
     /\ UNCHANGED <<list, count, held>>

AllocReturns(t) ==
  LET c == doing[t]
  IN /\ c.pc = "split" /\ c.at = c.order
     /\ held' = held \cup {<<c.page, c.order>>}
     /\ Goes(t, NoCall)
     /\ UNCHANGED <<list, count, flag, blockOrder>>

-----------------------------------------------------------------------------
(* referencePage() and freePages()                                         *)

ReferencePage(b) ==
  /\ b \in held
  /\ count[b[1]] \in 1..MaxCount - 1
  /\ count' = [count EXCEPT ![b[1]] = @ + 1]
  /\ UNCHANGED <<list, flag, blockOrder, held, doing>>

\* Only the last reference frees the block, which is then on no list yet.
FreePages(t, b) ==
  /\ Begins(t)
  /\ b \in held
  /\ count' = [count EXCEPT ![b[1]] = @ - 1]
  /\ IF count[b[1]] > 1
     THEN UNCHANGED <<held, doing>>
     ELSE /\ held' = held \ {b}
          /\ Goes(t, [pc |-> "merge", page |-> b[1], index |-> b[1], at |-> b[2]])
  /\ UNCHANGED <<list, flag, blockOrder>>

\* pageIndex ^ (1 << order)
BuddyOf(p, o) == IF (p \div Size[o]) % 2 = 0 THEN p + Size[o] ELSE p - Size[o]

\* A slip: neither PageData nor the order of the buddy is looked at.
PageIsBuddyAny(p, o) == count[p] = 0

\* pageIsBuddy()
PageIsBuddy(p, o) == count[p] = 0 /\ flag[p] /\ blockOrder[p] = o

\* "Try to merge": one round of the loop, under the lock of the order.
Merge(t) ==
  LET c == doing[t]
      buddy == BuddyOf(c.index, c.at)
  IN /\ c.pc = "merge"
     /\ c.at < Top /\ PageIsBuddy(buddy, c.at)
     /\ flag' = [flag EXCEPT ![c.page] = FALSE]
     /\ blockOrder' = [blockOrder EXCEPT ![c.page] = 0]
     /\ list' = [list EXCEPT ![c.at] = ListDelete(@, buddy)]
     /\ Goes(t, [c EXCEPT !.index = IF buddy < @ THEN buddy ELSE @, !.at = @ + 1])
     /\ UNCHANGED <<count, held>>

\* The rest, under the lock of the last order.
FreeReturns(t) ==
  LET c == doing[t]
  IN /\ c.pc = "merge"
     /\ ~(c.at < Top /\ PageIsBuddy(BuddyOf(c.index, c.at), c.at))
     /\ flag' = [flag EXCEPT ![c.index] = TRUE]
     /\ blockOrder' = [blockOrder EXCEPT ![c.index] = c.at]
     /\ count' = [count EXCEPT ![c.index] = 0]
     /\ list' = [list EXCEPT ![c.at] = Append(@, c.index)]
     /\ Goes(t, NoCall)
     /\ UNCHANGED held

-----------------------------------------------------------------------------

BuddyNext ==
  \E t \in Caller :
    \/ \E o \in Order, low \in BOOLEAN : AllocPages(t, o, low)
    \/ Look(t) \/ AllocFails(t) \/ Taken(t) \/ Split(t) \/ PutUpper(t) \/ AllocReturns(t)
    \/ \E b \in held : FreePages(t, b) \/ ReferencePage(b)
    \/ Merge(t) \/ FreeReturns(t)

BuddySpec == BuddyInit /\ [][BuddyNext]_buddyVars

-----------------------------------------------------------------------------
(* Properties.                                                             *)

BlockPages(p, o) == p .. p + Size[o] - 1

\* The blocks the calls have between their fingers: an allocated one and what
\* is left of the block it is cut from, and a freed one.
Cut(t) ==
  IF doing[t].pc \in {"taken", "split", "put"}
  THEN {<<doing[t].page, doing[t].order>>} ELSE {}
Rest(t) ==
  LET c == doing[t]
  IN CASE c.pc \in {"taken", "split", "put"} ->
            BlockPages(c.page, c.at) \ BlockPages(c.page, c.order)
       [] c.pc = "merge" -> BlockPages(c.index, c.at)
       [] OTHER -> {}

ListedBlocks == UNION {{<<p, o>> : p \in ToSet(list[o])} : o \in Order}
InUse == held \cup UNION {Cut(t) : t \in Caller}
PagesOf(blocks) == UNION {BlockPages(b[1], b[2]) : b \in blocks}
Disjoint(blocks) ==
  \A b, c \in blocks : b # c => BlockPages(b[1], b[2]) \cap BlockPages(c[1], c[2]) = {}

Partitioned ==
  LET rest == UNION {Rest(t) : t \in Caller}
      blocks == ListedBlocks \cup InUse
  IN /\ ListedBlocks \cap InUse = {} /\ \A t \in Caller : Cut(t) \cap held = {}
     /\ Disjoint(blocks)
     /\ rest \cap PagesOf(blocks) = {}
     /\ rest \cup PagesOf(blocks) = Usable

Coalesced ==
  \A o \in 0..Top - 1 : \A p \in ToSet(list[o]) : BuddyOf(p, o) \notin ToSet(list[o])

\* No page is in two blocks, be they free, in use or on their way, and none is
\* forgotten; and two free buddies are one block, which keeps large blocks
\* available.
PagesPartitioned == Partitioned /\ Coalesced

\* The buddy system is a page allocator: a block changes hands when it is taken
\* off its list, and when the last reference goes.
A == INSTANCE PageAllocator WITH
       Page <- PageIndex, Task <- Caller,
       free <- PagesOf(ListedBlocks) \cup UNION {Rest(t) : t \in Caller},
       held <- InUse,
       refused <- [t \in Caller |->
         IF doing[t].pc = "refused" THEN <<doing[t].order, doing[t].low>> ELSE <<>>]
ImplementsPageAllocator == A!Spec

=============================================================================
