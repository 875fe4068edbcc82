------------------------------- MODULE SgList -------------------------------
(***************************************************************************)
(* socDma (soc_miner.c) as a walk through what it acquires and gives back: *)
(* the array of pages, the scatter-gather table, mmap_sem, the pinned      *)
(* pages, the mapping, and the arithmetic that cuts the user's buffer into *)
(* one entry per page.  SocDma models what the launches do; here a launch  *)
(* succeeds or fails.  One call at a time: each call has its own locals.   *)
(***************************************************************************)
EXTENDS Integers, Sequences

CONSTANTS
  WORD,               \* one more than the largest uint32_t
  PAGE_SIZE

ASSUME SgAssumption == WORD \in Nat \ {0} /\ PAGE_SIZE \in Nat \ {0}

VARIABLES
  at,                 \* where the call is
  host, nbyte,        \* its parameters hostAddress and nbyte
  dev_virtaddr,       \* TRUE iff probe's ioremap, which it does not check, worked
  nr_pages,           \* pages wanted, then pages pinned
  held,               \* what the call has acquired and not given back
  pins,               \* references get_user_pages took and nobody dropped
  bytesLeft,
  sg,                 \* the entries written: offset and length in a page
  sgNumTotal, sgNum,  \* entries mapped; entries launched
  result              \* what socDma returns

request == <<host, nbyte, dev_virtaddr>>
list == <<bytesLeft, sg>>
launches == <<sgNumTotal, sgNum>>
sgVars == <<at, request, nr_pages, held, pins, list, launches, result>>

Resources == {"pages", "table", "mmap_sem", "map"}

SgTypeOK ==
  /\ at \in {"idle", "pages", "table", "mmap", "vma", "pin", "first", "next", "map",
             "launch", "unmap", "peek", "release", "done", "oops"}
  /\ host \in Nat /\ nbyte \in Nat /\ dev_virtaddr \in BOOLEAN /\ nr_pages \in Nat
  /\ held \in SUBSET Resources
  /\ pins \in Nat
  /\ bytesLeft \in Int
  /\ sg \in Seq([offset : Nat, length : Nat])
  /\ sgNumTotal \in Nat /\ sgNum \in Nat
  /\ result \in {"ok", "error"}

SgInit ==
  /\ at = "idle"
  /\ host = 0 /\ nbyte = 0 /\ dev_virtaddr \in BOOLEAN /\ nr_pages = 0
  /\ held = {} /\ pins = 0 /\ bytesLeft = 0
  /\ sg = <<>> /\ sgNumTotal = 0 /\ sgNum = 0
  /\ result = "ok"

Offset == host % PAGE_SIZE

PagesOf(h, n) == (((h % PAGE_SIZE) + n + PAGE_SIZE - 1) % WORD) \div PAGE_SIZE

\* The pages the buffer lies on.
Wanted == PagesOf(host, nbyte)

Enter(h, n) ==
  /\ at = "idle"
  /\ at' = "pages"
  /\ host' = h /\ nbyte' = n /\ nr_pages' = PagesOf(h, n)
  /\ UNCHANGED <<dev_virtaddr, held, pins, list, launches, result>>

\* An early return, with whatever is held.
Fail ==
  /\ at' = "done"
  /\ result' = "error"
  /\ UNCHANGED <<request, nr_pages, pins, list, launches>>

AllocPages ==
  /\ at = "pages"
  /\ \/ /\ held' = held \cup {"pages"}
        /\ at' = "table"
        /\ UNCHANGED <<request, nr_pages, pins, list, launches, result>>
     \/ Fail /\ UNCHANGED held

AllocTable ==
  /\ at = "table"
  /\ \/ /\ held' = held \cup {"table"}
        /\ at' = "mmap"
        /\ UNCHANGED <<request, nr_pages, pins, list, launches, result>>
     \/ Fail /\ UNCHANGED held

DownRead ==
  /\ at = "mmap"
  /\ held' = held \cup {"mmap_sem"}
  /\ at' = "vma"
  /\ UNCHANGED <<request, nr_pages, pins, list, launches, result>>

\* Mutant: the way out without a VMA keeps mmap_sem.
FindVma_NoUpRead ==
  /\ at = "vma"
  /\ \/ at' = "pin" /\ UNCHANGED <<request, nr_pages, pins, list, launches, result>>
     \/ Fail
  /\ UNCHANGED held

FindVma ==
  /\ at = "vma"
  /\ \/ /\ at' = "pin"
        /\ UNCHANGED <<request, nr_pages, held, pins, list, launches, result>>
     \/ Fail /\ held' = held \ {"mmap_sem"}

\* get_user_pages pins a prefix of the pages, or fails on the first one.
GetUserPages ==
  /\ at = "pin"
  /\ held' = held \ {"mmap_sem"}
  /\ \/ \E res \in 0 .. nr_pages :
          /\ res = 0 => nr_pages = 0
          /\ pins' = pins + res
          /\ nr_pages' = res
          /\ bytesLeft' = nbyte
          /\ at' = "first"
          /\ UNCHANGED <<request, sg, launches, result>>
     \/ nr_pages > 0 /\ Fail

-----------------------------------------------------------------------------
(* The list: one entry per page *)

Entry(o, n) == [offset |-> o, length |-> n]

\* pages[0] of an array of no pages is no pointer.
NoPage ==
  /\ at = "first" /\ nr_pages = 0
  /\ at' = "oops"
  /\ UNCHANGED <<request, nr_pages, held, pins, list, launches, result>>

OnlyEntry ==
  /\ at = "first" /\ nr_pages = 1
  /\ sg' = <<Entry(Offset, bytesLeft)>>
  /\ at' = "map"
  /\ UNCHANGED <<request, nr_pages, held, pins, bytesLeft, launches, result>>

FirstEntry ==
  /\ at = "first" /\ nr_pages > 1
  /\ sg' = <<Entry(Offset, PAGE_SIZE - Offset)>>
  /\ bytesLeft' = bytesLeft - (PAGE_SIZE - Offset)
  /\ at' = "next"
  /\ UNCHANGED <<request, nr_pages, held, pins, launches, result>>

\* Mutant: the last entry is a whole page, too.
NextEntry_Whole ==
  /\ at = "next"
  /\ sg' = Append(sg, Entry(0, PAGE_SIZE))
  /\ bytesLeft' = bytesLeft - PAGE_SIZE
  /\ at' = IF Len(sg) + 1 < nr_pages THEN "next" ELSE "map"
  /\ UNCHANGED <<request, nr_pages, held, pins, launches, result>>

\* bytesLeft is compared with an unsigned PAGE_SIZE.
NextEntry ==
  /\ at = "next"
  /\ sg' = Append(sg, Entry(0, IF bytesLeft % WORD < PAGE_SIZE THEN bytesLeft % WORD
                               ELSE PAGE_SIZE))
  /\ bytesLeft' = bytesLeft - PAGE_SIZE
  /\ at' = IF Len(sg) + 1 < nr_pages THEN "next" ELSE "map"
  /\ UNCHANGED <<request, nr_pages, held, pins, launches, result>>

-----------------------------------------------------------------------------
(* Map, launch, unmap, release *)

MapSg ==
  /\ at = "map"
  /\ \/ /\ sgNumTotal' = nr_pages
        /\ held' = held \cup {"map"}
        /\ at' = "launch"
        /\ UNCHANGED result
     \/ /\ sgNumTotal' = 0
        /\ result' = "error"
        /\ at' = "unmap"
        /\ UNCHANGED held
  /\ UNCHANGED <<request, nr_pages, pins, list, sgNum>>

\* Mutant: a failed launch is not followed by dma_unmap_sg.
Launch_NoUnmap ==
  /\ at = "launch"
  /\ \/ /\ dev_virtaddr
        /\ sgNum' = sgNum + 1
        /\ at' = IF sgNum + 1 < sgNumTotal THEN "launch" ELSE "unmap"
        /\ UNCHANGED result
     \/ /\ result' = "error"
        /\ at' = "peek"
        /\ UNCHANGED sgNum
     \/ /\ ~dev_virtaddr
        /\ at' = "oops"
        /\ UNCHANGED <<sgNum, result>>
  /\ UNCHANGED <<request, nr_pages, held, pins, list, sgNumTotal>>

\* launchDma starts one access and waits for it, or fails; registers that are
\* not mapped kill the caller, unless the page is out of range before that.
Launch ==
  /\ at = "launch"
  /\ \/ /\ dev_virtaddr
        /\ sgNum' = sgNum + 1
        /\ at' = IF sgNum + 1 < sgNumTotal THEN "launch" ELSE "unmap"
        /\ UNCHANGED result
     \/ /\ result' = "error"
        /\ at' = "unmap"
        /\ UNCHANGED sgNum
     \/ /\ ~dev_virtaddr
        /\ at' = "oops"
        /\ UNCHANGED <<sgNum, result>>
  /\ UNCHANGED <<request, nr_pages, held, pins, list, sgNumTotal>>

Unmap ==
  /\ at = "unmap"
  /\ held' = held \ {"map"}
  /\ at' = "peek"
  /\ UNCHANGED <<request, nr_pages, pins, list, launches, result>>

\* The debugging print reads the first bytes at the user's address, however
\* short the buffer is.  A pinned page is still in memory but need not be at
\* that address: another thread may have unmapped it during the wait.
Peek ==
  /\ at = "peek"
  /\ at' \in {"release", "oops"}
  /\ UNCHANGED <<request, nr_pages, held, pins, list, launches, result>>

\* Mutant: as many pages are released as were wanted.
Release_Wanted ==
  /\ at = "release"
  /\ pins' = pins - Wanted
  /\ held' = held \ {"table", "pages"}
  /\ at' = "done"
  /\ UNCHANGED <<request, nr_pages, list, launches, result>>

Release ==
  /\ at = "release"
  /\ pins' = pins - nr_pages
  /\ held' = held \ {"table", "pages"}
  /\ at' = "done"
  /\ UNCHANGED <<request, nr_pages, list, launches, result>>

SgNext ==
  \/ AllocPages \/ AllocTable \/ DownRead \/ FindVma \/ GetUserPages
  \/ NoPage \/ OnlyEntry \/ FirstEntry \/ NextEntry
  \/ MapSg \/ Launch \/ Unmap \/ Peek \/ Release

-----------------------------------------------------------------------------
(* Properties *)

\* get_user_pages stopped before the end of the buffer.
ShortPin == nr_pages < Wanted

Segment(k) == sg[k].offset .. (sg[k].offset + sg[k].length - 1)

\* The byte at offset o of the buffer's k-th page is one of the request's.
Requested(k, o) == (k - 1) * PAGE_SIZE + o - Offset \in 0 .. nbyte - 1

\* The list that is mapped covers, page by page, the bytes of the request
\* and no others (504-666).  When only one of several pages was pinned, its
\* entry is given the length of the whole request (664).
SegmentsCover ==
  at \in {"map", "launch"} /\ ~(ShortPin /\ nr_pages = 1) =>
    /\ Len(sg) = nr_pages
    /\ ~ShortPin => Offset + nbyte <= nr_pages * PAGE_SIZE
    /\ \A k \in 1 .. nr_pages :
         Segment(k) = {o \in 0 .. PAGE_SIZE - 1 : Requested(k, o)}

\* When socDma returns, mmap_sem is free, no page stays pinned or mapped, and
\* a call that pinned its pages has freed everything: only a failure of
\* sg_alloc_table, find_vma or get_user_pages leaves memory behind.
Released ==
  at = "done" =>
    /\ pins = 0
    /\ held \subseteq {"pages", "table"}
    /\ sg # <<>> \/ result = "ok" => held = {}
=============================================================================
