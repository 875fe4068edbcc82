----------------------------- MODULE SgList_proofs -----------------------------
(***************************************************************************)
(* socDma's resources and its scatter-gather list, for every buffer whose  *)
(* sizes fit a word: lemmas about one call, for the theorems of            *)
(* SocIoctl_proofs.                                                        *)
(*                                                                         *)
(* SegmentsCover compares the list with the request; the invariant SgInv   *)
(* says what each entry is as soon as it is written, and what is held,     *)
(* pinned and launched at every step.                                      *)
(***************************************************************************)
EXTENDS SgList, TLAPS

USE SgAssumption DEF SgAssumption

\* The buffer and the rounding up fit a word.
Fits == nbyte + 2 * PAGE_SIZE <= WORD

-----------------------------------------------------------------------------
(* Arithmetic *)

\* A number below the modulus is its own remainder.
LEMMA ModSmall == ASSUME NEW m \in Nat \ {0}, NEW x \in 0 .. m - 1 PROVE x % m = x
OBVIOUS

\* A remainder lies below the modulus.
LEMMA ModRange == ASSUME NEW m \in Nat \ {0}, NEW x \in Int PROVE x % m \in 0 .. m - 1
OBVIOUS

\* The quotient of a number that is not negative is not.
LEMMA QuotientSign ==
  ASSUME NEW m \in Nat \ {0}, NEW q \in Int, NEW r \in 0 .. m - 1, m * q + r >= 0
  PROVE  q >= 0
<1>1. SUFFICES ASSUME q <= -1 PROVE FALSE
  OBVIOUS
<1>2. m * (q + 1) <= 0
  BY <1>1
<1>3. m * q <= -m
  BY <1>2
<1>4. QED
  BY <1>3

\* A quotient lies between its multiples.
LEMMA Quotient ==
  ASSUME NEW m \in Nat \ {0}, NEW x \in Nat
  PROVE  /\ x \div m \in Nat
         /\ (x \div m) * m <= x
         /\ x < (x \div m) * m + m
<1> DEFINE q == x \div m
           r == x % m
<1>1. q \in Int /\ r \in 0 .. m - 1 /\ x = m * q + r /\ x = q * m + r
  OBVIOUS
<1> HIDE DEF q, r
<1>2. q >= 0
  BY <1>1, QuotientSign
<1>3. q \in Nat /\ q * m <= x /\ x < q * m + m
  BY <1>1, <1>2
<1>4. QED
  BY <1>3 DEF q

\* Multiplying keeps the order.
LEMMA TimesMono ==
  ASSUME NEW a \in Int, NEW b \in Int, NEW s \in Nat, a <= b
  PROVE  a * s <= b * s
OBVIOUS

\* Wanted is the least number of pages that hold the buffer.
LEMMA WantedPages ==
  ASSUME host \in Nat, nbyte \in Nat, Fits
  PROVE  /\ Offset \in 0 .. PAGE_SIZE - 1
         /\ Wanted \in Nat
         /\ Offset + nbyte <= Wanted * PAGE_SIZE
         /\ (Wanted - 1) * PAGE_SIZE < Offset + nbyte
<1> DEFINE x == Offset + nbyte + PAGE_SIZE - 1
<1>1. Offset \in 0 .. PAGE_SIZE - 1
  BY ModRange DEF Offset
<1>2. x \in Nat /\ x \in 0 .. WORD - 1
  BY <1>1 DEF Fits
<1>3. Wanted = x \div PAGE_SIZE
  BY <1>2, ModSmall DEF Wanted, PagesOf, Offset
<1>4. /\ Wanted \in Nat
      /\ Wanted * PAGE_SIZE <= x
      /\ x < Wanted * PAGE_SIZE + PAGE_SIZE
  BY <1>2, <1>3, Quotient
<1>5. (Wanted - 1) * PAGE_SIZE = Wanted * PAGE_SIZE - PAGE_SIZE
  BY <1>4
<1>6. QED
  BY <1>1, <1>4, <1>5
-----------------------------------------------------------------------------
(* The invariant of a call *)

Before == {"idle", "pages", "table", "mmap", "vma", "pin"}
Pinned == {"first", "next", "map", "launch", "unmap", "peek", "release", "oops"}

\* A call in progress has a buffer that fits; a call that has not begun has
\* nothing.
CallInv ==
  /\ SgTypeOK
  /\ at # "idle" => Fits
  /\ at \in Before => sg = <<>> /\ pins = 0 /\ result = "ok" /\ sgNum = 0

\* What is held and pinned at every step.
HoldInv ==
  /\ at \in {"idle", "pages"} => held = {}
  /\ at = "table" => held = {"pages"}
  /\ at \in {"mmap", "first", "next", "map", "peek", "release"} => held = {"pages", "table"}
  /\ at \in {"vma", "pin"} => held = {"pages", "table", "mmap_sem"}
  /\ at \in {"launch", "unmap"} => held \ {"map"} = {"pages", "table"}
  /\ at \in Pinned => pins = nr_pages
  /\ at = "oops" => /\ "mmap_sem" \notin held
                    /\ "map" \in held => ~dev_virtaddr
                    /\ sg # <<>> => nr_pages > 0

\* No more pages are pinned than wanted, and none only if none is wanted.
CountInv ==
  /\ at \in Before \ {"idle"} => nr_pages = Wanted
  /\ at \in Pinned => nr_pages <= Wanted /\ (Wanted > 0 => nr_pages > 0)
  /\ at \in {"next", "map", "launch", "unmap", "peek", "release"} => nr_pages > 0

\* The k-th of several entries.
Filled(k) ==
  LET left == Offset + nbyte - (k - 1) * PAGE_SIZE
  IN  IF k = 1 THEN Entry(Offset, PAGE_SIZE - Offset)
      ELSE Entry(0, IF left < PAGE_SIZE THEN left ELSE PAGE_SIZE)

FilledIn == \A k \in 1 .. Len(sg) : sg[k] = Filled(k)

\* What has been written, and what remains to be.
ListInv ==
  /\ at = "first" => sg = <<>> /\ bytesLeft = nbyte
  /\ at = "next" => /\ Len(sg) \in 1 .. nr_pages - 1
                    /\ bytesLeft = Offset + nbyte - Len(sg) * PAGE_SIZE
                    /\ FilledIn
  /\ at \in {"map", "launch"} =>
       /\ Len(sg) = nr_pages
       /\ nr_pages > 1 => FilledIn
       /\ nr_pages = 1 => sg = <<Entry(Offset, nbyte)>>
  /\ at \in {"unmap", "peek", "release"} => sg # <<>>

\* Launches are counted up to the number of entries; the result is a success
\* only if that was reached.
LaunchInv ==
  /\ at \in {"first", "next", "map"} => sgNum = 0 /\ result = "ok"
  /\ at = "launch" => sgNumTotal = nr_pages /\ sgNum < sgNumTotal /\ result = "ok"
  /\ at \in {"unmap", "peek", "release", "done"} /\ result = "ok" => sgNum = nr_pages

\* What a call that has returned leaves.
DoneInv == Released /\ (at = "done" => nr_pages <= Wanted)

SgInv == CallInv /\ HoldInv /\ CountInv /\ ListInv /\ LaunchInv /\ DoneInv

\* An idle call satisfies it.
LEMMA SgInitInv == SgInit => SgInv
BY DEF SgInit, SgInv, CallInv, HoldInv, CountInv, ListInv, LaunchInv, DoneInv, Before,
       Pinned, SgTypeOK, Resources, Released

\* A call's parameters do not change in it.
LEMMA SameRequest ==
  ASSUME UNCHANGED request
  PROVE  Offset' = Offset /\ Wanted' = Wanted /\ Fits' = Fits
BY DEF request, Offset, Wanted, PagesOf, Fits

\* socDma begins with a buffer that fits.
LEMMA EnterInv ==
  ASSUME SgInv, NEW h \in Nat, NEW n \in Nat, n + 2 * PAGE_SIZE <= WORD, Enter(h, n)
  PROVE  SgInv'
<1>1. Fits' /\ host' \in Nat /\ nbyte' \in Nat
  BY DEF Enter, Fits
<1>2. nr_pages' = Wanted' /\ nr_pages' \in Nat
  <2>1. nr_pages' = Wanted'
    BY DEF Enter, Wanted
  <2>2. ASSUME NEW x \in Nat PROVE (x % WORD) \div PAGE_SIZE \in Nat
    BY ModRange, Quotient
  <2>3. (h % PAGE_SIZE) + n + PAGE_SIZE - 1 \in Nat
    BY ModRange
  <2>4. QED
    BY <2>1, <2>2, <2>3 DEF Enter, PagesOf
<1>3. QED
  BY <1>1, <1>2 DEF Enter, SgInv, CallInv, HoldInv, CountInv, ListInv, LaunchInv, DoneInv,
       Before, Pinned, SgTypeOK, Released, list, launches

\* An early return that holds no mmap_sem.
LEMMA FailInv ==
  ASSUME SgInv, at \in Before \ {"idle"}, Fail, held' \subseteq {"pages", "table"}
  PROVE  SgInv'
<1>1. Wanted' = Wanted /\ Fits' = Fits
  BY SameRequest DEF Fail
<1>2. CallInv'
  BY <1>1 DEF SgInv, CallInv, Before, SgTypeOK, Resources, Fail, request, list, launches
<1>3. HoldInv' /\ CountInv' /\ ListInv' /\ LaunchInv'
  BY <1>1 DEF SgInv, HoldInv, CountInv, ListInv, LaunchInv, Fail, Before, Pinned
<1>4. nr_pages' = nr_pages /\ nr_pages = Wanted /\ nr_pages \in Nat
  BY DEF Fail, SgInv, CountInv, CallInv, SgTypeOK
<1>5. DoneInv'
  BY <1>1, <1>4 DEF SgInv, CallInv, DoneInv, Released, Fail, list, launches, Before
<1>6. QED
  BY <1>2, <1>3, <1>5 DEF SgInv

\* Getting hold of the resources, up to the pinned pages.
LEMMA AcquireInv ==
  ASSUME SgInv, AllocPages \/ AllocTable \/ DownRead \/ FindVma \/ GetUserPages
  PROVE  SgInv'
<1> USE DEF SgInv, CallInv, HoldInv, CountInv, ListInv, LaunchInv, DoneInv,
       Before, Pinned, SgTypeOK, Resources, Released
<1>1. Wanted' = Wanted /\ Fits' = Fits
  BY SameRequest DEF AllocPages, AllocTable, DownRead, FindVma, GetUserPages, Fail
<1>2. CASE Fail
  <2>1. held' \subseteq {"pages", "table"} /\ at \in Before \ {"idle"}
    <3>1. at \in {"pages", "table", "vma", "pin"}
      BY <1>2 DEF AllocPages, AllocTable, DownRead, FindVma, GetUserPages, Fail
    <3>2. at \in {"pages", "table"} => held' = held
      BY <1>2 DEF AllocPages, AllocTable, DownRead, FindVma, GetUserPages, Fail
    <3>3. at \in {"vma", "pin"} => held' = held \ {"mmap_sem"}
      BY <1>2 DEF AllocPages, AllocTable, DownRead, FindVma, GetUserPages, Fail
    <3>4. QED
      BY <3>1, <3>2, <3>3
  <2>2. QED
    BY <1>2, <2>1, FailInv
<1>3. CASE AllocPages /\ ~Fail
  BY <1>1, <1>3 DEF AllocPages, request, list, launches
<1>4. CASE AllocTable /\ ~Fail
  BY <1>1, <1>4 DEF AllocTable, request, list, launches
<1>5. CASE DownRead
  BY <1>1, <1>5 DEF DownRead, request, list, launches
<1>6. CASE FindVma /\ ~Fail
  BY <1>1, <1>6 DEF FindVma, request, list, launches
<1>7. CASE GetUserPages /\ ~Fail
  <2> PICK res \in 0 .. nr_pages :
        /\ res = 0 => nr_pages = 0
        /\ pins' = pins + res
        /\ nr_pages' = res
        /\ bytesLeft' = nbyte
        /\ at' = "first"
        /\ UNCHANGED <<request, sg, launches, result>>
    BY <1>7 DEF GetUserPages
  <2>1. held' = {"pages", "table"} /\ at = "pin"
    BY <1>7 DEF GetUserPages
  <2>2. nr_pages = Wanted /\ pins = 0 /\ nr_pages \in Nat /\ nr_pages' \in Nat
    BY <2>1
  <2>3. CallInv' /\ HoldInv'
    BY <1>1, <2>1, <2>2 DEF request, launches
  <2>4. CountInv' /\ ListInv' /\ LaunchInv' /\ DoneInv'
    BY <1>1, <2>1, <2>2 DEF request, launches
  <2>5. QED
    BY <2>3, <2>4
<1>8. QED
  BY <1>2, <1>3, <1>4, <1>5, <1>6, <1>7

\* In a call that has pinned pages: the last of them begins inside the
\* buffer.
LEMMA LastPage ==
  ASSUME SgInv, at \in {"first", "next", "map", "launch"}, nr_pages > 0,
         NEW n \in 0 .. nr_pages - 1
  PROVE  /\ Offset \in 0 .. PAGE_SIZE - 1
         /\ n * PAGE_SIZE < Offset + nbyte
         /\ n * PAGE_SIZE \in Nat
<1>1. host \in Nat /\ nbyte \in Nat /\ nr_pages \in Nat /\ nr_pages <= Wanted /\ Fits
  BY DEF SgInv, CallInv, CountInv, SgTypeOK, Pinned
<1>2. /\ Offset \in 0 .. PAGE_SIZE - 1
      /\ Wanted \in Nat
      /\ (Wanted - 1) * PAGE_SIZE < Offset + nbyte
  BY <1>1, WantedPages
<1>3. n \in Int /\ Wanted - 1 \in Int /\ n <= Wanted - 1
  BY <1>1, <1>2
<1>4. n * PAGE_SIZE <= (Wanted - 1) * PAGE_SIZE
  BY <1>3, TimesMono
<1>5. n * PAGE_SIZE \in Nat
  BY <1>3, n \in Nat
<1>6. (Wanted - 1) * PAGE_SIZE \in Int
  BY <1>3
<1>7. QED
  BY <1>1, <1>2, <1>4, <1>5, <1>6

\* The first entry.
LEMMA FirstInv ==
  ASSUME SgInv, NoPage \/ OnlyEntry \/ FirstEntry
  PROVE  SgInv'
<1>1. Wanted' = Wanted /\ Fits' = Fits /\ Offset' = Offset /\ nbyte' = nbyte
  BY SameRequest DEF NoPage, OnlyEntry, FirstEntry, request
<1>2. CASE NoPage
  BY <1>1, <1>2 DEF NoPage, SgInv, CallInv, HoldInv, CountInv, ListInv, LaunchInv,
     DoneInv, Before, Pinned, SgTypeOK, Released, request, list, launches
<1>3. Offset \in 0 .. PAGE_SIZE - 1
  <2>1. host \in Nat
    BY DEF SgInv, CallInv, SgTypeOK
  <2>2. QED
    BY <2>1, ModRange DEF Offset
<1>4. CASE OnlyEntry
  <2>1. sg' = <<Entry(Offset, nbyte)>> /\ sg' \in Seq([offset : Nat, length : Nat])
    BY <1>3, <1>4 DEF OnlyEntry, Entry, SgInv, CallInv, ListInv, SgTypeOK
  <2>2. CallInv' /\ HoldInv' /\ CountInv'
    BY <1>1, <1>4, <2>1 DEF OnlyEntry, SgInv, CallInv, HoldInv, CountInv,
       Before, Pinned, SgTypeOK, request, launches
  <2>3. ListInv' /\ LaunchInv' /\ DoneInv'
    BY <1>1, <1>4, <2>1 DEF OnlyEntry, SgInv, CallInv, ListInv, LaunchInv, DoneInv,
       SgTypeOK, Released, request, launches, Entry
  <2>4. QED
    BY <2>2, <2>3 DEF SgInv
<1>5. CASE FirstEntry
  <2>1. /\ sg' = <<Entry(Offset, PAGE_SIZE - Offset)>>
        /\ sg' \in Seq([offset : Nat, length : Nat])
        /\ bytesLeft' = Offset + nbyte - 1 * PAGE_SIZE /\ bytesLeft' \in Int
    BY <1>3, <1>5 DEF FirstEntry, Entry, SgInv, CallInv, ListInv, SgTypeOK
  <2>2. CallInv' /\ HoldInv' /\ CountInv'
    BY <1>1, <1>5, <2>1 DEF FirstEntry, SgInv, CallInv, HoldInv, CountInv,
       Before, Pinned, SgTypeOK, request, launches
  <2>3. Len(sg') = 1 /\ FilledIn'
    BY <1>1, <2>1 DEF FilledIn, Filled
  <2>4. nr_pages \in Nat /\ nr_pages > 1 /\ nr_pages' = nr_pages
    BY <1>5 DEF FirstEntry, SgInv, CallInv, SgTypeOK
  <2>5. ListInv'
    BY <1>1, <1>5, <2>1, <2>3, <2>4 DEF FirstEntry, ListInv
  <2>6. LaunchInv' /\ DoneInv'
    BY <1>5 DEF FirstEntry, SgInv, LaunchInv, DoneInv, Released, launches
  <2>7. QED
    BY <2>2, <2>5, <2>6 DEF SgInv
<1>6. QED
  BY <1>2, <1>4, <1>5

\* Every further entry is what Filled says.
LEMMA NextEntryInv == ASSUME SgInv, NextEntry PROVE SgInv'
<1>1. Wanted' = Wanted /\ Fits' = Fits /\ Offset' = Offset /\ nbyte' = nbyte
  BY SameRequest DEF NextEntry, request
<1> DEFINE n == Len(sg)
<1>2. /\ at = "next" /\ n \in 1 .. nr_pages - 1 /\ nr_pages \in Nat /\ nr_pages > 0
      /\ bytesLeft = Offset + nbyte - n * PAGE_SIZE
      /\ FilledIn /\ nbyte \in Nat /\ Fits
      /\ sg \in Seq([offset : Nat, length : Nat])
  BY DEF NextEntry, SgInv, CallInv, CountInv, ListInv, SgTypeOK
<1>3. /\ Offset \in 0 .. PAGE_SIZE - 1
      /\ n * PAGE_SIZE < Offset + nbyte
      /\ n * PAGE_SIZE \in Nat
  <2>1. n \in 0 .. nr_pages - 1 /\ at \in {"first", "next", "map", "launch"}
    BY <1>2
  <2>2. QED
    BY <1>2, <2>1, LastPage
<1>4. bytesLeft \in 1 .. WORD - 1 /\ bytesLeft % WORD = bytesLeft
  <2>1. bytesLeft \in 1 .. WORD - 1
    BY <1>2, <1>3 DEF Fits
  <2>2. QED
    BY <2>1, ModSmall
<1> DEFINE e == Entry(0, IF bytesLeft < PAGE_SIZE THEN bytesLeft ELSE PAGE_SIZE)
<1>5. sg' = Append(sg, e) /\ e = Filled(n + 1) /\ e \in [offset : Nat, length : Nat]
  <2>1. sg' = Append(sg, e)
    BY <1>4 DEF NextEntry
  <2>2. e = Filled(n + 1)
    BY <1>2 DEF Filled
  <2>3. e \in [offset : Nat, length : Nat]
    BY <1>4 DEF Entry
  <2>4. QED
    BY <2>1, <2>2, <2>3
<1> HIDE DEF e
<1>6. /\ Len(sg') = n + 1
      /\ sg' \in Seq([offset : Nat, length : Nat])
      /\ \A k \in 1 .. n : sg'[k] = sg[k]
      /\ sg'[n + 1] = e
  BY <1>2, <1>5
<1>7. FilledIn'
  <2>1. \A k : Filled(k)' = Filled(k)
    BY <1>1 DEF Filled
  <2>2. ASSUME NEW k \in 1 .. n + 1 PROVE sg'[k] = Filled(k)
    BY <1>2, <1>5, <1>6 DEF FilledIn
  <2>3. QED
    BY <1>6, <2>1, <2>2 DEF FilledIn
<1>8. bytesLeft' = Offset + nbyte - (n + 1) * PAGE_SIZE /\ bytesLeft' \in Int
  <2>1. (n + 1) * PAGE_SIZE = n * PAGE_SIZE + PAGE_SIZE
    BY <1>2
  <2>2. QED
    BY <1>2, <1>3, <2>1 DEF NextEntry
<1> HIDE DEF n
<1>9. CallInv' /\ HoldInv' /\ CountInv'
  BY <1>1, <1>2, <1>6, <1>8 DEF NextEntry, SgInv, CallInv, HoldInv, CountInv,
     Before, Pinned, SgTypeOK, request, launches
<1>10. ListInv'
  <2>1. n \in 1 .. nr_pages - 1 /\ nr_pages \in Nat /\ Len(sg') = n + 1
    BY <1>2, <1>6
  <2>2. nr_pages' = nr_pages /\ at' = IF n + 1 < nr_pages THEN "next" ELSE "map"
    BY DEF NextEntry, n
  <2>3. at' = "next" => Len(sg') \in 1 .. nr_pages' - 1
    BY <2>1, <2>2
  <2>4. bytesLeft' = Offset' + nbyte' - Len(sg') * PAGE_SIZE
    BY <1>1, <1>6, <1>8
  <2>5. at' = "map" => Len(sg') = nr_pages' /\ nr_pages' > 1
    BY <2>1, <2>2
  <2>6. at' \in {"next", "map"}
    BY <2>2
  <2>7. QED
    BY <1>7, <2>3, <2>4, <2>5, <2>6 DEF ListInv
<1>11. LaunchInv' /\ DoneInv'
  BY DEF NextEntry, SgInv, LaunchInv, DoneInv, Released, launches
<1>12. QED
  BY <1>9, <1>10, <1>11 DEF SgInv

\* Mapping, launching and giving back.
LEMMA LaunchesInv ==
  ASSUME SgInv, MapSg \/ Launch \/ Unmap \/ Peek \/ Release
  PROVE  SgInv'
<1>1. Wanted' = Wanted /\ Fits' = Fits /\ Offset' = Offset /\ nbyte' = nbyte
  BY SameRequest DEF MapSg, Launch, Unmap, Peek, Release, request
<1>2. FilledIn => FilledIn' \/ sg' # sg
  BY <1>1 DEF FilledIn, Filled
<1> USE DEF SgInv, CallInv, HoldInv, CountInv, ListInv, LaunchInv, DoneInv,
       Before, Pinned, SgTypeOK, Resources, Released, request, list, launches
<1>3. CASE MapSg
  BY <1>1, <1>2, <1>3 DEF MapSg
<1>4. CASE Launch
  BY <1>1, <1>2, <1>4 DEF Launch
<1>5. CASE Unmap
  BY <1>1, <1>5 DEF Unmap
<1>6. CASE Peek
  BY <1>1, <1>6 DEF Peek
<1>7. CASE Release
  BY <1>1, <1>7 DEF Release
<1>8. QED
  BY <1>3, <1>4, <1>5, <1>6, <1>7

\* No step of socDma breaks SgInv.
LEMMA SgStepInv == ASSUME SgInv, SgNext PROVE SgInv'
BY AcquireInv, FirstInv, NextEntryInv, LaunchesInv DEF SgNext
-----------------------------------------------------------------------------
(* What a caller relies on *)

\* The list that is mapped covers the request.
LEMMA Cover == ASSUME SgInv PROVE SegmentsCover
<1> SUFFICES ASSUME at \in {"map", "launch"}, ~(ShortPin /\ nr_pages = 1)
             PROVE  /\ Len(sg) = nr_pages
                    /\ ~ShortPin => Offset + nbyte <= nr_pages * PAGE_SIZE
                    /\ \A k \in 1 .. nr_pages :
                         Segment(k) = {o \in 0 .. PAGE_SIZE - 1 : Requested(k, o)}
  BY DEF SegmentsCover
<1>1. /\ Len(sg) = nr_pages /\ nr_pages \in Nat /\ nr_pages > 0 /\ nr_pages <= Wanted
      /\ nr_pages > 1 => FilledIn
      /\ nr_pages = 1 => sg = <<Entry(Offset, nbyte)>>
      /\ host \in Nat /\ nbyte \in Nat /\ Fits
  BY DEF SgInv, CallInv, CountInv, ListInv, SgTypeOK, Pinned
<1>2. /\ Offset \in 0 .. PAGE_SIZE - 1
      /\ Wanted \in Nat
      /\ Offset + nbyte <= Wanted * PAGE_SIZE
  BY <1>1, WantedPages
<1>3. ~ShortPin => nr_pages = Wanted
  BY <1>1, <1>2 DEF ShortPin
<1>4. ASSUME NEW k \in 1 .. nr_pages
      PROVE  Segment(k) = {o \in 0 .. PAGE_SIZE - 1 : Requested(k, o)}
  <2>1. CASE nr_pages = 1
    <3>1. sg[k].offset = Offset /\ sg[k].length = nbyte /\ k = 1
      BY <1>1, <2>1 DEF Entry
    <3>2. Offset + nbyte <= PAGE_SIZE
      BY <1>2, <1>3, <2>1
    <3>3. (k - 1) * PAGE_SIZE = 0
      BY <3>1
    <3>4. QED
      BY <1>1, <1>2, <3>1, <3>2, <3>3 DEF Segment, Requested
  <2>2. CASE nr_pages > 1
    <3> DEFINE b == (k - 1) * PAGE_SIZE
    <3>1. b < Offset + nbyte /\ b \in Nat
      BY <1>1, LastPage, k - 1 \in 0 .. nr_pages - 1
    <3>2. sg[k] = Filled(k)
      BY <1>1, <2>2 DEF FilledIn
    <3>3. CASE k = 1
      <4>1. sg[k].offset = Offset /\ sg[k].length = PAGE_SIZE - Offset
        BY <3>2, <3>3 DEF Filled, Entry
      <4>2. 1 * PAGE_SIZE < Offset + nbyte
        BY <1>1, <2>2, LastPage, 1 \in 0 .. nr_pages - 1
      <4>3. b = 0
        BY <3>3
      <4>4. QED
        BY <1>1, <1>2, <4>1, <4>2, <4>3 DEF Segment, Requested
    <3>4. CASE k > 1
      <4>1. /\ sg[k].offset = 0
            /\ sg[k].length = IF Offset + nbyte - b < PAGE_SIZE THEN Offset + nbyte - b
                              ELSE PAGE_SIZE
        BY <3>2, <3>4 DEF Filled, Entry
      <4>2. b >= PAGE_SIZE
        <5>1. 1 * PAGE_SIZE <= (k - 1) * PAGE_SIZE
          BY <3>4, TimesMono
        <5>2. QED
          BY <5>1
      <4> HIDE DEF b
      <4>3. QED
        BY <1>1, <1>2, <3>1, <4>1, <4>2 DEF Segment, Requested, b
    <3>5. QED
      BY <3>3, <3>4
  <2>3. QED
    BY <1>1, <2>1, <2>2
<1>5. QED
  BY <1>1, <1>2, <1>3, <1>4

\* A success has launched an entry for every page pinned; that is every page
\* wanted, unless get_user_pages stopped short.
LEMMA Launched ==
  ASSUME SgInv, at = "done", result = "ok"
  PROVE  sgNum = IF ShortPin THEN nr_pages ELSE Wanted
<1>1. sgNum = nr_pages /\ nr_pages <= Wanted /\ nr_pages \in Nat
  BY DEF SgInv, CallInv, LaunchInv, DoneInv, SgTypeOK
<1>2. Wanted \in Nat
  BY WantedPages DEF SgInv, CallInv, SgTypeOK
<1>3. QED
  BY <1>1, <1>2 DEF ShortPin

-----------------------------------------------------------------------------
(* Why a call ends *)

\* The steps socDma has left: one for each resource, an entry and a launch for
\* each page, and the tail.
SgStepsLeft ==
  CASE at = "pages"   -> 2 * nr_pages + 10
    [] at = "table"   -> 2 * nr_pages + 9
    [] at = "mmap"    -> 2 * nr_pages + 8
    [] at = "vma"     -> 2 * nr_pages + 7
    [] at = "pin"     -> 2 * nr_pages + 6
    [] at = "first"   -> 2 * nr_pages + 5
    [] at = "next"    -> 2 * nr_pages - Len(sg) + 4
    [] at = "map"     -> nr_pages + 4
    [] at = "launch"  -> nr_pages - sgNum + 3
    [] at = "unmap"   -> 3
    [] at = "peek"    -> 2
    [] at = "release" -> 1
    [] at \in {"idle", "done", "oops"} -> 0

\* The arms of SgStepsLeft, before and after a step.
LEMMA SgStepsAt ==
  /\ at = "pages" => SgStepsLeft = 2 * nr_pages + 10
  /\ at = "table" => SgStepsLeft = 2 * nr_pages + 9
  /\ at = "mmap" => SgStepsLeft = 2 * nr_pages + 8
  /\ at = "vma" => SgStepsLeft = 2 * nr_pages + 7
  /\ at = "pin" => SgStepsLeft = 2 * nr_pages + 6
  /\ at = "first" => SgStepsLeft = 2 * nr_pages + 5
  /\ at = "next" => SgStepsLeft = 2 * nr_pages - Len(sg) + 4
  /\ at = "map" => SgStepsLeft = nr_pages + 4
  /\ at = "launch" => SgStepsLeft = nr_pages - sgNum + 3
  /\ at = "unmap" => SgStepsLeft = 3
  /\ at = "peek" => SgStepsLeft = 2
  /\ at = "release" => SgStepsLeft = 1
  /\ at \in {"idle", "done", "oops"} => SgStepsLeft = 0
BY DEF SgStepsLeft

\* How many steps a call has left, by the place it goes to.
LEMMA SgStepsAfter ==
  /\ at' = "pages" => SgStepsLeft' = 2 * nr_pages' + 10
  /\ at' = "table" => SgStepsLeft' = 2 * nr_pages' + 9
  /\ at' = "mmap" => SgStepsLeft' = 2 * nr_pages' + 8
  /\ at' = "vma" => SgStepsLeft' = 2 * nr_pages' + 7
  /\ at' = "pin" => SgStepsLeft' = 2 * nr_pages' + 6
  /\ at' = "first" => SgStepsLeft' = 2 * nr_pages' + 5
  /\ at' = "next" => SgStepsLeft' = 2 * nr_pages' - Len(sg') + 4
  /\ at' = "map" => SgStepsLeft' = nr_pages' + 4
  /\ at' = "launch" => SgStepsLeft' = nr_pages' - sgNum' + 3
  /\ at' = "unmap" => SgStepsLeft' = 3
  /\ at' = "peek" => SgStepsLeft' = 2
  /\ at' = "release" => SgStepsLeft' = 1
  /\ at' \in {"idle", "done", "oops"} => SgStepsLeft' = 0
BY DEF SgStepsLeft

\* A call in progress has some left.
LEMMA SgStepsNat ==
  ASSUME SgInv
  PROVE  /\ SgStepsLeft \in Nat
         /\ at \notin {"idle", "done", "oops"} => SgStepsLeft > 0
<1>1. nr_pages \in Nat /\ sgNum \in Nat /\ Len(sg) \in Nat
  BY DEF SgInv, CallInv, SgTypeOK
<1>2. /\ at = "next" => Len(sg) < nr_pages
      /\ at = "launch" => sgNum < nr_pages
  BY <1>1 DEF SgInv, ListInv, LaunchInv
<1>3. at \in {"idle", "pages", "table", "mmap", "vma", "pin", "first", "next", "map",
             "launch", "unmap", "peek", "release", "done", "oops"}
  BY DEF SgInv, CallInv, SgTypeOK
<1>4. CASE at = "next"
  BY <1>1, <1>2, <1>4, SgStepsAt
<1>5. CASE at = "launch"
  BY <1>1, <1>2, <1>5, SgStepsAt
<1>6. CASE at \notin {"next", "launch"}
  BY <1>1, <1>3, <1>6, SgStepsAt
<1>7. QED
  BY <1>4, <1>5, <1>6

\* Each step uses up at least one, also where the loop over the entries
\* compares signed with unsigned and where fewer pages are pinned.
LEMMA SgStepUsed ==
  ASSUME SgInv, SgNext
  PROVE  SgStepsLeft' < SgStepsLeft
<1>1. nr_pages \in Nat /\ sgNum \in Nat /\ sg \in Seq([offset : Nat, length : Nat])
  BY DEF SgInv, CallInv, SgTypeOK
<1>2. /\ at = "next" => Len(sg) < nr_pages
      /\ at = "launch" => sgNum < nr_pages /\ sgNumTotal = nr_pages
      /\ at = "map" => sgNum = 0
  BY <1>1 DEF SgInv, ListInv, LaunchInv
<1>3. SgStepsLeft \in Nat /\ (at \notin {"idle", "done", "oops"} => SgStepsLeft > 0)
  BY SgStepsNat
<1>4. CASE at' \in {"done", "oops"} /\ at \notin {"idle", "done", "oops"}
  BY <1>3, <1>4, SgStepsAfter
<1>5. CASE AllocPages \/ AllocTable \/ DownRead \/ FindVma
  <2>1. CASE Fail
    BY <1>4, <1>5, <2>1 DEF Fail, AllocPages, AllocTable, DownRead, FindVma
  <2>2. CASE ~Fail
    <3>1. /\ nr_pages' = nr_pages
          /\ \/ at = "pages" /\ at' = "table"
             \/ at = "table" /\ at' = "mmap"
             \/ at = "mmap" /\ at' = "vma"
             \/ at = "vma" /\ at' = "pin"
      BY <1>5, <2>2 DEF AllocPages, AllocTable, DownRead, FindVma
    <3>2. QED
      BY <1>1, <3>1, SgStepsAt, SgStepsAfter
  <2>3. QED
    BY <2>1, <2>2
<1>6. CASE GetUserPages
  <2>1. CASE Fail
    BY <1>4, <1>6, <2>1 DEF Fail, GetUserPages
  <2>2. CASE ~Fail
    <3>1. at = "pin" /\ at' = "first" /\ nr_pages' \in 0 .. nr_pages
      BY <1>6, <2>2 DEF GetUserPages
    <3>2. nr_pages' \in Nat /\ nr_pages' <= nr_pages
      BY <1>1, <3>1
    <3>3. SgStepsLeft = 2 * nr_pages + 6 /\ SgStepsLeft' = 2 * nr_pages' + 5
      BY <3>1, SgStepsAt, SgStepsAfter
    <3>4. \A a, b \in Nat : a <= b => 2 * a + 5 < 2 * b + 6
      OBVIOUS
    <3>5. QED
      BY <1>1, <3>2, <3>3, <3>4
  <2>3. QED
    BY <2>1, <2>2
<1>7. CASE NoPage \/ OnlyEntry
  BY <1>1, <1>7, SgStepsAt, SgStepsAfter DEF NoPage, OnlyEntry
<1>8. CASE FirstEntry
  <2>1. at = "first" /\ at' = "next" /\ nr_pages' = nr_pages /\ Len(sg') = 1
    BY <1>8 DEF FirstEntry
  <2>2. QED
    BY <1>1, <2>1, SgStepsAt, SgStepsAfter
<1>9. CASE NextEntry
  <2>1. /\ at = "next" /\ nr_pages' = nr_pages
        /\ at' = IF Len(sg) + 1 < nr_pages THEN "next" ELSE "map"
    BY <1>9 DEF NextEntry
  <2>2. PICK e : sg' = Append(sg, e)
    BY <1>9 DEF NextEntry
  <2>3. Len(sg') = Len(sg) + 1 /\ Len(sg) \in Nat
    BY <1>1, <2>2
  <2>4. QED
    BY <1>1, <1>2, <2>1, <2>3, SgStepsAt, SgStepsAfter
<1>10. CASE MapSg
  BY <1>1, <1>2, <1>10, SgStepsAt, SgStepsAfter DEF MapSg
<1>11. CASE Launch
  BY <1>1, <1>2, <1>11, SgStepsAt, SgStepsAfter DEF Launch
<1>12. CASE Unmap \/ Peek \/ Release
  BY <1>12, SgStepsAt, SgStepsAfter DEF Unmap, Peek, Release
<1>13. QED
  BY <1>5, <1>6, <1>7, <1>8, <1>9, <1>10, <1>11, <1>12 DEF SgNext
=============================================================================
