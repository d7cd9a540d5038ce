------------------------ MODULE SharedMetricsProofs ------------------------
(***************************************************************************)
(* Proofs about SharedMetrics, for any list of stressors, sizes, number of  *)
(* locks, descriptions, and processes killed.                               *)
(***************************************************************************)
EXTENDS SharedMetrics, TLAPS

(***************************************************************************)
(* Arithmetic of the allocator.                                            *)
(***************************************************************************)
\* Rounding up to a multiple does not make a size smaller.
LEMMA RoundUpCovers ==
    ASSUME NEW x \in Nat, NEW a \in Nat \ {0}
    PROVE  RoundUp(x, a) \in Nat /\ RoundUp(x, a) >= x
<1> DEFINE y == x + a - 1
           d == y \div a
           r == y % a
<1>1. y \in Nat /\ d \in Nat /\ r \in Nat /\ r < a
  BY Z3
<1>2. y = a * d + r
  BY Z3
<1>3. a * d = d * a /\ d * a \in Nat
  BY <1>1, Z3
<1>4. RoundUp(x, a) = d * a
  BY DEF RoundUp
<1> HIDE DEF d, r
<1> QED  BY <1>1, <1>2, <1>3, <1>4

\* The alignment of stress_shared_heap_malloc costs at most 7 bytes, and nothing
\* for a multiple of 8.
LEMMA RoundUpEight ==
    ASSUME NEW x \in Nat
    PROVE  /\ RoundUp(x, 8) \in Nat /\ x <= RoundUp(x, 8) /\ RoundUp(x, 8) <= x + 7
           /\ x % 8 = 0 => RoundUp(x, 8) = x
  BY Z3 DEF RoundUp

LEMMA ItemSizes ==
    ASSUME NEW k \in Item
    PROVE  /\ Instances[k] \in Nat /\ MaxItems[k] \in Nat \ {0}
           /\ DescSize * MaxItems[k] \in Nat /\ MaxItems[k] * DescSize = DescSize * MaxItems[k]
           /\ Instances[k] * MaxItems[k] \in Nat
           /\ ItemSize(k) \in Nat
<1>1. Instances[k] \in Nat /\ MaxItems[k] \in Nat \ {0} /\ DescSize \in Nat /\ InfoSize \in Nat
  BY ItemsAssumption, SizesAssumption
<1>2. /\ DescSize * MaxItems[k] \in Nat /\ MaxItems[k] * DescSize = DescSize * MaxItems[k]
      /\ Instances[k] * MaxItems[k] \in Nat
  BY <1>1, Z3
<1>3. ItemSize(k) \in Nat
  BY <1>1, <1>2 DEF ItemSize
<1> QED  BY <1>1, <1>2, <1>3
-----------------------------------------------------------------------------
(***************************************************************************)
(* The heap.  What main has added up for the stressors before item k is      *)
(* need[k]; what it has carved out for them never goes beyond that.          *)
(***************************************************************************)
Sizing ==
    /\ item \in 1..(Items + 1) /\ inst = 0 /\ heap_size = 0 /\ offset = 0 /\ chunks = {}
    /\ total = need[item]
    /\ \A j \in 1..item : need[j] <= total
    /\ \A k \in Item : k < item => need[k + 1] = need[k] + ItemSize(k)

Sized ==
    /\ total <= heap_size
    /\ \A j \in 1..(Items + 1) : need[j] <= total
    /\ \A k \in Item : need[k + 1] = need[k] + ItemSize(k)

Carved(k) == need[k] + (8 + InfoSize) + (8 + (DescSize * MaxItems[k]))

Carving ==
    /\ mpc = "info" => inst = 0 /\ offset <= need[item]
    /\ mpc = "desc" => item \in Item /\ offset <= need[item] + InfoSize
    /\ mpc = "values" => /\ item \in Item /\ inst <= Instances[item]
                         /\ offset <= Carved(item) + 8 * (inst * MaxItems[item])

HeapInv ==
    /\ HeapType
    /\ mpc = "size" => Sizing
    /\ mpc \in {"info", "desc", "values"} => Sized /\ Carving
    /\ \A c \in chunks : c.at + c.len <= offset
    /\ ChunksDisjoint
    /\ HeapSuffices

LEMMA HeapInit == Init => HeapInv
<1> SUFFICES ASSUME Init PROVE HeapInv
  OBVIOUS
<1>1. HeapType
  <2>1. /\ mpc = "size" /\ item = 1 /\ inst = 0 /\ total = 0 /\ heap_size = 0 /\ offset = 0
        /\ out_of_memory = FALSE /\ chunks = {}
        /\ need = [k \in 1..(Items + 1) |-> 0]
    BY DEF Init
  <2>2. need \in [1..(Items + 1) -> Nat] /\ item \in 1..(Items + 1)
    BY <2>1, ItemsAssumption
  <2> QED  BY <2>1, <2>2 DEF HeapType
<1>2. mpc = "size" /\ Sizing
  BY ItemsAssumption DEF Init, Sizing, Item
<1> QED  BY <1>1, <1>2 DEF Init, HeapInv, ChunksDisjoint, HeapSuffices

\* An allocation that fits in what main has added up succeeds, and its chunk
\* overlaps no other.
LEMMA MallocKeeps ==
    ASSUME HeapInv, NEW size \in Nat, stress_shared_heap_malloc(size),
           heap_size' = heap_size, offset + size <= heap_size
    PROVE  /\ offset' = offset + RoundUp(size, 8) /\ offset' \in Nat
           /\ ~(heap_size - offset < size) /\ out_of_memory' = out_of_memory
           /\ chunks' \subseteq [at : Nat, len : Nat]
           /\ \A c \in chunks' : c.at + c.len <= offset'
           /\ ChunksDisjoint' /\ HeapSuffices'
<1> DEFINE new == [at |-> offset, len |-> size]
<1>1. heap_size \in Nat /\ offset \in Nat /\ chunks \subseteq [at : Nat, len : Nat]
  BY DEF HeapInv, HeapType
<1>2. RoundUp(size, 8) \in Nat /\ size <= RoundUp(size, 8)
  BY RoundUpEight
<1>3. ~(heap_size - offset < size)
  BY <1>1
<1>4. /\ chunks' = chunks \cup {new}
      /\ offset' = offset + RoundUp(size, 8)
      /\ out_of_memory' = out_of_memory
  BY <1>3 DEF stress_shared_heap_malloc
<1>5. new \in [at : Nat, len : Nat] /\ new.at = offset /\ new.len = size
  BY <1>1
<1>6. \A c \in chunks : c.at \in Nat /\ c.len \in Nat /\ c.at + c.len <= offset
  BY <1>1 DEF HeapInv
<1> HIDE DEF new
<1>7. \A c \in chunks' : c.at + c.len <= offset'
  BY <1>1, <1>2, <1>4, <1>5, <1>6
<1>8. \A c \in chunks' : c.at + c.len <= heap_size'
  BY <1>1, <1>4, <1>5, <1>6 DEF HeapInv, ChunksDisjoint
<1>9. \A c, d \in chunks' : c # d => c.at + c.len <= d.at \/ d.at + d.len <= c.at
  <2> SUFFICES ASSUME NEW c \in chunks', NEW d \in chunks', c # d
               PROVE  c.at + c.len <= d.at \/ d.at + d.len <= c.at
    OBVIOUS
  <2>1. CASE c \in chunks /\ d \in chunks
    BY <2>1 DEF HeapInv, ChunksDisjoint
  <2>2. CASE c = new /\ d \in chunks
    BY <2>2, <1>5, <1>6
  <2>3. CASE c \in chunks /\ d = new
    BY <2>3, <1>5, <1>6
  <2> QED  BY <2>1, <2>2, <2>3, <1>4
<1> QED  BY <1>1, <1>2, <1>3, <1>4, <1>5, <1>7, <1>8, <1>9
         DEF ChunksDisjoint, HeapSuffices, HeapInv

\* Nobody but main changes the heap.
LEMMA OnlyMain ==
    ASSUME Next, ~MainStep, ~HeapInitFails
    PROVE  UNCHANGED heapVars
<1>1. CASE Stop
  BY <1>1 DEF Stop
<1>2. CASE Ended
  BY <1>2 DEF Ended, vars
<1>3. ASSUME NEW p \in Proc, Step(p) \/ SetBegin(p) \/ Spin(p) \/ Killed(p)
      PROVE  UNCHANGED heapVars
  <2>1. CASE CreateAcquire(p) \/ CreateScan(p) \/ CreateMark(p) \/ CreateUnlock(p) \/ CreateInit(p)
    BY <2>1 DEF CreateAcquire, CreateScan, CreateMark, CreateUnlock, CreateInit
  <2>2. CASE DestroyAcquire(p) \/ DestroyPut(p) \/ DestroyDone(p)
    BY <2>2 DEF DestroyAcquire, DestroyPut, DestroyDone
  <2>3. CASE FindAcquire(p) \/ FindSearch(p) \/ FindFill(p) \/ FindCount(p) \/ FindRelease(p)
    BY <2>3 DEF FindAcquire, FindSearch, FindFill, FindCount, FindRelease
  <2>4. CASE FindOverflow(p) \/ SetValue(p) \/ Leave(p)
    BY <2>4 DEF FindOverflow, SetValue, Leave
  <2>5. CASE SetBegin(p) \/ Killed(p)
    BY <2>5 DEF SetBegin, Killed
  <2>6. CASE Spin(p)
    BY <2>6 DEF Spin, vars
  <2> QED  BY <1>3, <2>1, <2>2, <2>3, <2>4, <2>5, <2>6 DEF Step
<1> QED  BY <1>1, <1>2, <1>3 DEF Next

\* Steps of main before the heap exists.
LEMMA SizeKeeps ==
    ASSUME HeapInv, SizeItem \/ stress_shared_heap_init \/ HeapInitFails
    PROVE  HeapInv'
<1>1. CASE SizeItem
  <2>1. /\ mpc = "size" /\ mpc' = mpc /\ item \in Item /\ Sizing /\ item' = item + 1
        /\ total' = total + ItemSize(item) /\ inst' = inst /\ heap_size' = heap_size
        /\ need' = [need EXCEPT ![item + 1] = total + ItemSize(item)]
        /\ offset' = offset /\ out_of_memory' = out_of_memory /\ chunks' = chunks
    BY <1>1 DEF SizeItem, HeapInv, HeapType, Item
  <2>2. ItemSize(item) \in Nat
    BY <2>1, ItemSizes
  <2>a. HeapType /\ Items \in Nat
    BY ItemsAssumption DEF HeapInv
  <2>b. total \in Nat /\ need \in [1..(Items + 1) -> Nat]
    BY <2>a DEF HeapType
  <2>c. item + 1 \in 1..(Items + 1)
    BY <2>1, <2>a DEF Item
  <2>3. /\ HeapType /\ total \in Nat /\ need \in [1..(Items + 1) -> Nat] /\ Items \in Nat
        /\ item + 1 \in 1..(Items + 1)
    BY <2>a, <2>b, <2>c
  <2>4. need'[item + 1] = total + ItemSize(item) /\ \A j \in 1..item : need'[j] = need[j]
    BY <2>1, <2>3 DEF Item
  <2>5. total' \in Nat /\ need' \in [1..(Items + 1) -> Nat]
    BY <2>1, <2>2, <2>3
  <2>6. \A j \in 1..item' : need'[j] <= total'
    <3> TAKE j \in 1..item'
    <3>1. CASE j \in 1..item
      BY <3>1, <2>1, <2>2, <2>3, <2>4 DEF Sizing, Item
    <3>2. CASE j = item + 1
      BY <3>2, <2>1, <2>2, <2>3, <2>4
    <3> QED  BY <3>1, <3>2, <2>1 DEF Item
  <2>7. \A k \in Item : k < item' => need'[k + 1] = need'[k] + ItemSize(k)
    <3> SUFFICES ASSUME NEW k \in Item, k < item' PROVE need'[k + 1] = need'[k] + ItemSize(k)
      OBVIOUS
    <3>1. CASE k < item
      BY <3>1, <2>1, <2>4 DEF Sizing, Item
    <3>2. CASE k = item
      BY <3>2, <2>1, <2>4 DEF Sizing, Item
    <3> QED  BY <3>1, <3>2, <2>1 DEF Item
  <2>8. Sizing'
    BY <2>1, <2>3, <2>4, <2>6, <2>7 DEF Sizing
  <2>9. HeapType'
    BY <2>1, <2>3, <2>5 DEF HeapType
  <2> QED  BY <2>1, <2>8, <2>9 DEF HeapInv, ChunksDisjoint, HeapSuffices
<1>2. CASE stress_shared_heap_init
  <2> DEFINE wanted == IF total > 0 THEN total ELSE 1
  <2>1. /\ mpc = "size" /\ mpc' = "info" /\ item = Items + 1 /\ Sizing /\ item' = 1
        /\ heap_size' = RoundUp(wanted, PageSize)
        /\ inst' = inst /\ total' = total /\ need' = need /\ offset' = offset /\ chunks' = chunks
        /\ out_of_memory' = FALSE
    BY <1>2 DEF stress_shared_heap_init, HeapInv
  <2>2. /\ HeapType /\ total \in Nat /\ need \in [1..(Items + 1) -> Nat] /\ Items \in Nat
        /\ inst = 0 /\ offset = 0 /\ chunks = {}
    BY <2>1, ItemsAssumption DEF HeapInv, HeapType, Sizing
  <2>3. wanted \in Nat /\ wanted >= total
    BY <2>2
  <2> HIDE DEF wanted
  <2>d. PageSize \in Nat \ {0}
    BY SizesAssumption
  <2>e. RoundUp(wanted, PageSize) \in Nat /\ RoundUp(wanted, PageSize) >= wanted
    BY <2>3, <2>d, RoundUpCovers
  <2>4. heap_size' \in Nat /\ total <= heap_size'
    BY <2>1, <2>2, <2>3, <2>e
  <2>5. Sized'
    BY <2>1, <2>2, <2>4 DEF Sizing, Sized, Item
  <2>6. need[1] \in Nat /\ Carving'
    BY <2>1, <2>2 DEF Carving
  <2>f. item' \in 1..(Items + 1) /\ chunks' \subseteq [at : Nat, len : Nat]
    BY <2>1, <2>2
  <2>7. HeapType'
    BY <2>1, <2>2, <2>4, <2>f DEF HeapType
  <2> QED  BY <2>1, <2>2, <2>5, <2>6, <2>7 DEF HeapInv, ChunksDisjoint, HeapSuffices
<1>3. CASE HeapInitFails
  BY <1>3 DEF HeapInitFails, HeapInv, HeapType, ChunksDisjoint, HeapSuffices
<1> QED  BY <1>1, <1>2, <1>3

\* A step of stress_stats_buffers_setup: there is room for the array.
LEMMA CarveKeeps ==
    ASSUME HeapInv, CarveInfo \/ CarveDesc \/ CarveValues
    PROVE  HeapInv'
<1> DEFINE M == MaxItems[item]
           I == Instances[item]
<1>1. mpc \in {"info", "desc", "values"} /\ item \in Item
  BY DEF CarveInfo, CarveDesc, CarveValues, HeapInv, HeapType, Carving, Item
<1>2. /\ Sized /\ Carving /\ offset \in Nat /\ heap_size \in Nat /\ total \in Nat
      /\ inst \in Nat /\ item + 1 \in 1..(Items + 1) /\ need[item] \in Nat
      /\ Items \in Nat
  <2>1. HeapType /\ Sized /\ Carving /\ Items \in Nat
    BY <1>1, ItemsAssumption DEF HeapInv
  <2>2. item \in 1..(Items + 1) /\ item + 1 \in 1..(Items + 1)
    BY <1>1, <2>1 DEF Item
  <2>3. need \in [1..(Items + 1) -> Nat]
    BY <2>1 DEF HeapType
  <2> QED  BY <2>1, <2>2, <2>3 DEF HeapType
<1>3. /\ I \in Nat /\ M \in Nat \ {0} /\ DescSize * M \in Nat /\ M * DescSize = DescSize * M
      /\ I * M \in Nat /\ InfoSize \in Nat /\ InfoSize % 8 = 0
  BY <1>1, ItemSizes, SizesAssumption
<1>4. need[item + 1] = Carved(item) + (8 + (8 * (I * M))) /\ need[item + 1] <= heap_size
  <2>1. need[item + 1] = need[item] + ItemSize(item) /\ need[item + 1] <= total
    BY <1>1, <1>2 DEF Sized
  <2>2. need[item + 1] <= total /\ total <= heap_size
    BY <2>1, <1>2 DEF Sized
  <2>3. need[item + 1] = Carved(item) + (8 + (8 * (I * M)))
    BY <2>1, <1>2, <1>3 DEF ItemSize, Carved
  <2> QED  BY <2>2, <2>3, <1>2, <1>3 DEF Carved
\* What is left to show for each of the three arrays.
<1>5. ASSUME NEW size \in Nat, NEW next \in {"desc", "values"}, NEW j \in Nat,
             Carve(size, next, item, j), offset + size <= heap_size,
             (mpc' = next /\ item' = item /\ inst' = j /\ need' = need
                 /\ offset' = offset + RoundUp(size, 8)) => Carving'
      PROVE  HeapInv'
  <2>1. /\ stress_shared_heap_malloc(size) /\ item' = item /\ inst' = j /\ total' = total
        /\ need' = need /\ heap_size' = heap_size
    BY <1>5 DEF Carve
  <2>2. /\ offset' = offset + RoundUp(size, 8) /\ offset' \in Nat
        /\ ~(heap_size - offset < size) /\ out_of_memory' = out_of_memory
        /\ chunks' \subseteq [at : Nat, len : Nat]
        /\ \A c \in chunks' : c.at + c.len <= offset'
        /\ ChunksDisjoint' /\ HeapSuffices'
    BY <1>5, <2>1, MallocKeeps
  <2>3. mpc' = next
    BY <1>5, <2>2 DEF Carve
  <2>4. HeapType'
    <3>1. HeapType
      BY DEF HeapInv
    <3> QED  BY <3>1, <2>1, <2>2, <2>3 DEF HeapType
  <2>5. Sized'
    BY <2>1, <1>2 DEF Sized
  <2> QED  BY <2>1, <2>2, <2>3, <2>4, <2>5, <1>5 DEF HeapInv
<1> HIDE DEF M, I
<1>6. CASE CarveInfo
  <2>1. mpc = "info" /\ Carve(InfoSize, "desc", item, inst) /\ inst = 0 /\ offset <= need[item]
    BY <1>6, <1>2 DEF CarveInfo, Carving
  <2>2. offset + InfoSize <= heap_size
    BY <2>1, <1>2, <1>3, <1>4 DEF Carved, M
  <2>3. RoundUp(InfoSize, 8) = InfoSize
    BY <1>3, RoundUpEight
  <2>4. (mpc' = "desc" /\ item' = item /\ inst' = inst /\ need' = need
           /\ offset' = offset + RoundUp(InfoSize, 8)) => Carving'
    BY <2>1, <2>3, <1>1, <1>2, <1>3 DEF Carving
  <2> QED  BY <2>1, <2>2, <2>4, <1>2, <1>3, <1>5
<1>7. CASE CarveDesc
  <2>1. mpc = "desc" /\ Carve(M * DescSize, "values", item, 0) /\ offset <= need[item] + InfoSize
    BY <1>7, <1>2 DEF CarveDesc, Carving, M
  <2>a. Carved(item) = need[item] + (8 + InfoSize) + (8 + (DescSize * M))
    BY DEF Carved, M
  <2>b. need[item] + InfoSize + DescSize * M <= heap_size
    BY <2>a, <1>2, <1>3, <1>4
  <2>2. M * DescSize \in Nat /\ offset + M * DescSize <= heap_size
    BY <2>1, <2>b, <1>2, <1>3
  <2>3. RoundUp(M * DescSize, 8) \in Nat /\ RoundUp(M * DescSize, 8) <= M * DescSize + 7
    BY <2>2, RoundUpEight
  <2>4. 0 * M = 0
    BY <1>3
  <2>5. ASSUME mpc' = "values", item' = item, inst' = 0, need' = need,
               offset' = offset + RoundUp(M * DescSize, 8)
        PROVE  Carving'
    <3>1. offset' <= Carved(item) + 8 * (0 * M)
      BY <2>5, <2>1, <2>3, <2>4, <1>2, <1>3 DEF Carved, M
    <3>2. Carved(item)' = Carved(item)
      BY <2>5 DEF Carved
    <3> QED  BY <2>5, <3>1, <3>2, <1>1, <1>3 DEF Carving, M, I
  <2> QED  BY <2>1, <2>2, <2>5, <1>5
<1>8. CASE CarveValues
  <2>1. /\ mpc = "values" /\ Carve(M * 8, "values", item, inst + 1) /\ inst < I
        /\ offset <= Carved(item) + 8 * (inst * M)
    BY <1>8, <1>2 DEF CarveValues, Carving, M, I
  <2>2. /\ inst * M \in Nat /\ (inst + 1) * M = inst * M + M
        /\ (inst + 1) * M <= I * M
    BY <2>1, <1>2, <1>3, Z3
  <2>3. M * 8 \in Nat /\ Carved(item) \in Nat
    BY <1>2, <1>3 DEF Carved, M
  <2>4. offset + M * 8 <= heap_size
    BY <2>1, <2>2, <2>3, <1>2, <1>3, <1>4
  <2>5. (M * 8) % 8 = 0
    BY <1>3, Z3
  <2>6. RoundUp(M * 8, 8) = M * 8
    BY <2>3, <2>5, RoundUpEight
  <2>7. ASSUME mpc' = "values", item' = item, inst' = inst + 1, need' = need,
               offset' = offset + RoundUp(M * 8, 8)
        PROVE  Carving'
    <3>1. offset' <= Carved(item) + 8 * ((inst + 1) * M)
      BY <2>7, <2>1, <2>2, <2>3, <2>6, <1>2, <1>3
    <3>2. Carved(item)' = Carved(item)
      BY <2>7 DEF Carved
    <3> QED  BY <2>7, <2>1, <3>1, <3>2, <1>1, <1>2, <1>3 DEF Carving, M, I
  <2> QED  BY <2>1, <2>3, <2>4, <2>7, <1>2, <1>5
<1> QED  BY <1>6, <1>7, <1>8

LEMMA HeapStep == HeapInv /\ [Next]_vars => HeapInv'
<1> SUFFICES ASSUME HeapInv, [Next]_vars PROVE HeapInv'
  OBVIOUS
<1>1. ASSUME UNCHANGED heapVars PROVE HeapInv'
  BY <1>1 DEF heapVars, HeapInv, HeapType, Sizing, Sized, Carving, Carved, ChunksDisjoint,
              HeapSuffices
<1>2. CASE SizeItem \/ stress_shared_heap_init \/ HeapInitFails
  BY <1>2, SizeKeeps
<1>3. CASE CarveInfo \/ CarveDesc \/ CarveValues
  BY <1>3, CarveKeeps
<1>4. CASE NextItem
  <2>1. /\ mpc = "values" /\ inst = Instances[item] /\ mpc' = "info" /\ item' = item + 1
        /\ inst' = 0 /\ total' = total /\ need' = need /\ heap_size' = heap_size
        /\ offset' = offset /\ out_of_memory' = out_of_memory /\ chunks' = chunks
    BY <1>4 DEF NextItem
  <2>2. HeapType /\ Sized /\ item \in Item /\ Items \in Nat
        /\ offset <= Carved(item) + 8 * (Instances[item] * MaxItems[item])
    BY <2>1, ItemsAssumption DEF HeapInv, Carving
  <2>3. item + 1 \in 1..(Items + 1) /\ item \in 1..(Items + 1)
    BY <2>2 DEF Item
  <2>4. need[item] \in Nat /\ need[item + 1] = need[item] + ItemSize(item) /\ offset \in Nat
    BY <2>2, <2>3 DEF HeapType, Sized
  <2>5. offset <= need[item + 1]
    BY <2>2, <2>4, ItemSizes, SizesAssumption DEF Carved, ItemSize
  <2>6. HeapType'
    BY <2>1, <2>2, <2>3 DEF HeapType
  <2>7. Sized' /\ Carving'
    BY <2>1, <2>2, <2>5 DEF Sized, Carving
  <2> QED  BY <2>1, <2>6, <2>7 DEF HeapInv, ChunksDisjoint, HeapSuffices
<1>5. CASE StartAll
  BY <1>5 DEF StartAll, HeapInv, HeapType, ChunksDisjoint, HeapSuffices
<1>6. CASE UNCHANGED vars
  BY <1>6, <1>1 DEF vars
<1>7. CASE Next /\ ~MainStep /\ ~HeapInitFails
  BY <1>7, <1>1, OnlyMain
<1> QED  BY <1>2, <1>3, <1>4, <1>5, <1>6, <1>7 DEF MainStep

\* The arrays of all stressors fit into the heap that was made for them and
\* overlap neither each other nor its end, for any list of stressors, any number
\* of instances and metrics and any page size (stressor_stats_size,
\* stress_shared_heap_malloc, stress_stats_buffers_setup).
THEOREM ArraysDisjoint == Spec => []ChunksDisjoint
<1>1. HeapInv => ChunksDisjoint
  BY DEF HeapInv
<1> QED  BY <1>1, HeapInit, HeapStep, PTL DEF Spec

\* The size stressor_stats_size adds up is never too small for what
\* stress_stats_buffers_setup allocates.
THEOREM HeapLargeEnough == Spec => []HeapSuffices
<1>1. HeapInv => HeapSuffices
  BY DEF HeapInv
<1> QED  BY <1>1, HeapInit, HeapStep, PTL DEF Spec
-----------------------------------------------------------------------------
(***************************************************************************)
(* The locks.  A process between the acquire and the release of the big or  *)
(* the metrics lock has it alone.  A slot that was chosen and is not marked  *)
(* yet can only be chosen again by somebody with the big lock: if its        *)
(* chooser was killed, the big lock is taken for ever.                       *)
(***************************************************************************)
InBig(p) == pc[p] \in {"scan", "mark", "unlock", "put", "putdone"}

ProcType == pc \in [Proc -> ProcPc] /\ own \in [Proc -> Slot \cup {NULL}]
Setup ==
    /\ Big \in magic
    /\ mpc # "run" => flag = {} /\ \A p \in Proc : pc[p] = "off" /\ own[p] = NULL
    /\ mpc \in {"info", "desc", "values", "run"} => {Big, HeapLock, MetricsLock} \subseteq magic
BigHeld ==
    /\ \A p \in Proc : InBig(p) => Big \in flag
    /\ \A p, q \in Proc : InBig(p) /\ InBig(q) => p = q
MetricsHeld ==
    /\ \A p \in Proc : InMetrics(p) => MetricsLock \in flag
    /\ \A p, q \in Proc : InMetrics(p) /\ InMetrics(q) => p = q
OwnFresh == \A p \in Proc : own[p] \notin {Big, HeapLock, MetricsLock}
OwnDistinct == \A p, q \in Proc : p # q /\ own[p] # NULL => own[p] # own[q]
Pending(p) ==
    pc[p] = "mark" \/ (pc[p] = "dead" /\ Big \in flag /\ \A r \in Proc : ~InBig(r))
OwnMarked == \A p \in Proc : own[p] # NULL /\ own[p] \notin magic => Pending(p)

LockInv ==
    LockType /\ ProcType /\ Setup /\ BigHeld /\ MetricsHeld /\ OwnFresh /\ OwnDistinct
    /\ OwnMarked

LEMMA LockStart == Init => LockInv
<1> SUFFICES ASSUME Init PROVE LockInv
  OBVIOUS
<1>1. /\ magic = {Big} /\ flag = {} /\ mpc = "size"
      /\ pc = [p \in Proc |-> "off"] /\ own = [p \in Proc |-> NULL]
  BY DEF Init, LockInit
<1>2. LockType
  BY <1>1, MaxLocksAssumption DEF LockType, Slot, Big
<1>3. ProcType
  BY <1>1 DEF ProcType, ProcPc
<1>4. \A p \in Proc : pc[p] = "off" /\ own[p] = NULL
  BY <1>1
<1>5. Setup
  BY <1>1, <1>4 DEF Setup
<1>6. OwnFresh
  BY <1>4 DEF OwnFresh, NULL, Big, HeapLock, MetricsLock
<1> QED  BY <1>2, <1>3, <1>4, <1>5, <1>6
         DEF LockInv, BigHeld, MetricsHeld, InBig, InMetrics, OwnDistinct, OwnMarked

\* Steps of main.
LEMMA LockMain ==
    ASSUME LockInv, MainStep \/ HeapInitFails
    PROVE  LockInv'
<1>1. CASE SizeItem \/ HeapInitFails \/ CarveInfo \/ CarveDesc \/ CarveValues \/ NextItem
  <2>1. /\ UNCHANGED <<magic, flag, pc, own>> /\ mpc # "run" /\ mpc' # "run"
        /\ mpc' \in {"info", "desc", "values"} => mpc \in {"info", "desc", "values"}
    BY <1>1 DEF SizeItem, HeapInitFails, CarveInfo, CarveDesc, CarveValues, NextItem, Carve,
                lockVars, procVars
  <2> QED  BY <2>1 DEF LockInv, LockType, ProcType, Setup, BigHeld, MetricsHeld, InBig, InMetrics,
                       OwnFresh, OwnDistinct, OwnMarked, Pending
<1>2. CASE stress_shared_heap_init
  <2>1. /\ UNCHANGED <<flag, pc, own>> /\ mpc = "size" /\ mpc' = "info"
        /\ magic' = magic \cup {HeapLock, MetricsLock}
    BY <1>2 DEF stress_shared_heap_init, procVars
  <2>2. {Big, HeapLock, MetricsLock} \subseteq Slot
    BY BoundsAssumption, MaxLocksAssumption DEF Slot, Big, HeapLock, MetricsLock
  <2>3. {Big, HeapLock, MetricsLock} \subseteq magic'
    BY <2>1 DEF LockInv, Setup
  <2> QED  BY <2>1, <2>2, <2>3
           DEF LockInv, LockType, ProcType, Setup, BigHeld, MetricsHeld, InBig, InMetrics,
               OwnFresh, OwnDistinct, OwnMarked, Pending
<1>3. CASE StartAll
  <2>1. /\ UNCHANGED <<magic, flag, own>> /\ mpc = "info" /\ mpc' = "run"
        /\ pc' = [p \in Proc |-> IF p \in Creators THEN "create" ELSE "ready"]
    BY <1>3 DEF StartAll, procVars, lockVars
  <2>2. pc' \in [Proc -> ProcPc] /\ \A p \in Proc : pc'[p] \in {"create", "ready"}
    BY <2>1 DEF ProcPc
  <2>3. \A p \in Proc : own[p] = NULL
    BY <2>1 DEF LockInv, Setup
  <2> QED  BY <2>1, <2>2, <2>3
           DEF LockInv, LockType, ProcType, Setup, BigHeld, MetricsHeld, InBig, InMetrics,
               OwnFresh, OwnDistinct, OwnMarked, Pending
<1> QED  BY <1>1, <1>2, <1>3 DEF MainStep

LEMMA LockNames ==
    /\ Big # MetricsLock /\ Big # NULL /\ MetricsLock # NULL /\ NULL \notin Slot
    /\ Big \in Slot /\ MetricsLock \in Slot
<1>1. MaxLocks \in Nat /\ MaxLocks > 2
  BY BoundsAssumption, MaxLocksAssumption
<1> QED  BY <1>1 DEF Big, MetricsLock, NULL, Slot

\* When a process takes a step it has been started, and all of main's locks are
\* there.
LEMMA Started ==
    ASSUME LockInv, NEW p \in Proc, pc[p] # "off"
    PROVE  mpc = "run" /\ Big \in magic /\ MetricsLock \in magic
  BY DEF LockInv, Setup

\* Steps that leave all locks alone, from one place to another of the same kind.
LEMMA LockQuiet ==
    ASSUME LockInv, NEW p \in Proc, NEW from \in ProcPc, NEW to \in ProcPc,
           Goto(p, from, to), UNCHANGED <<magic, flag, own, mpc>>,
           from # "mark", from # "off", from # "dead",
           from \in {"scan", "mark", "unlock", "put", "putdone"} <=>
               to \in {"scan", "mark", "unlock", "put", "putdone"},
           from \in {"search", "fill", "count", "release", "too many"} <=>
               to \in {"search", "fill", "count", "release", "too many"}
    PROVE  LockInv'
<1>1. pc[p] = from /\ pc' = [pc EXCEPT ![p] = to] /\ pc \in [Proc -> ProcPc]
  BY DEF Goto, LockInv, ProcType
<1>2. pc' \in [Proc -> ProcPc] /\ pc'[p] = to /\ \A q \in Proc : q # p => pc'[q] = pc[q]
  BY <1>1
<1>3. \A q \in Proc : (InBig(q)' <=> InBig(q)) /\ (InMetrics(q)' <=> InMetrics(q))
  BY <1>1, <1>2 DEF InBig, InMetrics
<1>4. mpc = "run"
  BY <1>1, Started
<1>5. \A q \in Proc : Pending(q) => Pending(q)'
  BY <1>1, <1>2, <1>3 DEF Pending
<1> QED  BY <1>2, <1>3, <1>4, <1>5
         DEF LockInv, LockType, ProcType, Setup, BigHeld, MetricsHeld, OwnFresh, OwnDistinct,
             OwnMarked

\* stress_lock_create and stress_lock_destroy.
LEMMA LockPool ==
    ASSUME LockInv, NEW p \in Proc,
           \/ CreateAcquire(p) \/ CreateScan(p) \/ CreateMark(p) \/ CreateUnlock(p)
           \/ CreateInit(p) \/ DestroyAcquire(p) \/ DestroyPut(p) \/ DestroyDone(p)
    PROVE  LockInv'
<1> USE DEF LockInv, LockType, ProcType, BigHeld, MetricsHeld, OwnFresh, OwnDistinct, OwnMarked,
            Pending, InBig, InMetrics
<1>1. /\ mpc' = mpc /\ pc[p] # "off"
      /\ pc \in [Proc -> ProcPc] /\ own \in [Proc -> Slot \cup {NULL}]
  BY DEF CreateAcquire, CreateScan, CreateMark, CreateUnlock, CreateInit, DestroyAcquire,
         DestroyPut, DestroyDone, Goto, heapVars
<1>2. mpc = "run" /\ {Big, HeapLock, MetricsLock} \subseteq magic
  BY <1>1 DEF Setup
<1>3. Big # MetricsLock /\ Big # NULL /\ MetricsLock # NULL /\ NULL \notin Slot /\ Big \in Slot
  BY LockNames
<1>4. CASE CreateAcquire(p)
  <2>1. own' = own /\ magic' = magic
    BY <1>4 DEF CreateAcquire, procVars, AcquireLock, AcquireFails, lockVars
  <2>2. CASE Goto(p, "create", "scan") /\ AcquireLock(Big)
    <3>1. pc[p] = "create" /\ pc' = [pc EXCEPT ![p] = "scan"] /\ Big \notin flag
          /\ flag' = flag \cup {Big}
      BY <2>2 DEF Goto, AcquireLock
    <3> QED  BY <3>1, <2>1, <1>1, <1>2, <1>3 DEF Setup, ProcPc
  <2>3. CASE Goto(p, "create", "done") /\ AcquireFails(Big, stopped)
    <3>1. pc[p] = "create" /\ pc' = [pc EXCEPT ![p] = "done"] /\ flag' = flag
      BY <2>3 DEF Goto, AcquireFails, lockVars
    <3> QED  BY <3>1, <2>1, <1>1, <1>2, <1>3 DEF Setup, ProcPc
  <2> QED  BY <1>4, <2>2, <2>3 DEF CreateAcquire
<1>5. CASE CreateScan(p)
  <2>1. PICK l \in Slot \cup {NULL} : FirstFree(l) /\ own' = [own EXCEPT ![p] = l]
    BY <1>5 DEF CreateScan
  <2>2. pc[p] = "scan" /\ pc' = [pc EXCEPT ![p] = "mark"] /\ flag' = flag /\ magic' = magic
    BY <1>5 DEF CreateScan, Goto, lockVars
  <2>3. l # NULL => l \notin magic
    BY <2>1 DEF FirstFree
  <2> QED  BY <2>1, <2>2, <2>3, <1>1, <1>2, <1>3 DEF Setup, ProcPc
<1>6. CASE CreateMark(p)
  <2>1. /\ pc[p] = "mark" /\ pc' = [pc EXCEPT ![p] = "unlock"] /\ flag' = flag /\ own' = own
        /\ magic' = magic \cup ({own[p]} \ {NULL})
    BY <1>6 DEF CreateMark, Goto, MarkUsed, procVars
  <2> QED  BY <2>1, <1>1, <1>2, <1>3 DEF Setup, ProcPc
<1>7. CASE CreateUnlock(p)
  <2>1. PICK to \in {"done", "init"} : pc' = [pc EXCEPT ![p] = to]
    BY <1>7 DEF CreateUnlock, Goto
  <2>2. pc[p] = "unlock" /\ own' = own /\ magic' = magic /\ flag' = flag \ {Big}
    BY <1>7, <1>2 DEF CreateUnlock, Goto, ReleaseLock, procVars
  <2> QED  BY <2>1, <2>2, <1>1, <1>2, <1>3 DEF Setup, ProcPc
<1>8. CASE CreateInit(p)
  <2>1. /\ pc[p] = "init" /\ pc' = [pc EXCEPT ![p] = "ready"] /\ own' = own /\ magic' = magic
        /\ flag' = flag \ {own[p]}
    BY <1>8 DEF CreateInit, Goto, InitLock, procVars
  <2>2. own[p] # Big /\ own[p] # MetricsLock
    OBVIOUS
  <2> QED  BY <2>1, <2>2, <1>1, <1>2, <1>3 DEF Setup, ProcPc
<1>9. CASE DestroyAcquire(p)
  <2>1. CASE Goto(p, "destroy", "put") /\ AcquireLock(Big) /\ UNCHANGED own
    <3>1. pc[p] = "destroy" /\ pc' = [pc EXCEPT ![p] = "put"] /\ Big \notin flag
          /\ flag' = flag \cup {Big} /\ magic' = magic /\ own' = own
      BY <2>1 DEF Goto, AcquireLock
    <3> QED  BY <3>1, <1>1, <1>2, <1>3 DEF Setup, ProcPc
  <2>2. CASE /\ Goto(p, "destroy", "done") /\ AcquireFails(Big, stopped)
             /\ own' = [own EXCEPT ![p] = NULL]
    <3>1. pc[p] = "destroy" /\ pc' = [pc EXCEPT ![p] = "done"]
          /\ flag' = flag /\ magic' = magic /\ own' = [own EXCEPT ![p] = NULL]
      BY <2>2 DEF Goto, AcquireFails, lockVars
    <3> QED  BY <3>1, <1>1, <1>2, <1>3 DEF Setup, ProcPc
  <2> QED  BY <1>9, <2>1, <2>2 DEF DestroyAcquire
<1>10. CASE DestroyPut(p)
  <2>1. /\ pc[p] = "put" /\ pc' = [pc EXCEPT ![p] = "putdone"]
        /\ own' = [own EXCEPT ![p] = NULL] /\ magic' = magic \ {own[p]}
        /\ flag' = flag \ {own[p]}
    BY <1>10 DEF DestroyPut, Goto, ClearLock
  <2>2. own[p] \notin {Big, HeapLock, MetricsLock}
    OBVIOUS
  <2> QED  BY <2>1, <2>2, <1>1, <1>2, <1>3 DEF Setup, ProcPc
<1>11. CASE DestroyDone(p)
  <2>1. /\ pc[p] = "putdone" /\ pc' = [pc EXCEPT ![p] = "done"] /\ own' = own
        /\ magic' = magic /\ flag' = flag \ {Big}
    BY <1>11, <1>2 DEF DestroyDone, Goto, ReleaseLock, procVars
  <2> QED  BY <2>1, <1>1, <1>2, <1>3 DEF Setup, ProcPc
<1> QED  BY <1>4, <1>5, <1>6, <1>7, <1>8, <1>9, <1>10, <1>11

\* stress_metrics_set, and the rest of what processes do.
LEMMA LockMetrics ==
    ASSUME LockInv, NEW p \in Proc,
           \/ FindAcquire(p) \/ FindSearch(p) \/ FindFill(p) \/ FindCount(p) \/ FindRelease(p)
           \/ FindOverflow(p) \/ SetValue(p) \/ Leave(p) \/ SetBegin(p)
    PROVE  LockInv'
<1>1. /\ mpc' = mpc /\ own' = own
      /\ pc \in [Proc -> ProcPc] /\ own \in [Proc -> Slot \cup {NULL}]
  BY DEF FindAcquire, FindSearch, FindFill, FindCount, FindRelease, FindOverflow, SetValue, Leave,
         SetBegin, heapVars, procVars, LockInv, ProcType
<1>2. CASE FindSearch(p)
  <2>1. PICK to \in {"release", "too many", "fill"} : pc[p] = "search" /\ pc' = [pc EXCEPT ![p] = to]
    BY <1>2 DEF FindSearch
  <2>2. UNCHANGED <<magic, flag>>
    BY <1>2 DEF FindSearch, lockVars
  <2> QED  BY <2>1, <2>2, <1>1, LockQuiet DEF Goto, ProcPc
<1>3. CASE FindFill(p) \/ FindCount(p)
  <2>1. UNCHANGED <<magic, flag>>
    BY <1>3 DEF FindFill, FindCount, lockVars
  <2>2. Goto(p, "fill", "count") \/ Goto(p, "count", "release")
    BY <1>3 DEF FindFill, FindCount
  <2> QED  BY <2>1, <2>2, <1>1, LockQuiet DEF ProcPc
<1>4. CASE FindOverflow(p) \/ SetValue(p) \/ Leave(p) \/ SetBegin(p)
  <2>1. UNCHANGED <<magic, flag>>
    BY <1>4 DEF FindOverflow, SetValue, Leave, SetBegin, lockVars
  <2>2. PICK to \in {"ready", "done", "destroy", "acquire"} :
            Goto(p, "overflow", to) \/ Goto(p, "set", to) \/ Goto(p, "ready", to)
    BY <1>4 DEF FindOverflow, SetValue, Leave, SetBegin
  <2> QED  BY <2>1, <2>2, <1>1, LockQuiet DEF ProcPc
<1>5. CASE FindAcquire(p)
  <2>1. CASE Goto(p, "acquire", "ready") /\ AcquireFails(MetricsLock, stopped)
    <3>1. UNCHANGED <<magic, flag>>
      BY <2>1 DEF AcquireFails, lockVars
    <3> QED  BY <2>1, <3>1, <1>1, LockQuiet DEF ProcPc
  <2>2. CASE Goto(p, "acquire", "search") /\ AcquireLock(MetricsLock)
    <3>1. /\ pc[p] = "acquire" /\ pc' = [pc EXCEPT ![p] = "search"] /\ MetricsLock \notin flag
          /\ flag' = flag \cup {MetricsLock} /\ magic' = magic
      BY <2>2 DEF Goto, AcquireLock
    <3>2. mpc = "run" /\ MetricsLock \in Slot
      BY <3>1, Started, LockNames
    <3> QED  BY <3>1, <3>2, <1>1, LockNames
             DEF LockInv, LockType, ProcType, Setup, BigHeld, MetricsHeld, OwnFresh, OwnDistinct,
                 OwnMarked, Pending, InBig, InMetrics, ProcPc
  <2> QED  BY <1>5, <2>1, <2>2 DEF FindAcquire
<1>6. CASE FindRelease(p)
  <2>1. PICK to \in {"set", "overflow"} : pc' = [pc EXCEPT ![p] = to]
    BY <1>6 DEF FindRelease, Goto
  <2>2. pc[p] \in {"release", "too many"}
    BY <1>6 DEF FindRelease, Goto
  <2>3. mpc = "run" /\ flag' = flag \ {MetricsLock} /\ magic' = magic
    BY <1>6, <2>2, Started DEF FindRelease, ReleaseLock
  <2> QED  BY <2>1, <2>2, <2>3, <1>1, LockNames
           DEF LockInv, LockType, ProcType, Setup, BigHeld, MetricsHeld, OwnFresh, OwnDistinct,
               OwnMarked, Pending, InBig, InMetrics, ProcPc
<1> QED  BY <1>2, <1>3, <1>4, <1>5, <1>6

LEMMA LockStep == LockInv /\ [Next]_vars => LockInv'
<1> SUFFICES ASSUME LockInv, [Next]_vars PROVE LockInv'
  OBVIOUS
<1>1. ASSUME UNCHANGED <<magic, flag, pc, own, mpc>> PROVE LockInv'
  BY <1>1 DEF LockInv, LockType, ProcType, Setup, BigHeld, MetricsHeld, OwnFresh, OwnDistinct,
              OwnMarked, Pending, InBig, InMetrics
<1>2. CASE MainStep \/ HeapInitFails
  BY <1>2, LockMain
<1>3. CASE Stop
  BY <1>3, <1>1 DEF Stop, heapVars, lockVars
<1>4. CASE UNCHANGED vars
  BY <1>4, <1>1 DEF vars, heapVars, procVars, lockVars
<1>5. CASE Ended
  BY <1>5, <1>4 DEF Ended
<1>6. ASSUME NEW p \in Proc, Step(p) \/ SetBegin(p) PROVE LockInv'
  BY <1>6, LockPool, LockMetrics DEF Step
<1>7. ASSUME NEW p \in Proc, Spin(p) PROVE LockInv'
  BY <1>7, <1>4 DEF Spin
<1>8. ASSUME NEW p \in Proc, Killed(p) PROVE LockInv'
  <2>1. /\ pc[p] \notin {"off", "done", "dead"} /\ pc' = [pc EXCEPT ![p] = "dead"]
        /\ UNCHANGED <<magic, flag, own, mpc>>
    BY <1>8 DEF Killed, heapVars, lockVars
  <2>2. mpc = "run" /\ pc \in [Proc -> ProcPc]
    BY <2>1, Started DEF LockInv, ProcType
  <2> QED  BY <2>1, <2>2
           DEF LockInv, LockType, ProcType, Setup, BigHeld, MetricsHeld, OwnFresh, OwnDistinct,
               OwnMarked, Pending, InBig, InMetrics, ProcPc
<1> QED  BY <1>2, <1>3, <1>4, <1>5, <1>6, <1>7, <1>8 DEF Next

\* No lock of the pool is given to two processes, and none of main's is given
\* away, whatever processes are killed in stress_lock_get or stress_lock_put.
THEOREM LocksGivenOnce == Spec => []PoolExclusive
<1>1. LockInv => PoolExclusive
  BY DEF LockInv, OwnFresh, OwnDistinct, PoolExclusive, HasLock
<1> QED  BY <1>1, LockStart, LockStep, PTL DEF Spec
-----------------------------------------------------------------------------
(***************************************************************************)
(* The metrics lock implements the abstract lock.                           *)
(***************************************************************************)
\* Who has the metrics lock, as a refinement mapping sees it.
OwnerFacts ==
    /\ MetricsLock \notin flag => MetricsOwner = FreeLock
    /\ \A p \in Proc : InMetrics(p) => MetricsOwner = p
    /\ MetricsLock \in flag /\ (\A p \in Proc : ~InMetrics(p)) => MetricsOwner = GoneOwner

LEMMA OwnerIs == LockInv => OwnerFacts
<1> SUFFICES ASSUME LockInv PROVE OwnerFacts
  OBVIOUS
<1>1. ASSUME NEW p \in Proc, InMetrics(p) PROVE MetricsOwner = p
  <2>1. MetricsLock \in flag /\ \A q \in Proc : InMetrics(q) => q = p
    BY <1>1 DEF LockInv, MetricsHeld
  <2>2. (CHOOSE q \in Proc : InMetrics(q)) = p
    BY <1>1, <2>1
  <2> QED  BY <1>1, <2>1, <2>2 DEF MetricsOwner
<1>2. MetricsLock \notin flag => MetricsOwner = FreeLock
  BY DEF MetricsOwner
<1>3. MetricsLock \in flag /\ (\A p \in Proc : ~InMetrics(p)) => MetricsOwner = GoneOwner
  BY DEF MetricsOwner
<1> QED  BY <1>1, <1>2, <1>3 DEF OwnerFacts

\* What becomes of the holder of the metrics lock in a step.
LEMMA OwnerStep ==
    ASSUME LockInv, LockInv', OwnerFacts, OwnerFacts', [Next]_vars
    PROVE  [ML!Next]_MetricsOwner
<1> USE DEF ML!Next, ML!Acquire, ML!Release, ML!Die
<1>1. ASSUME MetricsLock \in flag' <=> MetricsLock \in flag,
             \A q \in Proc : InMetrics(q)' <=> InMetrics(q)
      PROVE  UNCHANGED MetricsOwner
  BY <1>1 DEF OwnerFacts
<1>2. ASSUME UNCHANGED <<flag, pc>> PROVE UNCHANGED MetricsOwner
  BY <1>2, <1>1 DEF InMetrics
<1>3. pc \in [Proc -> ProcPc]
  BY DEF LockInv, ProcType
\* A step of p that leaves the metrics lock alone.
<1>4. ASSUME NEW p \in Proc, NEW from \in ProcPc, NEW to \in ProcPc, Goto(p, from, to),
             MetricsLock \in flag' <=> MetricsLock \in flag,
             from \in {"search", "fill", "count", "release", "too many"} <=>
                 to \in {"search", "fill", "count", "release", "too many"}
      PROVE  UNCHANGED MetricsOwner
  <2>1. \A q \in Proc : InMetrics(q)' <=> InMetrics(q)
    BY <1>3, <1>4 DEF Goto, InMetrics
  <2> QED  BY <1>1, <1>4, <2>1
<1>5. CASE UNCHANGED vars
  BY <1>5, <1>2 DEF vars, lockVars
<1>6. CASE MainStep \/ HeapInitFails \/ Stop
  <2>1. CASE StartAll
    <3>1. UNCHANGED flag /\ \A q \in Proc : pc[q] = "off" /\ pc'[q] \in {"create", "ready"}
      BY <2>1 DEF StartAll, lockVars, LockInv, Setup
    <3> QED  BY <3>1, <1>1 DEF InMetrics
  <2>2. CASE ~StartAll
    BY <1>6, <2>2, <1>2
       DEF MainStep, SizeItem, stress_shared_heap_init, CarveInfo, CarveDesc, CarveValues, Carve,
           NextItem, HeapInitFails, Stop, lockVars
  <2> QED  BY <2>1, <2>2
<1>7. ASSUME NEW p \in Proc,
             \/ CreateAcquire(p) \/ CreateScan(p) \/ CreateMark(p) \/ CreateUnlock(p)
             \/ CreateInit(p) \/ DestroyAcquire(p) \/ DestroyPut(p) \/ DestroyDone(p)
      PROVE  UNCHANGED MetricsOwner
  <2>1. own[p] # MetricsLock /\ Big # MetricsLock
    BY LockNames DEF LockInv, OwnFresh
  <2>2. PICK from \in {"create", "scan", "mark", "unlock", "init", "destroy", "put", "putdone"},
             to \in {"scan", "mark", "unlock", "init", "ready", "put", "putdone", "done"} :
             Goto(p, from, to)
    BY <1>7 DEF CreateAcquire, CreateScan, CreateMark, CreateUnlock, CreateInit, DestroyAcquire,
                DestroyPut, DestroyDone, Goto
  <2>3. MetricsLock \in flag' <=> MetricsLock \in flag
    BY <1>7, <2>1
       DEF CreateAcquire, CreateScan, CreateMark, CreateUnlock, CreateInit, DestroyAcquire,
           DestroyPut, DestroyDone, AcquireLock, AcquireFails, MarkUsed, ReleaseLock, InitLock,
           ClearLock, lockVars
  <2>4. from \in ProcPc /\ to \in ProcPc
    BY <2>2 DEF ProcPc
  <2>5. /\ from \notin {"search", "fill", "count", "release", "too many"}
        /\ to \notin {"search", "fill", "count", "release", "too many"}
    BY <2>2
  <2> QED  BY <2>2, <2>3, <2>4, <2>5, <1>4
<1>8. ASSUME NEW p \in Proc,
             \/ FindSearch(p) \/ FindFill(p) \/ FindCount(p) \/ FindOverflow(p) \/ SetValue(p)
             \/ Leave(p) \/ SetBegin(p)
      PROVE  UNCHANGED MetricsOwner
  <2>1. UNCHANGED flag
    BY <1>8 DEF FindSearch, FindFill, FindCount, FindOverflow, SetValue, Leave, SetBegin, lockVars
  <2>2. \/ \E from \in {"search", "fill", "count"}, to \in {"fill", "count", "release", "too many"} :
              Goto(p, from, to)
        \/ \E from \in {"overflow", "set", "ready"}, to \in {"ready", "done", "destroy", "acquire"} :
              Goto(p, from, to)
    BY <1>8 DEF FindSearch, FindFill, FindCount, FindOverflow, SetValue, Leave, SetBegin, Goto
  <2> QED  BY <2>1, <2>2, <1>4 DEF ProcPc
<1>9. ASSUME NEW p \in Proc, FindAcquire(p)
      PROVE  ML!Next \/ UNCHANGED MetricsOwner
  <2>1. CASE Goto(p, "acquire", "search") /\ AcquireLock(MetricsLock)
    <3>1. MetricsOwner = FreeLock
      BY <2>1 DEF AcquireLock, OwnerFacts
    <3>2. InMetrics(p)'
      BY <2>1, <1>3 DEF Goto, InMetrics
    <3> QED  BY <3>1, <3>2 DEF OwnerFacts
  <2>2. CASE Goto(p, "acquire", "ready") /\ AcquireFails(MetricsLock, stopped)
    BY <2>2, <1>4 DEF AcquireFails, lockVars, ProcPc
  <2> QED  BY <1>9, <2>1, <2>2 DEF FindAcquire
<1>10. ASSUME NEW p \in Proc, FindRelease(p)
       PROVE  ML!Next
  <2>1. InMetrics(p) /\ pc[p] # "off"
    BY <1>10 DEF FindRelease, Goto, InMetrics
  <2>2. MetricsLock \notin flag'
    BY <1>10, <2>1, Started DEF FindRelease, ReleaseLock
  <2> QED  BY <2>1, <2>2 DEF OwnerFacts
<1>11. ASSUME NEW p \in Proc, Killed(p)
       PROVE  ML!Next \/ UNCHANGED MetricsOwner
  <2>1. flag' = flag /\ pc' = [pc EXCEPT ![p] = "dead"]
    BY <1>11 DEF Killed, lockVars
  <2>2. CASE InMetrics(p)
    <3>1. \A q \in Proc : ~InMetrics(q)'
      BY <2>1, <2>2, <1>3 DEF LockInv, MetricsHeld, InMetrics
    <3>2. MetricsLock \in flag'
      BY <2>1, <2>2 DEF LockInv, MetricsHeld
    <3> QED  BY <2>2, <3>1, <3>2 DEF OwnerFacts
  <2>3. CASE ~InMetrics(p)
    <3>1. \A q \in Proc : InMetrics(q)' <=> InMetrics(q)
      BY <2>1, <2>3, <1>3 DEF InMetrics
    <3> QED  BY <3>1, <2>1, <1>1
  <2> QED  BY <2>2, <2>3
<1>12. ASSUME NEW p \in Proc, Step(p) \/ SetBegin(p) \/ Spin(p) \/ Killed(p)
       PROVE  ML!Next \/ UNCHANGED MetricsOwner
  BY <1>12, <1>5, <1>7, <1>8, <1>9, <1>10, <1>11 DEF Step, Spin
<1> QED  BY <1>5, <1>6, <1>12 DEF Next, Ended

\* The spin lock as stress_metrics_find uses it implements the abstract lock:
\* at most one process has it, only the holder gives it back, and a holder that
\* is killed keeps it for ever.
THEOREM MetricsLockIsLock == Spec => ImplementsLock
<1>1. Init => ML!Init
  BY DEF Init, LockInit, MetricsOwner, MetricsLock, ML!Init
<1>2. LockInv /\ LockInv' /\ OwnerFacts /\ OwnerFacts' /\ [Next]_vars => [ML!Next]_MetricsOwner
  BY OwnerStep
<1> QED  BY <1>1, <1>2, LockStart, LockStep, OwnerIs, PTL DEF Spec, ImplementsLock, ML!Spec
-----------------------------------------------------------------------------
(***************************************************************************)
(* The table of metrics.  The index a process has found stays good after it  *)
(* has released the lock, because entries that are counted never change; an  *)
(* entry that is being filled is not counted yet, and its process alone has  *)
(* the lock.                                                                 *)
(***************************************************************************)
Counters ==
    /\ overflow \subseteq Item
    /\ calls \in [Proc -> 0..MaxCalls] /\ kills \in 0..MaxKills /\ stopped \in BOOLEAN
Arrays ==
    /\ num \in [Item -> Nat] /\ DOMAIN descs = Item /\ DOMAIN values = Proc
    /\ \A k \in Item : descs[k] \in [Index(k) -> Desc \cup {None}]
    /\ \A p \in Proc : values[p] \in [Index(p[1]) -> Desc \cup {None}]
Locals == idx \in [Proc -> Nat] /\ arg \in [Proc -> Desc \cup {None}]

\* The entries of item k are complete, different, and fit in.
EntryOK(k) ==
    /\ num[k] <= MaxItems[k]
    /\ \A i \in 1..num[k] : descs[k][i] # None
    /\ \A i, j \in 1..num[k] : descs[k][i] = descs[k][j] => i = j
\* The values of p stand under their own names.
ValueOK(p) ==
    \A i \in Index(p[1]) : values[p][i] # None =>
        i <= num[p[1]] /\ descs[p[1]][i] = values[p][i]
\* What p has in hand in stress_metrics_find and after it.
CallOK(p) ==
    /\ pc[p] \in {"acquire", "search", "fill", "count", "release", "set"} => arg[p] # None
    /\ pc[p] \in {"fill", "count"} =>
          /\ idx[p] = num[p[1]] + 1 /\ idx[p] \in Index(p[1])
          /\ \A i \in 1..num[p[1]] : descs[p[1]][i] # arg[p]
    /\ pc[p] = "count" => descs[p[1]][idx[p]] = arg[p]
    /\ pc[p] \in {"release", "set"} =>
          idx[p] \in 1..num[p[1]] /\ descs[p[1]][idx[p]] = arg[p]

TableInv ==
    /\ Counters /\ Arrays /\ Locals
    /\ \A k \in Item : EntryOK(k)
    /\ \A p \in Proc : ValueOK(p)
    /\ \A p \in Proc : CallOK(p)

LEMMA ItemOf == \A p \in Proc : p[1] \in Item
<1> SUFFICES ASSUME NEW p \in Proc PROVE p[1] \in Item
  OBVIOUS
<1>1. PICK k \in Item : p \in {<<k, j>> : j \in 1..Instances[k]}
  BY DEF Proc
<1>2. PICK j \in 1..Instances[k] : p = <<k, j>>
  BY <1>1
<1> QED  BY <1>2

LEMMA TableStart == Init => TableInv
<1> SUFFICES ASSUME Init PROVE TableInv
  OBVIOUS
<1>1. /\ num = [k \in Item |-> 0] /\ overflow = {} /\ kills = 0 /\ stopped = FALSE
      /\ descs = [k \in Item |-> [i \in Index(k) |-> None]]
      /\ values = [p \in Proc |-> [i \in Index(p[1]) |-> None]]
      /\ pc = [p \in Proc |-> "off"] /\ idx = [p \in Proc |-> 0]
      /\ arg = [p \in Proc |-> None] /\ calls = [p \in Proc |-> 0]
  BY DEF Init
<1>2. Counters
  <2>1. 0 \in 0..MaxCalls /\ 0 \in 0..MaxKills
    BY BoundsAssumption
  <2>2. calls \in [Proc -> 0..MaxCalls]
    BY <1>1, <2>1
  <2> QED  BY <1>1, <2>1, <2>2 DEF Counters
<1>3. Arrays
  BY <1>1 DEF Arrays
<1>4. Locals
  BY <1>1 DEF Locals
<1>5. ASSUME NEW k \in Item PROVE EntryOK(k)
  BY <1>1, ItemsAssumption DEF EntryOK
<1>6. ASSUME NEW p \in Proc PROVE ValueOK(p)
  BY <1>1 DEF ValueOK
<1>7. ASSUME NEW p \in Proc PROVE CallOK(p)
  <2>1. pc[p] = "off"
    BY <1>1
  <2> QED  BY <2>1 DEF CallOK
<1> QED  BY <1>2, <1>3, <1>4, <1>5, <1>6, <1>7 DEF TableInv

\* A step that leaves the table alone, and takes no process to a place where
\* more is known than where it was.
LEMMA TableQuiet ==
    ASSUME TableInv, Counters', UNCHANGED <<num, descs, values, arg, idx>>,
           \A p \in Proc :
              \/ pc'[p] = pc[p]
              \/ pc'[p] \notin {"acquire", "search", "fill", "count", "release", "set"}
              \/ pc[p] = "acquire" /\ pc'[p] = "search"
              \/ pc[p] = "release" /\ pc'[p] = "set"
    PROVE  TableInv'
<1>1. Arrays' /\ Locals'
  BY DEF TableInv, Arrays, Locals
<1>2. ASSUME NEW k \in Item PROVE EntryOK(k)'
  BY DEF TableInv, EntryOK
<1>3. ASSUME NEW p \in Proc PROVE ValueOK(p)'
  BY DEF TableInv, ValueOK
<1>4. ASSUME NEW p \in Proc PROVE CallOK(p)'
  BY DEF TableInv, CallOK
<1> QED  BY <1>1, <1>2, <1>3, <1>4 DEF TableInv

\* Steps of stress_metrics_set and stress_metrics_find that are not quiet.
LEMMA TableSetBegin ==
    ASSUME TableInv, LockInv, NEW p \in Proc, SetBegin(p)
    PROVE  TableInv'
<1>1. /\ UNCHANGED <<num, descs, values, idx, overflow, kills, stopped>>
      /\ calls' = [calls EXCEPT ![p] = @ + 1] /\ calls[p] < MaxCalls
      /\ pc' = [pc EXCEPT ![p] = "acquire"]
  BY DEF SetBegin, Goto, tableVars
<1>2. PICK d \in Desc : arg' = [arg EXCEPT ![p] = d]
  BY DEF SetBegin
<1>3. Counters'
  <2>1. calls' \in [Proc -> 0..MaxCalls]
    BY <1>1, BoundsAssumption DEF TableInv, Counters
  <2> QED  BY <1>1, <2>1 DEF TableInv, Counters
<1>4. Arrays' /\ Locals'
  BY <1>1, <1>2 DEF TableInv, Arrays, Locals
<1>5. ASSUME NEW k \in Item PROVE EntryOK(k)'
  BY <1>1 DEF TableInv, EntryOK
<1>6. ASSUME NEW q \in Proc PROVE ValueOK(q)'
  BY <1>1 DEF TableInv, ValueOK
<1>7. ASSUME NEW q \in Proc PROVE CallOK(q)'
  <2>1. pc \in [Proc -> ProcPc] /\ arg \in [Proc -> Desc \cup {None}]
    BY DEF LockInv, ProcType, TableInv, Locals
  <2>2. CASE q = p
    <3>1. pc'[q] = "acquire" /\ arg'[q] # None
      BY <1>1, <1>2, <2>1, <2>2, BoundsAssumption
    <3> QED  BY <3>1 DEF CallOK
  <2>3. CASE q # p
    <3>1. pc'[q] = pc[q] /\ arg'[q] = arg[q]
      BY <1>1, <1>2, <2>1, <2>3
    <3> QED  BY <1>1, <3>1 DEF TableInv, CallOK
  <2> QED  BY <2>2, <2>3
<1> QED  BY <1>3, <1>4, <1>5, <1>6, <1>7 DEF TableInv

LEMMA TableSearch ==
    ASSUME TableInv, LockInv, NEW p \in Proc, FindSearch(p)
    PROVE  TableInv'
<1>1. UNCHANGED <<num, descs, values, arg, overflow, calls, kills, stopped>> /\ pc[p] = "search"
  BY DEF FindSearch, tableVars
<1>2. /\ pc \in [Proc -> ProcPc] /\ idx \in [Proc -> Nat] /\ num \in [Item -> Nat]
      /\ p[1] \in Item /\ MaxItems[p[1]] \in Nat
  BY ItemOf, ItemsAssumption DEF LockInv, ProcType, TableInv, Locals, Arrays
<1>3. arg[p] # None
  BY <1>1 DEF TableInv, CallOK
<1>4. PICK place \in ProcPc, i \in Nat :
        /\ pc' = [pc EXCEPT ![p] = place] /\ idx' = [idx EXCEPT ![p] = i]
        /\ \/ place = "release" /\ i \in 1..num[p[1]] /\ descs[p[1]][i] = arg[p]
           \/ place = "too many"
           \/ /\ place = "fill" /\ i = num[p[1]] + 1 /\ i \in Index(p[1])
              /\ \A j \in 1..num[p[1]] : descs[p[1]][j] # arg[p]
  <2>1. num[p[1]] \in Nat /\ num[p[1]] <= MaxItems[p[1]]
    BY <1>2 DEF TableInv, EntryOK
  <2>2. \A i \in Matches(p) : i \in 1..num[p[1]] /\ i \in Nat /\ descs[p[1]][i] = arg[p]
    BY <2>1, <1>2 DEF Matches, Index
  <2>3. Matches(p) = {} => \A j \in 1..num[p[1]] : descs[p[1]][j] # arg[p]
    BY <2>1, <1>2 DEF Matches, Index
  <2>4. num[p[1]] < MaxItems[p[1]] => num[p[1]] + 1 \in Index(p[1])
    BY <2>1, <1>2 DEF Index
  <2>5. {"release", "too many", "fill"} \subseteq ProcPc
    BY DEF ProcPc
  <2>6. CASE \E i \in Matches(p) : idx' = [idx EXCEPT ![p] = i] /\ pc' = [pc EXCEPT ![p] = "release"]
    BY <2>6, <2>2, <2>5
  <2>7. CASE /\ Matches(p) = {} /\ idx' = [idx EXCEPT ![p] = num[p[1]] + 1]
             /\ num[p[1]] >= MaxItems[p[1]] /\ pc' = [pc EXCEPT ![p] = "too many"]
    <3>1. num[p[1]] + 1 \in Nat
      BY <2>1
    <3> QED  BY <2>7, <2>5, <3>1
  <2>8. CASE /\ Matches(p) = {} /\ idx' = [idx EXCEPT ![p] = num[p[1]] + 1]
             /\ ~(num[p[1]] >= MaxItems[p[1]]) /\ pc' = [pc EXCEPT ![p] = "fill"]
    <3>1. num[p[1]] + 1 \in Index(p[1]) /\ num[p[1]] + 1 \in Nat
      BY <2>8, <2>1, <2>4, <1>2
    <3> QED  BY <2>8, <2>3, <2>5, <3>1
  <2> QED  BY <2>6, <2>7, <2>8 DEF FindSearch
<1>5. Counters' /\ Arrays' /\ Locals'
  BY <1>1, <1>2, <1>4 DEF TableInv, Counters, Arrays, Locals
<1>6. ASSUME NEW k \in Item PROVE EntryOK(k)'
  BY <1>1 DEF TableInv, EntryOK
<1>7. ASSUME NEW q \in Proc PROVE ValueOK(q)'
  BY <1>1 DEF TableInv, ValueOK
<1>8. ASSUME NEW q \in Proc PROVE CallOK(q)'
  <2>1. CASE q = p
    <3>1. pc'[q] = place /\ idx'[q] = i
      BY <1>2, <1>4, <2>1
    <3> QED  BY <1>1, <1>3, <1>4, <2>1, <3>1 DEF CallOK
  <2>2. CASE q # p
    <3>1. pc'[q] = pc[q] /\ idx'[q] = idx[q]
      BY <1>2, <1>4, <2>2
    <3> QED  BY <1>1, <3>1 DEF TableInv, CallOK
  <2> QED  BY <2>1, <2>2
<1> QED  BY <1>5, <1>6, <1>7, <1>8 DEF TableInv

LEMMA TableFill ==
    ASSUME TableInv, LockInv, NEW p \in Proc, FindFill(p)
    PROVE  TableInv'
<1> DEFINE k == p[1]
           n == num[k]
<1>1. /\ UNCHANGED <<num, values, arg, idx, overflow, calls, kills, stopped>>
      /\ pc[p] = "fill" /\ pc' = [pc EXCEPT ![p] = "count"]
      /\ descs' = [descs EXCEPT ![k] = [descs[k] EXCEPT ![idx[p]] = arg[p]]]
  BY DEF FindFill, Goto, procVars
<1>2. /\ k \in Item /\ n \in Nat /\ pc \in [Proc -> ProcPc]
      /\ arg[p] \in Desc \cup {None} /\ DOMAIN descs = Item
      /\ \A m \in Item : descs[m] \in [Index(m) -> Desc \cup {None}]
  BY ItemOf DEF LockInv, ProcType, TableInv, Locals, Arrays
<1>3. /\ arg[p] # None /\ idx[p] = n + 1 /\ idx[p] \in Index(k)
      /\ \A i \in 1..n : descs[k][i] # arg[p]
  BY <1>1 DEF TableInv, CallOK
\* Counted entries do not change.
<1>4. ASSUME NEW m \in Item, NEW i \in Index(m), m # k \/ i # idx[p]
      PROVE  descs'[m][i] = descs[m][i]
  BY <1>1, <1>2, <1>4
<1>5. descs'[k][idx[p]] = arg[p]
  BY <1>1, <1>2, <1>3
<1>6. \A m \in Item : \A i \in 1..num[m] : i \in Index(m) /\ descs'[m][i] = descs[m][i]
  <2> SUFFICES ASSUME NEW m \in Item, NEW i \in 1..num[m]
               PROVE  i \in Index(m) /\ descs'[m][i] = descs[m][i]
    OBVIOUS
  <2>1. num[m] \in Nat /\ num[m] <= MaxItems[m] /\ MaxItems[m] \in Nat
    BY ItemsAssumption DEF TableInv, Arrays, EntryOK
  <2>2. i \in Index(m)
    BY <2>1 DEF Index
  <2>3. m = k => i # idx[p]
    BY <1>2, <1>3
  <2> QED  BY <2>2, <2>3, <1>4
<1>7. Counters' /\ Locals'
  BY <1>1 DEF TableInv, Counters, Locals
<1>8. Arrays'
  <2>1. DOMAIN descs' = Item
    BY <1>1, <1>2
  <2>2. ASSUME NEW m \in Item PROVE descs'[m] \in [Index(m) -> Desc \cup {None}]
    BY <1>1, <1>2, <1>3
  <2> QED  BY <1>1, <2>1, <2>2 DEF TableInv, Arrays
<1>9. ASSUME NEW m \in Item PROVE EntryOK(m)'
  BY <1>1, <1>6 DEF TableInv, EntryOK
<1>10. ASSUME NEW q \in Proc PROVE ValueOK(q)'
  <2> SUFFICES ASSUME NEW i \in Index(q[1]), values[q][i] # None
               PROVE  i <= num[q[1]] /\ descs'[q[1]][i] = values[q][i]
    BY <1>1 DEF ValueOK
  <2>1. i <= num[q[1]] /\ descs[q[1]][i] = values[q][i]
    BY DEF TableInv, ValueOK
  <2>2. q[1] \in Item /\ i \in 1..num[q[1]]
    BY <2>1, ItemOf, ItemsAssumption DEF Index, TableInv, Arrays
  <2> QED  BY <2>1, <2>2, <1>6
<1>11. ASSUME NEW q \in Proc PROVE CallOK(q)'
  <2>1. CASE q = p
    <3>1. pc'[q] = "count"
      BY <1>1, <1>2, <2>1
    <3>2. \A i \in 1..num[k] : descs'[k][i] # arg[p]
      BY <1>2, <1>3, <1>6
    <3> QED  BY <1>1, <1>3, <1>5, <2>1, <3>1, <3>2 DEF CallOK
  <2>2. CASE q # p
    <3>1. pc'[q] = pc[q] /\ ~InMetrics(q)
      BY <1>1, <1>2, <2>2 DEF LockInv, MetricsHeld, InMetrics
    <3>2. CallOK(q) /\ q[1] \in Item
      BY ItemOf DEF TableInv
    <3> QED  BY <1>1, <1>6, <3>1, <3>2 DEF CallOK, InMetrics
  <2> QED  BY <2>1, <2>2
<1> QED  BY <1>7, <1>8, <1>9, <1>10, <1>11 DEF TableInv

LEMMA TableCount ==
    ASSUME TableInv, LockInv, NEW p \in Proc, FindCount(p)
    PROVE  TableInv'
<1> DEFINE k == p[1]
           n == num[k]
<1>1. /\ UNCHANGED <<descs, values, arg, idx, overflow, calls, kills, stopped>>
      /\ pc[p] = "count" /\ pc' = [pc EXCEPT ![p] = "release"]
      /\ num' = [num EXCEPT ![k] = @ + 1]
  BY DEF FindCount, Goto, procVars
<1>2. /\ k \in Item /\ num \in [Item -> Nat] /\ pc \in [Proc -> ProcPc]
      /\ MaxItems[k] \in Nat
  BY ItemOf, ItemsAssumption DEF LockInv, ProcType, TableInv, Arrays
<1>3. /\ arg[p] # None /\ idx[p] = n + 1 /\ idx[p] \in Index(k)
      /\ descs[k][idx[p]] = arg[p]
      /\ \A i \in 1..n : descs[k][i] # arg[p]
  BY <1>1 DEF TableInv, CallOK
<1>4. n \in Nat /\ n + 1 <= MaxItems[k] /\ num'[k] = n + 1
  BY <1>1, <1>2, <1>3 DEF Index
<1>5. \A m \in Item : m # k => num'[m] = num[m]
  BY <1>1, <1>2
<1>6. \A m \in Item : num[m] <= num'[m] /\ num[m] \in Nat /\ num'[m] \in Nat
  BY <1>2, <1>4, <1>5
<1>7. Counters' /\ Locals' /\ Arrays'
  BY <1>1, <1>2 DEF TableInv, Counters, Locals, Arrays
<1>8. ASSUME NEW m \in Item PROVE EntryOK(m)'
  <2>1. CASE m = k
    <3>1. EntryOK(k) /\ 1..num'[k] = (1..n) \cup {n + 1}
      BY <1>2, <1>4 DEF TableInv
    <3>2. \A i \in 1..num'[k] : descs[k][i] # None
      BY <1>3, <3>1 DEF EntryOK
    <3>3. \A i, j \in 1..num'[k] : descs[k][i] = descs[k][j] => i = j
      BY <1>3, <3>1 DEF EntryOK
    <3> QED  BY <1>1, <1>4, <2>1, <3>2, <3>3 DEF EntryOK
  <2>2. CASE m # k
    BY <1>1, <1>5, <2>2 DEF TableInv, EntryOK
  <2> QED  BY <2>1, <2>2
<1>9. ASSUME NEW q \in Proc PROVE ValueOK(q)'
  <2> SUFFICES ASSUME NEW i \in Index(q[1]), values[q][i] # None
               PROVE  i <= num'[q[1]] /\ descs[q[1]][i] = values[q][i]
    BY <1>1 DEF ValueOK
  <2>1. i <= num[q[1]] /\ descs[q[1]][i] = values[q][i]
    BY DEF TableInv, ValueOK
  <2>2. q[1] \in Item /\ i \in Int
    BY ItemOf DEF Index
  <2> QED  BY <2>1, <2>2, <1>6
<1>10. ASSUME NEW q \in Proc PROVE CallOK(q)'
  <2>1. CASE q = p
    <3>1. pc'[q] = "release" /\ idx[p] \in 1..num'[k]
      BY <1>1, <1>2, <1>3, <1>4, <2>1
    <3> QED  BY <1>1, <1>3, <2>1, <3>1 DEF CallOK
  <2>2. CASE q # p
    <3>1. pc'[q] = pc[q] /\ ~InMetrics(q)
      BY <1>1, <1>2, <2>2 DEF LockInv, MetricsHeld, InMetrics
    <3>2. CallOK(q) /\ q[1] \in Item
      BY ItemOf DEF TableInv
    <3>3. idx[q] \in 1..num[q[1]] => idx[q] \in 1..num'[q[1]]
      BY <1>6, <3>2
    <3> QED  BY <1>1, <3>1, <3>2, <3>3 DEF CallOK, InMetrics
  <2> QED  BY <2>1, <2>2
<1> QED  BY <1>7, <1>8, <1>9, <1>10 DEF TableInv

LEMMA TableSet ==
    ASSUME TableInv, LockInv, NEW p \in Proc, SetValue(p)
    PROVE  TableInv'
<1> DEFINE k == p[1]
<1>1. /\ UNCHANGED <<num, descs, arg, idx, overflow, calls, kills, stopped>>
      /\ pc[p] = "set" /\ pc' = [pc EXCEPT ![p] = "ready"]
      /\ values' = [values EXCEPT ![p] = [values[p] EXCEPT ![idx[p]] = arg[p]]]
  BY DEF SetValue, Goto, procVars
<1>2. /\ k \in Item /\ pc \in [Proc -> ProcPc] /\ arg[p] \in Desc \cup {None}
      /\ DOMAIN values = Proc
      /\ \A q \in Proc : values[q] \in [Index(q[1]) -> Desc \cup {None}]
  BY ItemOf DEF LockInv, ProcType, TableInv, Locals, Arrays
<1>3. idx[p] \in 1..num[k] /\ descs[k][idx[p]] = arg[p]
  BY <1>1 DEF TableInv, CallOK
<1>4. Counters' /\ Locals'
  BY <1>1 DEF TableInv, Counters, Locals
<1>5. Arrays'
  <2>1. DOMAIN values' = Proc
    BY <1>1, <1>2
  <2>2. ASSUME NEW q \in Proc PROVE values'[q] \in [Index(q[1]) -> Desc \cup {None}]
    BY <1>1, <1>2
  <2> QED  BY <1>1, <2>1, <2>2 DEF TableInv, Arrays
<1>6. ASSUME NEW m \in Item PROVE EntryOK(m)'
  BY <1>1 DEF TableInv, EntryOK
<1>7. ASSUME NEW q \in Proc PROVE ValueOK(q)'
  <2> SUFFICES ASSUME NEW i \in Index(q[1]), values'[q][i] # None
               PROVE  i <= num[q[1]] /\ descs[q[1]][i] = values'[q][i]
    BY <1>1 DEF ValueOK
  <2>1. CASE q = p /\ i = idx[p]
    <3>1. values'[q][i] = arg[p]
      BY <1>1, <1>2, <2>1
    <3>2. num[k] \in Nat
      BY <1>2 DEF TableInv, Arrays
    <3> QED  BY <1>3, <2>1, <3>1, <3>2
  <2>2. CASE ~(q = p /\ i = idx[p])
    <3>1. values'[q][i] = values[q][i]
      BY <1>1, <1>2, <2>2
    <3> QED  BY <3>1 DEF TableInv, ValueOK
  <2> QED  BY <2>1, <2>2
<1>8. ASSUME NEW q \in Proc PROVE CallOK(q)'
  <2>1. pc'[q] = pc[q] \/ pc'[q] = "ready"
    BY <1>1, <1>2
  <2> QED  BY <1>1, <2>1 DEF TableInv, CallOK
<1> QED  BY <1>4, <1>5, <1>6, <1>7, <1>8 DEF TableInv

\* Steps of main, and steps of the processes that are about other locks or that
\* only take or give back the metrics lock, are quiet.
LEMMA TableOthers ==
    ASSUME TableInv, LockInv,
           \/ UNCHANGED vars \/ MainStep \/ HeapInitFails \/ Stop
           \/ \E p \in Proc :
                 \/ CreateAcquire(p) \/ CreateScan(p) \/ CreateMark(p) \/ CreateUnlock(p)
                 \/ CreateInit(p) \/ DestroyAcquire(p) \/ DestroyPut(p) \/ DestroyDone(p)
                 \/ FindAcquire(p) \/ FindRelease(p) \/ FindOverflow(p) \/ Leave(p) \/ Killed(p)
    PROVE  TableInv'
<1> DEFINE Still == UNCHANGED <<num, descs, values, arg, idx, calls>>
           Quiet(q) == \/ pc'[q] = pc[q]
                       \/ pc'[q] \notin {"acquire", "search", "fill", "count", "release", "set"}
                       \/ pc[q] = "acquire" /\ pc'[q] = "search"
                       \/ pc[q] = "release" /\ pc'[q] = "set"
<1>1. pc \in [Proc -> ProcPc] /\ Counters
  BY DEF LockInv, ProcType, TableInv
\* One process moves.
<1>2. ASSUME NEW p \in Proc, NEW to,
             pc' = [pc EXCEPT ![p] = to],
             \/ to \notin {"acquire", "search", "fill", "count", "release", "set"}
             \/ pc[p] = "acquire" /\ to = "search"
             \/ pc[p] = "release" /\ to = "set"
      PROVE  \A q \in Proc : Quiet(q)
  BY <1>1, <1>2
<1>3. CASE UNCHANGED vars \/ MainStep \/ HeapInitFails \/ Stop
  <2>1. Still /\ UNCHANGED <<overflow, kills>> /\ stopped' \in {stopped, TRUE}
    BY <1>3 DEF vars, MainStep, SizeItem, stress_shared_heap_init, CarveInfo, CarveDesc,
                CarveValues, Carve, NextItem, StartAll, HeapInitFails, Stop, tableVars, procVars
  <2>2. Counters'
    BY <1>1, <2>1 DEF Counters
  <2>3. CASE StartAll
    <3>1. \A q \in Proc : pc'[q] \in {"create", "ready"}
      BY <2>3 DEF StartAll
    <3> QED  BY <2>1, <2>2, <3>1, TableQuiet
  <2>4. CASE ~StartAll
    <3>1. pc' = pc
      BY <1>3, <2>4
         DEF vars, MainStep, SizeItem, stress_shared_heap_init, CarveInfo, CarveDesc,
             CarveValues, Carve, NextItem, HeapInitFails, Stop
    <3> QED  BY <2>1, <2>2, <3>1, TableQuiet
  <2> QED  BY <2>3, <2>4
<1>4. ASSUME NEW p \in Proc,
             \/ CreateAcquire(p) \/ CreateScan(p) \/ CreateMark(p) \/ CreateUnlock(p)
             \/ CreateInit(p) \/ DestroyAcquire(p) \/ DestroyPut(p) \/ DestroyDone(p)
      PROVE  TableInv'
  <2>1. Still /\ UNCHANGED <<overflow, kills, stopped>>
    BY <1>4 DEF CreateAcquire, CreateScan, CreateMark, CreateUnlock, CreateInit, DestroyAcquire,
                DestroyPut, DestroyDone, tableVars, procVars
  <2>2. PICK to \in {"scan", "mark", "unlock", "init", "ready", "put", "putdone", "done"} :
          pc' = [pc EXCEPT ![p] = to]
    BY <1>4 DEF CreateAcquire, CreateScan, CreateMark, CreateUnlock, CreateInit, DestroyAcquire,
                DestroyPut, DestroyDone, Goto
  <2>3. \A q \in Proc : Quiet(q)
    BY <2>2, <1>2
  <2>4. Counters'
    BY <1>1, <2>1 DEF Counters
  <2> QED  BY <2>1, <2>3, <2>4, TableQuiet
<1>5. ASSUME NEW p \in Proc,
             FindAcquire(p) \/ FindRelease(p) \/ FindOverflow(p) \/ Leave(p) \/ Killed(p)
      PROVE  TableInv'
  <2>1. Still /\ UNCHANGED stopped
    BY <1>5 DEF FindAcquire, FindRelease, FindOverflow, Leave, Killed, tableVars, procVars
  <2>2. PICK to \in {"search", "ready", "set", "overflow", "done", "destroy", "dead"} :
          /\ pc' = [pc EXCEPT ![p] = to]
          /\ to = "search" => pc[p] = "acquire"
          /\ to = "set" => pc[p] = "release"
    BY <1>5 DEF FindAcquire, FindRelease, FindOverflow, Leave, Killed, Goto
  <2>3. \A q \in Proc : Quiet(q)
    BY <2>2, <1>2
  <2>4. overflow' \subseteq Item /\ kills' \in 0..MaxKills
    <3>1. overflow' \in {overflow, overflow \cup {p[1]}}
      BY <1>5 DEF FindAcquire, FindRelease, FindOverflow, Leave, Killed, tableVars
    <3>2. kills' = kills \/ (kills < MaxKills /\ kills' = kills + 1)
      BY <1>5 DEF FindAcquire, FindRelease, FindOverflow, Leave, Killed, procVars
    <3>3. overflow' \subseteq Item
      BY <1>1, <3>1, ItemOf DEF Counters
    <3>4. kills' \in 0..MaxKills
      BY <1>1, <3>2, BoundsAssumption DEF Counters
    <3> QED  BY <3>3, <3>4
  <2>5. Counters'
    BY <1>1, <2>1, <2>4 DEF Counters
  <2> QED  BY <2>1, <2>3, <2>5, TableQuiet
<1> QED  BY <1>3, <1>4, <1>5

LEMMA TableStep == LockInv /\ TableInv /\ [Next]_vars => TableInv'
<1> SUFFICES ASSUME LockInv, TableInv, [Next]_vars PROVE TableInv'
  OBVIOUS
<1>1. CASE \E p \in Proc : SetBegin(p)
  BY <1>1, TableSetBegin
<1>2. CASE \E p \in Proc : FindSearch(p)
  BY <1>2, TableSearch
<1>3. CASE \E p \in Proc : FindFill(p)
  BY <1>3, TableFill
<1>4. CASE \E p \in Proc : FindCount(p)
  BY <1>4, TableCount
<1>5. CASE \E p \in Proc : SetValue(p)
  BY <1>5, TableSet
<1> QED  BY <1>1, <1>2, <1>3, <1>4, <1>5, TableOthers DEF Next, Step, Spin, Ended

\* The metrics main reports are complete and all different, for any number of
\* stressors, instances, descriptions and calls, although a process may be
\* killed anywhere in stress_metrics_find.
THEOREM MetricsDistinct == Spec => []EntriesDistinct
<1>1. TableInv => EntriesDistinct
  BY DEF TableInv, EntryOK, EntriesDistinct
<1> QED  BY <1>1, LockStart, LockStep, TableStart, TableStep, PTL DEF Spec

\* Every value stands under the description it was set for, although
\* stress_metrics_set uses the index after stress_metrics_find has released the
\* lock.
THEOREM MetricsUnderOwnName == Spec => []ValuesUnderOwnName
<1>1. TableInv => ValuesUnderOwnName
  <2> SUFFICES ASSUME TableInv, NEW p \in Proc, pc[p] = "set" PROVE idx[p] \in Index(p[1])
    BY DEF TableInv, ValueOK, ValuesUnderOwnName
  <2>1. /\ p[1] \in Item /\ MaxItems[p[1]] \in Nat /\ num[p[1]] \in Nat
        /\ num[p[1]] <= MaxItems[p[1]]
    BY ItemOf, ItemsAssumption DEF TableInv, Arrays, EntryOK
  <2>2. idx[p] \in 1..num[p[1]]
    BY DEF TableInv, CallOK
  <2> QED  BY <2>1, <2>2 DEF Index
<1> QED  BY <1>1, LockStart, LockStep, TableStart, TableStep, PTL DEF Spec

\* The types of all the state: of the heap (HeapInv), of the locks (LockInv)
\* and of the table (TableInv).
THEOREM TypeCorrect == Spec => []TypeOK
<1>1. HeapInv /\ LockInv /\ TableInv => TypeOK
  BY DEF HeapInv, LockInv, ProcType, TableInv, Counters, Arrays, Locals, TypeOK, TableType
<1> QED  BY <1>1, HeapInit, HeapStep, LockStart, LockStep, TableStart, TableStep, PTL DEF Spec
=============================================================================
