----------------------------- MODULE FitsProofs -----------------------------
(***************************************************************************)
(* Proofs about the tools for FITS headers and for tables: QuickSelect,    *)
(* for arrays of any size and any integers, HeaderFile, and DatFile, for   *)
(* any texts.                                                              *)
(***************************************************************************)
EXTENDS QuickSelect, HeaderFile, DatFile, FiniteSetTheorems,
        WellFoundedInduction, TLAPS

-----------------------------------------------------------------------------
(* QuickSelect: the inductive invariant for StaysInside.                   *)

(* The part to be sorted is in the array, and inside it the loops are.     *)
PartInv ==
  /\ loop # "done" => low \in 0 .. n - 1 /\ high \in 0 .. n - 1
  /\ loop = "up" => ll \in low + 1 .. high - 1 /\ hh \in low + 2 .. high
  /\ loop = "down" => ll \in low + 2 .. high /\ hh \in low + 2 .. high
  /\ loop = "meet" => ll \in low + 2 .. high /\ hh \in low + 1 .. high - 1

(* Where the loops would leave it, the median of three has put what stops  *)
(* them, and no exchange moves that.                                       *)
SentinelInv ==
  loop \in {"up", "down", "meet"} =>
    /\ low + 2 <= high
    /\ arr[low + 1] <= arr[low] /\ arr[low] <= arr[high]

SelectIInv == SelectTypeOK /\ PartInv /\ SentinelInv

Data == [0 .. n - 1 -> Values]

(* An exchange of two elements, and one done only if they are in the wrong *)
(* order, give an array of the same size.                                  *)
LEMMA SwapType ==
  ASSUME NEW a \in Data, NEW i \in 0 .. n - 1, NEW j \in 0 .. n - 1
  PROVE  /\ Swapped(a, i, j) \in Data
         /\ Swapped(a, i, j)[i] = a[j] /\ Swapped(a, i, j)[j] = a[i]
         /\ \A k \in 0 .. n - 1 :
              k # i /\ k # j => Swapped(a, i, j)[k] = a[k]
BY DEF Data, Swapped

(* PIX_SORT leaves the lesser of the two at i.                             *)
LEMMA SortType ==
  ASSUME n \in Nat, NEW a \in Data,
         NEW i \in 0 .. n - 1, NEW j \in 0 .. n - 1
  PROVE  /\ PIX_SORT(a, i, j) \in Data
         /\ PIX_SORT(a, i, j)[i] <= PIX_SORT(a, i, j)[j]
         /\ \A k \in 0 .. n - 1 :
              k # i /\ k # j => PIX_SORT(a, i, j)[k] = a[k]
         /\ \/ PIX_SORT(a, i, j)[i] = a[i] /\ PIX_SORT(a, i, j)[j] = a[j]
            \/ PIX_SORT(a, i, j)[i] = a[j] /\ PIX_SORT(a, i, j)[j] = a[i]
<1>1. a[i] \in Int /\ a[j] \in Int
  BY DataAssumption DEF Data
<1>2. CASE a[i] > a[j]
  <2>1. PIX_SORT(a, i, j) = Swapped(a, i, j)
    BY <1>2 DEF PIX_SORT
  <2> QED
    BY <1>1, <1>2, <2>1, SwapType
<1>3. CASE ~(a[i] > a[j])
  <2>1. PIX_SORT(a, i, j) = a
    BY <1>3 DEF PIX_SORT
  <2> QED
    BY <1>1, <1>3, <2>1
<1> QED
  BY <1>2, <1>3

(* Three exchanges put the least of the three at the middle and the        *)
(* greatest at the end.                                                    *)
LEMMA MedianOfThreeSorts ==
  ASSUME n \in Nat, arr \in Data, low \in 0 .. n - 1, high \in 0 .. n - 1,
         NEW middle \in 0 .. n - 1, low < middle, middle < high
  PROVE  LET a == MedianOfThree(arr, middle)
         IN  a \in Data /\ a[middle] <= a[low] /\ a[low] <= a[high]
<1> DEFINE a1 == PIX_SORT(arr, middle, high)
           a2 == PIX_SORT(a1, low, high)
           a3 == PIX_SORT(a2, middle, low)
<1>1. a1 \in Data /\ a1[middle] <= a1[high]
  BY SortType
<1>2. /\ a2 \in Data /\ a2[low] <= a2[high]
      /\ a2[middle] = a1[middle]
      /\ \/ a2[low] = a1[low] /\ a2[high] = a1[high]
         \/ a2[low] = a1[high] /\ a2[high] = a1[low]
  <2> HIDE DEF a1
  <2> QED
    BY <1>1, SortType
<1>3. /\ a3 \in Data /\ a3[middle] <= a3[low] /\ a3[high] = a2[high]
      /\ \/ a3[low] = a2[low]
         \/ a3[low] = a2[middle]
  <2> HIDE DEF a2
  <2> QED
    BY <1>2, SortType
<1>4. a2[middle] <= a2[high]
  <2>1. {a1[low], a1[high], a1[middle], a2[middle], a2[high], a2[low]}
          \subseteq Int
    <3> HIDE DEF a1, a2
    <3> QED
      BY <1>1, <1>2, DataAssumption DEF Data
  <2> HIDE DEF a1, a2
  <2> QED
    BY <1>1, <1>2, <2>1
<1>5. a3[low] <= a3[high]
  <2> HIDE DEF a2, a3
  <2> QED
    BY <1>2, <1>3, <1>4
<1>6. MedianOfThree(arr, middle) = a3
  BY DEF MedianOfThree
<1> HIDE DEF a3
<1> QED
  BY <1>3, <1>5, <1>6

-----------------------------------------------------------------------------
(* The invariant holds at the start.                                       *)
LEMMA SelectAtFirst == SelectInit => SelectIInv
BY DataAssumption
   DEF SelectInit, SelectIInv, SelectTypeOK, PartInv, SentinelInv

(* One element, or two, are left.                                          *)
LEMMA FinishStep == SelectIInv /\ Finish => SelectIInv'
<1> SUFFICES ASSUME SelectIInv, Finish PROVE SelectIInv'
  OBVIOUS
<1> USE DataAssumption DEF SelectIInv, Finish, input
<1>1. arr \in Data /\ n \in Nat /\ n' = n
  BY DEF SelectTypeOK, Data
<1>2. arr' \in Data
  BY <1>1, SortType DEF PartInv
<1>3. SelectTypeOK'
  BY <1>1, <1>2 DEF SelectTypeOK, Data
<1> QED
  BY <1>3 DEF PartInv, SentinelInv

(* The median of three is taken, and the middle put next to low.           *)
LEMMA BeginStep == SelectIInv /\ BeginPart => SelectIInv'
<1> SUFFICES ASSUME SelectIInv, BeginPart PROVE SelectIInv'
  OBVIOUS
<1> DEFINE middle == (low + high) \div 2
           a == MedianOfThree(arr, middle)
<1>1. /\ n \in Nat /\ arr \in Data
      /\ low \in 0 .. n - 1 /\ high \in 0 .. n - 1 /\ low + 2 <= high
  BY DataAssumption DEF SelectIInv, SelectTypeOK, PartInv, BeginPart, Data
<1>2. middle \in 0 .. n - 1 /\ low < middle /\ middle < high
  BY <1>1
<1>3. a \in Data /\ a[middle] <= a[low] /\ a[low] <= a[high]
  <2> HIDE DEF middle
  <2> QED
    BY <1>1, <1>2, MedianOfThreeSorts
<1>4. /\ arr' = Swapped(a, middle, low + 1)
      /\ loop' = "up" /\ ll' = low + 1 /\ hh' = high
      /\ n' = n /\ idata' = idata /\ low' = low /\ high' = high
  BY DEF BeginPart, input
<1> HIDE DEF a, middle
<1>5. /\ arr' \in Data /\ arr'[low + 1] = a[middle]
      /\ arr'[low] = a[low] /\ arr'[high] = a[high]
  <2>1. low + 1 \in 0 .. n - 1 /\ low \notin {middle, low + 1}
        /\ high \notin {middle, low + 1}
    BY <1>1, <1>2
  <2>2. /\ arr' \in Data /\ arr'[low + 1] = a[middle]
        /\ \A k \in 0 .. n - 1 :
             k # middle /\ k # low + 1 => arr'[k] = a[k]
    BY <1>2, <1>3, <1>4, <2>1, SwapType
  <2> QED
    BY <1>1, <2>1, <2>2
<1>6. SelectTypeOK'
  BY <1>1, <1>4, <1>5, DataAssumption DEF SelectIInv, SelectTypeOK, Data
<1>7. PartInv'
  BY <1>1, <1>4 DEF PartInv
<1>8. SentinelInv'
  BY <1>1, <1>3, <1>4, <1>5 DEF SentinelInv
<1> QED
  BY <1>6, <1>7, <1>8 DEF SelectIInv

(* The nibbles: what stops them is at high and at low + 1.                 *)
LEMMA NibbleStep == SelectIInv /\ (Up \/ Down) => SelectIInv'
<1> SUFFICES ASSUME SelectIInv, Up \/ Down PROVE SelectIInv'
  OBVIOUS
<1>1. /\ n \in Nat /\ arr \in [0 .. n - 1 -> Int]
      /\ low \in 0 .. n - 1 /\ high \in 0 .. n - 1 /\ low + 2 <= high
      /\ {ll, hh} \subseteq Int
      /\ arr[low + 1] <= arr[low] /\ arr[low] <= arr[high]
  <2>1. /\ n \in Nat /\ arr \in [0 .. n - 1 -> Values]
        /\ loop \in {"up", "down"} /\ {ll, hh} \subseteq Int
    BY DataAssumption DEF SelectIInv, SelectTypeOK, Up, Down
  <2>2. arr \in [0 .. n - 1 -> Int]
    BY <2>1, DataAssumption
  <2> QED
    BY <2>1, <2>2 DEF SelectIInv, PartInv, SentinelInv
<1>2. /\ n' = n /\ idata' = idata /\ arr' = arr /\ low' = low /\ high' = high
      /\ loop' \in {"up", "down", "meet"}
  BY Zenon DEF Up, Down, input
<1>3. SentinelInv'
  BY <1>1, <1>2 DEF SentinelInv
<1>4. CASE Up
  <2>1. /\ ll' = ll + 1 /\ hh' = hh /\ ll \in low + 1 .. high - 1
        /\ hh \in low + 2 .. high
    BY <1>4 DEF Up, SelectIInv, PartInv
  <2>2. loop' = IF arr[low] > arr[ll'] THEN "up" ELSE "down"
    BY <1>4 DEF Up
  <2>3. ll' = high => loop' = "down"
    BY <1>1, <2>1, <2>2
  <2>4. loop' \in {"up", "down"}
    BY <2>2
  <2>5. PartInv'
    BY <1>1, <1>2, <2>1, <2>3, <2>4 DEF PartInv
  <2>6. SelectTypeOK'
    BY <1>1, <1>2, <2>1 DEF SelectIInv, SelectTypeOK
  <2> QED
    BY <1>3, <2>5, <2>6 DEF SelectIInv
<1>5. CASE Down
  <2>1. /\ ll' = ll /\ hh' = hh - 1 /\ ll \in low + 2 .. high
        /\ hh \in low + 2 .. high
    BY <1>5 DEF Down, SelectIInv, PartInv
  <2>2. loop' = IF arr[hh'] > arr[low] THEN "down" ELSE "meet"
    BY <1>5 DEF Down
  <2>3. hh' = low + 1 => loop' = "meet"
    BY <1>1, <2>1, <2>2
  <2>4. loop' \in {"down", "meet"}
    BY <2>2
  <2>5. PartInv'
    BY <1>1, <1>2, <2>1, <2>3, <2>4 DEF PartInv
  <2>6. SelectTypeOK'
    BY <1>1, <1>2, <2>1 DEF SelectIInv, SelectTypeOK
  <2> QED
    BY <1>3, <2>5, <2>6 DEF SelectIInv
<1> QED
  BY <1>4, <1>5

(* An exchange in the middle leaves low, low + 1 and high alone.           *)
LEMMA ExchangeStep == SelectIInv /\ Exchange => SelectIInv'
<1> SUFFICES ASSUME SelectIInv, Exchange PROVE SelectIInv'
  OBVIOUS
<1>1. /\ n \in Nat /\ arr \in Data
      /\ low \in 0 .. n - 1 /\ high \in 0 .. n - 1 /\ low + 2 <= high
      /\ ll \in low + 2 .. high - 1 /\ hh \in low + 2 .. high - 1
      /\ arr[low + 1] <= arr[low] /\ arr[low] <= arr[high]
  BY DataAssumption
     DEF SelectIInv, SelectTypeOK, PartInv, SentinelInv, Exchange, Data
<1>2. /\ n' = n /\ idata' = idata /\ low' = low /\ high' = high
      /\ ll' = ll /\ hh' = hh /\ loop' = "up" /\ arr' = Swapped(arr, ll, hh)
  BY DEF Exchange, input
<1>3. /\ arr' \in Data /\ arr'[low + 1] = arr[low + 1]
      /\ arr'[low] = arr[low] /\ arr'[high] = arr[high]
  <2>1. /\ {low, low + 1, high, ll, hh} \subseteq 0 .. n - 1
        /\ {low, low + 1, high} \cap {ll, hh} = {}
    BY <1>1
  <2>2. ll \in 0 .. n - 1 /\ hh \in 0 .. n - 1
    BY <2>1
  <2>3. /\ Swapped(arr, ll, hh) \in Data
        /\ \A k \in 0 .. n - 1 :
             k # ll /\ k # hh => Swapped(arr, ll, hh)[k] = arr[k]
    BY <1>1, <2>2, SwapType
  <2> QED
    BY <1>2, <2>1, <2>3
<1>4. SelectTypeOK'
  BY <1>1, <1>2, <1>3 DEF SelectIInv, SelectTypeOK, Data
<1>5. PartInv' /\ SentinelInv'
  BY <1>1, <1>2, <1>3 DEF PartInv, SentinelInv
<1> QED
  BY <1>4, <1>5 DEF SelectIInv

(* What is left to be sorted is in the part that was.                      *)
LEMMA PartitionStep == SelectIInv /\ Partition => SelectIInv'
<1> SUFFICES ASSUME SelectIInv, Partition PROVE SelectIInv'
  OBVIOUS
<1>1. /\ n \in Nat /\ arr \in Data
      /\ low \in 0 .. n - 1 /\ high \in 0 .. n - 1 /\ low + 2 <= high
      /\ ll \in low + 2 .. high /\ hh \in low + 1 .. high - 1
  BY DataAssumption
     DEF SelectIInv, SelectTypeOK, PartInv, SentinelInv, Partition, Data
<1>2. /\ n' = n /\ idata' = idata /\ ll' = ll /\ hh' = hh /\ loop' = "top"
      /\ arr' = Swapped(arr, low, hh)
      /\ low' \in {low, ll} /\ high' \in {high, hh - 1}
  BY DEF Partition, input
<1>3. arr' \in Data
  BY <1>1, <1>2, SwapType
<1>4. SelectTypeOK'
  BY <1>1, <1>2, <1>3 DEF SelectIInv, SelectTypeOK, Data
<1>5. PartInv' /\ SentinelInv'
  BY <1>1, <1>2 DEF PartInv, SentinelInv
<1> QED
  BY <1>4, <1>5 DEF SelectIInv

(* Every step keeps the invariant.                                         *)
LEMMA SelectInductive == SelectIInv /\ [SelectNext]_select_vars => SelectIInv'
<1> SUFFICES ASSUME SelectIInv, [SelectNext]_select_vars PROVE SelectIInv'
  OBVIOUS
<1>1. CASE UNCHANGED select_vars
  BY <1>1 DEF select_vars, SelectIInv, SelectTypeOK, PartInv, SentinelInv
<1> QED
  BY <1>1, FinishStep, BeginStep, NibbleStep, ExchangeStep, PartitionStep
     DEF SelectNext

(* The loops without a test for the array's ends never look at an element  *)
(* outside the part that is sorted, however many data there are.           *)
THEOREM LoopsStayInside == SelectSpec => []StaysInside
<1>1. SelectIInv => StaysInside
  BY DataAssumption
     DEF SelectIInv, SelectTypeOK, PartInv, SentinelInv, StaysInside
<1> QED
  BY <1>1, SelectAtFirst, SelectInductive, PTL DEF SelectSpec

(* What is left is a number, less for each shorter part, whatever is       *)
(* inside.                                                                 *)
LEMMA ShorterIsLess ==
  ASSUME NEW k \in Nat, NEW a \in Nat, NEW b \in Nat, NEW x \in 0 .. k - 1
  PROVE  /\ 1 + a * k + x \in Nat /\ 1 + a * k + x > 0
         /\ b < a => 1 + b * k + k <= 1 + a * k + x
<1>1. a * k \in Nat /\ b * k \in Nat
  OBVIOUS
<1>2. ASSUME b < a PROVE b * k + k <= a * k
  <2>1. (b + 1) * k = b * k + k
    OBVIOUS
  <2>2. PICK d \in Nat : a = b + 1 + d
    <3>1. a - b - 1 \in Nat /\ a = b + 1 + (a - b - 1)
      BY <1>2
    <3> QED
      BY <3>1
  <2>3. a * k = (b + 1) * k + d * k
    BY <2>2
  <2>4. d * k \in Nat
    BY <2>2
  <2> QED
    BY <1>1, <2>1, <2>3, <2>4
<1> QED
  BY <1>1, <1>2

(* What the loops have between them, or the whole part.                    *)
InsideLeft ==
  IF loop = "top" THEN 6 * n + 2
  ELSE 3 * (n + hh - ll) + (IF loop = "meet" THEN 1 ELSE 0)

LEMMA StepsLeftIs ==
  ASSUME SelectIInv, loop # "done"
  PROVE  /\ n \in Nat /\ high - low + n \in Nat
         /\ InsideLeft \in 0 .. 6 * n + 2
         /\ StepsLeft = 1 + (high - low + n) * (6 * n + 3) + InsideLeft
         /\ StepsLeft \in Nat /\ StepsLeft > 0
<1>1. /\ n \in Nat /\ n >= 1 /\ low \in 0 .. n - 1 /\ high \in 0 .. n - 1
      /\ ll \in 0 .. n /\ hh \in -1 .. n - 1
      /\ loop \in {"up", "down", "meet"} =>
           ll \in low + 1 .. high /\ hh \in low + 1 .. high
      /\ loop \in {"top", "up", "down", "meet"}
  BY DataAssumption DEF SelectIInv, SelectTypeOK, PartInv, SentinelInv
<1>2. InsideLeft \in 0 .. 6 * n + 2
  BY <1>1 DEF InsideLeft
<1>3. StepsLeft = 1 + (high - low + n) * (6 * n + 3) + InsideLeft
  BY DEF StepsLeft, InsideLeft
<1>4. high - low + n \in Nat /\ 6 * n + 3 \in Nat
      /\ InsideLeft \in 0 .. (6 * n + 3) - 1
  BY <1>1, <1>2
<1> QED
  BY <1>1, <1>2, <1>3, <1>4, ShorterIsLess

(* It is so after a step.                                                  *)
LEMMA StepsLeftThen ==
  (SelectIInv /\ loop # "done")' =>
    (/\ n \in Nat /\ high - low + n \in Nat
     /\ InsideLeft \in 0 .. 6 * n + 2
     /\ StepsLeft = 1 + (high - low + n) * (6 * n + 3) + InsideLeft
     /\ StepsLeft \in Nat /\ StepsLeft > 0)'
<1>1. SelectIInv /\ loop # "done" =>
        /\ n \in Nat /\ high - low + n \in Nat
        /\ InsideLeft \in 0 .. 6 * n + 2
        /\ StepsLeft = 1 + (high - low + n) * (6 * n + 3) + InsideLeft
        /\ StepsLeft \in Nat /\ StepsLeft > 0
  BY StepsLeftIs
<1> QED
  BY <1>1, PTL

(* The function returns: no more steps are made than were left at first,   *)
(* a number that grows with the square of how many data there are.         *)
THEOREM SelectEndsInTime ==
  SelectSpec => StepsLeft = 12 * (n * n) + 6 * n /\ EndsInTime
<1>1. SelectIInv /\ [SelectNext]_select_vars =>
        [StepsLeft' \in Nat /\ StepsLeft' < StepsLeft]_select_vars
  <2> SUFFICES ASSUME SelectIInv, SelectNext
               PROVE  StepsLeft' \in Nat /\ StepsLeft' < StepsLeft
    OBVIOUS
  <2>1. SelectIInv'
    BY SelectInductive
  <2>2. loop # "done" /\ n' = n
    BY DEF SelectNext, Finish, BeginPart, Up, Down, Exchange, Partition,
           input
  <2>3. CASE Finish
    <3>1. StepsLeft' = 0
      BY <2>3 DEF Finish, StepsLeft
    <3> QED
      BY <2>2, <3>1, StepsLeftIs
  <2>4. CASE BeginPart \/ Up \/ Down \/ Exchange
    <3>1. high' = high /\ low' = low /\ loop' # "done"
      BY <2>4 DEF BeginPart, Up, Down, Exchange, input
    <3>2. InsideLeft' < InsideLeft
      <4>1. /\ n \in Nat /\ n >= 1 /\ low \in 0 .. n - 1
            /\ high \in 0 .. n - 1 /\ ll \in 0 .. n /\ hh \in -1 .. n - 1
        BY <2>2, DataAssumption DEF SelectIInv, SelectTypeOK, PartInv
      <4> QED
        BY <2>2, <2>4, <4>1
           DEF InsideLeft, BeginPart, Up, Down, Exchange, input
    <3>3. /\ StepsLeft = 1 + (high - low + n) * (6 * n + 3) + InsideLeft
          /\ StepsLeft' = 1 + (high - low + n) * (6 * n + 3) + InsideLeft'
          /\ StepsLeft' \in Nat /\ InsideLeft \in Int /\ InsideLeft' \in Int
          /\ (high - low + n) * (6 * n + 3) \in Int
      <4>1. /\ InsideLeft \in 0 .. 6 * n + 2
            /\ StepsLeft = 1 + (high - low + n) * (6 * n + 3) + InsideLeft
            /\ high - low + n \in Nat /\ n \in Nat
        BY <2>2, StepsLeftIs
      <4>2. /\ (InsideLeft \in 0 .. 6 * n + 2)'
            /\ StepsLeft' =
                 1 + (high' - low' + n') * (6 * n' + 3) + InsideLeft'
            /\ StepsLeft' \in Nat
        BY <2>1, <3>1, StepsLeftThen
      <4> QED
        BY <2>2, <3>1, <4>1, <4>2
    <3> QED
      BY <3>2, <3>3
  <2>5. CASE Partition
    <3>1. loop' = "top" /\ high' - low' + n < high - low + n
      <4>1. /\ n \in Nat /\ low \in 0 .. n - 1 /\ high \in 0 .. n - 1
            /\ ll \in low + 2 .. high /\ hh \in low + 1 .. high - 1
        BY <2>5, DataAssumption
           DEF SelectIInv, SelectTypeOK, PartInv, Partition
      <4> QED
        BY <2>5, <4>1 DEF Partition, median
    <3>2. /\ n \in Nat /\ high - low + n \in Nat /\ 6 * n + 3 \in Nat
          /\ InsideLeft \in 0 .. (6 * n + 3) - 1
          /\ StepsLeft = 1 + (high - low + n) * (6 * n + 3) + InsideLeft
      BY <2>2, StepsLeftIs
    <3>3. /\ high' - low' + n \in Nat /\ InsideLeft' = 6 * n + 2
          /\ StepsLeft' = 1 + (high' - low' + n) * (6 * n + 3) + InsideLeft'
          /\ StepsLeft' \in Nat
      <4>1. /\ (high - low + n)' \in Nat /\ StepsLeft' \in Nat
            /\ StepsLeft' =
                 1 + (high' - low' + n') * (6 * n' + 3) + InsideLeft'
        BY <2>1, <3>1, StepsLeftThen
      <4>2. InsideLeft' = 6 * n' + 2
        BY <3>1 DEF InsideLeft
      <4> QED
        BY <2>2, <4>1, <4>2
    <3>4. 1 + (high' - low' + n) * (6 * n + 3) + (6 * n + 3) <= StepsLeft
      <4> DEFINE k == 6 * n + 3
                 a == high - low + n
                 b == high' - low' + n
      <4>1. k \in Nat /\ a \in Nat /\ b \in Nat /\ InsideLeft \in 0 .. k - 1
            /\ b < a /\ StepsLeft = 1 + a * k + InsideLeft
        BY <3>1, <3>2, <3>3
      <4> HIDE DEF k, a, b
      <4>2. 1 + b * k + k <= StepsLeft
        BY <4>1, ShorterIsLess
      <4> QED
        BY <4>2 DEF k, b
    <3> QED
      BY <3>2, <3>3, <3>4
  <2> QED
    BY <2>3, <2>4, <2>5 DEF SelectNext
<1>2. SelectInit => StepsLeft = 12 * (n * n) + 6 * n
  <2> SUFFICES ASSUME SelectInit PROVE StepsLeft = 12 * (n * n) + 6 * n
    OBVIOUS
  <2>1. StepsLeft = 1 + (n - 1 - 0 + n) * (6 * n + 3) + (6 * n + 2)
    BY DEF SelectInit, StepsLeft
  <2>2. n \in Nat
    BY DataAssumption DEF SelectInit
  <2>3. (n - 1 - 0 + n) * (6 * n + 3) = 12 * (n * n) - 3
    BY <2>2
  <2>4. n * n \in Nat
    BY <2>2
  <2> QED
    BY <2>1, <2>2, <2>3, <2>4
<1> QED
  BY <1>1, <1>2, SelectAtFirst, SelectInductive, PTL
     DEF SelectSpec, EndsInTime

-----------------------------------------------------------------------------
(* The inductive invariant for MedianAtEnd.                                *)

(* An array has the data, in an order of its own.                          *)
Rearranged(a) ==
  \E p \in [0 .. n - 1 -> 0 .. n - 1] :
    /\ \A i, j \in 0 .. n - 1 : p[i] = p[j] => i = j
    /\ \A k \in 0 .. n - 1 : \E i \in 0 .. n - 1 : p[i] = k
    /\ \A i \in 0 .. n - 1 : a[i] = idata[p[i]]

(* What is before the part to be sorted is not greater, and what is behind *)
(* it not less, than what is in it.                                        *)
Apart(a) ==
  /\ \A i \in 0 .. low - 1, j \in low .. n - 1 : a[i] <= a[j]
  /\ \A i \in 0 .. high, j \in high + 1 .. n - 1 : a[i] <= a[j]

(* The element in the middle is where it would be in order.                *)
Placed(a) ==
  \A i \in 0 .. n - 1 :
    /\ i < median => a[i] <= a[median]
    /\ i > median => a[median] <= a[i]

(* It is in the part to be sorted, or placed.                              *)
Sorting(a) ==
  Rearranged(a) /\ Apart(a) /\ (median \in low .. high \/ Placed(a))

(* What the loops have passed is on the side of the pivot, at low, that it *)
(* belongs to, and so is what they have stopped at on the other.           *)
PivotInv ==
  /\ loop = "up" =>
       /\ \A k \in low + 1 .. ll : arr[k] <= arr[low]
       /\ \A k \in hh .. high : arr[low] <= arr[k]
  /\ loop = "down" =>
       /\ \A k \in low + 1 .. ll - 1 : arr[k] <= arr[low]
       /\ arr[low] <= arr[ll]
       /\ \A k \in hh .. high : arr[low] <= arr[k]
  /\ loop = "meet" =>
       /\ \A k \in low + 1 .. ll - 1 : arr[k] <= arr[low]
       /\ arr[low] <= arr[ll] /\ arr[hh] <= arr[low]
       /\ \A k \in hh + 1 .. high : arr[low] <= arr[k]

OrderInv ==
  /\ PivotInv
  /\ loop # "done" => Sorting(arr)
  /\ loop = "done" => Rearranged(arr) /\ Placed(arr)

(* The middle is in the array.                                             *)
LEMMA MedianInside ==
  n \in Nat /\ n >= 1 => median \in 0 .. n - 1
BY DEF median

(* An exchange of two elements leaves the same data in the array.          *)
LEMMA SwapRearranged ==
  ASSUME n \in Nat, NEW a \in Data, Rearranged(a),
         NEW i \in 0 .. n - 1, NEW j \in 0 .. n - 1
  PROVE  Rearranged(Swapped(a, i, j))
<1>1. PICK p \in [0 .. n - 1 -> 0 .. n - 1] :
        /\ \A x, y \in 0 .. n - 1 : p[x] = p[y] => x = y
        /\ \A k \in 0 .. n - 1 : \E x \in 0 .. n - 1 : p[x] = k
        /\ \A x \in 0 .. n - 1 : a[x] = idata[p[x]]
  BY DEF Rearranged
<1> DEFINE q == Swapped(p, i, j)
<1>2. \A k \in 0 .. n - 1 :
        q[k] = IF k = j THEN p[i] ELSE IF k = i THEN p[j] ELSE p[k]
  BY DEF Swapped
<1>3. \A k \in 0 .. n - 1 :
        Swapped(a, i, j)[k] =
          IF k = j THEN a[i] ELSE IF k = i THEN a[j] ELSE a[k]
  BY DEF Swapped, Data
<1>4. q \in [0 .. n - 1 -> 0 .. n - 1]
  BY DEF Swapped
<1> HIDE DEF q
<1> DEFINE t(x) == IF x = j THEN i ELSE IF x = i THEN j ELSE x
<1>5. \A x \in 0 .. n - 1 :
        t(x) \in 0 .. n - 1 /\ q[x] = p[t(x)] /\ t(t(x)) = x
  BY <1>2
<1> HIDE DEF t
<1>6. /\ \A x, y \in 0 .. n - 1 : q[x] = q[y] => x = y
      /\ \A k \in 0 .. n - 1 : \E x \in 0 .. n - 1 : q[x] = k
  <2>1. ASSUME NEW x \in 0 .. n - 1, NEW y \in 0 .. n - 1, q[x] = q[y]
        PROVE  x = y
    <3>1. p[t(x)] = p[t(y)] /\ t(x) \in 0 .. n - 1 /\ t(y) \in 0 .. n - 1
      BY <1>5, <2>1
    <3>2. t(x) = t(y)
      BY <1>1, <3>1
    <3> QED
      BY <1>5, <3>2
  <2>2. ASSUME NEW k \in 0 .. n - 1
        PROVE  \E x \in 0 .. n - 1 : q[x] = k
    <3>1. PICK x \in 0 .. n - 1 : p[x] = k
      BY <1>1
    <3>2. q[t(x)] = k /\ t(x) \in 0 .. n - 1
      BY <1>5, <3>1
    <3> QED
      BY <3>2
  <2> QED
    BY <2>1, <2>2
<1>7. \A x \in 0 .. n - 1 : Swapped(a, i, j)[x] = idata[q[x]]
  BY <1>1, <1>2, <1>3
<1> QED
  BY <1>4, <1>6, <1>7 DEF Rearranged

(* An exchange inside the part to be sorted leaves what is before it and   *)
(* what is behind it apart from it, ...                                    *)
LEMMA SwapApart ==
  ASSUME n \in Nat, NEW a \in Data, low \in Int, high \in Int, Apart(a),
         NEW i \in 0 .. n - 1, NEW j \in 0 .. n - 1,
         i \in low .. high, j \in low .. high
  PROVE  Apart(Swapped(a, i, j))
<1> DEFINE b == Swapped(a, i, j)
<1>1. \A k \in 0 .. n - 1 :
        b[k] = IF k = j THEN a[i] ELSE IF k = i THEN a[j] ELSE a[k]
  BY DEF Swapped, Data
<1> HIDE DEF b
<1>2. \A x \in 0 .. low - 1, y \in low .. n - 1 : b[x] <= b[y]
  BY <1>1 DEF Apart
<1>3. \A x \in 0 .. high, y \in high + 1 .. n - 1 : b[x] <= b[y]
  BY <1>1 DEF Apart
<1> QED
  BY <1>2, <1>3 DEF Apart, b

(* ... and leaves the middle placed if it is outside the part; ...         *)
LEMMA SwapPlaced ==
  ASSUME n \in Nat, n >= 1, NEW a \in Data, low \in Int, high \in Int,
         Placed(a), median \notin low .. high,
         NEW i \in 0 .. n - 1, NEW j \in 0 .. n - 1,
         i \in low .. high, j \in low .. high
  PROVE  Placed(Swapped(a, i, j))
<1> DEFINE b == Swapped(a, i, j)
<1>1. \A k \in 0 .. n - 1 :
        b[k] = IF k = j THEN a[i] ELSE IF k = i THEN a[j] ELSE a[k]
  BY DEF Swapped, Data
<1>2. median \in 0 .. n - 1
  BY MedianInside
<1> HIDE DEF b
<1>3. b[median] = a[median]
  BY <1>1, <1>2
<1>4. (i < median /\ j < median) \/ (i > median /\ j > median)
  BY <1>2
<1> QED
  BY <1>1, <1>2, <1>3, <1>4 DEF Placed, b

(* ... so it keeps what is known of the array while it is sorted, and so   *)
(* does an exchange that is done only in the wrong order.                  *)
LEMMA SwapSorting ==
  ASSUME n \in Nat, n >= 1, NEW a \in Data, low \in Int, high \in Int,
         Sorting(a), NEW i \in 0 .. n - 1, NEW j \in 0 .. n - 1,
         i \in low .. high, j \in low .. high
  PROVE  Sorting(Swapped(a, i, j))
BY SwapRearranged, SwapApart, SwapPlaced DEF Sorting

LEMMA SortSorting ==
  ASSUME n \in Nat, n >= 1, NEW a \in Data, low \in Int, high \in Int,
         Sorting(a), NEW i \in 0 .. n - 1, NEW j \in 0 .. n - 1,
         i \in low .. high, j \in low .. high
  PROVE  Sorting(PIX_SORT(a, i, j))
BY SwapSorting DEF PIX_SORT

(* What the steps have in common.                                          *)
LEMMA SelectTypes ==
  ASSUME SelectIInv
  PROVE  /\ n \in Nat /\ n >= 1 /\ arr \in Data /\ arr \in [0 .. n - 1 -> Int]
         /\ low \in Int /\ high \in Int /\ ll \in Int /\ hh \in Int
         /\ loop # "done" => low \in 0 .. n - 1 /\ high \in 0 .. n - 1
         /\ median \in 0 .. n - 1
<1>1. n \in Nat /\ n >= 1 /\ arr \in Data
  BY DataAssumption DEF SelectIInv, SelectTypeOK, Data
<1>2. arr \in [0 .. n - 1 -> Int]
  BY <1>1, DataAssumption DEF Data
<1> QED
  BY <1>1, <1>2, MedianInside DEF SelectIInv, SelectTypeOK, PartInv

(* Two elements left are sorted, and one is in its place.                  *)
LEMMA FinishOrder == SelectIInv /\ OrderInv /\ Finish => OrderInv'
<1> SUFFICES ASSUME SelectIInv, OrderInv, Finish PROVE OrderInv'
  OBVIOUS
<1>1. /\ n \in Nat /\ n >= 1 /\ arr \in Data
      /\ low \in 0 .. n - 1 /\ high \in 0 .. n - 1
      /\ median \in 0 .. n - 1 /\ high <= low + 1
      /\ Sorting(arr)
  BY SelectTypes DEF Finish, OrderInv
<1>2. /\ n' = n /\ idata' = idata /\ loop' = "done" /\ median' = median
      /\ arr' = IF high = low + 1 THEN PIX_SORT(arr, low, high) ELSE arr
  BY DEF Finish, input, median
<1>3. /\ arr' \in Data /\ Sorting(arr')
      /\ high = low + 1 => arr'[low] <= arr'[high]
  <2>1. CASE high = low + 1
    <3>1. low \in low .. high /\ high \in low .. high
      BY <1>1, <2>1
    <3> QED
      BY <1>1, <1>2, <2>1, <3>1, SortSorting, SortType
  <2>2. CASE high # low + 1
    BY <1>1, <1>2, <2>2
  <2> QED
    BY <2>1, <2>2
<1> DEFINE b == arr'
<1>4. b \in [0 .. n - 1 -> Int]
  BY <1>3, DataAssumption DEF Data
<1> HIDE DEF b
<1>5. Placed(b)
  <2>1. CASE median \notin low .. high
    BY <1>3, <2>1 DEF Sorting, b
  <2>2. CASE median \in low .. high
    <3>1. Apart(b) /\ (high = low + 1 => b[low] <= b[high])
      BY <1>3 DEF Sorting, b
    <3>2. ASSUME NEW i \in 0 .. n - 1, i < median PROVE b[i] <= b[median]
      BY <1>1, <2>2, <3>1, <3>2 DEF Apart
    <3>3. ASSUME NEW i \in 0 .. n - 1, i > median PROVE b[median] <= b[i]
      BY <1>1, <2>2, <3>1, <3>3 DEF Apart
    <3> QED
      BY <3>2, <3>3 DEF Placed
  <2> QED
    BY <2>1, <2>2
<1>6. Rearranged(arr)' /\ Placed(arr)'
  BY <1>2, <1>3, <1>5 DEF Sorting, Rearranged, Placed, b
<1> QED
  BY <1>2, <1>6 DEF OrderInv, PivotInv

(* A part is begun: the exchanges are inside it.                           *)
LEMMA BeginOrder == SelectIInv /\ OrderInv /\ BeginPart => OrderInv'
<1> SUFFICES ASSUME SelectIInv, OrderInv, BeginPart PROVE OrderInv'
  OBVIOUS
<1> DEFINE middle == (low + high) \div 2
           a1 == PIX_SORT(arr, middle, high)
           a2 == PIX_SORT(a1, low, high)
           a3 == PIX_SORT(a2, middle, low)
           b == Swapped(a3, middle, low + 1)
<1>1. /\ n \in Nat /\ n >= 1 /\ arr \in Data /\ low \in Int /\ high \in Int
      /\ low \in 0 .. n - 1 /\ high \in 0 .. n - 1 /\ high > low + 1
      /\ Sorting(arr)
  BY SelectTypes DEF BeginPart, OrderInv
<1>2. /\ middle \in 0 .. n - 1 /\ low + 1 \in 0 .. n - 1
      /\ {low, low + 1, middle, high} \subseteq low .. high
  BY <1>1
<1> HIDE DEF middle
<1>3. a1 \in Data /\ Sorting(a1)
  BY <1>1, <1>2, SortSorting, SortType
<1> HIDE DEF a1
<1>4. a2 \in Data /\ Sorting(a2)
  BY <1>1, <1>2, <1>3, SortSorting, SortType
<1> HIDE DEF a2
<1>5. a3 \in Data /\ Sorting(a3)
  BY <1>1, <1>2, <1>4, SortSorting, SortType
<1> HIDE DEF a3
<1>6. Sorting(b)
  BY <1>1, <1>2, <1>5, SwapSorting
<1>7. /\ arr' = b /\ loop' = "up" /\ ll' = low + 1 /\ hh' = high
      /\ n' = n /\ idata' = idata /\ low' = low /\ high' = high
      /\ median' = median
  BY DEF BeginPart, MedianOfThree, input, median, a1, a2, a3, middle
<1> HIDE DEF b
<1>8. Sorting(arr)'
  BY <1>6, <1>7 DEF Sorting, Rearranged, Apart, Placed
<1>9. /\ arr'[low + 1] <= arr'[low] /\ arr'[low] <= arr'[high]
  BY <1>7, SelectInductive DEF SelectNext, SelectIInv, SentinelInv
<1>10. PivotInv'
  BY <1>1, <1>7, <1>9 DEF PivotInv
<1> QED
  BY <1>7, <1>8, <1>10 DEF OrderInv

(* A nibble: the element goes to its side, or stops the loop.              *)
LEMMA NibbleOrder == SelectIInv /\ OrderInv /\ (Up \/ Down) => OrderInv'
<1> SUFFICES ASSUME SelectIInv, OrderInv, Up \/ Down PROVE OrderInv'
  OBVIOUS
<1>1. /\ n \in Nat /\ arr \in [0 .. n - 1 -> Int]
      /\ low \in 0 .. n - 1 /\ high \in 0 .. n - 1
      /\ ll \in Int /\ hh \in Int /\ Sorting(arr)
  BY SelectTypes DEF Up, Down, OrderInv
<1>2. /\ n' = n /\ idata' = idata /\ arr' = arr /\ low' = low /\ high' = high
      /\ loop' \in {"up", "down", "meet"} /\ median' = median
  BY Zenon DEF Up, Down, input, median
<1>3. Sorting(arr)'
  BY <1>1, <1>2 DEF Sorting, Rearranged, Apart, Placed
<1>4. CASE Up
  <2>1. /\ ll' = ll + 1 /\ hh' = hh /\ ll + 1 \in 0 .. n - 1
        /\ \A k \in low + 1 .. ll : arr[k] <= arr[low]
        /\ \A k \in hh .. high : arr[low] <= arr[k]
    BY <1>1, <1>4 DEF Up, OrderInv, PivotInv, SelectIInv, PartInv
  <2>2. CASE arr[low] > arr[ll']
    <3>1. loop' = "up"
      BY <1>4, <2>2 DEF Up
    <3>2. \A k \in low + 1 .. ll + 1 : arr[k] <= arr[low]
      BY <1>1, <2>1, <2>2
    <3> QED
      BY <1>2, <1>3, <2>1, <3>1, <3>2 DEF OrderInv, PivotInv
  <2>3. CASE ~(arr[low] > arr[ll'])
    <3>1. loop' = "down"
      BY <1>4, <2>3 DEF Up
    <3>2. ll' - 1 = ll /\ arr[low] <= arr[ll']
      BY <1>1, <2>1, <2>3
    <3>3. PivotInv'
      BY <1>2, <2>1, <3>1, <3>2 DEF PivotInv
    <3> QED
      BY <1>3, <3>1, <3>3 DEF OrderInv
  <2> QED
    BY <2>2, <2>3
<1>5. CASE Down
  <2>1. /\ ll' = ll /\ hh' = hh - 1 /\ hh - 1 \in 0 .. n - 1
        /\ \A k \in low + 1 .. ll - 1 : arr[k] <= arr[low]
        /\ arr[low] <= arr[ll]
        /\ \A k \in hh .. high : arr[low] <= arr[k]
    BY <1>1, <1>5 DEF Down, OrderInv, PivotInv, SelectIInv, PartInv
  <2>2. CASE arr[hh'] > arr[low]
    <3>1. loop' = "down"
      BY <1>5, <2>2 DEF Down
    <3>2. \A k \in hh - 1 .. high : arr[low] <= arr[k]
      BY <1>1, <2>1, <2>2
    <3> QED
      BY <1>2, <1>3, <2>1, <3>1, <3>2 DEF OrderInv, PivotInv
  <2>3. CASE ~(arr[hh'] > arr[low])
    <3>1. loop' = "meet"
      BY <1>5, <2>3 DEF Down
    <3>2. /\ \A k \in hh - 1 + 1 .. high : arr[low] <= arr[k]
          /\ arr[hh - 1] <= arr[low]
      BY <1>1, <2>1, <2>3
    <3> QED
      BY <1>2, <1>3, <2>1, <3>1, <3>2 DEF OrderInv, PivotInv
  <2> QED
    BY <2>2, <2>3
<1> QED
  BY <1>4, <1>5

(* An exchange brings both to their sides.                                 *)
LEMMA ExchangeOrder == SelectIInv /\ OrderInv /\ Exchange => OrderInv'
<1> SUFFICES ASSUME SelectIInv, OrderInv, Exchange PROVE OrderInv'
  OBVIOUS
<1>1. /\ n \in Nat /\ n >= 1 /\ arr \in Data /\ arr \in [0 .. n - 1 -> Int]
      /\ low \in 0 .. n - 1 /\ high \in 0 .. n - 1
      /\ ll \in low + 2 .. high /\ hh \in low + 1 .. high - 1 /\ ll <= hh
      /\ Sorting(arr)
  BY SelectTypes DEF Exchange, SelectIInv, PartInv, OrderInv
<1>2. /\ \A k \in low + 1 .. ll - 1 : arr[k] <= arr[low]
      /\ arr[low] <= arr[ll] /\ arr[hh] <= arr[low]
      /\ \A k \in hh + 1 .. high : arr[low] <= arr[k]
  BY DEF Exchange, OrderInv, PivotInv
<1> DEFINE b == Swapped(arr, ll, hh)
<1>3. /\ n' = n /\ idata' = idata /\ low' = low /\ high' = high
      /\ ll' = ll /\ hh' = hh /\ loop' = "up" /\ arr' = b
      /\ median' = median
  BY DEF Exchange, input, median
<1>4. \A k \in 0 .. n - 1 :
        b[k] = IF k = hh THEN arr[ll] ELSE IF k = ll THEN arr[hh] ELSE arr[k]
  BY <1>1 DEF Swapped
<1>5. Sorting(b)
  <2>1. /\ ll \in 0 .. n - 1 /\ hh \in 0 .. n - 1
        /\ ll \in low .. high /\ hh \in low .. high
    BY <1>1
  <2> QED
    BY <1>1, <2>1, SwapSorting
<1> HIDE DEF b
<1>6. /\ \A k \in low + 1 .. ll : b[k] <= b[low]
      /\ \A k \in hh .. high : b[low] <= b[k]
  BY <1>1, <1>2, <1>4
<1>7. Sorting(arr)'
  BY <1>3, <1>5 DEF Sorting, Rearranged, Apart, Placed
<1>8. PivotInv'
  BY <1>3, <1>6 DEF PivotInv
<1> QED
  BY <1>3, <1>7, <1>8 DEF OrderInv

(* The pivot goes between the sides; what is left has the middle, or the   *)
(* middle has its element.                                                 *)
LEMMA PartitionOrder == SelectIInv /\ OrderInv /\ Partition => OrderInv'
<1> SUFFICES ASSUME SelectIInv, OrderInv, Partition PROVE OrderInv'
  OBVIOUS
<1>1. /\ n \in Nat /\ n >= 1 /\ arr \in Data /\ arr \in [0 .. n - 1 -> Int]
      /\ low \in 0 .. n - 1 /\ high \in 0 .. n - 1
      /\ ll \in low + 2 .. high /\ hh \in low + 1 .. high - 1 /\ hh < ll
      /\ median \in 0 .. n - 1 /\ Sorting(arr)
  BY SelectTypes DEF Partition, SelectIInv, PartInv, OrderInv
<1>2. /\ \A k \in low + 1 .. ll - 1 : arr[k] <= arr[low]
      /\ arr[hh] <= arr[low]
      /\ \A k \in hh + 1 .. high : arr[low] <= arr[k]
  BY DEF Partition, OrderInv, PivotInv
<1> DEFINE b == Swapped(arr, low, hh)
<1>3. /\ n' = n /\ idata' = idata /\ loop' = "top" /\ arr' = b
      /\ low' = IF hh <= median THEN ll ELSE low
      /\ high' = IF hh >= median THEN hh - 1 ELSE high
      /\ median' = median
  BY DEF Partition, input, median
<1>4. \A k \in 0 .. n - 1 :
        b[k] = IF k = hh THEN arr[low] ELSE IF k = low THEN arr[hh] ELSE arr[k]
  BY <1>1 DEF Swapped
<1>5. Sorting(b)
  <2>1. /\ low \in 0 .. n - 1 /\ hh \in 0 .. n - 1
        /\ low \in low .. high /\ hh \in low .. high
    BY <1>1
  <2> QED
    BY <1>1, <2>1, SwapSorting
<1>6. b \in [0 .. n - 1 -> Int]
  BY <1>1 DEF Swapped
<1> HIDE DEF b
<1>7. /\ \A k \in low .. ll - 1 : b[k] <= b[hh]
      /\ \A k \in hh .. high : b[hh] <= b[k]
  BY <1>1, <1>2, <1>4
<1>8. Apart(b)
  BY <1>5 DEF Sorting
<1>9. \A k \in 0 .. ll - 1 : b[k] <= b[hh]
  <2>1. \A k \in 0 .. low - 1 : b[k] <= b[hh]
    BY <1>1, <1>8 DEF Apart
  <2> QED
    BY <1>1, <1>7, <2>1
<1>10. \A k \in hh .. n - 1 : b[hh] <= b[k]
  <2>1. \A k \in high + 1 .. n - 1 : b[hh] <= b[k]
    BY <1>1, <1>8 DEF Apart
  <2> QED
    BY <1>1, <1>7, <2>1
<1>11. Apart(arr)'
  <2>1. \A i \in 0 .. low' - 1, j \in low' .. n - 1 : b[i] <= b[j]
    <3>1. CASE hh <= median
      <4>1. \A i \in 0 .. ll - 1, j \in ll .. n - 1 :
              b[i] <= b[hh] /\ b[hh] <= b[j]
        BY <1>1, <1>9, <1>10
      <4>2. \A i \in 0 .. ll - 1, j \in ll .. n - 1 : b[i] <= b[j]
        BY <1>1, <1>6, <4>1
      <4> QED
        BY <1>3, <3>1, <4>2
    <3>2. CASE ~(hh <= median)
      BY <1>3, <1>8, <3>2 DEF Apart
    <3> QED
      BY <3>1, <3>2
  <2>2. \A i \in 0 .. high', j \in high' + 1 .. n - 1 : b[i] <= b[j]
    <3>1. CASE hh >= median
      <4>1. \A i \in 0 .. hh - 1, j \in hh .. n - 1 :
              b[i] <= b[hh] /\ b[hh] <= b[j]
        BY <1>1, <1>9, <1>10
      <4>2. \A i \in 0 .. hh - 1, j \in hh .. n - 1 : b[i] <= b[j]
        BY <1>1, <1>6, <4>1
      <4>3. high' = hh - 1 /\ high' + 1 = hh
        BY <1>1, <1>3, <3>1
      <4> QED
        BY <4>2, <4>3
    <3>2. CASE ~(hh >= median)
      BY <1>3, <1>8, <3>2 DEF Apart
    <3> QED
      BY <3>1, <3>2
  <2> QED
    BY <1>3, <2>1, <2>2 DEF Apart
<1>12. median \in low' .. high' \/ Placed(b)
  <2>1. CASE median \notin low .. high
    BY <1>5, <2>1 DEF Sorting
  <2>2. CASE median \in low .. high /\ median >= ll
    BY <1>1, <1>3, <2>2
  <2>3. CASE median \in low .. high /\ median < hh
    BY <1>1, <1>3, <2>3
  <2>4. CASE median \in hh .. ll - 1
    <3>1. b[median] <= b[hh] /\ b[hh] <= b[median]
      BY <1>1, <1>9, <1>10, <2>4
    <3>2. b[median] = b[hh]
      BY <1>1, <1>6, <3>1
    <3>3. \A i \in 0 .. n - 1 : i < median => i \in 0 .. ll - 1
      BY <1>1, <2>4
    <3>4. \A i \in 0 .. n - 1 : i > median => i \in hh .. n - 1
      BY <1>1, <2>4
    <3> QED
      BY <1>9, <1>10, <3>2, <3>3, <3>4 DEF Placed
  <2> QED
    BY <1>1, <2>1, <2>2, <2>3, <2>4
<1>13. Sorting(arr)'
  BY <1>3, <1>5, <1>11, <1>12 DEF Sorting, Rearranged, Placed
<1> QED
  BY <1>3, <1>13 DEF OrderInv, PivotInv

(* At first nothing is sorted, and each element is its own.                *)
LEMMA OrderAtFirst == SelectInit => OrderInv
<1> SUFFICES ASSUME SelectInit PROVE OrderInv
  OBVIOUS
<1>1. /\ n \in Nat /\ n >= 1 /\ loop = "top" /\ arr = idata
      /\ low = 0 /\ high = n - 1
  BY DataAssumption DEF SelectInit
<1>2. Rearranged(arr)
  <2> DEFINE p == [i \in 0 .. n - 1 |-> i]
  <2>1. /\ p \in [0 .. n - 1 -> 0 .. n - 1]
        /\ \A i \in 0 .. n - 1 : p[i] = i
    OBVIOUS
  <2> HIDE DEF p
  <2> QED
    BY <1>1, <2>1 DEF Rearranged
<1>3. Apart(arr) /\ median \in low .. high
  BY <1>1, MedianInside DEF Apart
<1> QED
  BY <1>1, <1>2, <1>3 DEF OrderInv, PivotInv, Sorting

(* Every step keeps the order.                                             *)
LEMMA OrderInductive ==
  SelectIInv /\ OrderInv /\ [SelectNext]_select_vars => OrderInv'
<1> SUFFICES ASSUME SelectIInv, OrderInv, [SelectNext]_select_vars
             PROVE  OrderInv'
  OBVIOUS
<1>1. CASE UNCHANGED select_vars
  BY <1>1 DEF select_vars, OrderInv, PivotInv, Sorting, Rearranged, Apart,
     Placed, median
<1> QED
  BY <1>1, FinishOrder, BeginOrder, NibbleOrder, ExchangeOrder, PartitionOrder
     DEF SelectNext

(* If what is less than an element comes before it in an array, as many    *)
(* data are less than it at most; ...                                      *)
LEMMA FewBelow ==
  ASSUME n \in Nat, NEW a \in [0 .. n - 1 -> Int], Rearranged(a),
         NEW m \in 0 .. n - 1, NEW v \in Int,
         \A i \in 0 .. n - 1 : i >= m => v <= a[i]
  PROVE  Cardinality({k \in 0 .. n - 1 : idata[k] < v}) <= m
<1>1. PICK p \in [0 .. n - 1 -> 0 .. n - 1] :
        /\ \A k \in 0 .. n - 1 : \E i \in 0 .. n - 1 : p[i] = k
        /\ \A i \in 0 .. n - 1 : a[i] = idata[p[i]]
  BY DEF Rearranged
<1> DEFINE Below == {k \in 0 .. n - 1 : idata[k] < v}
           f == [k \in Below |-> CHOOSE i \in 0 .. n - 1 : p[i] = k]
<1>2. \A k \in Below : f[k] \in 0 .. n - 1 /\ p[f[k]] = k
  BY <1>1
<1>3. ASSUME NEW k \in Below PROVE f[k] \in 0 .. m - 1
  <2>1. PICK i \in 0 .. n - 1 : i = f[k] /\ p[i] = k
    BY <1>2, <1>3
  <2>2. idata[k] < v
    BY <1>3
  <2>3. a[i] < v /\ a[i] \in Int
    BY <1>1, <2>1, <2>2
  <2>4. ~(i >= m)
    BY <2>3
  <2>5. i \in Int /\ m \in Int /\ n \in Int /\ i >= 0
    OBVIOUS
  <2>6. i \in 0 .. m - 1
    BY <2>4, <2>5
  <2> QED
    BY <2>1, <2>6
<1>4. f \in Injection(Below, 0 .. m - 1)
  <2>1. f \in [Below -> 0 .. m - 1]
    BY <1>3
  <2>2. \A k, l \in Below : f[k] = f[l] => k = l
    BY <1>2
  <2> QED
    BY <2>1, <2>2 DEF Injection, IsInjective
<1>5. IsFiniteSet(0 .. m - 1) /\ Cardinality(0 .. m - 1) = m
  <2>1. m \in Nat /\ m - 1 \in Int
    OBVIOUS
  <2>2. /\ IsFiniteSet(0 .. m - 1)
        /\ Cardinality(0 .. m - 1) =
             IF 0 > m - 1 THEN 0 ELSE (m - 1) - 0 + 1
    BY <2>1, FS_Interval
  <2> QED
    BY <2>1, <2>2
<1> HIDE DEF f
<1> QED
  BY <1>4, <1>5, FS_Injection

(* ... and if what comes before it is not greater, more are not greater.   *)
LEMMA ManyUpto ==
  ASSUME n \in Nat, NEW a \in [0 .. n - 1 -> Int], Rearranged(a),
         NEW m \in 0 .. n - 1, NEW v \in Int,
         \A i \in 0 .. n - 1 : i <= m => a[i] <= v
  PROVE  Cardinality({k \in 0 .. n - 1 : idata[k] <= v}) > m
<1>1. PICK p \in [0 .. n - 1 -> 0 .. n - 1] :
        /\ \A i, j \in 0 .. n - 1 : p[i] = p[j] => i = j
        /\ \A i \in 0 .. n - 1 : a[i] = idata[p[i]]
  BY DEF Rearranged
<1> DEFINE Upto == {k \in 0 .. n - 1 : idata[k] <= v}
           g == [i \in 0 .. m |-> p[i]]
<1>2. \A i \in 0 .. m : i \in 0 .. n - 1 /\ a[i] <= v
  OBVIOUS
<1>3. g \in Injection(0 .. m, Upto)
  <2>1. g \in [0 .. m -> Upto]
    BY <1>1, <1>2
  <2>2. \A i, j \in 0 .. m : g[i] = g[j] => i = j
    BY <1>1, <1>2
  <2> QED
    BY <2>1, <2>2 DEF Injection, IsInjective
<1>4. IsFiniteSet(Upto) /\ Cardinality(Upto) \in Nat
  <2>1. IsFiniteSet(0 .. n - 1)
    BY FS_Interval
  <2> QED
    BY <2>1, FS_Subset, FS_CardinalityType
<1>5. Cardinality(0 .. m) = m + 1
  BY FS_Interval
<1> HIDE DEF g, Upto
<1>6. Cardinality(0 .. m) <= Cardinality(Upto)
  BY <1>3, <1>4, FS_Injection
<1>7. Cardinality(Upto) > m
  BY <1>4, <1>5, <1>6
<1> QED
  BY <1>7 DEF Upto

(* So an element that is in its place is the median of the data.           *)
LEMMA PlacedIsMedian ==
  ASSUME n \in Nat, n >= 1, NEW a \in [0 .. n - 1 -> Int], Rearranged(a),
         Placed(a)
  PROVE  IsMedian(a[median])
<1>1. median \in 0 .. n - 1
  BY MedianInside
<1>2. a[median] \in Int
  BY <1>1
<1>3. \A i \in 0 .. n - 1 : i >= median => a[median] <= a[i]
  BY <1>1, <1>2 DEF Placed
<1>4. \A i \in 0 .. n - 1 : i <= median => a[i] <= a[median]
  BY <1>1, <1>2 DEF Placed
<1>5. Cardinality({k \in 0 .. n - 1 : idata[k] < a[median]}) <= median
  BY <1>1, <1>2, <1>3, FewBelow
<1>6. Cardinality({k \in 0 .. n - 1 : idata[k] <= a[median]}) > median
  BY <1>1, <1>2, <1>4, ManyUpto
<1> QED
  BY <1>5, <1>6 DEF IsMedian

(* When the function returns, the element in the middle is the median of   *)
(* the data, for any number of them and in any order.                      *)
THEOREM MedianReturned == SelectSpec => []MedianAtEnd
<1>1. SelectIInv /\ OrderInv => MedianAtEnd
  <2> SUFFICES ASSUME SelectIInv, OrderInv, loop = "done"
               PROVE  IsMedian(arr[median])
    BY DEF MedianAtEnd
  <2>1. /\ n \in Nat /\ n >= 1 /\ arr \in [0 .. n - 1 -> Int]
        /\ Rearranged(arr) /\ Placed(arr)
    BY SelectTypes DEF OrderInv
  <2> QED
    BY <2>1, PlacedIsMedian
<1> QED
  BY <1>1, SelectAtFirst, SelectInductive, OrderAtFirst, OrderInductive, PTL
     DEF SelectSpec

-----------------------------------------------------------------------------
(* HeaderFile: the inductive invariant.                                    *)

(* A file that is to take the header's name has all the records, or could  *)
(* not have them.                                                          *)
RenameInv ==
  /\ writer = "write" => written < Records
  /\ writer = "rename" => written = Records \/ fails

(* Each file that was left behind is a signal's, and the last master's     *)
(* child may leave one more.                                               *)
LitterInv ==
  litter <= mishaps + IF master = "dead" /\ writer = "none" THEN 1 ELSE 0

HeaderIInv == HeaderTypeOK /\ RenameInv /\ LitterInv /\ WholeHeader

(* A part about what is true or false, and one about the rest.             *)
HeaderFlags ==
  /\ knows \in BOOLEAN /\ pidlock \in BOOLEAN /\ mortal \in BOOLEAN
  /\ fails \in BOOLEAN /\ segment \in BOOLEAN /\ disk \in BOOLEAN
  /\ short \in BOOLEAN

HeaderOthers ==
  /\ master \in {"fork", "wait", "sleep", "dead"}
  /\ writer \in {"none", "born", "check", "open", "write", "rename"}
  /\ pause \in 1 .. MaxPause /\ written \in 0 .. Records
  /\ header \in {"none", "empty", "part", "whole"}
  /\ litter \in 0 .. MaxMishaps + 1 /\ mishaps \in 0 .. MaxMishaps
  /\ other \in {"idle", "opened"}
  /\ RenameInv /\ LitterInv /\ WholeHeader

LEMMA HeaderParts == HeaderIInv <=> HeaderFlags /\ HeaderOthers
BY DEF HeaderIInv, HeaderTypeOK, HeaderFlags, HeaderOthers

(* What the constants are.                                                 *)
LEMMA HeaderConstants ==
  /\ Records \in Nat /\ 1 <= Records /\ MaxPause \in Nat /\ 1 <= MaxPause
  /\ MaxMishaps \in Nat
BY HeaderAssumption

(* The master begins so.                                                   *)
LEMMA HeaderAtFirst == HeaderInit => HeaderIInv
<1> SUFFICES ASSUME HeaderInit PROVE HeaderIInv
  OBVIOUS
<1>1. HeaderFlags
  BY Zenon DEF HeaderInit, HeaderFlags
<1>2. HeaderOthers
  BY HeaderConstants DEF HeaderInit, HeaderOthers, RenameInv, LitterInv,
                         WholeHeader
<1> QED
  BY <1>1, <1>2, HeaderParts

(* Every step, for the one part and the other.                             *)
LEMMA HeaderFlagsStep ==
  HeaderFlags /\ [HeaderNext]_header_vars => HeaderFlags'
<1> SUFFICES ASSUME HeaderFlags, [HeaderNext]_header_vars
             PROVE  HeaderFlags'
  OBVIOUS
<1> USE DEF HeaderFlags, masters, names, world
<1>1. CASE ForkWriter
  BY Zenon, <1>1 DEF ForkWriter
<1>2. CASE Wait
  BY Zenon, <1>2 DEF Wait
<1>3. CASE Wakes
  BY Zenon, <1>3 DEF Wakes
<1>4. CASE SetWriterDeathSignal
  BY Zenon, <1>4 DEF SetWriterDeathSignal
<1>5. CASE CheckBlock
  BY Zenon, <1>5 DEF CheckBlock, Dies
<1>6. CASE Open
  BY Zenon, <1>6 DEF Open
<1>7. CASE Write
  BY Zenon, <1>7 DEF Write, printhdr
<1>8. CASE Rename
  BY Zenon, <1>8 DEF Rename
<1>9. CASE KillChild
  BY Zenon, <1>9 DEF KillChild, Dies
<1>10. CASE KillMaster
  BY Zenon, <1>10 DEF KillMaster
<1>11. CASE WriterDeathSignal
  BY Zenon, <1>11 DEF WriterDeathSignal, Dies
<1>12. CASE OtherTruncates
  BY Zenon, <1>12 DEF OtherTruncates
<1>13. CASE OtherUnlinks
  BY Zenon, <1>13 DEF OtherUnlinks
<1>14. CASE Outside
  BY Zenon, <1>14 DEF Outside
<1>15. CASE UNCHANGED header_vars
  BY Zenon, <1>15 DEF header_vars
<1> QED
  BY <1>1, <1>2, <1>3, <1>4, <1>5, <1>6, <1>7, <1>8, <1>9, <1>10, <1>11,
     <1>12, <1>13, <1>14, <1>15
     DEF HeaderNext, MasterSteps, ChildSteps

LEMMA HeaderOthersStep ==
  HeaderOthers /\ [HeaderNext]_header_vars => HeaderOthers'
<1> SUFFICES ASSUME HeaderOthers, [HeaderNext]_header_vars
             PROVE  HeaderOthers'
  OBVIOUS
<1> USE HeaderConstants
    DEF HeaderOthers, masters, names, world, RenameInv, LitterInv,
        WholeHeader
<1>1. CASE ForkWriter
  BY <1>1 DEF ForkWriter
<1>2. CASE Wait
  BY <1>2 DEF Wait
<1>3. CASE Wakes
  BY <1>3 DEF Wakes
<1>4. CASE SetWriterDeathSignal
  BY <1>4 DEF SetWriterDeathSignal
<1>5. CASE CheckBlock
  BY <1>5 DEF CheckBlock, Dies
<1>6. CASE Open
  BY <1>6 DEF Open
<1>7. CASE Write
  BY <1>7 DEF Write, printhdr
<1>8. CASE Rename
  BY <1>8 DEF Rename, Content
<1>9. CASE KillChild
  BY <1>9 DEF KillChild, Dies, Mishap
<1>10. CASE KillMaster
  BY <1>10 DEF KillMaster
<1>11. CASE WriterDeathSignal
  BY <1>11 DEF WriterDeathSignal, Dies
<1>12. CASE OtherTruncates
  BY <1>12 DEF OtherTruncates, Mishap
<1>13. CASE OtherUnlinks
  BY <1>13 DEF OtherUnlinks
<1>14. CASE Outside
  BY <1>14 DEF Outside, Mishap
<1>15. CASE UNCHANGED header_vars
  BY <1>15 DEF header_vars
<1> QED
  BY <1>1, <1>2, <1>3, <1>4, <1>5, <1>6, <1>7, <1>8, <1>9, <1>10, <1>11,
     <1>12, <1>13, <1>14, <1>15
     DEF HeaderNext, MasterSteps, ChildSteps

(* The invariant holds.                                                    *)
LEMMA HeaderInvariance == HeaderSpec => []HeaderIInv
BY HeaderAtFirst, HeaderFlagsStep, HeaderOthersStep, HeaderParts, PTL
   DEF HeaderSpec

(* What a reader finds under the header's name is a whole header, for any  *)
(* number of records, wherever the child was stopped and however another   *)
(* instance's start came between its steps: unless this has truncated it   *)
(* and not yet removed it, or a record could not be written.               *)
THEOREM HeaderIsWhole == HeaderSpec => []WholeHeader
<1>1. HeaderIInv => WholeHeader
  BY DEF HeaderIInv
<1> QED
  BY <1>1, HeaderInvariance, PTL

-----------------------------------------------------------------------------
(* DatFile: the inductive invariant.                                       *)

(* The lines before a place are read, and it is not among the spaces ahead *)
(* of another.                                                             *)
Between(p) ==
  /\ RowsOf({i \in Lines : i < p})
  /\ \A j \in 1 .. p - 1 :
       file[j] = "nl" => \E k \in j .. p - 1 : file[k] \notin Blank

(* What is in a line before a place: numbers and spaces, and what there is *)
(* behind those that are skipped is in the row.                            *)
Before(i, p) == {j \in Numbers(i) : j < p}
Reading(i, p, skip, r) ==
  /\ \A k \in i .. p - 1 : file[k] = "sp" \/ Whole(k)
  /\ IF skip > 0 THEN Cardinality(Before(i, p)) = firstcolumn - skip
     ELSE Cardinality(Before(i, p)) >= firstcolumn
  /\ InOrder(r, {j \in Coefficients(i) : j < p})

(* The next word of the line, or the end of the file.                      *)
AtWord(p) == file[p - 1] \in Blank /\ (p < end => file[p] \notin Blank)

DatIInv ==
  /\ DatTypeOK
  /\ reader = "open" => curptr = 1 /\ skipfst = 0 /\ rows = <<>>
  /\ WellFormed =>
       /\ reader \in {"idle", "line", "eof"} => Between(curptr)
       /\ reader = "line" =>
            /\ nextline(curptr) < end
            /\ begin \in nextline(curptr) .. end
            /\ AtWord(begin)
            /\ Reading(nextline(curptr), begin, skipfst, row)
       /\ reader = "eof" => nextline(curptr) = end

(* A set of numbers that has one has a least one.                          *)
LEMMA MinIsLeast ==
  ASSUME NEW S \in SUBSET Nat, S # {}
  PROVE  Min(S) \in S /\ \A y \in S : Min(S) <= y
<1>1. IsWellFoundedOn(OpToRel(<, Nat), Nat)
  BY NatLessThanWellFounded
<1> DEFINE R == OpToRel(<, Nat)
<1>2. \A x, y \in Nat : x < y => <<x, y>> \in R
  BY DEF OpToRel
<1> HIDE DEF R
<1>3. \E x \in S : \A y \in S : ~(<<y, x>> \in R)
  BY <1>1, WFMin DEF R
<1>4. PICK x \in S : \A y \in S : ~(<<y, x>> \in R)
  BY <1>3
<1>5. ASSUME NEW y \in S PROVE x <= y
  <2>1. x \in Nat /\ y \in Nat
    OBVIOUS
  <2>2. ~(y < x)
    BY <1>2, <1>4, <2>1
  <2> QED
    BY <2>1, <2>2
<1> QED
  BY <1>5 DEF Min

(* The first place, from i on, of another item.                            *)
LEMMA PastIs ==
  ASSUME file \in Seq(Items), NEW i \in 1 .. end, NEW those
  PROVE  /\ Past(i, those) \in i .. end
         /\ \A k \in i .. Past(i, those) - 1 : file[k] \in those
         /\ Past(i, those) < end => file[Past(i, those)] \notin those
<1> DEFINE S == {end} \cup {j \in i .. Len(file) : file[j] \notin those}
<1>1. end \in Nat /\ Len(file) \in Nat /\ i \in Nat
  BY DEF end
<1>2. S \in SUBSET Nat /\ S # {}
  BY <1>1
<1>3. Past(i, those) \in S /\ \A y \in S : Past(i, those) <= y
  BY <1>2, MinIsLeast DEF Past
<1> QED
  BY <1>1, <1>3 DEF end

(* A place behind all those of a set is the last, and theirs stay.         *)
LEMMA RankAdds ==
  ASSUME NEW S \in SUBSET Nat, IsFiniteSet(S), NEW x \in Nat,
         \A y \in S : y < x
  PROVE  /\ IsFiniteSet(S \cup {x})
         /\ Cardinality(S \cup {x}) = Cardinality(S) + 1
         /\ Rank(x, S \cup {x}) = Cardinality(S) + 1
         /\ \A y \in S : /\ Rank(y, S \cup {x}) = Rank(y, S)
                         /\ Rank(y, S) \in 1 .. Cardinality(S)
<1>1. x \notin S
  OBVIOUS
<1>2. /\ IsFiniteSet(S \cup {x})
      /\ Cardinality(S \cup {x}) = Cardinality(S) + 1
  BY <1>1, FS_AddElement
<1>3. {k \in S \cup {x} : k <= x} = S \cup {x}
  <2>1. \A k \in S \cup {x} : k <= x
    OBVIOUS
  <2> QED
    BY <2>1
<1>4. ASSUME NEW y \in S
      PROVE  /\ Rank(y, S \cup {x}) = Rank(y, S)
             /\ Rank(y, S) \in 1 .. Cardinality(S)
  <2> DEFINE U == {k \in S : k <= y}
  <2>1. {k \in S \cup {x} : k <= y} = U
    BY <1>1
  <2>2. U \in SUBSET S /\ y \in U
    OBVIOUS
  <2> HIDE DEF U
  <2>3. IsFiniteSet(U) /\ Cardinality(U) <= Cardinality(S)
    BY <2>2, FS_Subset
  <2>4. Cardinality(U) \in Nat /\ Cardinality(S) \in Nat
    BY <2>3, FS_CardinalityType
  <2>5. Cardinality(U) # 0
    BY <2>2, <2>3, FS_EmptySet
  <2>6. Cardinality(U) \in 1 .. Cardinality(S)
    BY <2>3, <2>4, <2>5
  <2> QED
    BY <2>1, <2>6 DEF Rank, U
<1> QED
  BY <1>2, <1>3, <1>4 DEF Rank

(* A sequence in the order of places, and one more place behind them.      *)
LEMMA AppendInOrder ==
  ASSUME NEW S \in SUBSET Nat, IsFiniteSet(S), NEW x \in Nat,
         \A y \in S : y < x, NEW T, NEW s \in Seq(T), x \in T, InOrder(s, S)
  PROVE  InOrder(Append(s, x), S \cup {x})
<1>1. Cardinality(S) \in Nat
  BY FS_CardinalityType
<1>2. /\ Len(Append(s, x)) = Len(s) + 1
      /\ Append(s, x)[Len(s) + 1] = x
      /\ \A k \in 1 .. Len(s) : Append(s, x)[k] = s[k]
  OBVIOUS
<1>3. /\ Len(s) = Cardinality(S)
      /\ \A j \in S : s[Rank(j, S)] = j
  BY DEF InOrder
<1>4. /\ Cardinality(S \cup {x}) = Cardinality(S) + 1
      /\ Rank(x, S \cup {x}) = Cardinality(S) + 1
      /\ \A y \in S : /\ Rank(y, S \cup {x}) = Rank(y, S)
                      /\ Rank(y, S) \in 1 .. Cardinality(S)
  BY RankAdds
<1> QED
  BY <1>2, <1>3, <1>4 DEF InOrder

-----------------------------------------------------------------------------
(* What is the same as long as the text is.                                *)
LEMMA SameText ==
  ASSUME UNCHANGED <<file, firstcolumn>>
  PROVE  /\ end' = end /\ Lines' = Lines /\ WellFormed' = WellFormed
         /\ \A i : /\ nextline(i)' = nextline(i)
                   /\ Whole(i)' = Whole(i)
                   /\ Numbers(i)' = Numbers(i)
                   /\ Coefficients(i)' = Coefficients(i)
<1>1. end' = end
  BY DEF end
<1>2. \A i, those : Past(i, those)' = Past(i, those)
  BY <1>1 DEF Past
<1>3. Lines' = Lines
  BY DEF Lines, StartsLine
<1>4. \A i : /\ nextline(i)' = nextline(i)
             /\ Whole(i)' = Whole(i)
             /\ Words(i)' = Words(i)
  BY <1>1, <1>2 DEF nextline, Whole, Words
<1>5. \A i : Numbers(i)' = Numbers(i)
  BY <1>4 DEF Numbers
<1>6. \A i : Coefficients(i)' = Coefficients(i)
  BY <1>5 DEF Coefficients
<1>7. WellFormed' = WellFormed
  BY <1>3, <1>5 DEF WellFormed
<1> QED
  BY <1>1, <1>3, <1>4, <1>5, <1>6, <1>7

-----------------------------------------------------------------------------
(* The first word behind the end of a line begins a line, ...              *)
LEMMA NextStarts ==
  ASSUME file \in Seq(Items), NEW p \in 1 .. end
  PROVE  /\ nextline(p) \in p .. end
         /\ nextline(p) < end =>
              /\ nextline(p) \in Lines /\ nextline(p) > p
              /\ file[nextline(p) - 1] \in Blank
              /\ file[nextline(p)] \notin Blank
<1> DEFINE q == nextline(p)
<1>0. PICK newline : newline = Past(p, Items \ {"nl"})
  OBVIOUS
<1>1. end \in Nat /\ Len(file) = end - 1 /\ p \in Nat
  BY DEF end
<1>2. newline \in p .. end /\ (newline < end => file[newline] = "nl")
  <2>1. /\ newline \in p .. end
        /\ newline < end => file[newline] \notin Items \ {"nl"}
    BY <1>0, PastIs
  <2>2. newline < end => file[newline] \in Items
    BY <1>1, <2>1
  <2> QED
    BY <2>1, <2>2
<1>3. CASE newline = end
  BY <1>1, <1>3, <1>0 DEF nextline
<1>4. CASE newline < end
  <2>1. q = Past(newline + 1, Blank) /\ newline + 1 \in 1 .. end
    BY <1>1, <1>2, <1>4, <1>0 DEF nextline
  <2> HIDE DEF q
  <2>2. /\ q \in newline + 1 .. end
        /\ \A k \in newline + 1 .. q - 1 : file[k] \in Blank
        /\ q < end => file[q] \notin Blank
    BY <2>1, PastIs
  <2>3. \A k \in newline .. q - 1 : file[k] \in Blank
    BY <1>1, <1>2, <1>4, <2>2 DEF Blank
  <2>4. q < end => StartsLine(q)
    BY <1>1, <1>2, <1>4, <2>2, <2>3 DEF StartsLine
  <2>5. q < end => q \in DOMAIN file
    BY <1>1, <1>2, <2>2
  <2>6. q \in p .. end /\ q > p
    BY <1>1, <1>2, <2>2
  <2>7. q < end => file[q - 1] \in Blank
    BY <1>1, <1>2, <2>2, <2>3
  <2> QED
    BY <2>2, <2>4, <2>5, <2>6, <2>7 DEF Lines, q
<1> QED
  BY <1>1, <1>2, <1>3, <1>4

(* ... and no line begins before it, and behind a place that is not among  *)
(* the spaces ahead of it.                                                 *)
LEMMA NoneBetween ==
  ASSUME file \in Seq(Items), NEW p \in 1 .. end, Between(p),
         NEW i \in Lines, i < nextline(p)
  PROVE  i < p
<1>0. PICK newline : newline = Past(p, Items \ {"nl"})
  OBVIOUS
<1>1. end \in Nat /\ Len(file) = end - 1 /\ p \in Nat
  BY DEF end
<1>2. i \in 1 .. end - 1 /\ file[i] \notin Blank
  BY <1>1 DEF Lines, StartsLine
<1>3. PICK j \in 1 .. i - 1 :
        file[j] = "nl" /\ \A k \in j .. i - 1 : file[k] \in Blank
  BY DEF Lines, StartsLine
<1>4. /\ newline \in p .. end
      /\ \A k \in p .. newline - 1 : file[k] # "nl"
      /\ newline < end => file[newline] \notin Items \ {"nl"}
  BY <1>0, PastIs
<1>5. newline < end => file[newline] = "nl"
  <2>1. newline < end => file[newline] \in Items
    BY <1>1, <1>4
  <2> QED
    BY <1>4, <2>1
<1>6. i <= newline
  <2>1. CASE newline = end
    BY <1>1, <1>2, <2>1
  <2>2. CASE newline < end
    <3>1. /\ nextline(p) = Past(newline + 1, Blank)
          /\ newline + 1 \in 1 .. end
      BY <1>1, <1>4, <1>0, <2>2 DEF nextline
    <3>2. \A k \in newline + 1 .. nextline(p) - 1 : file[k] \in Blank
      BY <3>1, PastIs
    <3>3. nextline(p) \in Int
      BY <1>1, NextStarts
    <3>4. i > newline => i \in newline + 1 .. nextline(p) - 1
      BY <1>1, <1>2, <1>4, <3>3
    <3> QED
      BY <1>1, <1>2, <1>4, <3>2, <3>4
  <2> QED
    BY <1>1, <1>4, <2>1, <2>2
<1>7. i < newline
  <2>1. CASE newline < end
    BY <1>1, <1>2, <1>4, <1>5, <1>6, <2>1 DEF Blank
  <2>2. CASE newline = end
    BY <1>1, <1>2, <1>6, <2>2
  <2> QED
    BY <1>1, <1>4, <2>1, <2>2
<1>8. SUFFICES ASSUME i >= p PROVE FALSE
  BY <1>1, <1>2
<1>9. j < p
  BY <1>1, <1>2, <1>3, <1>4, <1>7
<1>10. PICK k \in j .. p - 1 : file[k] \notin Blank
  BY <1>1, <1>3, <1>9 DEF Between
<1>11. k \in j .. i - 1
  BY <1>1, <1>2, <1>8
<1> QED
  BY <1>3, <1>10, <1>11

(* How far a line goes.                                                    *)
LEMMA LineHolds ==
  ASSUME file \in Seq(Items), NEW i \in 1 .. end, NEW p \in i .. end,
         \A k \in i .. p - 1 : file[k] # "nl",
         NEW eol, eol = Past(i, Items \ {"nl"})
  PROVE  /\ eol \in p .. end
         /\ p = end \/ file[p] = "nl" => eol = p
         /\ p < end /\ file[p] # "nl" => p < eol
<1>1. end \in Nat /\ Len(file) = end - 1 /\ i \in Nat /\ p \in Nat
  BY DEF end
<1>2. /\ eol \in i .. end
      /\ \A k \in i .. eol - 1 : file[k] # "nl"
      /\ eol < end => file[eol] \notin Items \ {"nl"}
  BY PastIs
<1>3. eol < end => file[eol] = "nl"
  <2>1. eol < end => file[eol] \in Items
    BY <1>1, <1>2
  <2> QED
    BY <1>2, <2>1
<1>4. eol >= p
  BY <1>1, <1>2, <1>3
<1>5. eol = p \/ p \in i .. eol - 1
  BY <1>1, <1>2, <1>4
<1>6. p = end \/ file[p] = "nl" => eol = p
  <2>1. p = end => eol = p
    BY <1>1, <1>2, <1>4
  <2>2. file[p] = "nl" => eol = p
    BY <1>2, <1>5
  <2> QED
    BY <2>1, <2>2
<1>7. p < end /\ file[p] # "nl" => p < eol
  BY <1>1, <1>2, <1>3, <1>4
<1> QED
  BY <1>1, <1>2, <1>4, <1>6, <1>7

(* The numbers of a line before a place.                                   *)
LEMMA NumbersBefore ==
  ASSUME file \in Seq(Items), NEW i \in 1 .. end, NEW p \in i .. end,
         \A k \in i .. p - 1 : file[k] = "sp" \/ Whole(k)
  PROVE  /\ Before(i, p) = {j \in i .. p - 1 : Whole(j)}
         /\ p = end \/ file[p] = "nl" => Before(i, p) = Numbers(i)
         /\ p < end /\ file[p] \notin Blank /\ ~Whole(p)
              => Before(i, p) = Numbers(i)
         /\ p < end /\ Whole(p) =>
              {j \in Numbers(i) : j <= p} = Before(i, p) \cup {p}
<1>1. end \in Nat /\ Len(file) = end - 1 /\ i \in Nat /\ p \in Nat
  BY DEF end
<1>2. \A k \in i .. p - 1 : file[k] # "nl"
  BY DEF Whole
<1>3. PICK eol : eol = Past(i, Items \ {"nl"})
  OBVIOUS
<1>4. /\ eol \in p .. end
      /\ p = end \/ file[p] = "nl" => eol = p
      /\ p < end /\ file[p] # "nl" => p < eol
  BY <1>2, <1>3, LineHolds
<1>5. Words(i) = {j \in i .. eol - 1 : file[j] # "sp"}
  BY <1>3 DEF Words
<1>6. \A j \in Numbers(i) :
        /\ j \in i .. eol - 1 /\ file[j] # "sp" /\ Whole(j)
        /\ \A k \in i .. j : file[k] = "sp" \/ Whole(k)
  <2> TAKE j \in Numbers(i)
  <2>1. j \in Words(i) /\ \A k \in Words(i) : k <= j => Whole(k)
    BY DEF Numbers
  <2>2. j \in i .. eol - 1 /\ file[j] # "sp" /\ Whole(j)
    BY <1>1, <1>5, <2>1
  <2>3. ASSUME NEW k \in i .. j PROVE file[k] = "sp" \/ Whole(k)
    <3>1. k \in i .. eol - 1 /\ k <= j
      BY <1>1, <1>4, <2>2
    <3> QED
      BY <1>5, <2>1, <3>1
  <2> QED
    BY <2>2, <2>3
<1>7. ASSUME NEW j \in i .. eol - 1, Whole(j),
             \A k \in i .. j - 1 : file[k] = "sp" \/ Whole(k)
      PROVE  j \in Numbers(i)
  <2>1. file[j] # "sp"
    BY <1>7 DEF Whole
  <2>2. j \in Words(i)
    BY <1>5, <2>1
  <2>3. ASSUME NEW k \in Words(i), k <= j PROVE Whole(k)
    <3>1. k \in i .. eol - 1 /\ file[k] # "sp"
      BY <1>5
    <3>2. k = j \/ k \in i .. j - 1
      BY <1>1, <1>4, <2>3, <3>1
    <3> QED
      BY <1>7, <3>1, <3>2
  <2> QED
    BY <2>2, <2>3 DEF Numbers
<1>8. \A j \in i .. p - 1 : Whole(j) => j \in Numbers(i)
  <2> TAKE j \in i .. p - 1
  <2>1. j \in i .. eol - 1 /\ \A k \in i .. j - 1 : k \in i .. p - 1
    BY <1>1, <1>4
  <2> QED
    BY <1>7, <2>1
<1>9. Before(i, p) = {j \in i .. p - 1 : Whole(j)}
  <2>1. ASSUME NEW j \in Before(i, p)
        PROVE  j \in i .. p - 1 /\ Whole(j)
    <3>1. j \in Numbers(i) /\ j < p
      BY DEF Before
    <3> QED
      BY <1>1, <1>4, <1>6, <3>1
  <2>2. ASSUME NEW j \in i .. p - 1, Whole(j)
        PROVE  j \in Before(i, p)
    <3>1. j \in Numbers(i) /\ j < p
      BY <1>1, <1>8, <2>2
    <3> QED
      BY <3>1 DEF Before
  <2> QED
    BY <2>1, <2>2
<1>10. ASSUME p = end \/ file[p] = "nl"
       PROVE  Before(i, p) = Numbers(i)
  <2>1. eol = p
    BY <1>4, <1>10
  <2>2. \A j \in Numbers(i) : j < p
    BY <1>1, <1>6, <2>1
  <2> QED
    BY <2>2 DEF Before
<1>11. ASSUME p < end, file[p] \notin Blank, ~Whole(p)
       PROVE  Before(i, p) = Numbers(i)
  <2>1. file[p] # "sp"
    BY <1>11 DEF Blank
  <2>2. ASSUME NEW j \in Numbers(i) PROVE j < p
    <3>1. j \in Int /\ (j >= p => p \in i .. j)
      BY <1>1, <1>4, <1>6
    <3>2. p \notin i .. j
      BY <1>6, <1>11, <2>1
    <3> QED
      BY <1>1, <3>1, <3>2
  <2> QED
    BY <2>2 DEF Before
<1>12. ASSUME p < end, Whole(p)
       PROVE  {j \in Numbers(i) : j <= p} = Before(i, p) \cup {p}
  <2>1. file[p] # "nl"
    BY <1>12 DEF Whole
  <2>2. p \in i .. eol - 1
    BY <1>1, <1>4, <1>12, <2>1
  <2>3. p \in Numbers(i)
    BY <1>7, <1>12, <2>2
  <2>4. \A j \in Numbers(i) : j <= p <=> j < p \/ j = p
    BY <1>1, <1>4, <1>6
  <2> QED
    BY <2>3, <2>4, <1>1 DEF Before
<1> QED
  BY <1>9, <1>10, <1>11, <1>12

(* The sets of places are finite.                                          *)
LEMMA PlacesFinite ==
  ASSUME file \in Seq(Items), NEW i \in 1 .. end
  PROVE  /\ Lines \in SUBSET Nat /\ IsFiniteSet(Lines)
         /\ Numbers(i) \in SUBSET Nat /\ IsFiniteSet(Numbers(i))
<1>1. end \in Nat /\ Len(file) = end - 1 /\ DOMAIN file = 1 .. end - 1
  BY DEF end
<1>2. IsFiniteSet(1 .. end)
  BY <1>1, FS_Interval
<1>3. Lines \in SUBSET (1 .. end)
  BY <1>1 DEF Lines
<1>4. Numbers(i) \in SUBSET (1 .. end)
  <2>1. Past(i, Items \ {"nl"}) \in i .. end
    BY PastIs
  <2> QED
    BY <1>1, <2>1 DEF Numbers, Words
<1>5. IsFiniteSet(Lines)
  BY <1>2, <1>3, FS_Subset
<1>6. IsFiniteSet(Numbers(i))
  BY <1>2, <1>4, FS_Subset
<1> QED
  BY <1>1, <1>3, <1>4, <1>5, <1>6

(* A number at begin is what read_double takes, and what it goes on from.  *)
LEMMA ReadDouble ==
  ASSUME file \in Seq(Items), NEW i \in 1 .. end, begin \in i .. end,
         begin < end, AtWord(begin), IsNumber,
         \A k \in i .. begin - 1 : file[k] = "sp" \/ Whole(k)
  PROVE  /\ Value = begin /\ Whole(begin) /\ Behind \in begin + 1 .. end
         /\ \A k \in i .. Behind - 1 : file[k] = "sp" \/ Whole(k)
         /\ Before(i, Behind) = Before(i, begin) \cup {begin}
         /\ {j \in Numbers(i) : j <= begin} = Before(i, begin) \cup {begin}
         /\ Behind = end \/ file[Behind] # "nl" => AtWord(Behind)
<1>1. end \in Nat /\ Len(file) = end - 1 /\ i \in Nat /\ begin \in Nat
  BY DEF end
<1>2. /\ file[begin - 1] \in Blank /\ file[begin] \notin Blank
  BY DEF AtWord
<1>3. Value = begin
  <2>1. PICK v : v = Value
    OBVIOUS
  <2>2. /\ v \in begin .. end
        /\ \A k \in begin .. v - 1 : file[k] \in Blank
    BY <1>1, <2>1, PastIs DEF Value
  <2>3. v > begin => begin \in begin .. v - 1
    BY <1>1, <2>2
  <2>4. v = begin
    BY <1>1, <1>2, <2>2, <2>3
  <2> QED
    BY <2>1, <2>4
<1>4. /\ file[begin] = "num" /\ begin + 1 < end
      /\ file[begin + 1] \in Blank
  BY <1>3 DEF IsNumber
<1>5. Whole(begin)
  BY <1>2, <1>4 DEF Whole
<1>6. PICK b : b = Behind
  OBVIOUS
<1>7. /\ b \in begin + 1 .. end
      /\ \A k \in begin + 1 .. b - 1 : file[k] = "sp"
      /\ b < end => file[b] # "sp"
  <2>1. b = Past(begin + 1, {"sp"}) /\ begin + 1 \in 1 .. end
    BY <1>1, <1>3, <1>4, <1>6 DEF Behind
  <2> QED
    BY <2>1, PastIs
<1>8. \A k \in i .. b - 1 : file[k] = "sp" \/ Whole(k)
  <2> TAKE k \in i .. b - 1
  <2>1. k \in i .. begin - 1 \/ k = begin \/ k \in begin + 1 .. b - 1
    BY <1>1, <1>7
  <2> QED
    BY <1>5, <1>7, <2>1
<1>9. b \in i .. end
  BY <1>1, <1>7
<1>10. /\ Before(i, b) = {j \in i .. b - 1 : Whole(j)}
       /\ Before(i, begin) = {j \in i .. begin - 1 : Whole(j)}
       /\ {j \in Numbers(i) : j <= begin} = Before(i, begin) \cup {begin}
  BY <1>5, <1>8, <1>9, NumbersBefore
<1>11. {j \in i .. b - 1 : Whole(j)} =
          {j \in i .. begin - 1 : Whole(j)} \cup {begin}
  <2>1. ASSUME NEW j \in i .. b - 1, Whole(j)
        PROVE  j \in i .. begin - 1 \/ j = begin
    <3>1. j \notin begin + 1 .. b - 1
      BY <1>7, <2>1 DEF Whole
    <3> QED
      BY <1>1, <1>7, <3>1
  <2>2. \A j \in i .. begin - 1 : j \in i .. b - 1
    BY <1>1, <1>7
  <2>3. begin \in i .. b - 1
    BY <1>1, <1>7
  <2> QED
    BY <1>5, <2>1, <2>2, <2>3
<1>12. ASSUME b = end \/ file[b] # "nl" PROVE AtWord(b)
  <2>1. b # begin + 1
    BY <1>1, <1>4, <1>7, <1>12 DEF Blank
  <2>2. b - 1 \in begin + 1 .. b - 1
    BY <1>1, <1>7, <2>1
  <2>3. file[b - 1] \in Blank
    BY <1>7, <2>2 DEF Blank
  <2>4. b < end => file[b] \notin Blank
    BY <1>1, <1>7, <1>12 DEF Blank
  <2> QED
    BY <2>3, <2>4 DEF AtWord
<1> QED
  BY <1>3, <1>5, <1>6, <1>7, <1>8, <1>10, <1>11, <1>12

(* It is skipped as one of the first, or goes to the end of the row.       *)
LEMMA NumberRead ==
  ASSUME file \in Seq(Items), firstcolumn \in Nat,
         NEW i \in 1 .. end, begin \in i .. end,
         begin < end, AtWord(begin), IsNumber,
         NEW skip \in Nat, NEW r \in Seq(DOMAIN file),
         Reading(i, begin, skip, r)
  PROVE  /\ skip > 0 => Reading(i, Behind, skip - 1, r)
         /\ skip = 0 => Reading(i, Behind, 0, Append(r, begin))
<1> DEFINE C(p) == {j \in Coefficients(i) : j < p}
<1>1. /\ \A k \in i .. begin - 1 : file[k] = "sp" \/ Whole(k)
      /\ IF skip > 0 THEN Cardinality(Before(i, begin)) = firstcolumn - skip
         ELSE Cardinality(Before(i, begin)) >= firstcolumn
      /\ InOrder(r, C(begin))
  BY DEF Reading
<1>2. /\ Behind \in begin + 1 .. end
      /\ \A k \in i .. Behind - 1 : file[k] = "sp" \/ Whole(k)
      /\ Before(i, Behind) = Before(i, begin) \cup {begin}
      /\ {j \in Numbers(i) : j <= begin} = Before(i, begin) \cup {begin}
  BY <1>1, ReadDouble
<1>3. /\ Numbers(i) \in SUBSET Nat /\ IsFiniteSet(Numbers(i))
      /\ begin \in Nat /\ begin \in DOMAIN file
  BY PlacesFinite DEF end
<1>4. Before(i, begin) \in SUBSET Nat /\ IsFiniteSet(Before(i, begin))
  BY <1>3, FS_Subset DEF Before
<1>5. begin \notin Before(i, begin)
  BY <1>3 DEF Before
<1>6. /\ Cardinality(Before(i, Behind)) = Cardinality(Before(i, begin)) + 1
      /\ Cardinality(Before(i, begin)) \in Nat
  BY <1>2, <1>4, <1>5, FS_AddElement, FS_CardinalityType
<1>7. Rank(begin, Numbers(i)) = Cardinality(Before(i, begin)) + 1
  BY <1>2, <1>6 DEF Rank
<1>8. /\ begin \in Numbers(i)
      /\ \A j \in Numbers(i) : j < Behind <=> j < begin \/ j = begin
  <2>1. \A j \in Numbers(i) : j < Behind => j < begin \/ j = begin
    <3> TAKE j \in Numbers(i)
    <3>1. j < Behind => j \in Before(i, begin) \cup {begin}
      BY <1>2 DEF Before
    <3> QED
      BY <3>1 DEF Before
  <2>2. begin \in Numbers(i)
    BY <1>2
  <2>3. Behind \in Int /\ begin < Behind
    BY <1>2, <1>3
  <2> QED
    BY <1>3, <2>1, <2>2, <2>3
<1>9. C(Behind) = IF Cardinality(Before(i, begin)) >= firstcolumn
                  THEN C(begin) \cup {begin} ELSE C(begin)
  <2>1. begin \in Coefficients(i) <=>
          Cardinality(Before(i, begin)) >= firstcolumn
    BY <1>6, <1>7, <1>8 DEF Coefficients
  <2>2. Coefficients(i) \in SUBSET Numbers(i)
    BY DEF Coefficients
  <2> QED
    BY <1>8, <2>1, <2>2
<1> HIDE DEF C
<1>10. ASSUME skip > 0 PROVE Reading(i, Behind, skip - 1, r)
  <2>1. Cardinality(Before(i, begin)) = firstcolumn - skip
    BY <1>1, <1>10
  <2>2. C(Behind) = C(begin)
    BY <1>9, <1>6, <1>10, <2>1
  <2>3. IF skip - 1 > 0
        THEN Cardinality(Before(i, Behind)) = firstcolumn - (skip - 1)
        ELSE Cardinality(Before(i, Behind)) >= firstcolumn
    BY <1>6, <1>10, <2>1
  <2>4. InOrder(r, C(Behind))
    BY <1>1, <2>2
  <2> QED
    BY <1>2, <2>3, <2>4 DEF Reading, C
<1>11. ASSUME skip = 0 PROVE Reading(i, Behind, 0, Append(r, begin))
  <2>1. Cardinality(Before(i, begin)) >= firstcolumn
    BY <1>1, <1>11
  <2>2. C(Behind) = C(begin) \cup {begin}
    BY <1>9, <2>1
  <2>3. /\ C(begin) \in SUBSET Nat /\ IsFiniteSet(C(begin))
        /\ \A y \in C(begin) : y < begin
    <3>1. C(begin) \in SUBSET Numbers(i) /\ \A y \in C(begin) : y < begin
      BY DEF C, Coefficients
    <3> QED
      BY <1>3, <3>1, FS_Subset
  <2>4. InOrder(Append(r, begin), C(Behind))
    BY <1>1, <1>3, <2>2, <2>3, AppendInOrder
  <2>5. Cardinality(Before(i, Behind)) >= firstcolumn
    BY <1>6, <2>1
  <2> QED
    BY <1>2, <2>4, <2>5 DEF Reading, C
<1> QED
  BY <1>10, <1>11

(* A line that was read to its end, or to a word that is no number, is one *)
(* more line, with all its coefficients.                                   *)
LEMMA LineRead ==
  ASSUME file \in Seq(Items), firstcolumn \in Nat, WellFormed,
         NEW p \in 1 .. end, Between(p),
         NEW i, i = nextline(p), i < end, NEW q \in i .. end,
         NEW skip, NEW r, Reading(i, q, skip, r),
         Before(i, q) = Numbers(i)
  PROVE  /\ InOrder(r, Coefficients(i))
         /\ {k \in Lines : k < q} = {k \in Lines : k < p} \cup {i}
         /\ \A j \in 1 .. q - 1 :
              file[j] = "nl" => \E k \in j .. q - 1 : file[k] \notin Blank
<1>1. end \in Nat /\ Len(file) = end - 1 /\ p \in Nat
  BY DEF end
<1>2. i \in Lines /\ i \in p + 1 .. end /\ file[i] \notin Blank
  <2>1. /\ i \in p .. end /\ i \in Lines /\ i > p
        /\ file[i] \notin Blank
    BY NextStarts
  <2> QED
    BY <1>1, <2>1
<1>3. i \in Nat /\ q \in Nat /\ i \in 1 .. end
  BY <1>1, <1>2
<1>4. \A k \in i .. q - 1 : file[k] # "nl"
  BY DEF Reading, Whole
<1>5. Coefficients(i) = {j \in Coefficients(i) : j < q}
  BY DEF Before, Coefficients
<1>6. InOrder(r, Coefficients(i))
  BY <1>5 DEF Reading
<1>7. q > i
  <2>1. Cardinality(Numbers(i)) > firstcolumn
    BY <1>2 DEF WellFormed
  <2>2. IsFiniteSet(Numbers(i)) /\ Cardinality(Numbers(i)) # 0
    BY <1>3, <2>1, PlacesFinite
  <2>3. PICK j : j \in Before(i, q)
    BY <2>2, FS_EmptySet
  <2>4. j \in i .. q - 1
    BY <1>3, NumbersBefore, <2>3 DEF Reading
  <2> QED
    BY <1>3, <2>4
<1>8. ASSUME NEW k \in Lines PROVE k < q <=> k < p \/ k = i
  <2>1. k \in 1 .. end - 1 /\ file[k] \notin Blank
    BY <1>1 DEF Lines, StartsLine
  <2>2. k < i => k < p
    BY NoneBetween
  <2>3. PICK j \in 1 .. k - 1 :
          file[j] = "nl" /\ \A m \in j .. k - 1 : file[m] \in Blank
    BY DEF Lines, StartsLine
  <2>4. ~(k > i /\ k < q)
    <3> SUFFICES ASSUME k > i, k < q PROVE FALSE
      OBVIOUS
    <3>1. CASE j >= i
      <4>1. j \in i .. q - 1
        BY <1>3, <2>1, <3>1
      <4> QED
        BY <1>4, <2>3, <4>1
    <3>2. CASE j < i
      <4>1. i \in j .. k - 1
        BY <1>3, <2>1, <3>2
      <4> QED
        BY <1>2, <2>3, <4>1
    <3> QED
      BY <1>3, <2>1, <3>1, <3>2
  <2> QED
    BY <1>1, <1>2, <1>3, <1>7, <2>1, <2>2, <2>4
<1>9. {k \in Lines : k < q} = {k \in Lines : k < p} \cup {i}
  BY <1>2, <1>8
<1>10. ASSUME NEW j \in 1 .. q - 1, file[j] = "nl"
       PROVE  \E k \in j .. q - 1 : file[k] \notin Blank
  <2>1. j < i
    BY <1>3, <1>4, <1>10
  <2>2. i \in j .. q - 1
    BY <1>3, <1>7, <2>1
  <2> QED
    BY <1>2, <2>2
<1> QED
  BY <1>6, <1>9, <1>10

-----------------------------------------------------------------------------
(* Such a line is returned as the next row.                                *)
LEMMA RowReturned ==
  ASSUME DatTypeOK, WellFormed, UNCHANGED <<file, firstcolumn>>,
         Between(curptr), nextline(curptr) < end,
         NEW q \in nextline(curptr) .. end, NEW skip,
         NEW r \in Seq(DOMAIN file), Reading(nextline(curptr), q, skip, r),
         Before(nextline(curptr), q) = Numbers(nextline(curptr)),
         ReturnLine(q, r)
  PROVE  Between(curptr)'
<1> DEFINE i == nextline(curptr)
           S == {k \in Lines : k < curptr}
           U == {k \in Lines : k < q}
<1>1. /\ file \in Seq(Items) /\ firstcolumn \in Nat /\ curptr \in 1 .. end
      /\ rows \in Seq(Seq(DOMAIN file))
  BY DEF DatTypeOK
<1>2. /\ InOrder(r, Coefficients(i)) /\ U = S \cup {i}
      /\ \A j \in 1 .. q - 1 :
           file[j] = "nl" => \E k \in j .. q - 1 : file[k] \notin Blank
  BY <1>1, LineRead
<1>3. /\ Len(rows) = Cardinality(S)
      /\ \A k \in S : InOrder(rows[Rank(k, S)], Coefficients(k))
  BY DEF Between, RowsOf
<1>4. /\ i \in Nat /\ S \in SUBSET Nat /\ IsFiniteSet(S)
      /\ \A k \in S : k < i
  <2>1. /\ i \in curptr .. end /\ i > curptr
        /\ curptr \in Nat /\ end \in Nat
    BY <1>1, NextStarts DEF end
  <2>2. Lines \in SUBSET Nat /\ IsFiniteSet(Lines)
    BY <1>1, PlacesFinite
  <2>3. S \in SUBSET Lines
    OBVIOUS
  <2>4. IsFiniteSet(S)
    BY <2>2, <2>3, FS_Subset
  <2>5. i \in Nat
    BY <2>1
  <2>6. \A k \in S : k < i
    BY <2>1, <2>2
  <2> QED
    BY <2>2, <2>3, <2>4, <2>5, <2>6
<1> HIDE DEF i, S, U
<1>5. /\ Len(Append(rows, r)) = Cardinality(U)
      /\ \A k \in U :
           InOrder(Append(rows, r)[Rank(k, U)], Coefficients(k))
  <2>1. Cardinality(S) \in Nat
    BY <1>4, FS_CardinalityType
  <2>2. /\ Len(Append(rows, r)) = Len(rows) + 1
        /\ Append(rows, r)[Len(rows) + 1] = r
        /\ \A k \in 1 .. Len(rows) : Append(rows, r)[k] = rows[k]
    BY <1>1
  <2>3. /\ Cardinality(U) = Cardinality(S) + 1
        /\ Rank(i, U) = Cardinality(S) + 1
        /\ \A y \in S : /\ Rank(y, U) = Rank(y, S)
                        /\ Rank(y, S) \in 1 .. Cardinality(S)
    BY <1>2, <1>4, RankAdds
  <2>4. ASSUME NEW k \in S
        PROVE  InOrder(Append(rows, r)[Rank(k, U)], Coefficients(k))
    <3>1. Append(rows, r)[Rank(k, U)] = rows[Rank(k, S)]
      BY <1>3, <2>2, <2>3
    <3> QED
      BY <1>3, <3>1
  <2>5. InOrder(Append(rows, r)[Rank(i, U)], Coefficients(i))
    <3>1. Append(rows, r)[Rank(i, U)] = r
      BY <1>3, <2>2, <2>3
    <3> QED
      BY <1>2, <3>1
  <2>6. Len(Append(rows, r)) = Cardinality(U)
    BY <1>3, <2>2, <2>3
  <2> QED
    BY <1>2, <2>4, <2>5, <2>6
<1>6. /\ curptr' = q /\ rows' = Append(rows, r) /\ file' = file
  BY DEF ReturnLine
<1>7. Lines' = Lines /\ \A k : Coefficients(k)' = Coefficients(k)
  BY SameText
<1>8. {k \in Lines' : k < curptr'} = U
  BY <1>6, <1>7 DEF U
<1> QED
  BY <1>2, <1>5, <1>6, <1>7, <1>8 DEF Between, RowsOf

(* The column is one of the header's.                                      *)
LEMMA HeaderColumn ==
  ASSUME file \in Seq(Items), NEW name
  PROVE  get_hdrval(name) \in -1 .. Len(file)
<1> DEFINE headings == {j \in 1 .. Past(1, Items \ {"nl"}) - 1 : Begins(j)}
           found == {j \in headings : file[j] = name}
           ahead == {j \in headings : j < Min(found)}
<1>1. end \in Nat /\ Len(file) = end - 1 /\ 1 \in 1 .. end
  BY DEF end
<1>2. headings \in SUBSET (1 .. Len(file))
  <2>1. Past(1, Items \ {"nl"}) \in 1 .. end
    BY <1>1, PastIs
  <2>2. 1 .. Past(1, Items \ {"nl"}) - 1 \subseteq 1 .. Len(file)
    BY <1>1, <2>1
  <2> QED
    BY Zenon, <2>2
<1>3. ahead \in SUBSET (1 .. Len(file))
  BY <1>2
<1>4. /\ IsFiniteSet(1 .. Len(file))
      /\ Cardinality(1 .. Len(file)) = Len(file)
  <2>1. Len(file) \in Int /\ Len(file) >= 0
    OBVIOUS
  <2> QED
    BY <2>1, FS_Interval
<1> HIDE DEF ahead
<1>5. Cardinality(ahead) \in 0 .. Len(file)
  <2>1. /\ IsFiniteSet(ahead)
        /\ Cardinality(ahead) <= Cardinality(1 .. Len(file))
    BY <1>3, <1>4, FS_Subset
  <2>2. Cardinality(ahead) \in Nat
    BY <2>1, FS_CardinalityType
  <2>3. Len(file) \in Nat
    OBVIOUS
  <2> QED
    BY <1>4, <2>1, <2>2, <2>3
<1> QED
  BY <1>1, <1>5 DEF get_hdrval, ahead

(* The variables keep their types.                                         *)
LEMMA DatTypeStep == DatIInv /\ [DatNext]_dat_vars => DatTypeOK'
<1> SUFFICES ASSUME DatIInv, [DatNext]_dat_vars PROVE DatTypeOK'
  OBVIOUS
<1>1. /\ file \in Seq(Items) /\ firstcolumn \in 0 .. Len(file)
      /\ curptr \in 1 .. end /\ begin \in 1 .. end
      /\ skipfst \in 0 .. firstcolumn
      /\ row \in Seq(DOMAIN file) /\ rows \in Seq(Seq(DOMAIN file))
      /\ reader \in {"open", "idle", "line", "eof", "bad"}
      /\ reader = "open" => skipfst = 0
  BY DEF DatIInv, DatTypeOK
<1>2. end \in Nat /\ Len(file) = end - 1 /\ DOMAIN file = 1 .. end - 1
  BY <1>1 DEF end
<1>3. nextline(curptr) \in 1 .. end
  BY <1>1, <1>2, NextStarts
<1>4. ASSUME begin < end, IsNumber
      PROVE  Value \in DOMAIN file /\ Behind \in 1 .. end
  <2>1. Value \in begin .. end
    BY <1>1, PastIs DEF Value
  <2>2. Value + 1 < end
    BY <1>4 DEF IsNumber
  <2>3. Value \in DOMAIN file /\ Value + 1 \in 1 .. end
    BY <1>1, <1>2, <2>1, <2>2
  <2>4. Behind \in Value + 1 .. end
    BY <1>1, <2>3, PastIs DEF Behind
  <2> QED
    BY <1>2, <2>3, <2>4
<1>5. CASE open_dat_file
  <2>1. get_hdrval("piston") \in -1 .. Len(file)
    BY <1>1, HeaderColumn
  <2>2. /\ firstcolumn' \in 0 .. Len(file)
        /\ reader' \in {"idle", "bad"}
    BY <1>1, <1>5, <2>1 DEF open_dat_file
  <2>3. UNCHANGED <<file, curptr, begin, row, rows>> /\ skipfst' = 0
    BY <1>1, <1>5 DEF open_dat_file
  <2> QED
    BY <1>1, <2>2, <2>3 DEF DatTypeOK, end
<1>6. CASE BeginLine
  <2>1. /\ begin' \in 1 .. end /\ skipfst' \in 0 .. firstcolumn
        /\ row' \in Seq(DOMAIN file) /\ reader' \in {"line", "eof"}
    <3>1. CASE nextline(curptr) = end
      BY <1>1, <1>6, <3>1 DEF BeginLine
    <3>2. CASE nextline(curptr) # end
      <4>1. /\ begin' = nextline(curptr) /\ skipfst' = firstcolumn
            /\ row' = <<>> /\ reader' = "line"
        BY <1>6, <3>2 DEF BeginLine
      <4>2. firstcolumn \in 0 .. firstcolumn
        BY <1>1
      <4> QED
        BY <1>3, <4>1, <4>2
    <3> QED
      BY <3>1, <3>2
  <2>2. UNCHANGED <<file, firstcolumn, curptr, rows>>
    BY <1>6 DEF BeginLine
  <2> QED
    BY <1>1, <2>1, <2>2 DEF DatTypeOK, end
<1>7. CASE Skip
  <2>1. Behind \in 1 .. end
    BY <1>4, <1>7 DEF Skip
  <2> QED
    BY <1>1, <1>7, <2>1 DEF Skip, DatTypeOK, end
<1>8. CASE Take
  <2>1. Value \in DOMAIN file /\ Behind \in 1 .. end
    BY <1>4, <1>8 DEF Take
  <2>2. row' \in Seq(DOMAIN file)
    BY <1>1, <1>8, <2>1 DEF Take
  <2>3. /\ curptr' \in 1 .. end /\ rows' \in Seq(Seq(DOMAIN file))
        /\ reader' \in {"open", "idle", "line", "eof", "bad"}
    <3>1. CASE ReturnLine(Behind, row')
      <4>1. Append(rows, row') \in Seq(Seq(DOMAIN file))
        BY <1>1, <2>2
      <4> QED
        BY <2>1, <3>1, <4>1 DEF ReturnLine
    <3>2. CASE UNCHANGED <<reader, curptr, rows>>
      BY <1>1, <3>2
    <3> QED
      BY <1>8, <3>1, <3>2 DEF Take
  <2>4. begin' = Behind /\ UNCHANGED <<file, firstcolumn, skipfst>>
    BY <1>8 DEF Take
  <2> QED
    BY <1>1, <2>1, <2>2, <2>3, <2>4 DEF DatTypeOK, end
<1>9. CASE Break
  <2>1. Append(rows, row) \in Seq(Seq(DOMAIN file))
    BY <1>1
  <2> QED
    BY <1>1, <1>9, <2>1 DEF Break, ReturnLine, DatTypeOK, end
<1>10. CASE UNCHANGED dat_vars
  BY <1>1, <1>10 DEF dat_vars, DatTypeOK, end
<1> QED
  BY <1>5, <1>6, <1>7, <1>8, <1>9, <1>10 DEF DatNext

(* A table has no row before it is read, ...                               *)
LEMMA OpenStep == DatIInv /\ open_dat_file => DatIInv'
<1> SUFFICES ASSUME DatIInv, open_dat_file PROVE DatIInv'
  OBVIOUS
<1>1. DatTypeOK'
  BY DatTypeStep DEF DatIInv, DatNext
<1>2. /\ curptr' = 1 /\ rows' = <<>> /\ reader' \in {"idle", "bad"}
      /\ file' = file
  BY DEF DatIInv, open_dat_file
<1>3. Between(curptr)'
  <2>1. \A k \in Lines' : k \in 1 .. Len(file)
    BY <1>1, <1>2 DEF Lines, DatTypeOK
  <2>2. {k \in Lines' : k < 1} = {}
    BY <2>1
  <2> QED
    BY <1>2, <2>2, FS_EmptySet DEF Between, RowsOf
<1> QED
  BY <1>1, <1>2, <1>3 DEF DatIInv

(* ... a line is begun with nothing in the row, ...                        *)
LEMMA BeginLineStep == DatIInv /\ BeginLine => DatIInv'
<1> SUFFICES ASSUME DatIInv, BeginLine PROVE DatIInv'
  OBVIOUS
<1>1. DatTypeOK'
  BY DatTypeStep DEF DatIInv, DatNext
<1>2. /\ file \in Seq(Items) /\ firstcolumn \in Nat /\ curptr \in 1 .. end
  BY DEF DatIInv, DatTypeOK
<1>3. UNCHANGED <<file, firstcolumn, curptr, rows>> /\ reader = "idle"
  BY DEF BeginLine
<1>4. SUFFICES ASSUME WellFormed'
      PROVE  /\ Between(curptr)'
             /\ reader' = "line" =>
                  /\ nextline(curptr)' < end'
                  /\ begin' \in nextline(curptr)' .. end'
                  /\ AtWord(begin)'
                  /\ Reading(nextline(curptr), begin, skipfst, row)'
             /\ reader' = "eof" => nextline(curptr)' = end'
  <2>1. reader' \in {"line", "eof"}
    BY DEF BeginLine
  <2> QED
    BY <1>1, <2>1, <1>4 DEF DatIInv
<1>5. /\ end' = end /\ Lines' = Lines /\ WellFormed' = WellFormed
      /\ nextline(curptr)' = nextline(curptr)
      /\ \A i : /\ Whole(i)' = Whole(i)
                /\ Numbers(i)' = Numbers(i)
                /\ Coefficients(i)' = Coefficients(i)
  BY <1>3, SameText
<1>6. Between(curptr)'
  <2>1. Between(curptr)
    BY <1>3, <1>4, <1>5 DEF DatIInv
  <2> QED
    BY <1>3, <1>5, <2>1 DEF Between, RowsOf
<1>7. CASE nextline(curptr) = end
  <2>1. reader' = "eof"
    BY <1>7 DEF BeginLine
  <2> QED
    BY <1>5, <1>6, <1>7, <2>1
<1>8. CASE nextline(curptr) # end
  <2>1. /\ begin' = nextline(curptr) /\ skipfst' = firstcolumn
        /\ row' = <<>> /\ reader' = "line"
    BY <1>8 DEF BeginLine
  <2>2. PICK i : i = nextline(curptr)
    OBVIOUS
  <2>3. /\ i \in 1 .. end /\ i < end /\ end \in Nat
        /\ file[i - 1] \in Blank /\ file[i] \notin Blank
    BY <1>2, <1>8, <2>2, NextStarts DEF end
  <2>4. AtWord(begin)'
    BY <1>3, <1>5, <2>1, <2>2, <2>3 DEF AtWord
  <2>5. Before(i, i) = {}
    <3>1. \A k \in i .. i - 1 : FALSE
      BY <2>3
    <3>2. Before(i, i) = {j \in i .. i - 1 : Whole(j)}
      BY <1>2, <2>3, <3>1, NumbersBefore
    <3> QED
      BY <3>1, <3>2
  <2>6. Reading(i, i, firstcolumn, <<>>)
    <3>1. {j \in Coefficients(i) : j < i} = {}
      BY <2>5 DEF Before, Coefficients
    <3>2. Cardinality({}) = 0
      BY FS_EmptySet
    <3>3. InOrder(<<>>, {j \in Coefficients(i) : j < i})
      BY <3>1, <3>2 DEF InOrder
    <3>4. \A k \in i .. i - 1 : file[k] = "sp" \/ Whole(k)
      BY <2>3
    <3>5. IF firstcolumn > 0
          THEN Cardinality(Before(i, i)) = firstcolumn - firstcolumn
          ELSE Cardinality(Before(i, i)) >= firstcolumn
      BY <1>2, <2>5, <3>2
    <3> QED
      BY <3>3, <3>4, <3>5 DEF Reading
  <2>7. Reading(nextline(curptr), begin, skipfst, row)'
    BY <1>3, <1>5, <2>1, <2>2, <2>6 DEF Reading, Before
  <2>8. nextline(curptr)' < end' /\ begin' \in nextline(curptr)' .. end'
    BY <1>5, <2>1, <2>2, <2>3
  <2> QED
    BY <1>6, <2>1, <2>4, <2>7, <2>8
<1> QED
  BY <1>7, <1>8

(* ... and what a line has in common in the steps through it.              *)
LEMMA InLine ==
  ASSUME DatIInv, WellFormed, reader = "line", NEW i, i = nextline(curptr)
  PROVE  /\ file \in Seq(Items) /\ firstcolumn \in Nat /\ skipfst \in Nat
         /\ row \in Seq(DOMAIN file) /\ curptr \in 1 .. end
         /\ i \in 1 .. end /\ i < end /\ begin \in i .. end
         /\ Between(curptr) /\ AtWord(begin)
         /\ Reading(i, begin, skipfst, row)
         /\ \A k \in i .. begin - 1 : file[k] = "sp" \/ Whole(k)
         /\ Cardinality(Numbers(i)) > firstcolumn
<1>1. /\ file \in Seq(Items) /\ firstcolumn \in Nat /\ skipfst \in Nat
      /\ row \in Seq(DOMAIN file) /\ curptr \in 1 .. end
  BY DEF DatIInv, DatTypeOK
<1>2. /\ Between(curptr) /\ i < end /\ begin \in i .. end
      /\ AtWord(begin) /\ Reading(i, begin, skipfst, row)
  BY DEF DatIInv
<1>3. i \in 1 .. end /\ i \in Lines
  BY <1>1, <1>2, NextStarts DEF end
<1>4. Cardinality(Numbers(i)) > firstcolumn
  BY <1>3 DEF WellFormed
<1>5. \A k \in i .. begin - 1 : file[k] = "sp" \/ Whole(k)
  BY <1>2 DEF Reading
<1> QED
  BY <1>1, <1>2, <1>3, <1>4, <1>5

(* A step that goes on in the line leaves the rest of the invariant.       *)
LEMMA StillInLine ==
  ASSUME UNCHANGED <<file, firstcolumn, curptr, rows>>, Between(curptr),
         NEW i, i = nextline(curptr), i < end, begin' \in i .. end,
         AtWord(begin'), Reading(i, begin', skipfst', row')
  PROVE  /\ Between(curptr)' /\ nextline(curptr)' < end'
         /\ begin' \in nextline(curptr)' .. end' /\ AtWord(begin)'
         /\ Reading(nextline(curptr), begin, skipfst, row)'
<1>1. /\ end' = end /\ Lines' = Lines
      /\ nextline(curptr)' = nextline(curptr)
      /\ \A k : /\ Whole(k)' = Whole(k)
                /\ Numbers(k)' = Numbers(k)
                /\ Coefficients(k)' = Coefficients(k)
  BY SameText
<1>2. Between(curptr)'
  BY <1>1 DEF Between, RowsOf
<1>3. AtWord(begin)'
  BY <1>1 DEF AtWord
<1>4. Reading(nextline(curptr), begin, skipfst, row)'
  BY <1>1 DEF Reading, Before
<1> QED
  BY <1>1, <1>2, <1>3, <1>4

(* A number that is skipped is not the line's last, ...                    *)
LEMMA SkipStep == DatIInv /\ Skip => DatIInv'
<1> SUFFICES ASSUME DatIInv, Skip PROVE DatIInv'
  OBVIOUS
<1>1. DatTypeOK'
  BY DatTypeStep DEF DatIInv, DatNext
<1>2. /\ UNCHANGED <<file, firstcolumn, curptr, row, rows, reader>>
      /\ reader = "line" /\ begin < end /\ IsNumber /\ skipfst > 0
      /\ skipfst' = skipfst - 1 /\ begin' = Behind
  BY DEF Skip
<1>3. CASE WellFormed
  <2>1. PICK i : i = nextline(curptr)
    OBVIOUS
  <2>2. /\ file \in Seq(Items) /\ firstcolumn \in Nat /\ skipfst \in Nat
        /\ row \in Seq(DOMAIN file)
        /\ i \in 1 .. end /\ i < end /\ begin \in i .. end
        /\ Between(curptr) /\ AtWord(begin)
        /\ Reading(i, begin, skipfst, row)
        /\ \A k \in i .. begin - 1 : file[k] = "sp" \/ Whole(k)
        /\ Cardinality(Numbers(i)) > firstcolumn
    BY <1>2, <1>3, <2>1, InLine
  <2>3. /\ Behind \in begin + 1 .. end
        /\ \A k \in i .. Behind - 1 : file[k] = "sp" \/ Whole(k)
        /\ Before(i, Behind) = Before(i, begin) \cup {begin}
        /\ Behind = end \/ file[Behind] # "nl" => AtWord(Behind)
    BY <1>2, <2>2, ReadDouble
  <2>4. Behind \in i .. end /\ end \in Nat
    BY <2>2, <2>3 DEF end
  <2>5. Reading(i, Behind, skipfst - 1, row)
    BY <1>2, <2>2, NumberRead
  <2>6. ~(Behind = end \/ file[Behind] = "nl")
    <3> SUFFICES ASSUME Behind = end \/ file[Behind] = "nl" PROVE FALSE
      OBVIOUS
    <3>1. Before(i, Behind) = Numbers(i)
      BY <2>2, <2>3, <2>4, NumbersBefore
    <3>2. /\ Cardinality(Before(i, begin)) = firstcolumn - skipfst
          /\ IsFiniteSet(Numbers(i)) /\ begin \notin Before(i, begin)
      BY <1>2, <2>2, PlacesFinite DEF Reading, Before, end
    <3>3. IsFiniteSet(Before(i, begin))
      BY <3>2, FS_Subset DEF Before
    <3>4. Cardinality(Numbers(i)) = Cardinality(Before(i, begin)) + 1
      BY <2>3, <3>1, <3>2, <3>3, FS_AddElement
    <3> QED
      BY <1>2, <2>2, <3>2, <3>4
  <2>7. AtWord(Behind)
    BY <2>3, <2>6
  <2>8. /\ Between(curptr)' /\ nextline(curptr)' < end'
        /\ begin' \in nextline(curptr)' .. end' /\ AtWord(begin)'
        /\ Reading(nextline(curptr), begin, skipfst, row)'
    BY <1>2, <2>1, <2>2, <2>4, <2>5, <2>7, StillInLine
  <2> QED
    BY <1>1, <1>2, <2>8 DEF DatIInv
<1>4. CASE ~WellFormed
  <2>1. ~WellFormed'
    BY <1>2, <1>4, SameText
  <2> QED
    BY <1>1, <1>2, <2>1 DEF DatIInv
<1> QED
  BY <1>3, <1>4

(* ... one that is taken is the last if an end of line is behind it, ...   *)
LEMMA TakeStep == DatIInv /\ Take => DatIInv'
<1> SUFFICES ASSUME DatIInv, Take PROVE DatIInv'
  OBVIOUS
<1>1. DatTypeOK'
  BY DatTypeStep DEF DatIInv, DatNext
<1>2. /\ UNCHANGED <<file, firstcolumn, skipfst>>
      /\ reader = "line" /\ begin < end /\ IsNumber /\ skipfst = 0
      /\ row' = Append(row, Value) /\ begin' = Behind
      /\ IF Behind < end /\ file[Behind] = "nl" THEN ReturnLine(Behind, row')
         ELSE UNCHANGED <<reader, curptr, rows>>
  BY DEF Take
<1>3. CASE WellFormed
  <2>1. PICK i : i = nextline(curptr)
    OBVIOUS
  <2>2. /\ file \in Seq(Items) /\ firstcolumn \in Nat /\ skipfst \in Nat
        /\ row \in Seq(DOMAIN file)
        /\ i \in 1 .. end /\ i < end /\ begin \in i .. end
        /\ Between(curptr) /\ AtWord(begin)
        /\ Reading(i, begin, skipfst, row)
        /\ \A k \in i .. begin - 1 : file[k] = "sp" \/ Whole(k)
    BY <1>2, <1>3, <2>1, InLine
  <2>3. /\ Value = begin /\ Behind \in begin + 1 .. end
        /\ \A k \in i .. Behind - 1 : file[k] = "sp" \/ Whole(k)
        /\ Behind = end \/ file[Behind] # "nl" => AtWord(Behind)
    BY <1>2, <2>2, ReadDouble
  <2>4. Behind \in i .. end /\ end \in Nat
    BY <2>2, <2>3 DEF end
  <2>5. Reading(i, Behind, 0, row')
    BY <1>2, <2>2, <2>3, NumberRead
  <2>6. CASE Behind < end /\ file[Behind] = "nl"
    <3>1. ReturnLine(Behind, row') /\ reader' = "idle"
      BY <1>2, <2>6 DEF ReturnLine
    <3>2. Before(i, Behind) = Numbers(i)
      BY <2>2, <2>3, <2>4, <2>6, NumbersBefore
    <3>3. row' \in Seq(DOMAIN file)
      BY <1>1, <1>2 DEF DatTypeOK
    <3>4. DatTypeOK
      BY DEF DatIInv
    <3>5. Between(curptr)'
      BY <1>2, <1>3, <2>1, <2>2, <2>4, <2>5, <3>1, <3>2, <3>3, <3>4,
         RowReturned
    <3> QED
      BY <1>1, <3>1, <3>5 DEF DatIInv
  <2>7. CASE ~(Behind < end /\ file[Behind] = "nl")
    <3>1. UNCHANGED <<reader, curptr, rows>>
      BY <1>2, <2>7
    <3>2. AtWord(Behind)
      BY <2>3, <2>4, <2>7
    <3>3. /\ Between(curptr)' /\ nextline(curptr)' < end'
          /\ begin' \in nextline(curptr)' .. end' /\ AtWord(begin)'
          /\ Reading(nextline(curptr), begin, skipfst, row)'
      BY <1>2, <2>1, <2>2, <2>4, <2>5, <3>1, <3>2, StillInLine
    <3> QED
      BY <1>1, <1>2, <3>1, <3>3 DEF DatIInv
  <2> QED
    BY <2>6, <2>7
<1>4. CASE ~WellFormed
  <2>1. ~WellFormed'
    BY <1>2, <1>4, SameText
  <2>2. reader' # "open"
    BY <1>2 DEF ReturnLine
  <2> QED
    BY <1>1, <2>1, <2>2 DEF DatIInv
<1> QED
  BY <1>3, <1>4

(* ... and what is no number, or the end of the file, ends the line.       *)
LEMMA BreakStep == DatIInv /\ Break => DatIInv'
<1> SUFFICES ASSUME DatIInv, Break PROVE DatIInv'
  OBVIOUS
<1>1. DatTypeOK'
  BY DatTypeStep DEF DatIInv, DatNext
<1>2. /\ UNCHANGED <<file, firstcolumn, begin, skipfst, row>>
      /\ reader = "line" /\ (begin >= end \/ ~IsNumber)
      /\ ReturnLine(begin, row) /\ reader' = "idle"
  BY DEF Break, ReturnLine
<1>3. CASE WellFormed
  <2>1. PICK i : i = nextline(curptr)
    OBVIOUS
  <2>2. /\ file \in Seq(Items) /\ row \in Seq(DOMAIN file)
        /\ i \in 1 .. end /\ i < end /\ begin \in i .. end
        /\ Between(curptr) /\ AtWord(begin)
        /\ Reading(i, begin, skipfst, row)
        /\ \A k \in i .. begin - 1 : file[k] = "sp" \/ Whole(k)
    BY <1>2, <1>3, <2>1, InLine
  <2>3. end \in Nat /\ Len(file) = end - 1
    BY <2>2 DEF end
  <2>4. Before(i, begin) = Numbers(i)
    <3>1. CASE begin = end
      BY <2>2, <3>1, NumbersBefore
    <3>2. CASE begin < end
      <4>1. file[begin] \notin Blank
        BY <2>2, <3>2 DEF AtWord
      <4>2. Value = begin
        <5>1. PICK v : v = Value
          OBVIOUS
        <5>2. /\ v \in begin .. end
              /\ \A k \in begin .. v - 1 : file[k] \in Blank
          BY <2>2, <2>3, <5>1, PastIs DEF Value
        <5>3. v > begin => begin \in begin .. v - 1
          BY <2>2, <2>3, <5>2
        <5>4. v = begin
          BY <2>2, <2>3, <4>1, <5>2, <5>3
        <5> QED
          BY <5>1, <5>4
      <4>3. ~Whole(begin)
        <5> SUFFICES ASSUME Whole(begin) PROVE FALSE
          OBVIOUS
        <5>1. file[begin] = "num"
          BY DEF Whole
        <5>2. begin < Len(file)
          BY <1>3, <2>2, <2>3, <3>2, <5>1 DEF WellFormed
        <5>3. file[begin + 1] \in Blank /\ begin + 1 < end
          BY <2>2, <2>3, <5>2 DEF Whole
        <5> QED
          BY <1>2, <2>2, <2>3, <3>2, <4>2, <5>1, <5>3 DEF IsNumber
      <4> QED
        BY <2>2, <3>2, <4>1, <4>3, NumbersBefore
    <3> QED
      BY <2>2, <2>3, <3>1, <3>2
  <2>5. DatTypeOK
    BY DEF DatIInv
  <2>6. Between(curptr)'
    BY <1>2, <1>3, <2>1, <2>2, <2>4, <2>5, RowReturned
  <2> QED
    BY <1>1, <1>2, <2>6 DEF DatIInv
<1>4. CASE ~WellFormed
  <2>1. ~WellFormed'
    BY <1>2, <1>4, SameText
  <2> QED
    BY <1>1, <1>2, <2>1 DEF DatIInv
<1> QED
  BY <1>3, <1>4

(* The invariant holds at first, and every step keeps it.                  *)
LEMMA DatAtFirst == DatInit => DatIInv
<1> SUFFICES ASSUME DatInit PROVE DatIInv
  OBVIOUS
<1>1. /\ file \in Seq(Items) /\ firstcolumn = 0 /\ curptr = 1 /\ begin = 1
      /\ skipfst = 0 /\ row = <<>> /\ rows = <<>> /\ reader = "open"
  BY FilesAssumption DEF DatInit
<1>2. DatTypeOK
  BY <1>1 DEF DatTypeOK, end
<1> QED
  BY <1>1, <1>2 DEF DatIInv

LEMMA DatInductive == DatIInv /\ [DatNext]_dat_vars => DatIInv'
<1> SUFFICES ASSUME DatIInv, UNCHANGED dat_vars PROVE DatIInv'
  BY OpenStep, BeginLineStep, SkipStep, TakeStep, BreakStep DEF DatNext
<1>1. UNCHANGED <<file, firstcolumn, curptr, begin, skipfst, row, rows,
                  reader>>
  BY DEF dat_vars
<1>2. DatTypeOK'
  BY DatTypeStep
<1>3. /\ end' = end /\ Lines' = Lines /\ WellFormed' = WellFormed
      /\ nextline(curptr)' = nextline(curptr)
      /\ \A k : /\ Whole(k)' = Whole(k)
                /\ Numbers(k)' = Numbers(k)
                /\ Coefficients(k)' = Coefficients(k)
  BY <1>1, SameText
<1>4. Between(curptr) => Between(curptr)'
  BY <1>1, <1>3 DEF Between, RowsOf
<1>5. AtWord(begin) => AtWord(begin)'
  BY <1>1, <1>3 DEF AtWord
<1>6. Reading(nextline(curptr), begin, skipfst, row) =>
        Reading(nextline(curptr), begin, skipfst, row)'
  BY <1>1, <1>3 DEF Reading, Before
<1> QED
  BY <1>1, <1>2, <1>3, <1>4, <1>5, <1>6 DEF DatIInv

(* Each line of a table is a row with its own coefficients, for any texts  *)
(* and any number of columns ahead of them, although strtod does not see   *)
(* where a line ends.                                                      *)
THEOREM EachLineIsRow == DatSpec => []LinesAreRows
<1>1. DatIInv => LinesAreRows
  <2> SUFFICES ASSUME DatIInv, reader = "eof", WellFormed
               PROVE  RowsOf(Lines)
    BY DEF LinesAreRows
  <2>1. /\ Between(curptr) /\ nextline(curptr) = end
        /\ file \in Seq(Items) /\ curptr \in 1 .. end
    BY DEF DatIInv, DatTypeOK
  <2>2. \A i \in Lines : i < end
    BY <2>1 DEF Lines, end
  <2>3. \A i \in Lines : i < curptr
    BY <2>1, <2>2, NoneBetween
  <2>4. {i \in Lines : i < curptr} = Lines
    BY <2>3
  <2> QED
    BY <2>1, <2>4 DEF Between
<1> QED
  BY <1>1, DatAtFirst, DatInductive, PTL DEF DatSpec

(* A number read or a line begun leaves its place behind.                  *)
LEMMA ReaderMoves ==
  ASSUME DatTypeOK
  PROVE  /\ end \in Nat /\ curptr \in 1 .. end /\ begin \in 1 .. end
         /\ nextline(curptr) \in curptr .. end
         /\ nextline(curptr) # end => nextline(curptr) > curptr
         /\ begin < end /\ IsNumber => Behind \in begin + 1 .. end
<1>1. /\ file \in Seq(Items) /\ end \in Nat
      /\ curptr \in 1 .. end /\ begin \in 1 .. end
  BY DEF DatTypeOK, end
<1>2. nextline(curptr) \in curptr .. end
      /\ (nextline(curptr) # end => nextline(curptr) > curptr)
  <2>1. /\ nextline(curptr) \in curptr .. end
        /\ nextline(curptr) < end => nextline(curptr) > curptr
    BY <1>1, NextStarts
  <2> QED
    BY <1>1, <2>1
<1>3. ASSUME begin < end, IsNumber PROVE Behind \in begin + 1 .. end
  <2>1. Value \in begin .. end
    BY <1>1, PastIs DEF Value
  <2>2. Value + 1 < end
    BY <1>3 DEF IsNumber
  <2>3. Value + 1 \in 1 .. end
    BY <1>1, <2>1, <2>2
  <2>4. Behind \in Value + 1 .. end
    BY <1>1, <2>3, PastIs DEF Behind
  <2> QED
    BY <1>1, <2>1, <2>4
<1> QED
  BY <1>1, <1>2, <1>3

(* Every table is read to its end, in no more than two steps for each item *)
(* of the text, whatever is in it.                                         *)
THEOREM TableEndsInTime ==
  DatSpec => ReadsLeft = 2 * Len(file) + 2 /\ ReaderAdvances
<1>1. DatIInv /\ [DatNext]_dat_vars =>
        [ReadsLeft' \in Nat /\ ReadsLeft' < ReadsLeft]_dat_vars
  <2> SUFFICES ASSUME DatIInv, DatNext
               PROVE  ReadsLeft' \in Nat /\ ReadsLeft' < ReadsLeft
    OBVIOUS
  <2>1. /\ end \in Nat /\ curptr \in 1 .. end /\ begin \in 1 .. end
        /\ nextline(curptr) \in curptr .. end
        /\ nextline(curptr) # end => nextline(curptr) > curptr
        /\ begin < end /\ IsNumber => Behind \in begin + 1 .. end
    BY ReaderMoves DEF DatIInv
  <2>2. end' = end
    BY DEF DatNext, open_dat_file, BeginLine, Skip, Take, Break, end
  <2>3. CASE open_dat_file
    <3>1. /\ reader = "open" /\ reader' \in {"idle", "bad"}
          /\ curptr' = curptr
      BY <2>3 DEF open_dat_file
    <3> QED
      BY <2>1, <2>2, <3>1 DEF ReadsLeft
  <2>4. CASE BeginLine
    <3>1. CASE nextline(curptr) = end
      <4>1. reader = "idle" /\ reader' = "eof"
        BY <2>4, <3>1 DEF BeginLine
      <4> QED
        BY <2>1, <4>1 DEF ReadsLeft
    <3>2. CASE nextline(curptr) # end
      <4>1. /\ reader = "idle" /\ reader' = "line"
            /\ begin' = nextline(curptr)
        BY <2>4, <3>2 DEF BeginLine
      <4> QED
        BY <2>1, <2>2, <3>2, <4>1 DEF ReadsLeft
    <3> QED
      BY <3>1, <3>2
  <2>5. CASE Skip \/ Take
    <3>1. /\ reader = "line" /\ begin' = Behind
          /\ Behind \in begin + 1 .. end
          /\ \/ reader' = "line"
             \/ reader' = "idle" /\ curptr' = Behind
      BY <2>1, <2>5 DEF Skip, Take, ReturnLine
    <3> QED
      BY <2>1, <2>2, <3>1 DEF ReadsLeft
  <2>6. CASE Break
    <3>1. reader = "line" /\ reader' = "idle" /\ curptr' = begin
      BY <2>6 DEF Break, ReturnLine
    <3> QED
      BY <2>1, <2>2, <3>1 DEF ReadsLeft
  <2> QED
    BY <2>3, <2>4, <2>5, <2>6 DEF DatNext
<1>2. DatInit => ReadsLeft = 2 * Len(file) + 2
  <2> SUFFICES ASSUME DatInit PROVE ReadsLeft = 2 * Len(file) + 2
    OBVIOUS
  <2>1. Len(file) \in Nat /\ reader = "open"
    BY FilesAssumption DEF DatInit
  <2> QED
    BY <2>1 DEF ReadsLeft, end
<1> QED
  BY <1>1, <1>2, DatAtFirst, DatInductive, PTL DEF DatSpec, ReaderAdvances
=============================================================================
