---------------------------- MODULE QuickSelect ----------------------------
(***************************************************************************)
(* quick_select, the median that the tool for the rotation angle zero in   *)
(* FITS headers takes (fits_headers/main.c): Hoare's selection on a copy   *)
(* of the data, with two sentinels in place of a test for the array's      *)
(* ends.  A step is a comparison of the loops, or what is done between     *)
(* them.                                                                   *)
(***************************************************************************)
EXTENDS Integers, FiniteSets

CONSTANTS
  MaxN,    \* bound: data
  Values   \* what the data may be

ASSUME DataAssumption == MaxN \in Nat /\ Values \subseteq Int

VARIABLES
  idata,  \* the data
  n,      \* how many they are
  arr,    \* the copy
  low, high, ll, hh,
  loop      \* "top" of the outer loop, "up", "down", "meet", or "done"

select_vars == <<idata, n, arr, low, high, ll, hh, loop>>
input == <<idata, n>>

median == (n - 1) \div 2

SelectInit ==
  /\ n \in 1 .. MaxN /\ idata \in [0 .. n - 1 -> Values]
  /\ arr = idata
  /\ low = 0 /\ high = n - 1 /\ ll = 0 /\ hh = 0 /\ loop = "top"

Swapped(a, i, j) == [a EXCEPT ![i] = a[j], ![j] = a[i]]
PIX_SORT(a, i, j) == IF a[i] > a[j] THEN Swapped(a, i, j) ELSE a

(* One element, or two, are left.                                          *)
Finish ==
  /\ loop = "top" /\ high <= low + 1 /\ loop' = "done"
  /\ arr' = IF high = low + 1 THEN PIX_SORT(arr, low, high) ELSE arr
  /\ UNCHANGED <<input, low, high, ll, hh>>

(* Mutant: the greatest of the three is not put at the end.                *)
MedianOfTwo(a, middle) ==
  PIX_SORT(PIX_SORT(a, low, high), middle, low)

(* The median of three goes to low, the least to the middle, the greatest  *)
(* to high.                                                                *)
MedianOfThree(a, middle) ==
  PIX_SORT(PIX_SORT(PIX_SORT(a, middle, high), low, high), middle, low)

BeginPart ==
  /\ loop = "top" /\ high > low + 1 /\ loop' = "up"
  /\ LET middle == (low + high) \div 2
     IN arr' = Swapped(MedianOfThree(arr, middle), middle, low + 1)
  /\ ll' = low + 1 /\ hh' = high
  /\ UNCHANGED <<input, low, high>>

(* The nibbles from each end.                                              *)
Up ==
  /\ loop = "up" /\ ll' = ll + 1
  /\ loop' = IF arr[low] > arr[ll'] THEN "up" ELSE "down"
  /\ UNCHANGED <<input, arr, low, high, hh>>

Down ==
  /\ loop = "down" /\ hh' = hh - 1
  /\ loop' = IF arr[hh'] > arr[low] THEN "down" ELSE "meet"
  /\ UNCHANGED <<input, arr, low, high, ll>>

Exchange ==
  /\ loop = "meet" /\ ll <= hh /\ loop' = "up"
  /\ arr' = Swapped(arr, ll, hh)
  /\ UNCHANGED <<input, low, high, ll, hh>>

(* Mutant: the part with the median is taken to be the other one.          *)
PartitionOther ==
  /\ loop = "meet" /\ hh < ll /\ loop' = "top"
  /\ arr' = Swapped(arr, low, hh)
  /\ low' = IF hh < median THEN ll ELSE low
  /\ high' = IF hh > median THEN hh - 1 ELSE high
  /\ UNCHANGED <<input, ll, hh>>

(* The pivot goes to its place; the part with the median is left.          *)
Partition ==
  /\ loop = "meet" /\ hh < ll /\ loop' = "top"
  /\ arr' = Swapped(arr, low, hh)
  /\ low' = IF hh <= median THEN ll ELSE low
  /\ high' = IF hh >= median THEN hh - 1 ELSE high
  /\ UNCHANGED <<input, ll, hh>>

SelectNext == Finish \/ BeginPart \/ Up \/ Down \/ Exchange \/ Partition

SelectSpec == SelectInit /\ [][SelectNext]_select_vars

(* A function runs until it returns.                                       *)
FairSelect == SelectSpec /\ WF_select_vars(SelectNext)

-----------------------------------------------------------------------------
(* Properties.                                                             *)

SelectTypeOK ==
  /\ n \in 1 .. MaxN /\ {idata, arr} \subseteq [0 .. n - 1 -> Values]
  /\ {low, ll} \subseteq 0 .. n /\ {high, hh} \subseteq -1 .. n - 1
  /\ loop \in {"top", "up", "down", "meet", "done"}

(* The inner loops have no test for the ends of the array: the next        *)
(* element that each looks at is in the part that is sorted.               *)
StaysInside ==
  /\ loop = "up" => ll + 1 \in low .. high
  /\ loop = "down" => hh - 1 \in low .. high

(* A value that as many elements are below as above, or one fewer: "median *)
(* calculation for array idata".                                           *)
IsMedian(v) ==
  /\ Cardinality({i \in 0 .. n - 1 : idata[i] < v}) <= median
  /\ Cardinality({i \in 0 .. n - 1 : idata[i] <= v}) > median

(* What it returns, if it does.                                            *)
MedianAtEnd == loop = "done" => IsMedian(arr[median])

(* The function returns, and what it returns is the data's median.         *)
ReturnsMedian == <>(loop = "done" /\ IsMedian(arr[median]))

(* How many steps are left at most: the loops come closer until they meet, *)
(* and each part that is left when they do is shorter.                     *)
StepsLeft ==
  LET between == 3 * (n + hh - ll) + (IF loop = "meet" THEN 1 ELSE 0)
      inside == IF loop = "top" THEN 6 * n + 2 ELSE between
  IN IF loop = "done" THEN 0
     ELSE 1 + (high - low + n) * (6 * n + 3) + inside

(* The function cannot run for ever: each of its steps is one fewer.       *)
EndsInTime ==
  [][StepsLeft' \in Nat /\ StepsLeft' < StepsLeft]_select_vars
=============================================================================
