------------------------------ MODULE MergeSort ------------------------------
(***************************************************************************)
(* The merge sort of merge-sort/merge.c: merge sorts the part l..r of an   *)
(* array in place, by calling itself on each half and merge_sorted on      *)
(* both.  A step is a call, a return, or one round of a loop.              *)
(***************************************************************************)
EXTENDS Integers, Sequences, FiniteSets

CONSTANTS
  Length,   \* bounds the array
  Numbers   \* its values

VARIABLES
  lis,      \* the array
  frames,   \* the calls of merge that have not returned, innermost first
  buf,      \* merge_sorted's copy of l..r, or <<>> outside of it
  i, ll, rr,   \* its cursors: in lis, and in either half of buf
  start     \* history: the array and the part merge was first called on

vars == <<lis, frames, buf, i, ll, rr, start>>

Arrays == [0..Length - 1 -> Numbers]

(* A call of merge; calls counts the calls it has made. *)
Frame(l, r, calls) == [l |-> l, r |-> r, calls |-> calls]

(* Any part of any array, an empty one too. *)
Init ==
  \E a \in Arrays : \E l \in 0..Length - 1 : \E r \in l - 1..Length - 1 :
    /\ lis = a
    /\ frames = <<Frame(l, r, 0)>>
    /\ buf = <<>> /\ i = 0 /\ ll = 0 /\ rr = 0
    /\ start = [lis |-> a, l |-> l, r |-> r]

top == frames[1]
Middle(f) == f.l + (f.r - f.l) \div 2

(* The innermost call makes its next one. *)
Called(f) == <<f>> \o <<[top EXCEPT !.calls = @ + 1]>> \o Tail(frames)

InMerge == frames # <<>> /\ buf = <<>>

SortLeft ==
  /\ InMerge /\ top.l < top.r /\ top.calls = 0
  /\ frames' = Called(Frame(top.l, Middle(top), 0))
  /\ UNCHANGED <<lis, buf, i, ll, rr, start>>

(* Mutant: the right half starts one too late. *)
SortRightShort ==
  /\ InMerge /\ top.l < top.r /\ top.calls = 1
  /\ frames' = Called(Frame(Middle(top) + 2, top.r, 0))
  /\ UNCHANGED <<lis, buf, i, ll, rr, start>>

SortRight ==
  /\ InMerge /\ top.l < top.r /\ top.calls = 1
  /\ frames' = Called(Frame(Middle(top) + 1, top.r, 0))
  /\ UNCHANGED <<lis, buf, i, ll, rr, start>>

Return ==
  /\ InMerge /\ top.l >= top.r
  /\ frames' = Tail(frames)
  /\ UNCHANGED <<lis, buf, i, ll, rr, start>>
-----------------------------------------------------------------------------
(* merge_sorted(lis, l, Middle, r); mm is the last of the left half in buf. *)

len == top.r - top.l + 1
mm == Middle(top) - top.l

(* buf is declared and filled. *)
Copy ==
  /\ InMerge /\ top.l < top.r /\ top.calls = 2
  /\ buf' = [j \in 0..len - 1 |-> lis[top.l + j]]
  /\ i' = top.l /\ ll' = 0 /\ rr' = mm + 1
  /\ UNCHANGED <<lis, frames, start>>

TakeLeft ==
  /\ lis' = [lis EXCEPT ![i] = buf[ll]]
  /\ i' = i + 1 /\ ll' = ll + 1
  /\ UNCHANGED <<frames, buf, rr, start>>

TakeRight ==
  /\ lis' = [lis EXCEPT ![i] = buf[rr]]
  /\ i' = i + 1 /\ rr' = rr + 1
  /\ UNCHANGED <<frames, buf, ll, start>>

Merge ==
  /\ buf # <<>> /\ ll <= mm /\ rr < len
  /\ IF buf[ll] < buf[rr] THEN TakeLeft ELSE TakeRight

RestOfLeft == buf # <<>> /\ ll <= mm /\ rr >= len /\ TakeLeft

RestOfRight == buf # <<>> /\ ll > mm /\ rr < len /\ TakeRight

(* merge_sorted returns, and so does the merge that called it. *)
Merged ==
  /\ buf # <<>> /\ ll > mm /\ rr >= len
  /\ buf' = <<>> /\ i' = 0 /\ ll' = 0 /\ rr' = 0
  /\ frames' = Tail(frames)
  /\ UNCHANGED <<lis, start>>
-----------------------------------------------------------------------------
Next ==
  \/ SortLeft \/ SortRight \/ Return
  \/ Copy \/ Merge \/ RestOfLeft \/ RestOfRight \/ Merged

Spec == Init /\ [][Next]_vars
-----------------------------------------------------------------------------
Sorted(l, r) == \A j, k \in l..r : j < k => lis[j] <= lis[k]

(* As many of each value among those places as at the start. *)
Permuted(places) ==
  \A v \in Numbers : Cardinality({j \in places : lis[j] = v})
                       = Cardinality({j \in places : start.lis[j] = v})

(* "sort the whole array in place" (merge.c:32-33): when a call of merge   *)
(* comes to merge_sorted both its halves are sorted; when the first call   *)
(* returns its part is sorted; and whenever no merge is under way, the     *)
(* part holds the values it began with.  Nothing outside is ever written.  *)
SortsInPlace ==
  /\ \A j \in 0..Length - 1 : j \notin start.l..start.r => lis[j] = start.lis[j]
  /\ buf = <<>> => Permuted(start.l..start.r)
  /\ InMerge /\ top.calls = 2 => Sorted(top.l, Middle(top)) /\ Sorted(Middle(top) + 1, top.r)
  /\ frames = <<>> => Sorted(start.l, start.r)
=============================================================================
