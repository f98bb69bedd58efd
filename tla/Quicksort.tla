------------------------------ MODULE Quicksort ------------------------------
(***************************************************************************)
(* alg::quicksort (util/algorithm.cpp): sorts an array of string pointers  *)
(* in place, shorter strings first, by recursion on the two parts beside   *)
(* the pivot.  The call stack is a sequence, its last frame the call that  *)
(* runs.                                                                   *)
(***************************************************************************)
EXTENDS Integers, Sequences

CONSTANTS
  MaxLength,          \* a bound on the length of the array
  Rank                \* the strings, as their places in the order of
                      \* length and then strcmp

MaxLengthAssumption == MaxLength \in Nat
RankAssumption == Rank \subseteq Int

VARIABLES
  rank,               \* of the string a pointer points to
  array,              \* pointers, by index
  stack               \* frames: array and length, i, pivot, where it is

vars == <<rank, array, stack>>

Index == DOMAIN array
Frame(base, length) ==
  [base |-> base, length |-> length, i |-> 0, pivot |-> 0, pc |-> "Start"]

Init ==
  \E n \in 0 .. MaxLength :
    /\ rank \in [0 .. (n - 1) -> Rank]
    /\ array = [k \in 0 .. (n - 1) |-> k]
    /\ stack = <<Frame(0, n)>>

Top == stack[Len(stack)]
Become(frame) == stack' = [stack EXCEPT ![Len(stack)] = frame]
Call(frame, callee) == stack' = Append([stack EXCEPT ![Len(stack)] = frame], callee)
Pop == stack' = SubSeq(stack, 1, Len(stack) - 1)
At(pc) == stack # <<>> /\ Top.pc = pc

Swapped(a, b) == [array EXCEPT ![a] = array[b], ![b] = array[a]]

(* Shorter, or as long and before it by strcmp. *)
Less(p, q) == rank[p] < rank[q]

-----------------------------------------------------------------------------
Small ==
  /\ At("Start") /\ Top.length <= 1
  /\ Pop
  /\ UNCHANGED <<rank, array>>

Begin ==
  /\ At("Start") /\ Top.length > 1
  /\ Become([Top EXCEPT !.pc = "Partition"])
  /\ UNCHANGED <<rank, array>>

(* One round of the loop: what is less than the last entry moves down. *)
Partition ==
  /\ At("Partition") /\ Top.i < Top.length
  /\ LET f == Top
         less == Less(array[f.base + f.i], array[f.base + f.length - 1])
     IN /\ array' = IF less THEN Swapped(f.base + f.i, f.base + f.pivot) ELSE array
        /\ Become([f EXCEPT !.i = @ + 1, !.pivot = IF less THEN @ + 1 ELSE @])
  /\ UNCHANGED rank

LowerInPlaceOfPivot ==
  /\ At("Partition") /\ Top.i = Top.length
  /\ Call([Top EXCEPT !.pc = "Upper"], Frame(Top.base, Top.pivot))
  /\ UNCHANGED <<rank, array>>

(* The pivot goes between the parts, and the lower one is sorted. *)
Lower ==
  /\ At("Partition") /\ Top.i = Top.length
  /\ array' = Swapped(Top.base + Top.pivot, Top.base + Top.length - 1)
  /\ Call([Top EXCEPT !.pc = "Upper"], Frame(Top.base, Top.pivot))
  /\ UNCHANGED rank

Upper ==
  /\ At("Upper")
  /\ Call([Top EXCEPT !.pc = "Done"],
          Frame(Top.base + Top.pivot + 1, Top.length - Top.pivot - 1))
  /\ UNCHANGED <<rank, array>>

Return ==
  /\ At("Done")
  /\ Pop
  /\ UNCHANGED <<rank, array>>

Next == Small \/ Begin \/ Partition \/ Lower \/ Upper \/ Return

Spec == Init /\ [][Next]_vars

(* Nothing keeps a call from going on. *)
FairSpec == Spec /\ WF_vars(Next)

-----------------------------------------------------------------------------
(* No call indexes the array outside the part it was given: the pivot, an  *)
(* index and counted up in the loop, stays below the length.               *)
TypeOK ==
  /\ array \in [Index -> Index]
  /\ \A k \in 1 .. Len(stack) :
       LET f == stack[k] IN
         /\ f.base >= 0 /\ f.length >= 0
         /\ f.length > 0 => (f.base + f.length - 1) \in Index
         /\ f.i \in 0 .. f.length
         /\ f.pc # "Start" => f.pivot \in 0 .. (f.length - 1) /\ f.pivot <= f.i
         /\ f.pc \in {"Start", "Partition", "Upper", "Done"}

(* When the outermost call returns, the entries are in order, and every    *)
(* pointer of the array is still there once: with a swap through a wrong   *)
(* index one string would appear twice and another be lost.                *)
SortedAtEnd ==
  stack = <<>> =>
    /\ \A a, b \in Index : a < b => rank[array[a]] <= rank[array[b]]
    /\ \A p \in Index : \E a \in Index : array[a] = p

(* A call gets a part that lies in its caller's and leaves at least the    *)
(* pivot out, so that the stack is never deeper than the array is long,    *)
(* which an array that is in order already reaches.                        *)
CallsShrink ==
  \A k \in 1 .. (Len(stack) - 1) :
    LET f == stack[k]
        g == stack[k + 1]
    IN /\ g.base >= f.base /\ g.base + g.length <= f.base + f.length
       /\ (f.base + f.pivot) \notin g.base .. (g.base + g.length - 1)

(* The entries below the pivot of a call, those above it and the pivot     *)
(* itself stay apart while the recursion sorts them: what an inner call    *)
(* moves never crosses the pivot of an outer one.                          *)
PartsStayApart ==
  \A k \in 1 .. Len(stack) :
    LET f == stack[k]
        at == f.base + f.pivot
    IN f.pc \in {"Upper", "Done"} =>
         /\ \A a \in f.base .. (at - 1) : Less(array[a], array[at])
         /\ \A a \in (at + 1) .. (f.base + f.length - 1) : ~Less(array[a], array[at])

(* Every call returns. *)
Ends == <>(stack = <<>>)
=============================================================================
