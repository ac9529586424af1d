------------------------------- MODULE ParSort -------------------------------
(***************************************************************************)
(* csf_assign04/parsort.c: a merge sort whose left halves are sorted by    *)
(* forked children, all on one file mapped with MAP_SHARED.                *)
(*                                                                         *)
(* A process is its stack of merge_sort calls: the right half is sorted by *)
(* a call in the same process, the left half by a child whose first call   *)
(* it is.  A step is one fork, wait, qsort or merge, and one assignment of *)
(* the loop that copies the merged elements back: a process may be killed  *)
(* between any two of them.                                                *)
(***************************************************************************)
EXTENDS Integers, Sequences, FiniteSets

CONSTANTS
  N,                       \* elements in the file
  Values,                  \* what an element may be
  Thresholds,              \* what the second command line argument may be
  Pids,                    \* the processes the system has for the program
  Root,                    \* the one that runs main
  MaxFaults                \* bound: failing calls and killed processes

ASSUME SizeAssumption ==
  /\ N \in Nat /\ Thresholds \subseteq Nat /\ MaxFaults \in Nat
  /\ Values \subseteq Int
  /\ Root \in Pids

VARIABLES
  arr,                     \* the shared mapping, the file
  status,                  \* of each process, see Status
  code,                    \* its exit code, KilledCode if a signal ended it
  pc, stack,               \* where it is, and its calls of merge_sort
  temparr,                 \* its merged elements ...
  i,                       \* ... and the next one to copy
  faults,                  \* bounded by MaxFaults
  input,                   \* history: the file before
  threshold                \* the second command line argument

vars == <<arr, status, code, pc, stack, temparr, i, faults, input, threshold>>
process == <<status, code>>
given == <<input, threshold>>

Index == 0 .. N-1
Status == {"unused", "live", "zombie", "reaped"}
PC == {"main", "call", "wait", "merge", "copy", "return"}
KilledCode == -1

\* A call merge_sort(arr, begin, end, threshold), and the child it forked.
Call(b, e) == [begin |-> b, end |-> e, child |-> Root]

Init ==
  /\ arr \in [Index -> Values]
  /\ input = arr
  /\ threshold \in Thresholds
  /\ status = [p \in Pids |-> IF p = Root THEN "live" ELSE "unused"]
  /\ code = [p \in Pids |-> 0]
  /\ pc = [p \in Pids |-> "main"]
  /\ stack = [p \in Pids |-> <<>>]
  /\ temparr = [p \in Pids |-> <<>>]
  /\ i = [p \in Pids |-> 0]
  /\ faults = 0

Goto(p, l) == pc' = [pc EXCEPT ![p] = l]

\* exit(c): the process's children, if any, go on.
Exit(p, c) ==
  /\ status' = [status EXCEPT ![p] = "zombie"]
  /\ code' = [code EXCEPT ![p] = c]

Fault == faults < MaxFaults /\ faults' = faults + 1

Top(p) == stack[p][Len(stack[p])]
Span(p) == Top(p).begin .. Top(p).end - 1
Mid(c) == (c.end + c.begin) \div 2

At(p, l) == status[p] = "live" /\ pc[p] = l

------------------------------------------------------------------------------
(* main *)

MainSorts(p) ==
  /\ At(p, "main")
  /\ stack' = [stack EXCEPT ![p] = <<Call(0, N)>>]
  /\ Goto(p, "call")
  /\ UNCHANGED <<arr, process, temparr, i, faults, given>>

\* open, fstat, mmap or close fails
MainFails(p) ==
  /\ At(p, "main")
  /\ Fault
  /\ \E c \in 3..6 : Exit(p, c)
  /\ UNCHANGED <<arr, pc, stack, temparr, i, given>>

\* Either way: a child's exit(0), main's munmap and return 0.
Return(p) ==
  /\ At(p, "return")
  /\ IF Len(stack[p]) > 1
     THEN /\ stack' = [stack EXCEPT ![p] = SubSeq(@, 1, Len(@) - 1)]
          /\ Goto(p, "wait")
          /\ UNCHANGED process
     ELSE Exit(p, 0) /\ UNCHANGED <<stack, pc>>
  /\ UNCHANGED <<arr, temparr, i, faults, given>>

UnmapFails(p) ==
  /\ At(p, "return")
  /\ p = Root /\ Len(stack[p]) = 1
  /\ Fault
  /\ Exit(p, 7)
  /\ UNCHANGED <<arr, pc, stack, temparr, i, given>>

------------------------------------------------------------------------------
(* merge_sort *)

IsSmall(c) == c.end - c.begin <= threshold

Count(f, S, v) == Cardinality({k \in S : f[k] = v})
Sorted(f, S) == \A j, k \in S : j < k => f[j] <= f[k]
SameElements(f, g, S) == \A v \in Values : Count(f, S, v) = Count(g, S, v)

\* qsort makes g of f: the elements of the range, in order.
QSorted(f, g, S) ==
  /\ \A k \in Index \ S : g[k] = f[k]
  /\ Sorted(g, S) /\ SameElements(f, g, S)

QSort(p) ==
  /\ At(p, "call")
  /\ IsSmall(Top(p))
  /\ \E g \in [Index -> Values] : QSorted(arr, g, Span(p)) /\ arr' = g
  /\ Goto(p, "return")
  /\ UNCHANGED <<process, stack, temparr, i, faults, given>>

\* Mutant: the child's pid is kept in one variable for all calls of a process.
ForkSharesPid(p) ==
  /\ At(p, "call")
  /\ ~IsSmall(Top(p))
  /\ \E q \in {x \in Pids : status[x] = "unused"} :
       /\ \A x \in Pids : status[x] = "unused" => q <= x
       /\ status' = [status EXCEPT ![q] = "live"]
       /\ stack' = [stack EXCEPT
            ![q] = <<Call(Top(p).begin, Mid(Top(p)))>>,
            ![p] = Append([j \in 1 .. Len(@) |-> [@[j] EXCEPT !.child = q]],
                          Call(Mid(Top(p)), Top(p).end))]
       /\ pc' = [pc EXCEPT ![q] = "call"]
  /\ UNCHANGED <<arr, code, temparr, i, faults, given>>

\* The child starts on the left half while the parent calls itself for the
\* right one.
Fork(p) ==
  /\ At(p, "call")
  /\ ~IsSmall(Top(p))
  /\ \E q \in {x \in Pids : status[x] = "unused"} :
       /\ \A x \in Pids : status[x] = "unused" => q <= x
       /\ status' = [status EXCEPT ![q] = "live"]
       /\ stack' = [stack EXCEPT
            ![q] = <<Call(Top(p).begin, Mid(Top(p)))>>,
            ![p] = SubSeq(@, 1, Len(@) - 1)
                     \o <<[Top(p) EXCEPT !.child = q], Call(Mid(Top(p)), Top(p).end)>>]
       /\ pc' = [pc EXCEPT ![q] = "call"]
  /\ UNCHANGED <<arr, code, temparr, i, faults, given>>

\* Always when there is no process left, at any time for want of memory.
ForkFails(p) ==
  /\ At(p, "call")
  /\ ~IsSmall(Top(p))
  /\ \/ (\A q \in Pids : status[q] # "unused") /\ UNCHANGED faults
     \/ Fault
  /\ Exit(p, 8)
  /\ UNCHANGED <<arr, pc, stack, temparr, i, given>>

\* Mutant: the two status tests are dropped.
WaitUnchecked(p) ==
  LET q == Top(p).child
  IN  /\ At(p, "wait")
      /\ status[q] = "zombie"
      /\ Goto(p, "merge")
      /\ status' = [status EXCEPT ![q] = "reaped"]
      /\ UNCHANGED <<arr, code, stack, temparr, i, faults, given>>

\* Mutant: waitpid with WNOHANG.
WaitNoHang(p) ==
  LET q == Top(p).child
  IN  /\ At(p, "wait")
      /\ IF code[q] = 0
         THEN Goto(p, "merge") /\ UNCHANGED process
         ELSE Exit(p, 11) /\ UNCHANGED pc
      /\ UNCHANGED <<arr, stack, temparr, i, faults, given>>

\* Mutant: a child ended by a signal is waited for once more.
WaitForExit(p) ==
  LET q == Top(p).child
  IN  /\ At(p, "wait")
      /\ status[q] = "zombie" /\ code[q] # KilledCode
      /\ IF code[q] = 0
         THEN /\ Goto(p, "merge")
              /\ status' = [status EXCEPT ![q] = "reaped"]
              /\ UNCHANGED code
         ELSE Exit(p, 11) /\ UNCHANGED pc
      /\ UNCHANGED <<arr, stack, temparr, i, faults, given>>

Wait(p) ==
  LET q == Top(p).child
  IN  /\ At(p, "wait")
      /\ status[q] = "zombie"
      /\ IF code[q] = 0
         THEN /\ Goto(p, "merge")
              /\ status' = [status EXCEPT ![q] = "reaped"]
              /\ UNCHANGED code
         ELSE /\ status' = [status EXCEPT ![q] = "reaped", ![p] = "zombie"]
              /\ code' = [code EXCEPT ![p] = IF code[q] = KilledCode THEN 10 ELSE 11]
              /\ UNCHANGED pc
      /\ UNCHANGED <<arr, stack, temparr, i, faults, given>>

WaitFails(p) ==
  /\ At(p, "wait")
  /\ Fault
  /\ Exit(p, 9)
  /\ UNCHANGED <<arr, pc, stack, temparr, i, given>>

FromLeft(a, s) == [s EXCEPT !.left = @ + 1, !.dst = Append(@, a[s.left])]
FromRight(a, s) == [s EXCEPT !.right = @ + 1, !.dst = Append(@, a[s.right])]

\* Mutant: right is not advanced once the left half is used up.
TurnShort(a, m, e, s) ==
  IF s.left = m THEN [s EXCEPT !.dst = Append(@, a[s.right])]
  ELSE IF s.right = e \/ a[s.left] <= a[s.right] THEN FromLeft(a, s)
  ELSE FromRight(a, s)

\* One turn of merge()'s loop: equal elements from the left first.
Turn(a, m, e, s) ==
  IF s.left < m /\ (s.right = e \/ a[s.left] <= a[s.right])
  THEN FromLeft(a, s)
  ELSE FromRight(a, s)

\* What merge() leaves in temparr; each turn adds one element.
Merged(a, b, m, e) ==
  LET after[n \in 0 .. e - b] ==
        IF n = 0 THEN [left |-> b, right |-> m, dst |-> <<>>]
        ELSE Turn(a, m, e, after[n - 1])
  IN  after[e - b].dst

Merge(p) ==
  /\ At(p, "merge")
  /\ temparr' = [temparr EXCEPT ![p] = Merged(arr, Top(p).begin, Mid(Top(p)), Top(p).end)]
  /\ i' = [i EXCEPT ![p] = Top(p).begin]
  /\ Goto(p, "copy")
  /\ UNCHANGED <<arr, process, stack, faults, given>>

CopyBack(p) ==
  /\ At(p, "copy")
  /\ i[p] < Top(p).end
  /\ arr' = [arr EXCEPT ![i[p]] = temparr[p][i[p] - Top(p).begin + 1]]
  /\ i' = [i EXCEPT ![p] = @ + 1]
  /\ UNCHANGED <<process, pc, stack, temparr, faults, given>>

Copied(p) ==
  /\ At(p, "copy")
  /\ i[p] = Top(p).end
  /\ temparr' = [temparr EXCEPT ![p] = <<>>]
  /\ i' = [i EXCEPT ![p] = 0]
  /\ Goto(p, "return")
  /\ UNCHANGED <<arr, process, stack, faults, given>>

------------------------------------------------------------------------------
\* A signal; also what follows a malloc that returns NULL.  In the middle of
\* qsort it leaves the range in any state qsort may pass through.
Kill(p) ==
  /\ status[p] = "live"
  /\ Fault
  /\ Exit(p, KilledCode)
  /\ IF pc[p] = "call" /\ IsSmall(Top(p))
     THEN \E g \in [Span(p) -> {arr[k] : k \in Span(p)}] :
            arr' = [k \in Index |-> IF k \in Span(p) THEN g[k] ELSE arr[k]]
     ELSE UNCHANGED arr
  /\ UNCHANGED <<pc, stack, temparr, i, given>>

Step(p) ==
  \/ MainSorts(p) \/ Return(p)
  \/ QSort(p) \/ Fork(p) \/ Wait(p) \/ Merge(p) \/ CopyBack(p) \/ Copied(p)
  \/ ForkFails(p)

Failure(p) == MainFails(p) \/ UnmapFails(p) \/ WaitFails(p) \/ Kill(p)

Next == \E p \in Pids : Step(p) \/ Failure(p)

\* Every live process is scheduled; nothing has to fail.
Spec == Init /\ [][Next]_vars /\ \A p \in Pids : WF_vars(Step(p))

------------------------------------------------------------------------------
(* Properties *)

Working(p) == IF status[p] = "live" /\ pc[p] \in {"call", "merge", "copy"}
              THEN Span(p) ELSE {}

\* No two processes ever work on the same element, although nothing but the
\* order of fork and wait keeps them apart; not even the children of a process
\* that failed or was killed, which run on.
WorkersDisjoint ==
  \A p, q \in Pids : p # q => Working(p) \cap Working(q) = {}

\* A process that exits with 0 leaves its range sorted, with the elements it
\* had at the start, until its parent merges it.  For the first process the
\* range is the file (parsort.c:166).
ExitZeroMeansSorted ==
  \A p \in Pids :
    status[p] = "zombie" /\ code[p] = 0 =>
      Sorted(arr, Span(p)) /\ SameElements(arr, input, Span(p))

\* The exit code of the program is honest.  What goes wrong anywhere in the tree
\* reaches it (parsort.c:80-92), and a program that succeeds leaves no process
\* behind; one that fails was given a reason, a fault or no process left to
\* fork.  With a threshold of 0, which main accepts, there always is one: a
\* range of one element is never small enough (parsort.c:53).
ExitIsHonest ==
  status[Root] = "zombie" =>
    /\ code[Root] = 0 =>
         /\ \A p \in Pids \ {Root} :
              status[p] = "unused" \/ (status[p] = "reaped" /\ code[p] = 0)
         /\ threshold > 0 \/ N = 0
    /\ code[Root] # 0 => faults > 0 \/ \A p \in Pids : status[p] # "unused"

\* What stops a process is waitpid only (parsort.c:73), and there it waits for a
\* child of the call it is in.
GoesOn(p) ==
  status[p] = "live" /\ (pc[p] = "wait" => status[Top(p).child] = "zombie")

\* As long as a process of the program runs, one of them can go on: whoever
\* waits does so for a child that is still there to be waited for, and no chain
\* of waits ends where it began.  This holds of the processes that a failed
\* parent has left behind as well.
SomebodyGoesOn ==
  (\E p \in Pids : status[p] = "live") => \E p \in Pids : GoesOn(p)

\* The program ends, whatever fails: nobody waits for a process that waits for
\* it, and the recursion stops.
RootEnds == <>(status[Root] = "zombie")

==============================================================================
