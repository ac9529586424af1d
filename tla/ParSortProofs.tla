---------------------------- MODULE ParSortProofs ----------------------------
(***************************************************************************)
(* Who may write where in the shared file, and what the exit codes say,    *)
(* for a file of any size, any threshold and any number of processes.      *)
(* The inductive invariant is about the region that each process holds:    *)
(* a fork splits its parent's, and only the wait for a child that exited   *)
(* with 0 joins the two again.  What a failed process held is lost.        *)
(***************************************************************************)
EXTENDS ParSort, FiniteSetTheorems, WellFoundedInduction, TLAPS

Frame == [begin : Nat, end : Nat, child : Pids]

\* The variables that decide who runs where.
Types ==
  /\ status \in [Pids -> Status]
  /\ code \in [Pids -> Int]
  /\ pc \in [Pids -> PC]
  /\ stack \in [Pids -> Seq(Frame)]
  /\ faults \in Nat /\ threshold \in Nat

\* main calls merge_sort on the whole file; a forked child starts in a call.
Started ==
  /\ status[Root] # "unused"
  /\ stack[Root] # <<>> => stack[Root][1].begin = 0 /\ stack[Root][1].end = N
  /\ \A p \in Pids :
       /\ pc[p] = "main" <=> stack[p] = <<>>
       /\ pc[p] = "main" => p = Root \/ status[p] = "unused"

\* The call that a process has forked a child for and not waited for yet.
Forked(p, j) == j < Len(stack[p]) \/ (j = Len(stack[p]) /\ pc[p] = "wait")

\* A call is on a range; below it is the call for that range's right half.
Nested ==
  \A p \in Pids : \A j \in 1 .. Len(stack[p]) :
    /\ stack[p][j].begin <= stack[p][j].end
    /\ Forked(p, j) => ~IsSmall(stack[p][j])
    /\ j < Len(stack[p]) => /\ stack[p][j + 1].begin = Mid(stack[p][j])
                            /\ stack[p][j + 1].end = stack[p][j].end

\* The child of a call was started on its left half.
LeftToChild ==
  \A p \in Pids : \A j \in 1 .. Len(stack[p]) :
    Forked(p, j) =>
      LET q == stack[p][j].child
      IN  /\ status[q] # "unused" /\ stack[q] # <<>>
          /\ stack[q][1].begin = stack[p][j].begin
          /\ stack[q][1].end = Mid(stack[p][j])

\* A process exits with 0 when its first call has returned.
DoneAtZero ==
  \A p \in Pids :
    status[p] \in {"zombie", "reaped"} /\ code[p] = 0 =>
      pc[p] = "return" /\ Len(stack[p]) = 1

\* Where a process may work, now or when its next call returns.  The whole file
\* is main's, from the start.
Region(p) ==
  IF stack[p] = <<>> THEN 0 .. N-1
  ELSE IF pc[p] = "wait" THEN Mid(Top(p)) .. Top(p).end - 1 ELSE Span(p)

\* A child gives its region back when it is waited for and has succeeded.
Holds(p) == status[p] # "unused" /\ ~(status[p] = "reaped" /\ code[p] = 0)

RegionsDisjoint ==
  \A p, q \in Pids : p # q /\ Holds(p) /\ Holds(q) => Region(p) \cap Region(q) = {}

\* Every call is on a part of the file.  A threshold of at least one leaves both
\* halves something to sort, and there is no child to fork for an empty file.
Within ==
  /\ \A p \in Pids : \A j \in 1 .. Len(stack[p]) : stack[p][j].end <= N
  /\ \A p \in Pids \ {Root} :
       stack[p] # <<>> /\ threshold > 0 => stack[p][1].begin < stack[p][1].end
  /\ N = 0 => \A p \in Pids \ {Root} : status[p] = "unused"

\* With a threshold of 0 only a call on an empty range returns.
NeverSmall ==
  threshold = 0 =>
    \A p \in Pids :
      /\ pc[p] \notin {"wait", "merge", "copy"}
      /\ pc[p] = "return" => Top(p).begin = Top(p).end

\* Whatever fails does so for a reason.
Reasons == \A p \in Pids : code[p] # 0 => faults > 0 \/ \A q \in Pids : status[q] # "unused"

IInv ==
  /\ Types /\ Started /\ Nested /\ LeftToChild /\ DoneAtZero
  /\ RegionsDisjoint /\ Within /\ NeverSmall /\ Reasons

------------------------------------------------------------------------------
(* Ranges and stacks *)

\* The middle of a range is in it, and the right half is never the shorter one.
LEMMA MidBetween ==
  ASSUME NEW c \in Frame, c.begin <= c.end
  PROVE  /\ Mid(c) \in Nat /\ c.begin <= Mid(c) /\ Mid(c) <= c.end
         /\ c.begin < c.end => Mid(c) < c.end
         /\ c.begin + 1 < c.end => c.begin < Mid(c)
<1>1. c.begin \in Nat /\ c.end \in Nat
  BY DEF Frame
<1> QED
  BY <1>1 DEF Mid

LEMMA CallIsFrame ==
  ASSUME NEW b \in Nat, NEW e \in Nat
  PROVE  /\ Call(b, e) \in Frame
         /\ Call(b, e).begin = b /\ Call(b, e).end = e
BY SizeAssumption DEF Call, Frame

LEMMA AllAdded ==
  ASSUME NEW S, NEW u \in Seq(S), NEW w \in Seq(S)
  PROVE  /\ u \o w \in Seq(S) /\ Len(u \o w) = Len(u) + Len(w)
         /\ \A k \in 1 .. Len(u) : (u \o w)[k] = u[k]
OBVIOUS

LEMMA AddedBehind ==
  ASSUME NEW S, NEW u \in Seq(S), NEW w \in Seq(S), NEW k \in 1 .. Len(w)
  PROVE  (u \o w)[Len(u) + k] = w[k]
OBVIOUS

\* A stack t like s with its top call replaced by x and then y.
IsPushed(s, t, x, y) ==
  /\ t \in Seq(Frame) /\ Len(t) = Len(s) + 1 /\ t # <<>>
  /\ \A j \in 1 .. Len(s) - 1 : t[j] = s[j]
  /\ t[Len(s)] = x /\ t[Len(s) + 1] = y

LEMMA Pushed ==
  ASSUME NEW s \in Seq(Frame), s # <<>>, NEW x \in Frame, NEW y \in Frame,
         NEW t, t = SubSeq(s, 1, Len(s) - 1) \o <<x, y>>
  PROVE  IsPushed(s, t, x, y)
<1>1. Len(s) \in Nat /\ Len(s) >= 1
  OBVIOUS
<1> DEFINE u == SubSeq(s, 1, Len(s) - 1)
           w == <<x, y>>
<1>2. w \in Seq(Frame) /\ Len(w) = 2 /\ w[1] = x /\ w[2] = y
  OBVIOUS
<1>3. u \in Seq(Frame) /\ Len(u) = Len(s) - 1 /\ \A j \in 1 .. Len(s) - 1 : u[j] = s[j]
  BY <1>1
<1>4. t = u \o w
  OBVIOUS
<1> HIDE DEF u, w
<1>5. t \in Seq(Frame) /\ Len(t) = Len(s) + 1
  BY <1>1, <1>2, <1>3, <1>4, AllAdded
<1>6. \A j \in 1 .. Len(s) - 1 : t[j] = s[j]
  BY <1>1, <1>2, <1>3, <1>4, AllAdded
<1>7. t[Len(s)] = x /\ t[Len(s) + 1] = y
  <2>1. \A k \in 1 .. Len(w) : (u \o w)[Len(u) + k] = w[k]
    <3>1. u \in Seq(Frame)
      BY <1>3
    <3>2. w \in Seq(Frame)
      BY <1>2
    <3> QED
      BY <3>1, <3>2, AddedBehind, Zenon
  <2>2. 1 \in 1 .. Len(w) /\ 2 \in 1 .. Len(w)
    BY <1>2
  <2>3. t[Len(u) + 1] = w[1]
    BY <2>1, <2>2, <1>4, Zenon
  <2>4. t[Len(u) + 2] = w[2]
    BY <2>1, <2>2, <1>4, Zenon
  <2>5. Len(u) + 1 = Len(s) /\ Len(u) + 2 = Len(s) + 1
    BY <1>1, <1>3
  <2> QED
    BY <1>2, <2>3, <2>4, <2>5, Zenon
<1>8. t # <<>>
  <2>1. Len(t) # 0
    BY <1>1, <1>5
  <2> QED
    BY <2>1
<1> QED
  BY <1>5, <1>6, <1>7, <1>8 DEF IsPushed

\* A stack whose top call has returned.
LEMMA Popped ==
  ASSUME NEW s \in Seq(Frame), Len(s) > 1, NEW t, t = SubSeq(s, 1, Len(s) - 1)
  PROVE  /\ t \in Seq(Frame) /\ Len(t) = Len(s) - 1 /\ t # <<>>
         /\ \A j \in 1 .. Len(s) - 1 : t[j] = s[j]
<1>1. Len(s) \in Nat
  OBVIOUS
<1>2. /\ t \in Seq(Frame) /\ Len(t) = Len(s) - 1
      /\ \A j \in 1 .. Len(s) - 1 : t[j] = s[j]
  BY <1>1
<1>3. Len(t) # 0
  BY <1>1, <1>2
<1>4. t # <<>>
  BY <1>3
<1> QED
  BY <1>2, <1>4

LEMMA CallsAre ==
  ASSUME Types, NEW p \in Pids, NEW j \in 1 .. Len(stack[p])
  PROVE  /\ stack[p][j] \in Frame /\ stack[p][j].begin \in Nat /\ stack[p][j].end \in Nat
         /\ stack[p][j].child \in Pids
         /\ j \in Nat /\ Len(stack[p]) \in Nat /\ stack[p] # <<>>
<1>1. stack[p] \in Seq(Frame)
  BY DEF Types
<1>2. Len(stack[p]) \in Nat
  BY <1>1
<1>3. stack[p][j] \in Frame /\ j \in Nat
  BY <1>1
<1>4. stack[p] # <<>>
  BY <1>2
<1> QED
  BY <1>2, <1>3, <1>4 DEF Frame

\* A process with a call has a top one.
LEMMA TopIsFrame ==
  ASSUME Types, NEW p \in Pids, stack[p] # <<>>
  PROVE  /\ stack[p] \in Seq(Frame) /\ Len(stack[p]) \in Nat /\ Len(stack[p]) >= 1
         /\ Top(p) = stack[p][Len(stack[p])] /\ Top(p) \in Frame
         /\ stack[p][1] \in Frame
<1>1. stack[p] \in Seq(Frame)
  BY DEF Types
<1>2. Len(stack[p]) \in Nat /\ Len(stack[p]) >= 1
  BY <1>1
<1> QED
  BY <1>1, <1>2 DEF Top

\* The region of a process depends on its own stack and place only.
LEMMA RegionKept ==
  ASSUME NEW p \in Pids, stack'[p] = stack[p],
         pc'[p] = pc[p] \/ (pc[p] # "wait" /\ pc'[p] # "wait")
  PROVE  Region(p)' = Region(p)
BY DEF Region, Span, Top

------------------------------------------------------------------------------
(* The invariant, one lemma per kind of step *)

LEMMA Start == Init => IInv
<1> SUFFICES ASSUME Init PROVE IInv
  OBVIOUS
<1> USE DEF Init
<1>1. Types
  <2>1. <<>> \in Seq(Frame)
    OBVIOUS
  <2>2. threshold \in Nat
    BY SizeAssumption
  <2> QED
    BY <2>1, <2>2 DEF Types, Status, PC
<1>2. \A p \in Pids : stack[p] = <<>> /\ Len(stack[p]) = 0
  OBVIOUS
<1>3. Started
  BY <1>2, SizeAssumption DEF Started
<1>4. Nested /\ LeftToChild /\ DoneAtZero
  BY <1>2 DEF Nested, LeftToChild, DoneAtZero
<1>5. RegionsDisjoint
  BY DEF RegionsDisjoint, Holds
<1>6. Within
  BY <1>2 DEF Within
<1>7. NeverSmall /\ Reasons
  BY DEF NeverSmall, Reasons
<1> QED
  BY <1>1, <1>3, <1>4, <1>5, <1>6, <1>7 DEF IInv

\* A process that ends because something failed keeps its region for ever.
LEMMA FailingEnds ==
  ASSUME IInv, NEW p \in Pids, status[p] = "live",
         NEW c \in Int \ {0}, Exit(p, c),
         UNCHANGED <<pc, stack, threshold>>,
         faults' \in Nat, faults' >= faults,
         faults' > 0 \/ \A q \in Pids : status[q] # "unused"
  PROVE  IInv'
<1> USE DEF IInv, Exit
<1>1. /\ status' = [status EXCEPT ![p] = "zombie"] /\ code' = [code EXCEPT ![p] = c]
      /\ status \in [Pids -> Status] /\ code \in [Pids -> Int]
      /\ faults \in Nat
  BY DEF Types
<1>2. \A q \in Pids : /\ status'[q] = "unused" <=> status[q] = "unused"
                      /\ q # p => status'[q] = status[q] /\ code'[q] = code[q]
  BY <1>1
<1>3. status'[p] = "zombie" /\ code'[p] = c
  BY <1>1
<1>4. Types'
  BY <1>1 DEF Types, Status
<1>5. Started'
  BY <1>2, SizeAssumption DEF Started
<1>6. Nested'
  BY DEF Nested, Forked, IsSmall, Mid
<1>7. LeftToChild'
  <2> SUFFICES ASSUME NEW q \in Pids, NEW j \in 1 .. Len(stack[q]), Forked(q, j)
               PROVE  LET x == stack[q][j].child
                      IN  /\ status'[x] # "unused" /\ stack[x] # <<>>
                          /\ stack[x][1].begin = stack[q][j].begin
                          /\ stack[x][1].end = Mid(stack[q][j])
    BY DEF LeftToChild, Forked, Mid
  <2>1. stack[q][j].child \in Pids
    BY CallsAre
  <2> QED
    BY <1>2, <2>1 DEF LeftToChild
<1>8. DoneAtZero'
  BY <1>2, <1>3 DEF DoneAtZero
<1>9. RegionsDisjoint'
  <2>1. \A q \in Pids : Region(q)' = Region(q)
    BY RegionKept
  <2>2. \A q \in Pids : Holds(q)' <=> Holds(q)
    BY <1>2, <1>3 DEF Holds
  <2> QED
    BY <2>1, <2>2 DEF RegionsDisjoint
<1>10. Within'
  BY <1>2 DEF Within
<1>11. NeverSmall'
  BY DEF NeverSmall, Top
<1>12. Reasons'
  BY <1>1, <1>2, <1>3 DEF Reasons
<1> QED
  BY <1>4, <1>5, <1>6, <1>7, <1>8, <1>9, <1>10, <1>11, <1>12

LEMMA NothingMoves ==
  ASSUME IInv, UNCHANGED <<status, code, pc, stack, faults, threshold>>
  PROVE  IInv'
<1> USE DEF IInv
<1>1. Types' /\ Started' /\ DoneAtZero' /\ Within' /\ Reasons'
  BY DEF Types, Started, DoneAtZero, Within, Reasons
<1>2. Nested'
  BY DEF Nested, Forked, IsSmall, Mid
<1>3. LeftToChild'
  BY DEF LeftToChild, Forked, Mid
<1>4. RegionsDisjoint'
  <2>1. \A p \in Pids : Region(p)' = Region(p)
    BY RegionKept
  <2> QED
    BY <2>1 DEF RegionsDisjoint, Holds
<1>5. NeverSmall'
  BY DEF NeverSmall, Top
<1> QED
  BY <1>1, <1>2, <1>3, <1>4, <1>5

\* A step inside one call: the region and the stack stay.
LEMMA StepsInACall ==
  ASSUME IInv, NEW p \in Pids, At(p, pc[p]), pc[p] \in {"call", "merge", "copy"},
         NEW l \in {"copy", "return"}, Goto(p, l),
         UNCHANGED <<status, code, stack, faults, threshold>>,
         threshold = 0 => l = "return" /\ Top(p).begin = Top(p).end
  PROVE  IInv'
<1> USE DEF IInv
<1>1. /\ pc' = [pc EXCEPT ![p] = l] /\ pc \in [Pids -> PC]
      /\ pc'[p] = l /\ \A q \in Pids : q # p => pc'[q] = pc[q]
  BY DEF Types, Goto
<1>2. status[p] = "live"
  BY DEF At
<1>3. Types'
  BY <1>1 DEF Types, PC
<1>4. Started'
  BY <1>1 DEF Started
<1>5. \A q \in Pids, j \in Nat : Forked(q, j)' <=> Forked(q, j)
  BY <1>1 DEF Forked
<1>6. Nested'
  <2> SUFFICES ASSUME NEW q \in Pids, NEW j \in 1 .. Len(stack[q])
               PROVE  /\ stack[q][j].begin <= stack[q][j].end
                      /\ Forked(q, j)' => ~IsSmall(stack[q][j])
                      /\ j < Len(stack[q]) => /\ stack[q][j + 1].begin = Mid(stack[q][j])
                                              /\ stack[q][j + 1].end = stack[q][j].end
    BY DEF Nested, IsSmall, Mid
  <2>1. Forked(q, j)' <=> Forked(q, j)
    BY <1>5, CallsAre
  <2> QED
    BY <2>1 DEF Nested
<1>7. LeftToChild'
  <2> SUFFICES ASSUME NEW q \in Pids, NEW j \in 1 .. Len(stack[q]), Forked(q, j)'
               PROVE  LET x == stack[q][j].child
                      IN  /\ status[x] # "unused" /\ stack[x] # <<>>
                          /\ stack[x][1].begin = stack[q][j].begin
                          /\ stack[x][1].end = Mid(stack[q][j])
    BY DEF LeftToChild, Mid
  <2>1. Forked(q, j)
    BY <1>5, CallsAre
  <2> QED
    BY <2>1 DEF LeftToChild
<1>8. DoneAtZero'
  BY <1>1, <1>2 DEF DoneAtZero
<1>9. RegionsDisjoint'
  <2>1. \A q \in Pids : Region(q)' = Region(q)
    <3> TAKE q \in Pids
    <3>1. pc'[q] = pc[q] \/ (pc[q] # "wait" /\ pc'[q] # "wait")
      BY <1>1
    <3> QED
      BY <3>1, RegionKept
  <2>2. \A q \in Pids : Holds(q)' <=> Holds(q)
    BY DEF Holds
  <2> QED
    BY <2>1, <2>2 DEF RegionsDisjoint
<1>10. Within'
  BY DEF Within
<1>11. NeverSmall'
  BY <1>1 DEF NeverSmall, Top
<1>12. Reasons'
  BY DEF Reasons
<1> QED
  BY <1>3, <1>4, <1>6, <1>7, <1>8, <1>9, <1>10, <1>11, <1>12

\* The first call of main.
LEMMA MainStarts == ASSUME IInv, NEW p \in Pids, MainSorts(p) PROVE IInv'
<1> USE DEF IInv
<1>1. p = Root /\ status[p] = "live" /\ pc[p] = "main" /\ stack[p] = <<>>
  BY DEF MainSorts, At, Started
<1>2. /\ pc' = [pc EXCEPT ![p] = "call"] /\ stack' = [stack EXCEPT ![p] = <<Call(0, N)>>]
      /\ UNCHANGED <<status, code, faults, threshold>>
  BY DEF MainSorts, Goto, process, given
<1>3. Call(0, N) \in Frame /\ Call(0, N).begin = 0 /\ Call(0, N).end = N
  BY CallIsFrame, SizeAssumption
<1>4. /\ pc \in [Pids -> PC] /\ stack \in [Pids -> Seq(Frame)]
      /\ <<Call(0, N)>> \in Seq(Frame)
  BY <1>3 DEF Types
<1>5. /\ pc'[p] = "call" /\ stack'[p] = <<Call(0, N)>>
      /\ \A q \in Pids : q # p => pc'[q] = pc[q] /\ stack'[q] = stack[q]
  BY <1>2, <1>4
<1>6. Len(stack'[p]) = 1 /\ stack'[p][1] = Call(0, N) /\ stack'[p] # <<>>
  BY <1>5
<1>7. Types'
  BY <1>2, <1>4 DEF Types, PC
<1>8. Started'
  BY <1>1, <1>2, <1>3, <1>5, <1>6, SizeAssumption DEF Started
<1>9. ~\E j \in 1 .. Len(stack'[p]) : Forked(p, j)'
  BY <1>5, <1>6 DEF Forked
<1>10. Nested'
  <2> SUFFICES ASSUME NEW q \in Pids, NEW j \in 1 .. Len(stack'[q])
               PROVE  /\ stack'[q][j].begin <= stack'[q][j].end
                      /\ Forked(q, j)' => ~(stack'[q][j].end - stack'[q][j].begin <= threshold)
                      /\ j < Len(stack'[q]) =>
                           /\ stack'[q][j + 1].begin = Mid(stack'[q][j])
                           /\ stack'[q][j + 1].end = stack'[q][j].end
    BY <1>2 DEF Nested, IsSmall, Mid
  <2>1. CASE q = p
    BY <2>1, <1>3, <1>6, <1>9, SizeAssumption
  <2>2. CASE q # p
    BY <2>2, <1>2, <1>5 DEF Nested, Forked, IsSmall, Mid
  <2> QED
    BY <2>1, <2>2
<1>11. LeftToChild'
  <2> SUFFICES ASSUME NEW q \in Pids, NEW j \in 1 .. Len(stack'[q]), Forked(q, j)'
               PROVE  LET x == stack'[q][j].child
                      IN  /\ status[x] # "unused" /\ stack'[x] # <<>>
                          /\ stack'[x][1].begin = stack'[q][j].begin
                          /\ stack'[x][1].end = Mid(stack'[q][j])
    BY <1>2 DEF LeftToChild, Mid
  <2>1. q # p /\ stack'[q] = stack[q] /\ j \in 1 .. Len(stack[q]) /\ Forked(q, j)
    BY <1>5, <1>9 DEF Forked
  <2> DEFINE x == stack[q][j].child
  <2>2. x \in Pids /\ status[x] # "unused" /\ stack[x] # <<>>
        /\ stack[x][1].begin = stack[q][j].begin
        /\ stack[x][1].end = Mid(stack[q][j])
    BY <2>1, CallsAre DEF LeftToChild
  <2>3. x # p
    BY <2>2, <1>1
  <2> QED
    BY <2>1, <2>2, <2>3, <1>5
<1>12. DoneAtZero'
  BY <1>1, <1>2, <1>5 DEF DoneAtZero
<1>13. RegionsDisjoint'
  <2>1. \A q \in Pids : q # p => Region(q)' = Region(q)
    BY <1>5, RegionKept
  <2>2. \A q \in Pids : Holds(q)' <=> Holds(q)
    BY <1>2 DEF Holds
  <2>3. Region(p) = 0 .. N - 1
    BY <1>1 DEF Region
  <2>4. Region(p)' = 0 .. N - 1
    BY <1>3, <1>5, <1>6 DEF Region, Span, Top
  <2> QED
    BY <2>1, <2>2, <2>3, <2>4 DEF RegionsDisjoint
<1>14. Within'
  BY <1>1, <1>2, <1>3, <1>5, <1>6, SizeAssumption DEF Within
<1>15. NeverSmall'
  BY <1>2, <1>5 DEF NeverSmall, Top
<1>16. Reasons'
  BY <1>2 DEF Reasons
<1> QED
  BY <1>7, <1>8, <1>10, <1>11, <1>12, <1>13, <1>14, <1>15, <1>16

\* The first call has returned: exit(0), or return 0 from main.
LEMMA FirstCallReturns ==
  ASSUME IInv, NEW p \in Pids, At(p, "return"), ~(Len(stack[p]) > 1), Exit(p, 0),
         UNCHANGED <<pc, stack, faults, threshold>>
  PROVE  IInv'
<1> USE DEF IInv, Exit, At
<1>1. /\ status' = [status EXCEPT ![p] = "zombie"] /\ code' = [code EXCEPT ![p] = 0]
      /\ status \in [Pids -> Status] /\ code \in [Pids -> Int]
  BY DEF Types
<1>2. \A q \in Pids : /\ status'[q] = "unused" <=> status[q] = "unused"
                      /\ q # p => status'[q] = status[q] /\ code'[q] = code[q]
  BY <1>1
<1>3. status'[p] = "zombie" /\ code'[p] = 0
  BY <1>1
<1>4. Types'
  BY <1>1 DEF Types, Status
<1>5. Started'
  BY <1>2, SizeAssumption DEF Started
<1>6. Nested'
  BY DEF Nested, Forked, IsSmall, Mid
<1>7. LeftToChild'
  <2> SUFFICES ASSUME NEW q \in Pids, NEW j \in 1 .. Len(stack[q]), Forked(q, j)
               PROVE  LET x == stack[q][j].child
                      IN  /\ status'[x] # "unused" /\ stack[x] # <<>>
                          /\ stack[x][1].begin = stack[q][j].begin
                          /\ stack[x][1].end = Mid(stack[q][j])
    BY DEF LeftToChild, Forked, Mid
  <2>1. stack[q][j].child \in Pids
    BY CallsAre
  <2> QED
    BY <1>2, <2>1 DEF LeftToChild
<1>8. DoneAtZero'
  <2>1. stack[p] # <<>>
    BY DEF Started
  <2>2. Len(stack[p]) \in Nat /\ Len(stack[p]) >= 1
    BY <2>1, TopIsFrame
  <2>3. Len(stack[p]) = 1
    <3>1. PICK k \in Nat : k = Len(stack[p])
      BY <2>2
    <3>2. k >= 1 /\ ~(k > 1)
      BY <2>2, <3>1
    <3>3. k = 1
      BY <3>2
    <3> QED
      BY <3>1, <3>3
  <2> QED
    BY <1>2, <2>3 DEF DoneAtZero
<1>9. RegionsDisjoint'
  <2>1. \A q \in Pids : Region(q)' = Region(q)
    BY RegionKept
  <2>2. \A q \in Pids : Holds(q)' <=> Holds(q)
    BY <1>2, <1>3 DEF Holds
  <2> QED
    BY <2>1, <2>2 DEF RegionsDisjoint
<1>10. Within'
  BY <1>2 DEF Within
<1>11. NeverSmall'
  BY DEF NeverSmall, Top
<1>12. Reasons'
  BY <1>1, <1>2, <1>3 DEF Reasons
<1> QED
  BY <1>4, <1>5, <1>6, <1>7, <1>8, <1>9, <1>10, <1>11, <1>12

\* The call for a right half has returned: the caller waits for the left one.
LEMMA CallReturns ==
  ASSUME IInv, NEW p \in Pids, At(p, "return"), Len(stack[p]) > 1,
         stack' = [stack EXCEPT ![p] = SubSeq(@, 1, Len(@) - 1)], Goto(p, "wait"),
         UNCHANGED <<status, code, faults, threshold>>
  PROVE  IInv'
<1> USE DEF IInv, At
<1>1. stack[p] \in Seq(Frame) /\ stack[p] # <<>> /\ Len(stack[p]) \in Nat
  <2>1. stack[p] # <<>>
    BY DEF Started
  <2> QED
    BY <2>1, TopIsFrame
<1>2. /\ pc' = [pc EXCEPT ![p] = "wait"] /\ pc \in [Pids -> PC]
      /\ stack \in [Pids -> Seq(Frame)]
  BY DEF Goto, Types
<1>3. /\ pc'[p] = "wait" /\ stack'[p] = SubSeq(stack[p], 1, Len(stack[p]) - 1)
      /\ \A q \in Pids : q # p => pc'[q] = pc[q] /\ stack'[q] = stack[q]
  BY <1>2
<1>4. /\ stack'[p] \in Seq(Frame) /\ Len(stack'[p]) = Len(stack[p]) - 1 /\ stack'[p] # <<>>
      /\ \A j \in 1 .. Len(stack[p]) - 1 : stack'[p][j] = stack[p][j]
  BY <1>1, <1>3, Popped
<1>5. Types'
  BY <1>2, <1>4 DEF Types, PC
<1>6. \A q \in Pids : /\ stack'[q] = <<>> <=> stack[q] = <<>>
                      /\ stack[q] # <<>> => stack'[q][1] = stack[q][1]
  BY <1>1, <1>3, <1>4
<1>7. Started'
  <2>1. \A q \in Pids : pc'[q] = "main" <=> pc[q] = "main"
    BY <1>3
  <2> QED
    BY <1>6, <2>1, SizeAssumption DEF Started
<1>8. \A q \in Pids : \A j \in 1 .. Len(stack'[q]) :
        /\ j \in 1 .. Len(stack[q]) /\ stack'[q][j] = stack[q][j]
        /\ Forked(q, j)' => Forked(q, j)
        /\ j < Len(stack'[q]) => j + 1 \in 1 .. Len(stack'[q]) /\ j < Len(stack[q])
  <2> TAKE q \in Pids
  <2> TAKE j \in 1 .. Len(stack'[q])
  <2>1. CASE q = p
    BY <2>1, <1>1, <1>3, <1>4 DEF Forked
  <2>2. CASE q # p
    <3>1. stack'[q] = stack[q] /\ pc'[q] = pc[q]
      BY <1>3, <2>2
    <3>2. Len(stack[q]) \in Nat
      BY <3>1, CallsAre
    <3> QED
      BY <3>1, <3>2 DEF Forked
  <2> QED
    BY <2>1, <2>2
<1>9. Nested'
  <2> SUFFICES ASSUME NEW q \in Pids, NEW j \in 1 .. Len(stack'[q])
               PROVE  /\ stack'[q][j].begin <= stack'[q][j].end
                      /\ Forked(q, j)' => ~(stack'[q][j].end - stack'[q][j].begin <= threshold)
                      /\ j < Len(stack'[q]) =>
                           /\ stack'[q][j + 1].begin = Mid(stack'[q][j])
                           /\ stack'[q][j + 1].end = stack'[q][j].end
    BY DEF Nested, IsSmall, Mid
  <2>1. /\ j \in 1 .. Len(stack[q]) /\ stack'[q][j] = stack[q][j]
        /\ Forked(q, j)' => Forked(q, j)
        /\ j < Len(stack'[q]) =>
             j < Len(stack[q]) /\ stack'[q][j + 1] = stack[q][j + 1]
    BY <1>8
  <2> QED
    BY <2>1 DEF Nested, IsSmall
<1>10. LeftToChild'
  <2> SUFFICES ASSUME NEW q \in Pids, NEW j \in 1 .. Len(stack'[q]), Forked(q, j)'
               PROVE  LET x == stack'[q][j].child
                      IN  /\ status[x] # "unused" /\ stack'[x] # <<>>
                          /\ stack'[x][1].begin = stack'[q][j].begin
                          /\ stack'[x][1].end = Mid(stack'[q][j])
    BY DEF LeftToChild, Mid
  <2>1. j \in 1 .. Len(stack[q]) /\ stack'[q][j] = stack[q][j] /\ Forked(q, j)
    BY <1>8
  <2> DEFINE x == stack[q][j].child
  <2>2. x \in Pids /\ status[x] # "unused" /\ stack[x] # <<>>
        /\ stack[x][1].begin = stack[q][j].begin
        /\ stack[x][1].end = Mid(stack[q][j])
    BY <2>1, CallsAre DEF LeftToChild
  <2> QED
    BY <2>1, <2>2, <1>6
<1>11. DoneAtZero'
  BY <1>3 DEF DoneAtZero
<1>12. RegionsDisjoint'
  <2>1. \A q \in Pids : q # p => Region(q)' = Region(q)
    BY <1>3, RegionKept
  <2>2. \A q \in Pids : Holds(q)' <=> Holds(q)
    BY DEF Holds
  <2>3. Region(p)' = Region(p)
    <3> DEFINE n == Len(stack[p])
    <3>1. Region(p) = stack[p][n].begin .. stack[p][n].end - 1
      BY <1>1 DEF Region, Span, Top
    <3>2. Region(p)' = Mid(stack[p][n - 1]) .. stack[p][n - 1].end - 1
      BY <1>1, <1>3, <1>4 DEF Region, Span, Top, Mid
    <3>3. stack[p][n].begin = Mid(stack[p][n - 1]) /\ stack[p][n].end = stack[p][n - 1].end
      <4>1. n - 1 \in 1 .. n /\ n - 1 < n /\ (n - 1) + 1 = n
        BY <1>1
      <4> QED
        BY <4>1 DEF Nested
    <3> QED
      BY <3>1, <3>2, <3>3
  <2> QED
    BY <2>1, <2>2, <2>3 DEF RegionsDisjoint
<1>13. Within'
  BY <1>6, <1>8 DEF Within
<1>14. NeverSmall'
  <2> SUFFICES threshold # 0
    BY DEF NeverSmall
  <2> SUFFICES ASSUME threshold = 0 PROVE FALSE
    OBVIOUS
  <2> DEFINE n == Len(stack[p])
  <2>1. stack[p][n].begin = stack[p][n].end
    BY DEF NeverSmall, Top
  <2>2. n - 1 \in 1 .. n /\ n - 1 < n /\ (n - 1) + 1 = n /\ Forked(p, n - 1)
    BY <1>1 DEF Forked
  <2>3. /\ stack[p][n].begin = Mid(stack[p][n - 1]) /\ stack[p][n].end = stack[p][n - 1].end
        /\ ~(stack[p][n - 1].end - stack[p][n - 1].begin <= 0)
        /\ stack[p][n - 1].begin <= stack[p][n - 1].end
    BY <2>2 DEF Nested, IsSmall
  <2>4. stack[p][n - 1] \in Frame
    BY <2>2, CallsAre
  <2>5. stack[p][n - 1].begin < stack[p][n - 1].end
    BY <2>3, <2>4 DEF Frame
  <2>6. Mid(stack[p][n - 1]) < stack[p][n - 1].end
    BY <2>3, <2>4, <2>5, MidBetween
  <2>7. Mid(stack[p][n - 1]) \in Nat
    BY <2>3, <2>4, MidBetween
  <2>8. Mid(stack[p][n - 1]) = stack[p][n - 1].end
    BY <2>1, <2>3, Zenon
  <2> QED
    BY <2>6, <2>7, <2>8
<1>15. Reasons'
  BY DEF Reasons
<1> QED
  BY <1>5, <1>7, <1>9, <1>10, <1>11, <1>12, <1>13, <1>14, <1>15

\* The child has failed, or was killed: so does its parent, and both keep their
\* regions.
LEMMA ChildFailed ==
  ASSUME IInv, NEW p \in Pids, Wait(p), code[Top(p).child] # 0
  PROVE  IInv'
<1> USE DEF IInv
<1> DEFINE q == Top(p).child
<1>1. status[p] = "live" /\ pc[p] = "wait" /\ status[q] = "zombie" /\ stack[p] # <<>>
  BY DEF Wait, At, Started
<1>2. q \in Pids /\ p # q
  <2>1. Top(p) \in Frame
    BY <1>1, TopIsFrame
  <2> QED
    BY <1>1, <2>1 DEF Frame
<1>3. PICK c \in {10, 11} :
        /\ status' = [status EXCEPT ![q] = "reaped", ![p] = "zombie"]
        /\ code' = [code EXCEPT ![p] = c]
        /\ UNCHANGED <<pc, stack, faults, threshold>>
  BY DEF Wait, given
<1>3a. stack' = stack /\ pc' = pc
  BY <1>3
<1>4. status \in [Pids -> Status] /\ code \in [Pids -> Int]
  BY DEF Types
<1>5. /\ status'[p] = "zombie" /\ code'[p] = c
      /\ status'[q] = "reaped" /\ code'[q] = code[q]
      /\ \A x \in Pids : x # p /\ x # q => status'[x] = status[x] /\ code'[x] = code[x]
  BY <1>2, <1>3, <1>4
<1>6. \A x \in Pids : status'[x] = "unused" <=> status[x] = "unused"
  BY <1>1, <1>2, <1>5
<1>7. Types'
  BY <1>3, <1>4 DEF Types, Status
<1>8. Started'
  BY <1>3, <1>6, SizeAssumption DEF Started
<1>9. Nested'
  BY <1>3 DEF Nested, Forked, IsSmall, Mid
<1>10. LeftToChild'
  <2> SUFFICES ASSUME NEW r \in Pids, NEW j \in 1 .. Len(stack[r]), Forked(r, j)'
               PROVE  LET x == stack[r][j].child
                      IN  /\ status'[x] # "unused" /\ stack[x] # <<>>
                          /\ stack[x][1].begin = stack[r][j].begin
                          /\ stack[x][1].end = Mid(stack[r][j])
    BY <1>3a DEF LeftToChild, Mid
  <2>1. stack[r][j].child \in Pids
    BY CallsAre
  <2>2. Forked(r, j)
    BY <1>3a DEF Forked
  <2> QED
    BY <1>6, <2>1, <2>2 DEF LeftToChild
<1>11. DoneAtZero'
  BY <1>1, <1>2, <1>3, <1>5 DEF DoneAtZero
<1>12. RegionsDisjoint'
  <2>1. \A x \in Pids : Region(x)' = Region(x)
    BY <1>3, RegionKept
  <2>2. \A x \in Pids : Holds(x)' <=> Holds(x)
    BY <1>1, <1>2, <1>5 DEF Holds
  <2> QED
    BY <2>1, <2>2 DEF RegionsDisjoint
<1>13. Within'
  BY <1>3, <1>6 DEF Within
<1>14. NeverSmall'
  BY <1>3 DEF NeverSmall, Top
<1>15. Reasons'
  <2>1. faults > 0 \/ \A x \in Pids : status[x] # "unused"
    BY <1>2 DEF Reasons
  <2> QED
    BY <1>3, <1>6, <2>1 DEF Reasons
<1> QED
  BY <1>7, <1>8, <1>9, <1>10, <1>11, <1>12, <1>13, <1>14, <1>15

\* The child has sorted the left half: its region and the parent's become one.
LEMMA ChildSucceeded ==
  ASSUME IInv, NEW p \in Pids, Wait(p), code[Top(p).child] = 0
  PROVE  IInv'
<1> USE DEF IInv
<1> DEFINE q == Top(p).child
           n == Len(stack[p])
<1>1. status[p] = "live" /\ pc[p] = "wait" /\ status[q] = "zombie" /\ stack[p] # <<>>
  BY DEF Wait, At, Started
<1>2. Top(p) \in Frame /\ Top(p) = stack[p][n] /\ n \in Nat /\ n >= 1 /\ n \in 1 .. n
  BY <1>1, TopIsFrame
<1>3. q \in Pids /\ p # q
  BY <1>1, <1>2 DEF Frame
<1>4. /\ status' = [status EXCEPT ![q] = "reaped"]
      /\ pc' = [pc EXCEPT ![p] = "merge"]
      /\ UNCHANGED <<code, stack, faults, threshold>>
  BY DEF Wait, given, Goto
<1>5. status \in [Pids -> Status] /\ code \in [Pids -> Int] /\ pc \in [Pids -> PC]
  BY DEF Types
<1>6. /\ status'[q] = "reaped" /\ pc'[p] = "merge"
      /\ \A x \in Pids : x # q => status'[x] = status[x]
      /\ \A x \in Pids : x # p => pc'[x] = pc[x]
  BY <1>3, <1>4, <1>5
<1>7. \A x \in Pids : status'[x] = "unused" <=> status[x] = "unused"
  BY <1>1, <1>3, <1>6
<1>8. Types'
  BY <1>4, <1>5 DEF Types, Status, PC
<1>9. Started'
  <2>1. \A x \in Pids : pc'[x] = "main" <=> pc[x] = "main"
    BY <1>1, <1>6
  <2> QED
    BY <1>4, <1>7, <2>1, SizeAssumption DEF Started
<1>10. \A x \in Pids : \A j \in 1 .. Len(stack[x]) : Forked(x, j)' => Forked(x, j)
  BY <1>4, <1>6 DEF Forked
<1>11. Nested'
  <2> SUFFICES ASSUME NEW x \in Pids, NEW j \in 1 .. Len(stack[x])
               PROVE  /\ stack[x][j].begin <= stack[x][j].end
                      /\ Forked(x, j)' => ~IsSmall(stack[x][j])
                      /\ j < Len(stack[x]) => /\ stack[x][j + 1].begin = Mid(stack[x][j])
                                              /\ stack[x][j + 1].end = stack[x][j].end
    BY <1>4 DEF Nested, IsSmall, Mid
  <2> QED
    BY <1>10 DEF Nested
<1>12. LeftToChild'
  <2> SUFFICES ASSUME NEW r \in Pids, NEW j \in 1 .. Len(stack[r]), Forked(r, j)'
               PROVE  LET x == stack[r][j].child
                      IN  /\ status'[x] # "unused" /\ stack[x] # <<>>
                          /\ stack[x][1].begin = stack[r][j].begin
                          /\ stack[x][1].end = Mid(stack[r][j])
    BY <1>4 DEF LeftToChild, Mid
  <2>1. stack[r][j].child \in Pids
    BY CallsAre
  <2>2. Forked(r, j)
    BY <1>10
  <2> QED
    BY <1>7, <2>1, <2>2 DEF LeftToChild
<1>13. DoneAtZero'
  BY <1>1, <1>3, <1>4, <1>6 DEF DoneAtZero
<1>14. RegionsDisjoint'
  <2>1. \A x \in Pids : x # p => Region(x)' = Region(x)
    BY <1>4, <1>6, RegionKept
  <2>2. \A x \in Pids : Holds(x)' <=> Holds(x) /\ x # q
    BY <1>1, <1>3, <1>4, <1>6 DEF Holds
  <2>3. Holds(p) /\ Holds(q)
    BY <1>1, <1>3 DEF Holds
  <2>4. Region(p)' \subseteq Region(p) \cup Region(q)
    <3>1. pc[q] = "return" /\ Len(stack[q]) = 1
      BY <1>1, <1>3 DEF DoneAtZero
    <3>2. Forked(p, n)
      BY <1>1 DEF Forked
    <3>3. /\ stack[q] # <<>> /\ stack[q][1].begin = Top(p).begin
          /\ stack[q][1].end = Mid(Top(p))
      BY <1>2, <3>2 DEF LeftToChild
    <3>4. Region(q) = Top(p).begin .. Mid(Top(p)) - 1
      BY <3>1, <3>3 DEF Region, Span, Top
    <3>5. Region(p) = Mid(Top(p)) .. Top(p).end - 1
      BY <1>1 DEF Region
    <3>6. Region(p)' = Top(p).begin .. Top(p).end - 1
      BY <1>1, <1>4, <1>6 DEF Region, Span, Top
    <3>7. Top(p).begin <= Top(p).end
      BY <1>2 DEF Nested
    <3>8. Mid(Top(p)) \in Nat /\ Top(p).begin \in Nat /\ Top(p).end \in Nat
      BY <1>2, <3>7, MidBetween DEF Frame
    <3> QED
      BY <3>4, <3>5, <3>6, <3>8
  <2>5. ASSUME NEW x \in Pids, NEW y \in Pids, x # y, Holds(x)', Holds(y)'
        PROVE  Region(x)' \cap Region(y)' = {}
    <3>1. Holds(x) /\ Holds(y) /\ x # q /\ y # q
      BY <2>2, <2>5
    <3>2. /\ Region(x) \cap Region(y) = {}
          /\ Region(x) \cap Region(q) = {} /\ Region(y) \cap Region(q) = {}
      BY <1>3, <2>3, <2>5, <3>1 DEF RegionsDisjoint
    <3> QED
      BY <2>1, <2>4, <2>5, <3>2
  <2> QED
    BY <2>5 DEF RegionsDisjoint
<1>15. Within'
  BY <1>4, <1>7 DEF Within
<1>16. NeverSmall'
  BY <1>1, <1>4 DEF NeverSmall
<1>17. Reasons'
  BY <1>4, <1>7 DEF Reasons
<1> QED
  BY <1>8, <1>9, <1>11, <1>12, <1>13, <1>14, <1>15, <1>16, <1>17

\* A call that the step leaves where it was, with what lies above it.
Kept(r, j) ==
  /\ j \in 1 .. Len(stack[r]) /\ stack'[r][j] = stack[r][j]
  /\ Forked(r, j)' <=> Forked(r, j)
  /\ j < Len(stack'[r]) <=> j < Len(stack[r])
  /\ j < Len(stack[r]) => /\ stack'[r][j + 1].begin = stack[r][j + 1].begin
                          /\ stack'[r][j + 1].end = stack[r][j + 1].end

\* A fork gives the left half of the caller's region to the child.
\* What a fork does: x and y take the place of p's top call, z is q's first one.
Splits(p, q, x, y, z) ==
  LET c == Top(p)
      n == Len(stack[p])
  IN  /\ status[p] = "live" /\ pc[p] = "call" /\ ~IsSmall(c) /\ c.begin < c.end
      /\ Mid(c) \in Nat /\ c.begin <= Mid(c) /\ Mid(c) < c.end
      /\ threshold > 0 => c.begin < Mid(c)
      /\ status[q] = "unused" /\ p # q /\ q # Root
      /\ x \in Frame /\ x.begin = c.begin /\ x.end = c.end /\ x.child = q
      /\ y \in Frame /\ y.begin = Mid(c) /\ y.end = c.end
      /\ z \in Frame /\ z.begin = c.begin /\ z.end = Mid(c)
      /\ stack'[q] = <<z>> /\ status'[q] = "live" /\ pc'[q] = "call"
      /\ stack'[p] \in Seq(Frame) /\ Len(stack'[p]) = n + 1 /\ stack'[p] # <<>>
      /\ \A j \in 1 .. n - 1 : stack'[p][j] = stack[p][j]
      /\ stack'[p][n] = x /\ stack'[p][n + 1] = y
      /\ \A r \in Pids : r # p /\ r # q => stack'[r] = stack[r]
      /\ \A r \in Pids : r # q => status'[r] = status[r] /\ pc'[r] = pc[r]

LEMMA ForkDoes ==
  ASSUME IInv, NEW p \in Pids, Fork(p)
  PROVE  \E q \in Pids, x \in Frame, y \in Frame, z \in Frame : Splits(p, q, x, y, z)
<1> USE DEF IInv
<1> DEFINE m == Mid(Top(p))
           b == Top(p).begin
           e == Top(p).end
<1>1. status[p] = "live" /\ pc[p] = "call" /\ ~IsSmall(Top(p)) /\ stack[p] # <<>>
  BY DEF Fork, At, Started
<1>2. PICK q \in Pids :
        /\ status[q] = "unused"
        /\ status' = [status EXCEPT ![q] = "live"]
        /\ stack' = [stack EXCEPT
             ![q] = <<Call(b, m)>>,
             ![p] = SubSeq(@, 1, Len(@) - 1)
                      \o <<[Top(p) EXCEPT !.child = q], Call(m, e)>>]
        /\ pc' = [pc EXCEPT ![q] = "call"]
  BY DEF Fork
<1>4a. PICK n \in Nat : n = Len(stack[p])
  BY <1>1, TopIsFrame
<1>4. /\ Top(p) \in Frame /\ Top(p) = stack[p][n] /\ n >= 1 /\ n \in 1 .. n
      /\ stack[p] \in Seq(Frame) /\ n = Len(stack[p])
  BY <1>1, <1>4a, TopIsFrame
<1>5. b \in Nat /\ e \in Nat /\ b <= e /\ threshold \in Nat /\ b < e
  <2>1. b \in Nat /\ e \in Nat /\ threshold \in Nat
    BY <1>4 DEF Frame, Types
  <2>2. b <= e
    BY <1>4 DEF Nested
  <2> QED
    BY <1>1, <2>1, <2>2 DEF IsSmall
<1>6. m \in Nat /\ b <= m /\ m < e /\ (threshold > 0 => b < m)
  <2>1. m \in Nat /\ b <= m /\ m < e /\ (b + 1 < e => b < m)
    BY <1>4, <1>5, MidBetween
  <2>2. threshold > 0 => b + 1 < e
    BY <1>1, <1>5 DEF IsSmall
  <2> QED
    BY <2>1, <2>2
<1>7. p # q /\ q # Root
  BY <1>1, <1>2 DEF Started
<1> DEFINE x == [Top(p) EXCEPT !.child = q]
           y == Call(m, e)
           z == Call(b, m)
<1>8. x \in Frame /\ x.begin = b /\ x.end = e /\ x.child = q
  BY <1>4 DEF Frame
<1>9. y \in Frame /\ y.begin = m /\ y.end = e /\ z \in Frame /\ z.begin = b /\ z.end = m
  BY <1>5, <1>6, CallIsFrame
<1> HIDE DEF x, y, z
<1>10. /\ status \in [Pids -> Status] /\ pc \in [Pids -> PC]
       /\ stack \in [Pids -> Seq(Frame)]
  BY DEF Types
<1>11. /\ stack'[q] = <<z>> /\ stack'[p] = SubSeq(stack[p], 1, n - 1) \o <<x, y>>
       /\ \A r \in Pids : r # p /\ r # q => stack'[r] = stack[r]
       /\ status'[q] = "live" /\ pc'[q] = "call"
       /\ \A r \in Pids : r # q => status'[r] = status[r] /\ pc'[r] = pc[r]
  BY <1>2, <1>4, <1>7, <1>10 DEF x, y, z
<1>12. /\ stack'[p] \in Seq(Frame) /\ Len(stack'[p]) = n + 1 /\ stack'[p] # <<>>
       /\ \A j \in 1 .. n - 1 : stack'[p][j] = stack[p][j]
       /\ stack'[p][n] = x /\ stack'[p][n + 1] = y
  <2>1. PICK s : s = stack[p]
    OBVIOUS
  <2>2. PICK t : t = stack'[p]
    OBVIOUS
  <2>3. s \in Seq(Frame) /\ s # <<>> /\ n = Len(s)
    BY <1>1, <1>4, <2>1
  <2>4. t = SubSeq(s, 1, Len(s) - 1) \o <<x, y>>
    BY <1>11, <2>1, <2>2, <2>3
  <2>5. IsPushed(s, t, x, y)
    <3>1. s \in Seq(Frame) /\ s # <<>> /\ x \in Frame /\ y \in Frame
      BY <1>8, <1>9, <2>3
    <3> QED
      BY <3>1, <2>4, Pushed, Zenon
  <2> QED
    BY <2>1, <2>2, <2>3, <2>5 DEF IsPushed
<1>13. Splits(p, q, x, y, z)
  BY <1>1, <1>2, <1>4, <1>5, <1>6, <1>7, <1>8, <1>9, <1>11, <1>12, Zenon DEF Splits
<1> QED
  BY <1>8, <1>9, <1>13

LEMMA ForkSplits == ASSUME IInv, NEW p \in Pids, Fork(p) PROVE IInv'
<1> USE DEF IInv
<1> DEFINE m == Mid(Top(p))
           b == Top(p).begin
           e == Top(p).end
<1>2. PICK q \in Pids, x \in Frame, y \in Frame, z \in Frame : Splits(p, q, x, y, z)
  BY ForkDoes
<1>1. status[p] = "live" /\ pc[p] = "call" /\ ~IsSmall(Top(p)) /\ stack[p] # <<>>
  BY <1>2 DEF Splits, Started
<1>3. UNCHANGED <<code, faults, threshold>>
  BY DEF Fork, given
<1>4a. PICK n \in Nat : n = Len(stack[p])
  BY <1>1, TopIsFrame
<1>4. /\ Top(p) \in Frame /\ Top(p) = stack[p][n] /\ n >= 1 /\ n \in 1 .. n
      /\ stack[p] \in Seq(Frame) /\ n = Len(stack[p])
  BY <1>1, <1>4a, TopIsFrame
<1>5. b \in Nat /\ e \in Nat /\ b <= e /\ threshold \in Nat /\ b < e
  BY <1>2, <1>4 DEF Frame, Types, Splits
<1>6. m \in Nat /\ b <= m /\ m < e /\ (threshold > 0 => b < m)
  BY <1>2 DEF Splits
<1>7. p # q /\ q # Root /\ status[q] = "unused"
  BY <1>2 DEF Splits
<1>8. x \in Frame /\ x.begin = b /\ x.end = e /\ x.child = q
  BY <1>2 DEF Splits
<1>9. y \in Frame /\ y.begin = m /\ y.end = e /\ z \in Frame /\ z.begin = b /\ z.end = m
  BY <1>2 DEF Splits
<1>10. /\ status \in [Pids -> Status] /\ pc \in [Pids -> PC]
       /\ stack \in [Pids -> Seq(Frame)]
  BY DEF Types
<1>11. /\ stack'[q] = <<z>>
       /\ \A r \in Pids : r # p /\ r # q => stack'[r] = stack[r]
       /\ status'[q] = "live" /\ pc'[q] = "call"
       /\ \A r \in Pids : r # q => status'[r] = status[r] /\ pc'[r] = pc[r]
  BY <1>2 DEF Splits
<1>12. /\ stack'[p] \in Seq(Frame) /\ Len(stack'[p]) = n + 1 /\ stack'[p] # <<>>
       /\ \A j \in 1 .. n - 1 : stack'[p][j] = stack[p][j]
       /\ stack'[p][n] = x /\ stack'[p][n + 1] = y
  BY <1>2, <1>4a DEF Splits
<1>13. stack'[q] \in Seq(Frame) /\ Len(stack'[q]) = 1 /\ stack'[q][1] = z /\ stack'[q] # <<>>
  BY <1>9, <1>11
<1>14. Types'
  <2>1. stack' \in [Pids -> Seq(Frame)]
    <3>1. stack' = [r \in Pids |-> stack'[r]]
      BY <1>10 DEF Fork
    <3>2. \A r \in Pids : stack'[r] \in Seq(Frame)
      BY <1>10, <1>11, <1>12, <1>13
    <3> QED
      BY <3>1, <3>2
  <2>2. status' \in [Pids -> Status] /\ pc' \in [Pids -> PC]
    BY <1>10 DEF Fork, Status, PC
  <2> QED
    BY <1>3, <2>1, <2>2 DEF Types
\* The first calls stay what they were.
<1>15. \A r \in Pids : r # q /\ stack[r] # <<>> =>
         /\ stack'[r] # <<>>
         /\ stack'[r][1].begin = stack[r][1].begin /\ stack'[r][1].end = stack[r][1].end
  <2> SUFFICES ASSUME NEW r \in Pids, r # q, stack[r] # <<>>
               PROVE  /\ stack'[r] # <<>>
                      /\ stack'[r][1].begin = stack[r][1].begin
                      /\ stack'[r][1].end = stack[r][1].end
    OBVIOUS
  <2>1. CASE r # p
    BY <2>1, <1>11
  <2>2. CASE r = p /\ n = 1
    BY <2>2, <1>4, <1>8, <1>12
  <2>3. CASE r = p /\ n # 1
    <3>0. n >= 1 /\ n # 1
      BY <2>3, <1>4
    <3>1. 1 \in 1 .. n - 1
      BY <3>0
    <3> QED
      BY <2>3, <3>1, <1>12
  <2> QED
    BY <2>1, <2>2, <2>3
<1>16. Started'
  <2>1. status'[Root] # "unused"
    BY <1>7, <1>11, SizeAssumption DEF Started
  <2>2. \A r \in Pids : stack'[r] = <<>> <=> stack[r] = <<>> /\ r # q
    BY <1>1, <1>11, <1>12, <1>13
  <2>3. \A r \in Pids : /\ pc'[r] = "main" <=> stack'[r] = <<>>
                        /\ pc'[r] = "main" => r = Root \/ status'[r] = "unused"
    BY <2>2, <1>11 DEF Started
  <2>4. stack'[Root] # <<>> => stack'[Root][1].begin = 0 /\ stack'[Root][1].end = N
    BY <2>2, <1>7, <1>15, SizeAssumption DEF Started
  <2> QED
    BY <2>1, <2>3, <2>4 DEF Started
\* Every call is one of before, or the one that forked, or one of the two new ones.
<1>17. ASSUME NEW r \in Pids, NEW j \in 1 .. Len(stack'[r])
       PROVE  \/ Kept(r, j) /\ r # q /\ (r = p => j < n)
              \/ r = p /\ j = n /\ stack'[r][j] = x /\ stack'[r][j + 1] = y
              \/ r = p /\ j = n + 1 /\ stack'[r][j] = y
                   /\ ~Forked(r, j)' /\ ~(j < Len(stack'[r]))
              \/ r = q /\ j = 1 /\ stack'[r][j] = z
                   /\ ~Forked(r, j)' /\ ~(j < Len(stack'[r]))
  <2>1. CASE r = q
    <3>1. PICK k \in Nat : k = j /\ k = 1
      BY <2>1, <1>13
    <3> QED
      BY <2>1, <3>1, <1>11, <1>13 DEF Forked
  <2>2. CASE r = p
    <3>1. j \in 1 .. n + 1 /\ pc'[p] = "call"
      BY <2>2, <1>1, <1>7, <1>11, <1>12
    <3>2. CASE j = n + 1
      BY <2>2, <3>1, <3>2, <1>12 DEF Forked
    <3>3. CASE j = n
      BY <2>2, <3>3, <1>12
    <3>4. CASE j < n
      <4>1. j \in 1 .. n - 1 /\ j \in 1 .. n /\ j < n + 1 /\ (j + 1 \in 1 .. n - 1 \/ j + 1 = n)
        BY <3>1, <3>4
      <4>2. stack'[p][j] = stack[p][j] /\ j < Len(stack[p]) /\ j < Len(stack'[p])
        BY <4>1, <3>4, <1>4, <1>12
      <4>3. /\ stack'[p][j + 1].begin = stack[p][j + 1].begin
            /\ stack'[p][j + 1].end = stack[p][j + 1].end
        BY <4>1, <1>4, <1>8, <1>12
      <4>4. Forked(p, j) /\ Forked(p, j)'
        BY <4>2 DEF Forked
      <4> QED
        BY <2>2, <3>4, <4>1, <4>2, <4>3, <4>4, <1>4, <1>7 DEF Kept
    <3> QED
      BY <3>1, <3>2, <3>3, <3>4
  <2>3. CASE r # p /\ r # q
    <3>1. stack'[r] = stack[r] /\ pc'[r] = pc[r]
      BY <2>3, <1>11
    <3> QED
      BY <2>3, <3>1 DEF Kept, Forked
  <2> QED
    BY <2>1, <2>2, <2>3
<1>18. Nested'
  <2> SUFFICES ASSUME NEW r \in Pids, NEW j \in 1 .. Len(stack'[r])
               PROVE  /\ stack'[r][j].begin <= stack'[r][j].end
                      /\ Forked(r, j)' => ~(stack'[r][j].end - stack'[r][j].begin <= threshold)
                      /\ j < Len(stack'[r]) =>
                           /\ stack'[r][j + 1].begin = Mid(stack'[r][j])
                           /\ stack'[r][j + 1].end = stack'[r][j].end
    BY <1>3 DEF Nested, IsSmall, Mid
  <2>1. CASE Kept(r, j)
    BY <2>1 DEF Kept, Nested, IsSmall
  <2>2. CASE r = p /\ j = n /\ stack'[r][j] = x /\ stack'[r][j + 1] = y
    <3>1. Mid(x) = m
      BY <1>8 DEF Mid
    <3> QED
      BY <2>2, <3>1, <1>1, <1>5, <1>8, <1>9 DEF IsSmall
  <2>3. CASE /\ ~Forked(r, j)' /\ ~(j < Len(stack'[r]))
             /\ stack'[r][j] = y \/ stack'[r][j] = z
    BY <2>3, <1>5, <1>6, <1>9
  <2> QED
    BY <1>17, <2>1, <2>2, <2>3
<1>19. LeftToChild'
  <2> SUFFICES ASSUME NEW r \in Pids, NEW j \in 1 .. Len(stack'[r]), Forked(r, j)'
               PROVE  LET w == stack'[r][j].child
                      IN  /\ status'[w] # "unused" /\ stack'[w] # <<>>
                          /\ stack'[w][1].begin = stack'[r][j].begin
                          /\ stack'[w][1].end = Mid(stack'[r][j])
    BY DEF LeftToChild, Mid
  <2>1. CASE Kept(r, j)
    <3>1. j \in 1 .. Len(stack[r]) /\ stack'[r][j] = stack[r][j] /\ Forked(r, j)
      BY <2>1 DEF Kept
    <3>2. PICK w \in Pids : w = stack[r][j].child
      BY <3>1, CallsAre
    <3>3. /\ status[w] # "unused" /\ stack[w] # <<>>
          /\ stack[w][1].begin = stack[r][j].begin
          /\ stack[w][1].end = Mid(stack[r][j])
      BY <3>1, <3>2 DEF LeftToChild
    <3>4. w # q
      BY <3>3, <1>7
    <3>5. status'[w] # "unused"
      BY <3>3, <3>4, <1>11
    <3>6. /\ stack'[w] # <<>>
          /\ stack'[w][1].begin = stack[w][1].begin /\ stack'[w][1].end = stack[w][1].end
      BY <3>3, <3>4, <1>15
    <3> QED
      BY <3>1, <3>2, <3>3, <3>5, <3>6
  <2>2. CASE stack'[r][j] = x
    <3>1. Mid(x) = m
      BY <1>8 DEF Mid
    <3> QED
      BY <2>2, <3>1, <1>8, <1>9, <1>11, <1>13
  <2> QED
    BY <1>17, <2>1, <2>2
<1>20. DoneAtZero'
  <2> SUFFICES ASSUME NEW r \in Pids, status'[r] \in {"zombie", "reaped"}, code[r] = 0
               PROVE  pc'[r] = "return" /\ Len(stack'[r]) = 1
    BY <1>3 DEF DoneAtZero
  <2>1. r # q /\ r # p
    BY <1>1, <1>7, <1>11
  <2> QED
    BY <2>1, <1>11 DEF DoneAtZero
<1>21. RegionsDisjoint'
  <2>1. Region(p) = b .. e - 1
    BY <1>1 DEF Region, Span
  <2>2. Region(p)' = m .. e - 1
    <3>1. Top(p)' = y
      BY <1>12 DEF Top
    <3> QED
      BY <3>1, <1>1, <1>7, <1>9, <1>11, <1>12 DEF Region, Span
  <2>3. Region(q)' = b .. m - 1
    <3>1. Top(q)' = z
      BY <1>13 DEF Top
    <3> QED
      BY <3>1, <1>9, <1>11, <1>13 DEF Region, Span
  <2>4. \A r \in Pids : r # p /\ r # q => Region(r)' = Region(r)
    BY <1>11, RegionKept
  <2>5. \A r \in Pids : r # q /\ Holds(r)' => Holds(r)
    BY <1>3, <1>11 DEF Holds
  <2>6. Holds(p)
    BY <1>1 DEF Holds
  <2>7. /\ Region(p)' \subseteq Region(p) /\ Region(q)' \subseteq Region(p)
        /\ Region(p)' \cap Region(q)' = {}
    BY <2>1, <2>2, <2>3, <1>5, <1>6
  <2>8. ASSUME NEW r \in Pids, NEW w \in Pids, r # w, Holds(r)', Holds(w)'
        PROVE  Region(r)' \cap Region(w)' = {}
    <3>1. CASE r \in {p, q} /\ w \in {p, q}
      BY <3>1, <2>7, <2>8
    <3>2. CASE r \in {p, q} /\ w \notin {p, q}
      <4>1. Region(p) \cap Region(w) = {}
        BY <3>2, <2>5, <2>6, <2>8 DEF RegionsDisjoint
      <4> QED
        BY <3>2, <4>1, <2>4, <2>7
    <3>3. CASE r \notin {p, q} /\ w \in {p, q}
      <4>1. Region(p) \cap Region(r) = {}
        BY <3>3, <2>5, <2>6, <2>8 DEF RegionsDisjoint
      <4> QED
        BY <3>3, <4>1, <2>4, <2>7
    <3>4. CASE r \notin {p, q} /\ w \notin {p, q}
      BY <3>4, <2>4, <2>5, <2>8 DEF RegionsDisjoint
    <3> QED
      BY <3>1, <3>2, <3>3, <3>4
  <2> QED
    BY <2>8 DEF RegionsDisjoint
<1>22. Within'
  <2>1. e <= N
    BY <1>4 DEF Within
  <2>2. \A r \in Pids : \A j \in 1 .. Len(stack'[r]) : stack'[r][j].end <= N
    <3> SUFFICES ASSUME NEW r \in Pids, NEW j \in 1 .. Len(stack'[r])
                 PROVE  stack'[r][j].end <= N
      OBVIOUS
    <3>1. CASE Kept(r, j)
      BY <3>1 DEF Kept, Within
    <3>2. CASE stack'[r][j] \in {x, y, z}
      BY <3>2, <2>1, <1>5, <1>6, <1>8, <1>9, SizeAssumption
    <3> QED
      BY <1>17, <3>1, <3>2
  <2>3. \A r \in Pids \ {Root} :
          stack'[r] # <<>> /\ threshold > 0 => stack'[r][1].begin < stack'[r][1].end
    <3> SUFFICES ASSUME NEW r \in Pids \ {Root}, stack'[r] # <<>>, threshold > 0
                 PROVE  stack'[r][1].begin < stack'[r][1].end
      OBVIOUS
    <3>1. CASE r = q
      BY <3>1, <1>6, <1>9, <1>13
    <3>2. CASE r # q
      <4>1. stack[r] # <<>>
        BY <3>2, <1>1, <1>11
      <4> QED
        BY <3>2, <4>1, <1>15 DEF Within
    <3> QED
      BY <3>1, <3>2
  <2>4. N # 0
    BY <2>1, <1>5, SizeAssumption
  <2> QED
    BY <2>2, <2>3, <2>4, <1>3 DEF Within
<1>23. NeverSmall'
  <2> SUFFICES ASSUME threshold = 0, NEW r \in Pids
               PROVE  /\ pc'[r] \notin {"wait", "merge", "copy"}
                      /\ pc'[r] = "return" => Top(r)'.begin = Top(r)'.end
    BY <1>3, Zenon DEF NeverSmall
  <2>1. CASE r = p \/ r = q
    BY <2>1, <1>1, <1>7, <1>11
  <2>2. CASE r # p /\ r # q
    BY <2>2, <1>11 DEF NeverSmall, Top
  <2> QED
    BY <2>1, <2>2
<1>24. Reasons'
  BY <1>3, <1>7, <1>11 DEF Reasons
<1> QED
  BY <1>14, <1>16, <1>18, <1>19, <1>20, <1>21, <1>22, <1>23, <1>24

\* Each step is one of those above.
LEMMA StepKeeps == ASSUME IInv, NEW p \in Pids, Step(p) PROVE IInv'
<1> USE DEF At
<1>1. CASE MainSorts(p)
  BY <1>1, MainStarts
<1>2. CASE Return(p)
  <2>1. UNCHANGED <<faults, threshold>>
    BY <1>2 DEF Return, given
  <2>2. CASE Len(stack[p]) > 1
    <3>1. /\ At(p, "return") /\ Goto(p, "wait") /\ UNCHANGED <<status, code>>
          /\ stack' = [stack EXCEPT ![p] = SubSeq(@, 1, Len(@) - 1)]
      BY <1>2, <2>2 DEF Return, process
    <3> QED
      BY <2>1, <2>2, <3>1, CallReturns
  <2>3. CASE ~(Len(stack[p]) > 1)
    <3>1. At(p, "return") /\ Exit(p, 0) /\ UNCHANGED <<pc, stack>>
      BY <1>2, <2>3 DEF Return
    <3> QED
      BY <2>1, <2>3, <3>1, FirstCallReturns
  <2> QED
    BY <2>2, <2>3
<1>3. CASE QSort(p)
  <2>1. /\ pc[p] = "call" /\ At(p, pc[p]) /\ Goto(p, "return")
        /\ UNCHANGED <<status, code, stack, faults, threshold>>
    BY <1>3 DEF QSort, process, given
  <2>2. threshold = 0 => Top(p).begin = Top(p).end
    <3>1. stack[p] # <<>>
      BY <2>1 DEF IInv, Started
    <3>2. Top(p) \in Frame /\ Top(p) = stack[p][Len(stack[p])] /\ Len(stack[p]) \in Nat
          /\ Len(stack[p]) >= 1
      BY <3>1, TopIsFrame DEF IInv
    <3>3. Len(stack[p]) \in 1 .. Len(stack[p])
      BY <3>2
    <3>4. Top(p).begin <= Top(p).end
      BY <3>2, <3>3 DEF IInv, Nested
    <3>5. Top(p).end - Top(p).begin <= threshold
      BY <1>3 DEF QSort, IsSmall
    <3> QED
      BY <3>2, <3>4, <3>5 DEF Frame
  <2> QED
    BY <2>1, <2>2, StepsInACall
<1>4. CASE Fork(p)
  BY <1>4, ForkSplits
<1>5. CASE Wait(p)
  BY <1>5, ChildFailed, ChildSucceeded
<1>6. CASE Merge(p)
  <2>1. /\ pc[p] = "merge" /\ At(p, pc[p]) /\ Goto(p, "copy")
        /\ UNCHANGED <<status, code, stack, faults, threshold>>
    BY <1>6 DEF Merge, process, given
  <2>2. threshold # 0
    BY <2>1 DEF IInv, NeverSmall
  <2> QED
    BY <2>1, <2>2, StepsInACall
<1>7. CASE CopyBack(p)
  <2>1. UNCHANGED <<status, code, pc, stack, faults, threshold>>
    BY <1>7 DEF CopyBack, process, given
  <2> QED
    BY <2>1, NothingMoves
<1>8. CASE Copied(p)
  <2>1. /\ pc[p] = "copy" /\ At(p, pc[p]) /\ Goto(p, "return")
        /\ UNCHANGED <<status, code, stack, faults, threshold>>
    BY <1>8 DEF Copied, process, given
  <2>2. threshold # 0
    BY <2>1 DEF IInv, NeverSmall
  <2> QED
    BY <2>1, <2>2, StepsInACall
<1>9. CASE ForkFails(p)
  <2>1. /\ status[p] = "live" /\ Exit(p, 8) /\ UNCHANGED <<pc, stack, threshold>>
        /\ \/ (\A q \in Pids : status[q] # "unused") /\ faults' = faults
           \/ faults' = faults + 1
    BY <1>9 DEF ForkFails, Fault, given
  <2>2. /\ faults' \in Nat /\ faults' >= faults
        /\ faults' > 0 \/ \A q \in Pids : status[q] # "unused"
    BY <2>1 DEF IInv, Types
  <2> QED
    BY <2>1, <2>2, FailingEnds
<1> QED
  BY <1>1, <1>2, <1>3, <1>4, <1>5, <1>6, <1>7, <1>8, <1>9 DEF Step

LEMMA FailureKeeps == ASSUME IInv, NEW p \in Pids, Failure(p) PROVE IInv'
<1>1. PICK c \in Int \ {0} :
        /\ status[p] = "live" /\ Exit(p, c) /\ faults' = faults + 1
        /\ UNCHANGED <<pc, stack, threshold>>
  <2>1. CASE MainFails(p)
    <3>1. PICK c \in 3 .. 6 : Exit(p, c)
      BY <2>1 DEF MainFails
    <3> QED
      BY <2>1, <3>1 DEF MainFails, At, Fault, given
  <2>2. CASE UnmapFails(p)
    BY <2>2 DEF UnmapFails, At, Fault, given
  <2>3. CASE WaitFails(p)
    BY <2>3 DEF WaitFails, At, Fault, given
  <2>4. CASE Kill(p)
    BY <2>4 DEF Kill, Fault, given, KilledCode
  <2> QED
    BY <2>1, <2>2, <2>3, <2>4 DEF Failure
<1>2. faults' \in Nat /\ faults' >= faults /\ faults' > 0
  BY <1>1 DEF IInv, Types
<1> QED
  BY <1>1, <1>2, FailingEnds

THEOREM Invariant == Spec => []IInv
<1>1. IInv /\ [Next]_vars => IInv'
  <2> SUFFICES ASSUME IInv, [Next]_vars PROVE IInv'
    OBVIOUS
  <2>1. CASE Next
    BY <2>1, StepKeeps, FailureKeeps DEF Next
  <2>2. CASE UNCHANGED vars
    BY <2>2, NothingMoves DEF vars
  <2> QED
    BY <2>1, <2>2
<1> QED
  BY Start, <1>1, PTL DEF Spec

------------------------------------------------------------------------------
(* What follows *)

\* No two processes ever work on the same element of the mapping, although no
\* lock protects it: only the order of fork and wait in merge_sort does.
THEOREM NoCommonElement == Spec => []WorkersDisjoint
<1>1. IInv => WorkersDisjoint
  <2> SUFFICES ASSUME IInv, NEW p \in Pids, NEW q \in Pids, p # q
               PROVE  Working(p) \cap Working(q) = {}
    BY DEF WorkersDisjoint
  <2>1. ASSUME NEW r \in Pids, Working(r) # {}
        PROVE  Holds(r) /\ Working(r) = Region(r)
    <3>1. status[r] = "live" /\ pc[r] \in {"call", "merge", "copy"}
          /\ Working(r) = Span(r)
      BY <2>1 DEF Working
    <3>2. stack[r] # <<>>
      BY <3>1 DEF IInv, Started
    <3> QED
      BY <3>1, <3>2 DEF Holds, Region
  <2>2. CASE Working(p) = {} \/ Working(q) = {}
    BY <2>2
  <2>3. CASE Working(p) # {} /\ Working(q) # {}
    BY <2>1, <2>3 DEF IInv, RegionsDisjoint
  <2> QED
    BY <2>2, <2>3
<1> QED
  BY Invariant, <1>1, PTL

\* With a threshold of at least one every region but main's has an element.
LEMMA RegionsNotEmpty ==
  ASSUME IInv, threshold > 0, NEW p \in Pids, p # Root, Holds(p)
  PROVE  Region(p) # {} /\ Region(p) \subseteq 0 .. N - 1
<1> USE DEF IInv
<1>1. stack[p] # <<>>
  BY DEF Started, Holds
<1>2. PICK n \in Nat : n = Len(stack[p])
  BY <1>1, TopIsFrame
<1>3. n >= 1 /\ Top(p) \in Frame /\ Top(p) = stack[p][n]
  BY <1>1, <1>2, TopIsFrame
<1>4. n \in 1 .. n
  BY <1>3
<1>5. Top(p).begin \in Nat /\ Top(p).end \in Nat /\ threshold \in Nat /\ N \in Nat
  BY <1>3, SizeAssumption DEF Frame, Types
<1>6. Top(p).begin <= Top(p).end /\ Top(p).end <= N
  BY <1>2, <1>3, <1>4 DEF Nested, Within
<1>7. Top(p).begin < Top(p).end
  <2>1. CASE n = 1
    BY <1>1, <1>3, <2>1 DEF Within
  <2>2. CASE n # 1
    <3>1. n - 1 \in 1 .. n /\ n - 1 < n /\ (n - 1) + 1 = n
      BY <1>3, <2>2
    <3> DEFINE c == stack[p][n - 1]
    <3>2. c \in Frame
      BY <1>2, <3>1, CallsAre
    <3>3. Forked(p, n - 1)
      BY <1>2, <3>1 DEF Forked
    <3>4. /\ c.begin <= c.end /\ ~IsSmall(c)
          /\ Top(p).begin = Mid(c) /\ Top(p).end = c.end
      BY <1>2, <1>3, <3>1, <3>3 DEF Nested
    <3>5. c.begin < c.end
      BY <1>5, <3>2, <3>4 DEF Frame, IsSmall
    <3>6. Mid(c) < c.end
      BY <3>2, <3>4, <3>5, MidBetween
    <3> QED
      BY <3>4, <3>6
  <2> QED
    BY <2>1, <2>2
<1>8. CASE pc[p] = "wait"
  <2>1. Region(p) = Mid(Top(p)) .. Top(p).end - 1
    BY <1>1, <1>8 DEF Region
  <2>2. Mid(Top(p)) \in Nat /\ Mid(Top(p)) < Top(p).end
    BY <1>3, <1>6, <1>7, MidBetween
  <2>3. Mid(Top(p)) \in Region(p)
    BY <1>5, <2>1, <2>2
  <2> QED
    BY <1>5, <1>6, <2>1, <2>2, <2>3
<1>9. CASE pc[p] # "wait"
  <2>1. Region(p) = Top(p).begin .. Top(p).end - 1
    BY <1>1, <1>9 DEF Region, Span
  <2>2. Top(p).begin \in Region(p)
    BY <1>5, <1>7, <2>1
  <2> QED
    BY <1>5, <1>6, <2>1, <2>2
<1> QED
  BY <1>8, <1>9

\* The exit code of the program is honest, whatever fails in whichever process
\* of the tree: with 0 every process it forked has succeeded and was waited for,
\* otherwise something failed.
THEOREM HonestExit == Spec => []ExitIsHonest
<1>1. ASSUME IInv, status[Root] = "zombie", code[Root] = 0
      PROVE  /\ \A p \in Pids \ {Root} :
                  status[p] = "unused" \/ (status[p] = "reaped" /\ code[p] = 0)
             /\ threshold > 0 \/ N = 0
  <2> USE DEF IInv
  <2>1. pc[Root] = "return" /\ Len(stack[Root]) = 1 /\ stack[Root] # <<>>
    BY <1>1, SizeAssumption DEF DoneAtZero, Started
  <2>2. Top(Root).begin = 0 /\ Top(Root).end = N
    BY <1>1, <2>1 DEF Top, Started
  <2>3. Holds(Root) /\ Region(Root) = 0 .. N - 1
    BY <1>1, <2>1, <2>2 DEF Holds, Region, Span
  <2>4. threshold \in Nat
    BY <1>1 DEF Types
  <2>5. CASE threshold = 0
    <3>1. N = 0
      BY <1>1, <2>1, <2>2, <2>5, SizeAssumption DEF NeverSmall
    <3> QED
      BY <1>1, <3>1 DEF Within
  <2>6. CASE threshold > 0
    <3>1. ASSUME NEW p \in Pids \ {Root} PROVE ~Holds(p)
      <4> SUFFICES ASSUME Holds(p) PROVE FALSE
        OBVIOUS
      <4>1. Region(p) # {} /\ Region(p) \subseteq 0 .. N - 1
        BY <1>1, <2>6, RegionsNotEmpty
      <4>2. Region(p) \cap Region(Root) = {}
        BY <1>1, <2>3, SizeAssumption DEF RegionsDisjoint
      <4> QED
        BY <2>3, <4>1, <4>2
    <3> QED
      BY <2>6, <3>1 DEF Holds
  <2> QED
    BY <2>4, <2>5, <2>6
<1>2. IInv => ExitIsHonest
  BY <1>1, SizeAssumption DEF ExitIsHonest, IInv, Reasons
<1> QED
  BY Invariant, <1>2, PTL

------------------------------------------------------------------------------
(* Counting elements *)

LEMMA PartIsFinite ==
  ASSUME NEW a \in Int, NEW b \in Int, NEW S, S \subseteq a .. b
  PROVE  IsFiniteSet(S) /\ Cardinality(S) \in Nat
<1>1. IsFiniteSet(a .. b)
  BY FS_Interval
<1>2. IsFiniteSet(S)
  BY <1>1, FS_Subset
<1> QED
  BY <1>2, FS_CardinalityType

LEMMA CountIs ==
  ASSUME NEW a \in Int, NEW b \in Int, NEW f, NEW v
  PROVE  Count(f, a .. b, v) \in Nat
<1> DEFINE S == {k \in a .. b : f[k] = v}
<1>1. S \subseteq a .. b
  OBVIOUS
<1> HIDE DEF S
<1>2. Cardinality(S) \in Nat
  BY <1>1, PartIsFinite
<1> QED
  BY <1>2 DEF Count, S

LEMMA CountNone == ASSUME NEW f, NEW v PROVE Count(f, {}, v) = 0
<1>1. {k \in {} : f[k] = v} = {}
  OBVIOUS
<1> QED
  BY <1>1, FS_EmptySet DEF Count

\* One more element.
LEMMA CountAdds ==
  ASSUME NEW a \in Int, NEW b \in Int, a <= b, NEW f, NEW v
  PROVE  Count(f, a .. b, v) = Count(f, a .. b - 1, v) + (IF f[b] = v THEN 1 ELSE 0)
<1> DEFINE S == {k \in a .. b - 1 : f[k] = v}
           T == {k \in a .. b : f[k] = v}
<1>0. b - 1 \in Int /\ S \subseteq a .. b - 1
  OBVIOUS
<1>1. IsFiniteSet(S) /\ Cardinality(S) \in Nat
  <2> HIDE DEF S
  <2> QED
    BY <1>0, PartIsFinite
<1>2. b \notin S
  OBVIOUS
<1>3. CASE f[b] = v
  <2>1. T = S \cup {b}
    BY <1>3
  <2> HIDE DEF S, T
  <2>2. Cardinality(T) = Cardinality(S) + 1
    BY <1>1, <1>2, <2>1, FS_AddElement
  <2> QED
    BY <1>3, <2>2 DEF Count, S, T
<1>4. CASE f[b] # v
  <2>1. T = S
    BY <1>4
  <2> QED
    BY <1>1, <1>4, <2>1 DEF Count
<1> QED
  BY <1>3, <1>4

\* Two neighbouring ranges.
LEMMA CountJoins ==
  ASSUME NEW a \in Int, NEW b \in Int, NEW c \in Int, a <= b, b <= c, NEW f, NEW v
  PROVE  Count(f, a .. c - 1, v) = Count(f, a .. b - 1, v) + Count(f, b .. c - 1, v)
<1> DEFINE S == {k \in a .. b - 1 : f[k] = v}
           T == {k \in b .. c - 1 : f[k] = v}
           U == {k \in a .. c - 1 : f[k] = v}
<1>0. b - 1 \in Int /\ c - 1 \in Int /\ S \subseteq a .. b - 1 /\ T \subseteq b .. c - 1
  OBVIOUS
<1>1. IsFiniteSet(S) /\ IsFiniteSet(T) /\ Cardinality(S) \in Nat /\ Cardinality(T) \in Nat
  <2> HIDE DEF S, T
  <2> QED
    BY <1>0, PartIsFinite
<1>2. U = S \cup T /\ S \cap T = {}
  OBVIOUS
<1> HIDE DEF S, T, U
<1>3. Cardinality(U) = Cardinality(S) + Cardinality(T) - Cardinality({})
  BY <1>1, <1>2, FS_Union
<1>4. Cardinality(U) = Cardinality(S) + Cardinality(T)
  BY <1>1, <1>3, FS_EmptySet
<1> QED
  BY <1>4 DEF Count, S, T, U

Agree(f, g, S) == \A k \in S : f[k] = g[k]

LEMMA CountSame ==
  ASSUME NEW S, NEW f, NEW g, Agree(f, g, S), NEW v
  PROVE  Count(f, S, v) = Count(g, S, v)
<1>1. {k \in S : f[k] = v} = {k \in S : g[k] = v}
  BY DEF Agree
<1> QED
  BY <1>1 DEF Count

\* The same elements at other places.
Moved(f, t, b, n) == \A k \in b .. b + n - 1 : f[k] = t[k - b + 1]

LEMMA CountMoves ==
  ASSUME NEW b \in Int, NEW n \in Nat, NEW f, NEW t, Moved(f, t, b, n), NEW v
  PROVE  Count(f, b .. b + n - 1, v) = Count(t, 1 .. n, v)
<1> DEFINE S == {k \in b .. b + n - 1 : f[k] = v}
           T == {k \in 1 .. n : t[k] = v}
           h == [k \in S |-> k - b + 1]
<1>0. b + n - 1 \in Int /\ S \subseteq b .. b + n - 1
  OBVIOUS
<1>1. IsFiniteSet(S)
  <2> HIDE DEF S
  <2> QED
    BY <1>0, PartIsFinite
<1>2. h \in [S -> T]
  BY DEF Moved
<1>3. \A x, y \in S : h[x] = h[y] => x = y
  OBVIOUS
<1>4. \A y \in T : \E x \in S : h[x] = y
  <2> SUFFICES ASSUME NEW y \in T PROVE \E x \in S : h[x] = y
    OBVIOUS
  <2>1. y + b - 1 \in b .. b + n - 1 /\ (y + b - 1) - b + 1 = y
    OBVIOUS
  <2>2. y + b - 1 \in S
    BY <2>1 DEF Moved
  <2>3. h[y + b - 1] = y
    BY <2>2
  <2> QED
    BY <2>2, <2>3
<1> HIDE DEF S, T, h
<1>5. h \in Bijection(S, T)
  BY <1>2, <1>3, <1>4 DEF Bijection, Injection, Surjection, IsInjective
<1>6. Cardinality(T) = Cardinality(S)
  BY <1>1, <1>5, FS_Bijection DEF ExistsBijection
<1> QED
  BY <1>6 DEF Count, S, T

------------------------------------------------------------------------------
(* Merging *)

LEMMA LeastNat ==
  ASSUME NEW T, T \subseteq Nat, T # {}
  PROVE  \E n \in T : \A m \in T : n <= m
<1> DEFINE R == OpToRel(<, Nat)
<1>1. IsWellFoundedOn(R, Nat)
  BY NatLessThanWellFounded
<1>2. \A x, y \in Nat : <<x, y>> \in R <=> x < y
  BY DEF OpToRel
<1> HIDE DEF R
<1>3. PICK n \in T : \A m \in T : ~(<<m, n>> \in R)
  BY <1>1, WFMin
<1>4. n \in Nat /\ \A m \in T : m \in Nat
  BY <1>3
<1>5. \A m \in T : ~(m < n)
  BY <1>2, <1>3, <1>4
<1> QED
  BY <1>3, <1>4, <1>5

LEMMA SetInduction ==
  ASSUME NEW S, 0 \in S, \A n \in Nat : n \in S => n + 1 \in S
  PROVE  \A n \in Nat : n \in S
<1> SUFFICES ASSUME Nat \ S # {} PROVE FALSE
  OBVIOUS
<1>1. PICK n \in Nat \ S : \A m \in Nat \ S : n <= m
  BY LeastNat
<1>2. n # 0 /\ n - 1 \in Nat /\ (n - 1) + 1 = n /\ ~(n <= n - 1)
  BY <1>1
<1>3. n - 1 \in S
  BY <1>1, <1>2
<1> QED
  BY <1>1, <1>2, <1>3

\* f begins with z and goes on with the steps g up to n.
Recursion(f, V, z, g, n) ==
  /\ f \in [0 .. n -> V]
  /\ f[0] = z
  /\ \A k \in 1 .. n : f[k] = g[k - 1][f[k - 1]]

\* A recursive function exists, whatever it computes.
LEMMA RecursionExists ==
  ASSUME NEW V, NEW z \in V, NEW last \in Nat, NEW g \in [0 .. last - 1 -> [V -> V]]
  PROVE  \E f : Recursion(f, V, z, g, last)
<1> DEFINE S == {m \in Nat : m <= last => \E f : Recursion(f, V, z, g, m)}
<1>1. 0 \in S
  <2>1. Recursion([k \in 0 .. 0 |-> z], V, z, g, 0)
    BY DEF Recursion
  <2> QED
    BY <2>1
<1>2. ASSUME NEW m \in Nat, m \in S PROVE m + 1 \in S
  <2> SUFFICES ASSUME m + 1 <= last PROVE \E f : Recursion(f, V, z, g, m + 1)
    OBVIOUS
  <2>1. PICK f : Recursion(f, V, z, g, m)
    BY <1>2
  <2> DEFINE h == [k \in 0 .. m + 1 |-> IF k = m + 1 THEN g[m][f[m]] ELSE f[k]]
  <2>2. m \in 0 .. last - 1 /\ f[m] \in V
    BY <2>1 DEF Recursion
  <2>3. g[m][f[m]] \in V
    BY <2>2
  <2>4. \A k \in 0 .. m : f[k] \in V
    BY <2>1 DEF Recursion
  <2>5. h \in [0 .. m + 1 -> V]
    BY <2>3, <2>4
  <2>6. h[0] = z
    BY <2>1 DEF Recursion
  <2>7. ASSUME NEW k \in 1 .. m + 1 PROVE h[k] = g[k - 1][h[k - 1]]
    <3>1. k \in 0 .. m + 1 /\ k - 1 \in 0 .. m + 1 /\ k - 1 # m + 1
      OBVIOUS
    <3>2. h[k - 1] = f[k - 1]
      BY <3>1
    <3>3. CASE k = m + 1
      BY <3>1, <3>2, <3>3
    <3>4. CASE k # m + 1
      <4>1. k \in 1 .. m
        BY <3>4
      <4>2. f[k] = g[k - 1][f[k - 1]]
        BY <2>1, <4>1 DEF Recursion
      <4>3. h[k] = f[k]
        BY <3>1, <3>4
      <4> QED
        BY <3>2, <4>2, <4>3
    <3> QED
      BY <3>3, <3>4
  <2>8. Recursion(h, V, z, g, m + 1)
    BY <2>5, <2>6, <2>7 DEF Recursion
  <2> QED
    BY <2>8
<1>3. last \in S
  <2> HIDE DEF S
  <2> QED
    BY <1>1, <1>2, SetInduction
<1> QED
  BY <1>3

LEMMA CountGrows ==
  ASSUME NEW n \in Nat, NEW d, NEW t, Agree(t, d, 1 .. n), NEW v
  PROVE  Count(t, 1 .. n + 1, v) = Count(d, 1 .. n, v) + (IF t[n + 1] = v THEN 1 ELSE 0)
<1>1. PICK k \in Nat : k = n + 1
  OBVIOUS
<1>2. Count(t, 1 .. k, v) = Count(t, 1 .. k - 1, v) + (IF t[k] = v THEN 1 ELSE 0)
  BY <1>1, CountAdds
<1>3. Count(t, 1 .. n, v) = Count(d, 1 .. n, v)
  BY CountSame
<1> QED
  BY <1>1, <1>2, <1>3

NoneAbove(d, n, x) == \A j \in 1 .. n : d[j] <= x

\* t is d and behind it x, in order.
Longer(d, n, x, t) ==
  /\ t \in Seq(Values) /\ Len(t) = n + 1
  /\ \A j \in 1 .. n : t[j] = d[j]
  /\ t[n + 1] = x
  /\ Sorted(t, 1 .. n + 1)
  /\ \A v : Count(t, 1 .. n + 1, v) = Count(d, 1 .. n, v) + (IF x = v THEN 1 ELSE 0)

\* One more element behind a sorted sequence.
LEMMA StillSorted ==
  ASSUME NEW n \in Nat, NEW d \in Seq(Values), Len(d) = n, Sorted(d, 1 .. n),
         NEW x \in Values, NoneAbove(d, n, x)
  PROVE  Longer(d, n, x, Append(d, x))
<1> DEFINE t == Append(d, x)
<1>1. t \in Seq(Values) /\ Len(t) = n + 1
  OBVIOUS
<1>2. \A j \in 1 .. n : t[j] = d[j]
  OBVIOUS
<1>3. t[n + 1] = x
  OBVIOUS
<1> HIDE DEF t
<1>4. Sorted(t, 1 .. n + 1)
  <2> SUFFICES ASSUME NEW j \in 1 .. n + 1, NEW k \in 1 .. n + 1, j < k
               PROVE  t[j] <= t[k]
    BY DEF Sorted
  <2>1. j \in 1 .. n /\ t[j] = d[j]
    BY <1>2
  <2>2. CASE k \in 1 .. n
    BY <2>1, <2>2, <1>2 DEF Sorted
  <2>3. CASE k \notin 1 .. n
    <3>1. k = n + 1
      BY <2>3
    <3> QED
      BY <2>1, <3>1, <1>3 DEF NoneAbove
  <2> QED
    BY <2>2, <2>3
<1>5. \A v : Count(t, 1 .. n + 1, v) = Count(d, 1 .. n, v) + (IF x = v THEN 1 ELSE 0)
  <2>1. Agree(t, d, 1 .. n)
    BY <1>2 DEF Agree
  <2> QED
    BY <1>3, <2>1, CountGrows
<1> QED
  BY <1>1, <1>2, <1>3, <1>4, <1>5, Zenon DEF Longer, t

\* The loop's state after n turns: dst is a merge of what is before left and
\* right, and nothing in it is greater than what is still to come.
MergedTo(a, b, m, e, n, s) ==
  /\ s \in [left : b .. m, right : m .. e, dst : Seq(Values)]
  /\ s.left + s.right = b + m + n
  /\ Len(s.dst) = n /\ Sorted(s.dst, 1 .. n)
  /\ \A j \in 1 .. n :
       /\ \A k \in s.left .. m - 1 : s.dst[j] <= a[k]
       /\ \A k \in s.right .. e - 1 : s.dst[j] <= a[k]
  /\ \A v : Count(s.dst, 1 .. n, v)
              = Count(a, b .. s.left - 1, v) + Count(a, m .. s.right - 1, v)

\* Two halves of arr that merge() is called on.
Halves(a, b, m, e) ==
  /\ a \in [Index -> Values]
  /\ b \in Nat /\ m \in Nat /\ e \in Nat /\ b <= m /\ m <= e /\ e <= N
  /\ Sorted(a, b .. m - 1) /\ Sorted(a, m .. e - 1)

LEMMA LeftTaken ==
  ASSUME NEW a, NEW b, NEW m, NEW e, Halves(a, b, m, e), NEW n \in 0 .. e - b - 1,
         NEW s, MergedTo(a, b, m, e, n, s),
         s.left < m, s.right = e \/ a[s.left] <= a[s.right]
  PROVE  MergedTo(a, b, m, e, n + 1, FromLeft(a, s))
<1> DEFINE x == a[s.left]
           t == FromLeft(a, s)
<1>1. /\ b \in Nat /\ m \in Nat /\ e \in Nat /\ N \in Nat /\ n \in Nat
      /\ b <= m /\ m <= e /\ e <= N
      /\ s.left \in b .. m /\ s.right \in m .. e /\ s.dst \in Seq(Values)
  BY SizeAssumption DEF Halves, MergedTo
<1>2. \A k \in b .. e - 1 : k \in Index /\ a[k] \in Values /\ a[k] \in Int
  <2>1. \A k \in b .. e - 1 : k \in Index
    BY <1>1 DEF Index
  <2>2. a \in [Index -> Values] /\ Values \subseteq Int
    BY SizeAssumption DEF Halves
  <2> QED
    BY <2>1, <2>2
<1>3. s.left \in b .. e - 1 /\ x \in Values /\ s.left \in s.left .. m - 1
  BY <1>1, <1>2
<1>4. NoneAbove(s.dst, n, x)
  BY <1>3 DEF MergedTo, NoneAbove
<1>5. /\ t.left = s.left + 1 /\ t.right = s.right /\ t.dst = Append(s.dst, x)
      /\ t.dst \in Seq(Values)
      /\ t \in [left : b .. m, right : m .. e, dst : Seq(Values)]
  <2>1. Append(s.dst, x) \in Seq(Values)
    BY <1>1, <1>3
  <2>2. s.left + 1 \in b .. m
    BY <1>1
  <2> QED
    BY <1>1, <2>1, <2>2 DEF FromLeft, MergedTo
<1> HIDE DEF x, t
<1>6. /\ Len(t.dst) = n + 1 /\ \A j \in 1 .. n : t.dst[j] = s.dst[j]
      /\ t.dst[n + 1] = x /\ Sorted(t.dst, 1 .. n + 1)
      /\ \A v : Count(t.dst, 1 .. n + 1, v)
                  = Count(s.dst, 1 .. n, v) + (IF x = v THEN 1 ELSE 0)
  <2>1. Len(s.dst) = n /\ Sorted(s.dst, 1 .. n)
    BY DEF MergedTo
  <2>2. Longer(s.dst, n, x, t.dst)
    BY <1>1, <1>3, <1>4, <1>5, <2>1, StillSorted
  <2> QED
    BY <2>2 DEF Longer
<1>7. \A k \in t.left .. m - 1 : x <= a[k]
  BY <1>1, <1>5 DEF Halves, Sorted, x
<1>8. \A k \in t.right .. e - 1 : x <= a[k]
  <2> SUFFICES ASSUME NEW k \in s.right .. e - 1 PROVE x <= a[k]
    BY <1>5
  <2>1. s.right # e /\ s.right \in m .. e - 1 /\ k \in m .. e - 1
    BY <1>1
  <2>2. x <= a[s.right]
    BY <2>1 DEF x
  <2>3. a[s.right] <= a[k]
    <3>1. CASE k = s.right
      BY <3>1, <2>1, <1>1, <1>2
    <3>2. CASE k # s.right
      BY <3>2, <2>1, <1>1 DEF Halves, Sorted
    <3> QED
      BY <3>1, <3>2
  <2>4. a[s.right] \in Int /\ a[k] \in Int /\ x \in Int
    BY <1>1, <1>2, <1>3, <2>1, SizeAssumption
  <2> QED
    BY <2>2, <2>3, <2>4
<1>9. ASSUME NEW j \in 1 .. n + 1
      PROVE  /\ \A k \in t.left .. m - 1 : t.dst[j] <= a[k]
             /\ \A k \in t.right .. e - 1 : t.dst[j] <= a[k]
  <2>1. CASE j = n + 1
    BY <2>1, <1>6, <1>7, <1>8
  <2>2. CASE j # n + 1
    <3>1. j \in 1 .. n
      BY <2>2, <1>1
    <3>2. t.dst[j] = s.dst[j]
      BY <3>1, <1>6
    <3>3. t.left .. m - 1 \subseteq s.left .. m - 1
      BY <1>1, <1>5
    <3> QED
      BY <3>1, <3>2, <3>3, <1>5 DEF MergedTo
  <2> QED
    BY <2>1, <2>2
<1>10. ASSUME NEW v
       PROVE  Count(t.dst, 1 .. n + 1, v)
                = Count(a, b .. t.left - 1, v) + Count(a, m .. t.right - 1, v)
  <2>1. Count(a, b .. s.left, v)
          = Count(a, b .. s.left - 1, v) + (IF x = v THEN 1 ELSE 0)
    BY <1>1, CountAdds DEF x
  <2>2. t.left - 1 = s.left
    BY <1>1, <1>5
  <2>3. Count(s.dst, 1 .. n, v)
          = Count(a, b .. s.left - 1, v) + Count(a, m .. s.right - 1, v)
    BY DEF MergedTo
  <2>4. /\ Count(a, b .. s.left - 1, v) \in Nat /\ Count(a, m .. s.right - 1, v) \in Nat
    BY <1>1, CountIs
  <2> QED
    BY <1>5, <1>6, <2>1, <2>2, <2>3, <2>4
<1>11. t.left + t.right = b + m + (n + 1)
  BY <1>1, <1>5 DEF MergedTo
<1>12. MergedTo(a, b, m, e, n + 1, t)
  BY <1>5, <1>6, <1>9, <1>10, <1>11 DEF MergedTo
<1> QED
  BY <1>12 DEF t

LEMMA RightTaken ==
  ASSUME NEW a, NEW b, NEW m, NEW e, Halves(a, b, m, e), NEW n \in 0 .. e - b - 1,
         NEW s, MergedTo(a, b, m, e, n, s),
         ~(s.left < m /\ (s.right = e \/ a[s.left] <= a[s.right]))
  PROVE  MergedTo(a, b, m, e, n + 1, FromRight(a, s))
<1> DEFINE x == a[s.right]
           t == FromRight(a, s)
<1>1. /\ b \in Nat /\ m \in Nat /\ e \in Nat /\ N \in Nat /\ n \in Nat
      /\ b <= m /\ m <= e /\ e <= N
      /\ s.left \in b .. m /\ s.right \in m .. e /\ s.dst \in Seq(Values)
      /\ s.left + s.right = b + m + n
  BY SizeAssumption DEF Halves, MergedTo
<1>2. \A k \in b .. e - 1 : k \in Index /\ a[k] \in Values /\ a[k] \in Int
  <2>1. \A k \in b .. e - 1 : k \in Index
    BY <1>1 DEF Index
  <2>2. a \in [Index -> Values] /\ Values \subseteq Int
    BY SizeAssumption DEF Halves
  <2> QED
    BY <2>1, <2>2
\* One of the halves is not used up.
<1>3. s.right < e
  <2>1. s.left = m => s.right < e
    BY <1>1
  <2> QED
    BY <1>1, <2>1
<1>4. s.right \in b .. e - 1 /\ x \in Values /\ s.right \in s.right .. e - 1
  BY <1>1, <1>2, <1>3
<1>5. NoneAbove(s.dst, n, x)
  BY <1>4 DEF MergedTo, NoneAbove
<1>6. /\ t.left = s.left /\ t.right = s.right + 1 /\ t.dst = Append(s.dst, x)
      /\ t.dst \in Seq(Values)
      /\ t \in [left : b .. m, right : m .. e, dst : Seq(Values)]
  <2>1. Append(s.dst, x) \in Seq(Values)
    BY <1>1, <1>4
  <2>2. s.right + 1 \in m .. e
    BY <1>1, <1>3
  <2> QED
    BY <1>1, <2>1, <2>2 DEF FromRight, MergedTo
<1> HIDE DEF x, t
<1>7. /\ Len(t.dst) = n + 1 /\ \A j \in 1 .. n : t.dst[j] = s.dst[j]
      /\ t.dst[n + 1] = x /\ Sorted(t.dst, 1 .. n + 1)
      /\ \A v : Count(t.dst, 1 .. n + 1, v)
                  = Count(s.dst, 1 .. n, v) + (IF x = v THEN 1 ELSE 0)
  <2>1. Len(s.dst) = n /\ Sorted(s.dst, 1 .. n)
    BY DEF MergedTo
  <2>2. Longer(s.dst, n, x, t.dst)
    BY <1>1, <1>4, <1>5, <1>6, <2>1, StillSorted
  <2> QED
    BY <2>2 DEF Longer
<1>8. \A k \in t.right .. e - 1 : x <= a[k]
  BY <1>1, <1>6 DEF Halves, Sorted, x
<1>9. \A k \in t.left .. m - 1 : x <= a[k]
  <2> SUFFICES ASSUME NEW k \in s.left .. m - 1 PROVE x <= a[k]
    BY <1>6
  <2>1. s.left \in b .. m - 1 /\ k \in b .. m - 1 /\ s.left < m
    BY <1>1
  <2>2. a[s.left] \in Int /\ a[k] \in Int /\ x \in Int
    <3>1. s.left \in b .. e - 1 /\ k \in b .. e - 1
      BY <1>1, <2>1
    <3>2. x \in Int
      BY <1>4, SizeAssumption
    <3> QED
      BY <1>2, <3>1, <3>2, Zenon
  <2>3. x <= a[s.left]
    BY <2>1, <2>2 DEF x
  <2>4. a[s.left] <= a[k]
    <3>1. CASE k = s.left
      BY <3>1, <2>2
    <3>2. CASE k # s.left
      <4>1. s.left < k
        BY <2>1, <3>2
      <4>2. Sorted(a, b .. m - 1)
        BY DEF Halves
      <4> QED
        BY <2>1, <4>1, <4>2, Zenon DEF Sorted
    <3> QED
      BY <3>1, <3>2
  <2> QED
    BY <2>2, <2>3, <2>4
<1>10. ASSUME NEW j \in 1 .. n + 1
       PROVE  /\ \A k \in t.left .. m - 1 : t.dst[j] <= a[k]
              /\ \A k \in t.right .. e - 1 : t.dst[j] <= a[k]
  <2>1. CASE j = n + 1
    BY <2>1, <1>7, <1>8, <1>9
  <2>2. CASE j # n + 1
    <3>1. j \in 1 .. n
      BY <2>2, <1>1
    <3>2. t.dst[j] = s.dst[j]
      BY <3>1, <1>7
    <3>3. t.right .. e - 1 \subseteq s.right .. e - 1
      BY <1>1, <1>6
    <3> QED
      BY <3>1, <3>2, <3>3, <1>6 DEF MergedTo
  <2> QED
    BY <2>1, <2>2
<1>11. ASSUME NEW v
       PROVE  Count(t.dst, 1 .. n + 1, v)
                = Count(a, b .. t.left - 1, v) + Count(a, m .. t.right - 1, v)
  <2>1. Count(a, m .. s.right, v)
          = Count(a, m .. s.right - 1, v) + (IF x = v THEN 1 ELSE 0)
    BY <1>1, CountAdds DEF x
  <2>2. t.right - 1 = s.right
    BY <1>1, <1>6
  <2>3. Count(s.dst, 1 .. n, v)
          = Count(a, b .. s.left - 1, v) + Count(a, m .. s.right - 1, v)
    BY DEF MergedTo
  <2>4. /\ Count(a, b .. s.left - 1, v) \in Nat /\ Count(a, m .. s.right - 1, v) \in Nat
    BY <1>1, CountIs
  <2> QED
    BY <1>6, <1>7, <2>1, <2>2, <2>3, <2>4
<1>12. t.left + t.right = b + m + (n + 1)
  <2>1. s.left \in Int /\ s.right \in Int /\ s.left + s.right = b + m + n
    BY <1>1
  <2>2. s.left + (s.right + 1) = b + m + (n + 1)
    BY <1>1, <2>1
  <2> QED
    BY <1>6, <2>2
<1>13. MergedTo(a, b, m, e, n + 1, t)
  BY <1>6, <1>7, <1>10, <1>11, <1>12 DEF MergedTo
<1> QED
  BY <1>13 DEF t

\* Before the first turn nothing is merged; each turn takes the smaller one.
LEMMA NothingMerged ==
  ASSUME NEW a, NEW b, NEW m, NEW e, Halves(a, b, m, e)
  PROVE  MergedTo(a, b, m, e, 0, [left |-> b, right |-> m, dst |-> <<>>])
<1> DEFINE s == [left |-> b, right |-> m, dst |-> <<>>]
<1>1. b \in Nat /\ m \in Nat /\ e \in Nat /\ b <= m /\ m <= e
  BY DEF Halves
<1>2. b .. b - 1 = {} /\ m .. m - 1 = {} /\ 1 .. 0 = {}
  BY <1>1
<1>3. s.left = b /\ s.right = m /\ s.dst = <<>>
  OBVIOUS
<1>4. s \in [left : b .. m, right : m .. e, dst : Seq(Values)]
  BY <1>1
<1> HIDE DEF s
<1>5. Len(s.dst) = 0 /\ Sorted(s.dst, 1 .. 0)
  BY <1>2, <1>3 DEF Sorted
<1>6. \A v : Count(s.dst, 1 .. 0, v) = Count(a, b .. s.left - 1, v) + Count(a, m .. s.right - 1, v)
  <2>1. \A v : /\ Count(s.dst, 1 .. 0, v) = 0 /\ Count(a, b .. b - 1, v) = 0
               /\ Count(a, m .. m - 1, v) = 0
    BY <1>2, CountNone
  <2> QED
    BY <1>3, <2>1
<1>7. MergedTo(a, b, m, e, 0, s)
  BY <1>1, <1>2, <1>3, <1>4, <1>5, <1>6 DEF MergedTo
<1> QED
  BY <1>7 DEF s

LEMMA TurnTakesOne ==
  ASSUME NEW a, NEW b, NEW m, NEW e, Halves(a, b, m, e), NEW n \in 0 .. e - b - 1,
         NEW s, MergedTo(a, b, m, e, n, s)
  PROVE  MergedTo(a, b, m, e, n + 1, Turn(a, m, e, s))
BY LeftTaken, RightTaken DEF Turn

\* merge() of two sorted halves is a sorted sequence of their elements.
LEMMA MergeIsRight ==
  ASSUME NEW a, NEW b, NEW m, NEW e, Halves(a, b, m, e)
  PROVE  /\ Merged(a, b, m, e) \in Seq(Values)
         /\ Len(Merged(a, b, m, e)) = e - b
         /\ Sorted(Merged(a, b, m, e), 1 .. e - b)
         /\ \A v : Count(Merged(a, b, m, e), 1 .. e - b, v) = Count(a, b .. e - 1, v)
<1> DEFINE D == Seq({a[k] : k \in Nat})
           V == [left : Nat, right : Nat, dst : D]
           z == [left |-> b, right |-> m, dst |-> <<>>]
           g == [n \in 0 .. e - b - 1 |-> [s \in V |-> Turn(a, m, e, s)]]
<1>1. /\ b \in Nat /\ m \in Nat /\ e \in Nat /\ b <= m /\ m <= e /\ e - b \in Nat
      /\ (e - b) - 1 = e - b - 1
  BY DEF Halves
<1>2. z \in V
  BY <1>1
<1>3. \A s \in V : Turn(a, m, e, s) \in V
  <2> SUFFICES ASSUME NEW s \in V PROVE Turn(a, m, e, s) \in V
    OBVIOUS
  <2>1. s.left \in Nat /\ s.right \in Nat /\ s.dst \in Seq({a[k] : k \in Nat})
    OBVIOUS
  <2>2. Append(s.dst, a[s.left]) \in D /\ Append(s.dst, a[s.right]) \in D
    BY <2>1
  <2> HIDE DEF D
  <2>3. s.left + 1 \in Nat /\ s.right + 1 \in Nat
    BY <2>1
  <2>4. FromLeft(a, s) \in V
    BY <2>2, <2>3 DEF FromLeft
  <2>5. FromRight(a, s) \in V
    BY <2>2, <2>3 DEF FromRight
  <2> HIDE DEF V
  <2> QED
    BY <2>4, <2>5 DEF Turn
<1>4. g \in [0 .. e - b - 1 -> [V -> V]]
  <2> HIDE DEF V
  <2> QED
    BY <1>3
<1>5. PICK f : Recursion(f, V, z, g, e - b)
  <2> HIDE DEF V, z, g
  <2> QED
    BY <1>1, <1>2, <1>4, RecursionExists
<1>6. f[0] = z /\ \A n \in 1 .. e - b : f[n] = Turn(a, m, e, f[n - 1])
  <2> HIDE DEF V, z
  <2>1. ASSUME NEW n \in 1 .. e - b PROVE f[n] = Turn(a, m, e, f[n - 1])
    <3>1. n - 1 \in 0 .. e - b - 1 /\ n - 1 \in 0 .. e - b
      BY <1>1
    <3>2. f[n - 1] \in V /\ f[n] = g[n - 1][f[n - 1]]
      BY <1>5, <3>1 DEF Recursion
    <3> QED
      BY <3>1, <3>2
  <2> QED
    BY <1>5, <2>1 DEF Recursion
<1>7. f = [n \in 0 .. e - b |-> IF n = 0 THEN z ELSE Turn(a, m, e, f[n - 1])]
  <2> HIDE DEF V, z, g
  <2>1. f \in [0 .. e - b -> V]
    BY <1>5 DEF Recursion
  <2> QED
    BY <1>1, <1>6, <2>1
<1> DEFINE after == CHOOSE h : h = [n \in 0 .. e - b |->
                                      IF n = 0 THEN z ELSE Turn(a, m, e, h[n - 1])]
<1>8. after = [n \in 0 .. e - b |-> IF n = 0 THEN z ELSE Turn(a, m, e, after[n - 1])]
  BY <1>7, Zenon
<1>9. Merged(a, b, m, e) = after[e - b].dst
  BY DEF Merged
<1> HIDE DEF after, V, g
<1> DEFINE S == {n \in Nat : n <= e - b => MergedTo(a, b, m, e, n, after[n])}
<1>10. 0 \in S
  BY <1>1, <1>8, NothingMerged
<1>11. ASSUME NEW n \in Nat, n \in S PROVE n + 1 \in S
  <2> SUFFICES ASSUME n + 1 <= e - b PROVE MergedTo(a, b, m, e, n + 1, after[n + 1])
    OBVIOUS
  <2>1. n \in 0 .. e - b - 1 /\ n <= e - b
    BY <1>1
  <2>2. MergedTo(a, b, m, e, n, after[n])
    BY <1>11, <2>1
  <2>3. n + 1 \in 0 .. e - b /\ n + 1 # 0 /\ (n + 1) - 1 = n
    BY <2>1, <1>1
  <2>4. after[n + 1] = Turn(a, m, e, after[n])
    BY <1>8, <2>3
  <2> QED
    BY <2>1, <2>2, <2>4, TurnTakesOne
<1>12. e - b \in S
  <2> HIDE DEF S
  <2> QED
    BY <1>1, <1>10, <1>11, SetInduction
<1>13. PICK s : s = after[e - b] /\ MergedTo(a, b, m, e, e - b, s)
  BY <1>1, <1>12
<1>14. s.left = m /\ s.right = e
  BY <1>1, <1>13 DEF MergedTo
<1>15. \A v : Count(s.dst, 1 .. e - b, v) = Count(a, b .. e - 1, v)
  <2>1. \A v : Count(a, b .. e - 1, v) = Count(a, b .. m - 1, v) + Count(a, m .. e - 1, v)
    BY <1>1, CountJoins
  <2> QED
    BY <1>13, <1>14, <2>1 DEF MergedTo
<1>16. s.dst \in Seq(Values) /\ Len(s.dst) = e - b /\ Sorted(s.dst, 1 .. e - b)
  BY <1>13 DEF MergedTo
<1> QED
  BY <1>9, <1>13, <1>15, <1>16

------------------------------------------------------------------------------
(* What the file holds *)

\* Processes whose region will be read as theirs: those that run, and those that
\* have succeeded and are not waited for yet.
Alive(p) == status[p] = "live" \/ (status[p] = "zombie" /\ code[p] = 0)

Done(S) == Sorted(arr, S) /\ SameElements(arr, input, S)

IsMergeOf(t, c) ==
  /\ Len(t) = c.end - c.begin
  /\ Sorted(t, 1 .. c.end - c.begin)
  /\ \A v \in Values :
       Count(t, 1 .. c.end - c.begin, v) = Count(input, c.begin .. c.end - 1, v)

\* A region is what it was before its call, sorted after it; in between both
\* halves are, and while they are copied back the elements are in temparr.
Content(p) ==
  LET c == Top(p)
  IN  /\ pc[p] \in {"main", "call"} => Agree(arr, input, Region(p))
      /\ pc[p] \in {"wait", "return"} => Done(Region(p))
      /\ pc[p] = "merge" => Done(c.begin .. Mid(c) - 1) /\ Done(Mid(c) .. c.end - 1)
      /\ pc[p] = "copy" =>
           /\ IsMergeOf(temparr[p], c)
           /\ c.begin <= i[p] /\ i[p] <= c.end
           /\ \A k \in c.begin .. i[p] - 1 : arr[k] = temparr[p][k - c.begin + 1]

Contents ==
  /\ arr \in [Index -> Values] /\ input \in [Index -> Values]
  /\ temparr \in [Pids -> Seq(Values)] /\ i \in [Pids -> Nat]
  /\ \A p \in Pids : Alive(p) => Content(p)

\* The call that a process is in.
LEMMA InACall ==
  ASSUME IInv, NEW p \in Pids, stack[p] # <<>>
  PROVE  /\ Top(p) \in Frame /\ Top(p).begin \in Nat /\ Top(p).end \in Nat /\ N \in Nat
         /\ Top(p).begin <= Top(p).end /\ Top(p).end <= N
         /\ Mid(Top(p)) \in Nat /\ Top(p).begin <= Mid(Top(p)) /\ Mid(Top(p)) <= Top(p).end
         /\ Span(p) = Top(p).begin .. Top(p).end - 1
<1> USE DEF IInv
<1>1. PICK n \in Nat : n = Len(stack[p])
  BY TopIsFrame
<1>2. n >= 1 /\ Top(p) \in Frame /\ Top(p) = stack[p][n]
  BY <1>1, TopIsFrame
<1>3. n \in 1 .. n
  BY <1>2
<1>4. Top(p).begin \in Nat /\ Top(p).end \in Nat /\ N \in Nat
  BY <1>2, SizeAssumption DEF Frame
<1>5. Top(p).begin <= Top(p).end /\ Top(p).end <= N
  BY <1>1, <1>2, <1>3 DEF Nested, Within
<1> QED
  BY <1>2, <1>4, <1>5, MidBetween DEF Span

LEMMA RegionInFile == ASSUME IInv, NEW p \in Pids PROVE Region(p) \subseteq Index
<1>1. CASE stack[p] = <<>>
  BY <1>1 DEF Region, Index
<1>2. CASE stack[p] # <<>>
  <2> DEFINE b == Top(p).begin
             m == Mid(Top(p))
             e == Top(p).end
  <2>1. b \in Nat /\ e \in Nat /\ N \in Nat /\ b <= e /\ e <= N /\ m \in Nat
        /\ Span(p) = b .. e - 1
    BY <1>2, InACall
  <2>2. Region(p) = b .. e - 1 \/ Region(p) = m .. e - 1
    BY <1>2, <2>1 DEF Region
  <2> HIDE DEF b, m, e
  <2>3. b .. e - 1 \subseteq 0 .. N - 1 /\ m .. e - 1 \subseteq 0 .. N - 1
    BY <2>1
  <2> QED
    BY <2>2, <2>3 DEF Index
<1> QED
  BY <1>1, <1>2

\* In a call that nobody is waited for in, the region is the call's range.
LEMMA RegionIsSpan ==
  ASSUME IInv, NEW p \in Pids, pc[p] \notin {"main", "wait"}
  PROVE  Region(p) = Span(p) /\ stack[p] # <<>>
BY DEF Region, IInv, Started

\* What a region holds depends on its elements only.
LEMMA DoneAgain ==
  ASSUME NEW S, Done(S), Agree(arr', arr, S), input' = input
  PROVE  Done(S)'
<1>1. Sorted(arr', S)
  BY DEF Done, Sorted, Agree
<1>2. \A v \in Values : Count(arr', S, v) = Count(arr, S, v)
  BY CountSame
<1> QED
  BY <1>1, <1>2 DEF Done, SameElements

Untouched(q) ==
  /\ stack'[q] = stack[q] /\ pc'[q] = pc[q]
  /\ temparr'[q] = temparr[q] /\ i'[q] = i[q] /\ input' = input

LEMMA ContentKept ==
  ASSUME IInv, NEW q \in Pids, Content(q), i[q] \in Nat, Untouched(q),
         Agree(arr', arr, Region(q))
  PROVE  Content(q)'
<1>1. Region(q)' = Region(q) /\ Top(q)' = Top(q)
  BY RegionKept DEF Top, Untouched
<1>2. /\ stack'[q] = stack[q] /\ pc'[q] = pc[q]
      /\ temparr'[q] = temparr[q] /\ i'[q] = i[q] /\ input' = input
  BY DEF Untouched
<1> DEFINE c == Top(q)
<1>3. pc[q] \in {"main", "call"} => Agree(arr', input', Region(q))
  BY <1>2 DEF Content, Agree
<1>4. pc[q] \in {"wait", "return"} => Done(Region(q))'
  <2> SUFFICES ASSUME pc[q] \in {"wait", "return"} PROVE Done(Region(q))'
    OBVIOUS
  <2>1. PICK S : S = Region(q)
    OBVIOUS
  <2>2. Done(S) /\ Agree(arr', arr, S)
    BY <2>1 DEF Content
  <2>3. Done(S)'
    BY <1>2, <2>2, DoneAgain
  <2> QED
    BY <1>1, <2>1, <2>3 DEF Done
<1>5. pc[q] = "merge" => Done(c.begin .. Mid(c) - 1)' /\ Done(Mid(c) .. c.end - 1)'
  <2> SUFFICES ASSUME pc[q] = "merge"
               PROVE  Done(c.begin .. Mid(c) - 1)' /\ Done(Mid(c) .. c.end - 1)'
    OBVIOUS
  <2>1. Region(q) = Span(q) /\ stack[q] # <<>>
    BY RegionIsSpan
  <2>2. PICK S, T : S = c.begin .. Mid(c) - 1 /\ T = Mid(c) .. c.end - 1
    OBVIOUS
  <2>3. S \subseteq Region(q) /\ T \subseteq Region(q)
    BY <2>1, <2>2, InACall
  <2>4. Done(S) /\ Agree(arr', arr, S) /\ Done(T) /\ Agree(arr', arr, T)
    BY <2>2, <2>3 DEF Content, Agree
  <2>5. Done(S)' /\ Done(T)'
    BY <1>2, <2>4, DoneAgain
  <2> QED
    BY <1>1, <2>2, <2>5 DEF Done, Mid
<1>6. ASSUME pc[q] = "copy"
      PROVE  /\ IsMergeOf(temparr[q], c)'
             /\ c.begin <= i[q] /\ i[q] <= c.end
             /\ \A k \in c.begin .. i[q] - 1 : arr'[k] = temparr[q][k - c.begin + 1]
  <2>1. Region(q) = Span(q) /\ stack[q] # <<>>
    BY <1>6, RegionIsSpan
  <2>2. c.begin <= i[q] /\ i[q] <= c.end
        /\ \A k \in c.begin .. i[q] - 1 : arr[k] = temparr[q][k - c.begin + 1]
    BY <1>6 DEF Content
  <2>3. \A k \in c.begin .. i[q] - 1 : k \in Region(q)
    BY <2>1, <2>2, InACall
  <2>4. IsMergeOf(temparr[q], c)'
    BY <1>1, <1>2, <1>6 DEF Content, IsMergeOf
  <2> QED
    BY <2>2, <2>3, <2>4 DEF Agree
<1> QED
  BY <1>1, <1>2, <1>3, <1>4, <1>5, <1>6 DEF Content, Mid

\* A process writes in its own region only, so the others find theirs again.
LEMMA OthersKeep ==
  ASSUME IInv, Contents, NEW p \in Pids, status[p] = "live",
         Agree(arr', arr, Index \ Region(p)),
         NEW q \in Pids, q # p, Alive(q), Untouched(q)
  PROVE  Content(q)'
<1>1. Region(p) \cap Region(q) = {}
  BY DEF IInv, RegionsDisjoint, Holds, Alive
<1>2. Agree(arr', arr, Region(q))
  BY <1>1, RegionInFile DEF Agree
<1>3. Content(q) /\ i[q] \in Nat
  BY DEF Contents
<1> QED
  BY <1>2, <1>3, ContentKept

LEMMA ContentsAtStart == Init => Contents
<1> SUFFICES ASSUME Init PROVE Contents
  OBVIOUS
<1>1. ASSUME NEW p \in Pids PROVE Content(p)
  BY DEF Init, Content, Agree
<1>2. <<>> \in Seq(Values)
  OBVIOUS
<1> QED
  BY <1>1, <1>2 DEF Init, Contents

\* What a process that ends leaves is what it had.
LEMMA ContentsStay ==
  ASSUME IInv, Contents, NEW p \in Pids, status[p] = "live",
         UNCHANGED <<arr, stack, pc, temparr, i, input>>,
         \A q \in Pids : Alive(q)' => Alive(q)
  PROVE  Contents'
<1>1. ASSUME NEW q \in Pids, Alive(q) PROVE Content(q)'
  <2>1. Untouched(q) /\ Agree(arr', arr, Region(q)) /\ Content(q) /\ i[q] \in Nat
    BY <1>1 DEF Untouched, Agree, Contents
  <2> QED
    BY <2>1, ContentKept
<1> QED
  BY <1>1 DEF Contents

\* The same when it is killed: nobody reads what it leaves.
LEMMA ContentsOfOthers ==
  ASSUME IInv, Contents, NEW p \in Pids, status[p] = "live",
         Agree(arr', arr, Index \ Region(p)),
         arr' \in [Index -> Values], temparr' \in [Pids -> Seq(Values)],
         i' \in [Pids -> Nat], input' = input,
         \A q \in Pids : q # p => Untouched(q) /\ (Alive(q)' => Alive(q)),
         Alive(p)' => Content(p)'
  PROVE  Contents'
<1>1. ASSUME NEW q \in Pids, Alive(q)' PROVE Content(q)'
  <2>1. CASE q = p
    BY <1>1, <2>1
  <2>2. CASE q # p
    <3>1. Alive(q) /\ Untouched(q)
      BY <1>1, <2>2
    <3> QED
      BY <2>2, <3>1, OthersKeep
  <2> QED
    BY <2>1, <2>2
<1> QED
  BY <1>1 DEF Contents

LEMMA MainContents == ASSUME IInv, Contents, NEW p \in Pids, MainSorts(p) PROVE Contents'
<1>1. /\ p = Root /\ status[p] = "live" /\ pc[p] = "main" /\ stack[p] = <<>>
  BY DEF MainSorts, At, IInv, Started
<1>2. /\ pc' = [pc EXCEPT ![p] = "call"] /\ stack' = [stack EXCEPT ![p] = <<Call(0, N)>>]
      /\ UNCHANGED <<arr, status, code, temparr, i, input>>
      /\ pc \in [Pids -> PC] /\ stack \in [Pids -> Seq(Frame)]
  BY DEF MainSorts, Goto, process, given, IInv, Types
<1>3. \A q \in Pids : q # p => Untouched(q) /\ (Alive(q)' => Alive(q))
  BY <1>2 DEF Untouched, Alive
<1>4. Content(p)'
  <2>1. Region(p) = Index
    BY <1>1 DEF Region, Index
  <2>2. Agree(arr, input, Index)
    BY <1>1, <2>1 DEF Contents, Content, Alive
  <2>3. Region(p)' \subseteq Index
    <3>1. stack'[p] = <<Call(0, N)>> /\ Len(stack'[p]) = 1 /\ stack'[p] # <<>>
          /\ pc'[p] = "call"
      BY <1>2
    <3>2. Top(p)' = Call(0, N)
      BY <3>1 DEF Top
    <3> QED
      BY <3>1, <3>2 DEF Region, Span, Call, Index
  <2>4. Agree(arr, input, Region(p)')
    BY <2>2, <2>3 DEF Agree
  <2>5. pc'[p] = "call"
    BY <1>2
  <2> QED
    BY <1>2, <2>4, <2>5 DEF Content, Agree
<1>5. Agree(arr', arr, Index \ Region(p))
  BY <1>2 DEF Agree
<1> QED
  BY <1>1, <1>2, <1>3, <1>4, <1>5, ContentsOfOthers DEF Contents

LEMMA QSortContents == ASSUME IInv, Contents, NEW p \in Pids, QSort(p) PROVE Contents'
<1>1. status[p] = "live" /\ pc[p] = "call" /\ Region(p) = Span(p)
  BY RegionIsSpan DEF QSort, At
<1>2. /\ QSorted(arr, arr', Span(p)) /\ arr' \in [Index -> Values]
      /\ pc' = [pc EXCEPT ![p] = "return"]
      /\ UNCHANGED <<stack, status, code, temparr, i, input>>
      /\ pc \in [Pids -> PC]
  BY DEF QSort, Goto, process, given, IInv, Types
<1>3. \A q \in Pids : q # p => Untouched(q) /\ (Alive(q)' => Alive(q))
  BY <1>2 DEF Untouched, Alive
<1>4. Agree(arr', arr, Index \ Region(p))
  BY <1>1, <1>2 DEF Agree, QSorted
<1>5. pc'[p] = "return" /\ stack'[p] = stack[p]
  BY <1>2
<1>6. Region(p)' = Region(p)
  BY <1>1, <1>5, RegionKept
<1>7. Sorted(arr', Region(p)) /\ SameElements(arr', input, Region(p))
  <2>1. Agree(arr, input, Region(p))
    BY <1>1 DEF Contents, Content, Alive
  <2>2. \A v \in Values : Count(arr, Region(p), v) = Count(input, Region(p), v)
    BY <2>1, CountSame
  <2> QED
    BY <1>1, <1>2, <2>2 DEF QSorted, SameElements
<1>8. Content(p)'
  BY <1>2, <1>5, <1>6, <1>7 DEF Content, Done, SameElements
<1> QED
  BY <1>1, <1>2, <1>3, <1>4, <1>8, ContentsOfOthers DEF Contents

\* A call of the right half returns to the wait for the left one.
LEMMA ReturnContents ==
  ASSUME IInv, Contents, NEW p \in Pids, Return(p), Len(stack[p]) > 1
  PROVE  Contents'
<1> USE DEF IInv
<1>1. status[p] = "live" /\ pc[p] = "return" /\ Region(p) = Span(p) /\ stack[p] # <<>>
  BY RegionIsSpan DEF Return, At
<1>2. /\ stack' = [stack EXCEPT ![p] = SubSeq(@, 1, Len(@) - 1)]
      /\ pc' = [pc EXCEPT ![p] = "wait"]
      /\ UNCHANGED <<arr, status, code, temparr, i, input>>
      /\ pc \in [Pids -> PC] /\ stack \in [Pids -> Seq(Frame)]
  BY DEF Return, Goto, process, given, Types
<1>3. \A q \in Pids : q # p => Untouched(q) /\ (Alive(q)' => Alive(q))
  BY <1>2 DEF Untouched, Alive
<1>4. PICK n \in Nat : n = Len(stack[p]) /\ n >= 2
  <2>1. Len(stack[p]) \in Nat
    BY <1>1, TopIsFrame
  <2> QED
    BY <2>1
<1>5. /\ Len(stack'[p]) = n - 1 /\ stack'[p] # <<>>
      /\ stack'[p][n - 1] = stack[p][n - 1]
  <2>1. PICK s, t : s = stack[p] /\ t = stack'[p]
    OBVIOUS
  <2>2. s \in Seq(Frame) /\ Len(s) = n /\ Len(s) > 1 /\ t = SubSeq(s, 1, Len(s) - 1)
    BY <1>2, <1>4, <2>1
  <2>3. /\ Len(t) = n - 1 /\ t # <<>> /\ \A j \in 1 .. n - 1 : t[j] = s[j]
    BY <2>2, Popped
  <2> QED
    BY <1>4, <2>1, <2>3
<1> DEFINE c == stack[p][n - 1]
<1>6. Top(p)' = c
  BY <1>5 DEF Top
<1>7. Top(p).begin = Mid(c) /\ Top(p).end = c.end
  <2>1. n - 1 \in 1 .. n /\ n - 1 < n /\ (n - 1) + 1 = n
    BY <1>4
  <2>2. Top(p) = stack[p][n]
    BY <1>1, <1>4, TopIsFrame
  <2> QED
    BY <1>4, <2>1, <2>2 DEF Nested
<1>8. Region(p)' = Region(p)
  <2>1. Region(p)' = Mid(c) .. c.end - 1
    BY <1>2, <1>5, <1>6 DEF Region, Mid
  <2> QED
    BY <1>1, <1>7, <2>1 DEF Span
<1>9. Content(p)'
  <2>1. Done(Region(p))
    BY <1>1 DEF Contents, Content, Alive
  <2>2. pc'[p] = "wait"
    BY <1>2
  <2> QED
    BY <1>2, <1>8, <2>1, <2>2 DEF Content, Done
<1>10. Agree(arr', arr, Index \ Region(p))
  BY <1>2 DEF Agree
<1> QED
  BY <1>1, <1>2, <1>3, <1>9, <1>10, ContentsOfOthers DEF Contents

\* A fork gives both halves of what was not touched yet.
LEMMA ForkContents == ASSUME IInv, Contents, NEW p \in Pids, Fork(p) PROVE Contents'
<1> DEFINE b == Top(p).begin
           m == Mid(Top(p))
           e == Top(p).end
<1>1. PICK q \in Pids, x \in Frame, y \in Frame, z \in Frame : Splits(p, q, x, y, z)
  BY ForkDoes
<1>2. /\ status[p] = "live" /\ pc[p] = "call" /\ Region(p) = Span(p) /\ stack[p] # <<>>
      /\ Span(p) = b .. e - 1 /\ b \in Nat /\ e \in Nat
  BY <1>1, RegionIsSpan, InACall DEF Splits
<1>3. m \in Nat /\ b <= m /\ m < e /\ status[q] = "unused" /\ p # q
  BY <1>1 DEF Splits
<1>4. UNCHANGED <<arr, code, temparr, i, input>>
  BY DEF Fork, given
<1>5. Agree(arr, input, Region(p))
  BY <1>2 DEF Contents, Content, Alive
<1>6. Region(q)' = b .. m - 1 /\ pc'[q] = "call"
  <2>1. stack'[q] = <<z>> /\ z.begin = b /\ z.end = m /\ pc'[q] = "call"
    BY <1>1 DEF Splits
  <2>2. stack'[q] # <<>> /\ Len(stack'[q]) = 1 /\ stack'[q][1] = z
    BY <2>1
  <2>3. Top(q)' = z
    BY <2>2 DEF Top
  <2> QED
    BY <2>1, <2>2, <2>3 DEF Region, Span
<1>7. Region(p)' = m .. e - 1 /\ pc'[p] = "call"
  <2>1. PICK n \in Nat : n = Len(stack[p])
    BY <1>2, TopIsFrame DEF IInv
  <2>2. Len(stack'[p]) = n + 1 /\ stack'[p] # <<>> /\ stack'[p][n + 1] = y
        /\ y.begin = m /\ y.end = e /\ pc'[p] = "call"
    BY <1>1, <2>1 DEF Splits
  <2>3. Top(p)' = y
    BY <2>2 DEF Top
  <2> QED
    BY <2>2, <2>3 DEF Region, Span
<1>8. Content(p)' /\ Content(q)'
  <2>1. Region(p)' \subseteq Region(p) /\ Region(q)' \subseteq Region(p)
    BY <1>2, <1>3, <1>6, <1>7
  <2> QED
    BY <1>4, <1>5, <1>6, <1>7, <2>1 DEF Content, Agree
<1>9. ASSUME NEW r \in Pids, r # p, r # q, Alive(r)' PROVE Content(r)'
  <2>1. Alive(r) /\ Untouched(r)
    BY <1>1, <1>4, <1>9 DEF Splits, Alive, Untouched
  <2>2. Agree(arr', arr, Index \ Region(p))
    BY <1>4 DEF Agree
  <2> QED
    BY <1>2, <1>9, <2>1, <2>2, OthersKeep
<1> QED
  BY <1>4, <1>8, <1>9 DEF Contents

\* The child succeeded: the left half is the one it leaves.
LEMMA WaitContents ==
  ASSUME IInv, Contents, NEW p \in Pids, Wait(p), code[Top(p).child] = 0
  PROVE  Contents'
<1> USE DEF IInv
<1> DEFINE q == Top(p).child
           c == Top(p)
<1>1. status[p] = "live" /\ pc[p] = "wait" /\ status[q] = "zombie" /\ stack[p] # <<>>
  BY DEF Wait, At, Started
<1>2. /\ pc' = [pc EXCEPT ![p] = "merge"] /\ status' = [status EXCEPT ![q] = "reaped"]
      /\ UNCHANGED <<arr, stack, code, temparr, i, input>>
      /\ pc \in [Pids -> PC] /\ status \in [Pids -> Status]
  BY DEF Wait, Goto, given, Types
<1>3. q \in Pids /\ p # q /\ Top(p) \in Frame
  <2>1. Top(p) \in Frame
    BY <1>1, TopIsFrame
  <2> QED
    BY <1>1, <2>1 DEF Frame
<1>4. Region(q) = c.begin .. Mid(c) - 1 /\ pc[q] = "return"
  <2>1. PICK n \in Nat : n = Len(stack[p])
    BY <1>1, TopIsFrame
  <2>2. n >= 1 /\ Top(p) = stack[p][n]
    BY <1>1, <2>1, TopIsFrame
  <2>3. n \in 1 .. n /\ Forked(p, n)
    BY <1>1, <2>1, <2>2 DEF Forked
  <2>4. stack[q] # <<>> /\ stack[q][1].begin = c.begin /\ stack[q][1].end = Mid(c)
    BY <2>1, <2>2, <2>3 DEF LeftToChild
  <2>5. pc[q] = "return" /\ Len(stack[q]) = 1
    BY <1>1, <1>3 DEF DoneAtZero
  <2> QED
    BY <2>4, <2>5 DEF Region, Span, Top
<1>5. Region(p) = Mid(c) .. c.end - 1
  BY <1>1 DEF Region
<1>6. Done(Region(p)) /\ Done(Region(q))
  BY <1>1, <1>3, <1>4 DEF Contents, Content, Alive
<1>7. Content(p)'
  <2>1. pc'[p] = "merge" /\ Top(p)' = c
    BY <1>2 DEF Top
  <2>2. Done(c.begin .. Mid(c) - 1) /\ Done(Mid(c) .. c.end - 1)
    BY <1>4, <1>5, <1>6
  <2> QED
    BY <1>2, <2>1, <2>2 DEF Content, Done, Mid
<1>8. \A r \in Pids : r # p => Untouched(r) /\ (Alive(r)' => Alive(r))
  BY <1>2, <1>3 DEF Untouched, Alive
<1>9. Agree(arr', arr, Index \ Region(p))
  BY <1>2 DEF Agree
<1> QED
  BY <1>1, <1>2, <1>7, <1>8, <1>9, ContentsOfOthers DEF Contents

LEMMA MergeContents == ASSUME IInv, Contents, NEW p \in Pids, Merge(p) PROVE Contents'
<1> DEFINE c == Top(p)
           b == Top(p).begin
           m == Mid(Top(p))
           e == Top(p).end
           t == Merged(arr, b, m, e)
<1>1. status[p] = "live" /\ pc[p] = "merge" /\ Region(p) = Span(p) /\ stack[p] # <<>>
  BY RegionIsSpan DEF Merge, At
<1>2. /\ temparr' = [temparr EXCEPT ![p] = t]
      /\ i' = [i EXCEPT ![p] = b]
      /\ pc' = [pc EXCEPT ![p] = "copy"]
      /\ UNCHANGED <<arr, stack, status, code, input>>
      /\ pc \in [Pids -> PC]
      /\ temparr \in [Pids -> Seq(Values)] /\ i \in [Pids -> Nat]
  BY DEF Merge, Goto, process, given, IInv, Types, Contents
<1>3. /\ b \in Nat /\ m \in Nat /\ e \in Nat /\ b <= m /\ m <= e /\ b <= e /\ e <= N
  BY <1>1, InACall
<1>4. Done(b .. m - 1) /\ Done(m .. e - 1)
  BY <1>1 DEF Contents, Content, Alive
<1>5. Halves(arr, b, m, e)
  BY <1>3, <1>4 DEF Halves, Done, Contents
<1>6. /\ t \in Seq(Values) /\ Len(t) = e - b /\ Sorted(t, 1 .. e - b)
      /\ \A v : Count(t, 1 .. e - b, v) = Count(arr, b .. e - 1, v)
  <2> HIDE DEF b, m, e
  <2> QED
    BY <1>5, MergeIsRight
<1>7. \A v \in Values : Count(arr, b .. e - 1, v) = Count(input, b .. e - 1, v)
  <2>1. \A v \in Values : /\ Count(arr, b .. m - 1, v) = Count(input, b .. m - 1, v)
                          /\ Count(arr, m .. e - 1, v) = Count(input, m .. e - 1, v)
    BY <1>4 DEF Done, SameElements
  <2> HIDE DEF b, m, e
  <2>2. \A v : /\ Count(arr, b .. e - 1, v)
                    = Count(arr, b .. m - 1, v) + Count(arr, m .. e - 1, v)
               /\ Count(input, b .. e - 1, v)
                    = Count(input, b .. m - 1, v) + Count(input, m .. e - 1, v)
    BY <1>3, CountJoins
  <2> QED
    BY <2>1, <2>2
<1> HIDE DEF t
<1>8. temparr'[p] = t /\ i'[p] = b /\ pc'[p] = "copy" /\ Top(p)' = c
  BY <1>2 DEF Top
<1>9. IsMergeOf(t, c)
  BY <1>6, <1>7 DEF IsMergeOf
<1>10. Content(p)'
  <2>1. \A k : k \in b .. b - 1 => FALSE
    BY <1>3
  <2>2. IsMergeOf(temparr[p], Top(p))'
    BY <1>2, <1>8, <1>9 DEF IsMergeOf
  <2> QED
    BY <1>3, <1>8, <2>1, <2>2 DEF Content
<1>11. \A q \in Pids : q # p => Untouched(q) /\ (Alive(q)' => Alive(q))
  BY <1>2 DEF Untouched, Alive
<1>12. Agree(arr', arr, Index \ Region(p))
  BY <1>2 DEF Agree
<1>13. temparr' \in [Pids -> Seq(Values)] /\ i' \in [Pids -> Nat]
  BY <1>2, <1>3, <1>6
<1> QED
  BY <1>1, <1>2, <1>10, <1>11, <1>12, <1>13, ContentsOfOthers DEF Contents

LEMMA CopyBackContents == ASSUME IInv, Contents, NEW p \in Pids, CopyBack(p) PROVE Contents'
<1> DEFINE b == Top(p).begin
           e == Top(p).end
           t == temparr[p]
<1>1. status[p] = "live" /\ pc[p] = "copy" /\ Region(p) = Span(p) /\ stack[p] # <<>>
  BY RegionIsSpan DEF CopyBack, At
<1>2. /\ arr' = [arr EXCEPT ![i[p]] = t[i[p] - b + 1]]
      /\ i' = [i EXCEPT ![p] = i[p] + 1]
      /\ UNCHANGED <<temparr, pc, stack, status, code, input>>
      /\ arr \in [Index -> Values] /\ temparr \in [Pids -> Seq(Values)] /\ i \in [Pids -> Nat]
  BY DEF CopyBack, process, given, Contents
<1>3. /\ b \in Nat /\ e \in Nat /\ N \in Nat /\ b <= e /\ e <= N /\ Span(p) = b .. e - 1
  BY <1>1, InACall
<1>4. /\ IsMergeOf(t, Top(p)) /\ b <= i[p] /\ i[p] \in Nat /\ i[p] < e
      /\ \A k \in b .. i[p] - 1 : arr[k] = t[k - b + 1]
  BY <1>1, <1>2 DEF CopyBack, Contents, Content, Alive
<1>5. i[p] \in Region(p) /\ i[p] \in Index
  BY <1>1, <1>3, <1>4 DEF Index
<1>6. t[i[p] - b + 1] \in Values
  <2>1. t \in Seq(Values) /\ Len(t) = e - b
    BY <1>2, <1>4 DEF IsMergeOf
  <2> HIDE DEF t, b, e
  <2>2. i[p] - b + 1 \in 1 .. Len(t)
    BY <1>3, <1>4, <2>1
  <2> QED
    BY <2>1, <2>2
<1>7. arr' \in [Index -> Values] /\ i' \in [Pids -> Nat]
  <2>1. arr' \in [Index -> Values]
    BY <1>2, <1>6
  <2>2. i[p] + 1 \in Nat
    BY <1>4
  <2>3. i' \in [Pids -> Nat]
    BY <1>2, <2>2
  <2> QED
    BY <2>1, <2>3
<1>8. /\ arr'[i[p]] = t[i[p] - b + 1]
      /\ \A k \in Index : k # i[p] => arr'[k] = arr[k]
      /\ i'[p] = i[p] + 1
  BY <1>2, <1>5
<1>9. ASSUME NEW k \in b .. i[p] PROVE arr'[k] = t[k - b + 1]
  <2>1. CASE k = i[p]
    BY <2>1, <1>8
  <2>2. CASE k # i[p]
    <3>1. k \in b .. i[p] - 1 /\ k \in Index
      BY <2>2, <1>3, <1>4 DEF Index
    <3> QED
      BY <2>2, <3>1, <1>4, <1>8
  <2> QED
    BY <2>1, <2>2
<1>10. Content(p)'
  <2>1. pc'[p] = "copy" /\ Top(p)' = Top(p) /\ temparr'[p] = t
    BY <1>1, <1>2 DEF Top
  <2>2. IsMergeOf(temparr[p], Top(p))'
    BY <1>2, <1>4, <2>1 DEF IsMergeOf
  <2>3. b <= i'[p] /\ i'[p] <= e
    BY <1>3, <1>4, <1>8
  <2>4. i'[p] - 1 = i[p]
    BY <1>4, <1>8
  <2>5. \A k \in b .. i'[p] - 1 : arr'[k] = t[k - b + 1]
    BY <1>9, <2>4
  <2> QED
    BY <2>1, <2>2, <2>3, <2>5 DEF Content
<1>11. \A q \in Pids : q # p => Untouched(q) /\ (Alive(q)' => Alive(q))
  BY <1>2 DEF Untouched, Alive
<1>12. Agree(arr', arr, Index \ Region(p))
  BY <1>5, <1>8 DEF Agree
<1> QED
  BY <1>1, <1>2, <1>7, <1>10, <1>11, <1>12, ContentsOfOthers

\* When all is copied back the range holds what temparr held.
LEMMA CopiedContents == ASSUME IInv, Contents, NEW p \in Pids, Copied(p) PROVE Contents'
<1> DEFINE b == Top(p).begin
           e == Top(p).end
           t == temparr[p]
<1>1. status[p] = "live" /\ pc[p] = "copy" /\ Region(p) = Span(p) /\ stack[p] # <<>>
  BY RegionIsSpan DEF Copied, At
<1>2. /\ temparr' = [temparr EXCEPT ![p] = <<>>] /\ i' = [i EXCEPT ![p] = 0]
      /\ pc' = [pc EXCEPT ![p] = "return"]
      /\ UNCHANGED <<arr, stack, status, code, input>>
      /\ pc \in [Pids -> PC]
      /\ temparr \in [Pids -> Seq(Values)] /\ i \in [Pids -> Nat]
  BY DEF Copied, Goto, process, given, IInv, Types, Contents
<1>3. /\ b \in Nat /\ e \in Nat /\ b <= e /\ Span(p) = b .. e - 1
  BY <1>1, InACall
<1>4. IsMergeOf(t, Top(p)) /\ \A k \in b .. e - 1 : arr[k] = t[k - b + 1]
  BY <1>1 DEF Copied, Contents, Content, Alive
<1>5. PICK n \in Nat : n = e - b /\ e = b + n
  BY <1>3
<1>6. Sorted(arr, b .. e - 1)
  <2> SUFFICES ASSUME NEW j \in b .. e - 1, NEW k \in b .. e - 1, j < k
               PROVE  arr[j] <= arr[k]
    BY DEF Sorted
  <2>1. j - b + 1 \in 1 .. e - b /\ k - b + 1 \in 1 .. e - b /\ j - b + 1 < k - b + 1
    <3>1. PICK x \in Nat, y \in Nat : x = b /\ y = e
      BY <1>3
    <3>2. j \in x .. y - 1 /\ k \in x .. y - 1
      BY <3>1
    <3>3. j - x + 1 \in 1 .. y - x /\ k - x + 1 \in 1 .. y - x /\ j - x + 1 < k - x + 1
      BY <3>2
    <3> QED
      BY <3>1, <3>3
  <2>2. t[j - b + 1] <= t[k - b + 1]
    BY <1>4, <2>1 DEF IsMergeOf, Sorted
  <2> QED
    BY <1>4, <2>2
<1>7. \A v \in Values : Count(arr, b .. e - 1, v) = Count(input, b .. e - 1, v)
  <2> SUFFICES ASSUME NEW v \in Values
               PROVE  Count(arr, b .. e - 1, v) = Count(input, b .. e - 1, v)
    OBVIOUS
  <2>0. PICK x \in Nat : x = b
    BY <1>3
  <2>1. PICK f, s : f = arr /\ s = t
    OBVIOUS
  <2>2. Moved(f, s, x, n)
    BY <1>4, <1>5, <2>0, <2>1 DEF Moved
  <2>3. Count(f, x .. x + n - 1, v) = Count(s, 1 .. n, v)
    BY <2>2, CountMoves
  <2>4. Count(s, 1 .. n, v) = Count(input, b .. e - 1, v)
    BY <1>4, <1>5, <2>1 DEF IsMergeOf
  <2> QED
    BY <1>5, <2>0, <2>1, <2>3, <2>4
<1>8. Content(p)'
  <2>1. pc'[p] = "return" /\ stack'[p] = stack[p]
    BY <1>2
  <2>2. Region(p)' = b .. e - 1
    BY <1>1, <1>3, <2>1, RegionKept
  <2> QED
    BY <1>2, <1>6, <1>7, <2>1, <2>2 DEF Content, Done, SameElements
<1>9. \A q \in Pids : q # p => Untouched(q) /\ (Alive(q)' => Alive(q))
  BY <1>2 DEF Untouched, Alive
<1>10. Agree(arr', arr, Index \ Region(p))
  BY <1>2 DEF Agree
<1>11. temparr' \in [Pids -> Seq(Values)] /\ i' \in [Pids -> Nat]
  <2>1. <<>> \in Seq(Values)
    OBVIOUS
  <2> QED
    BY <1>2, <2>1
<1> QED
  BY <1>1, <1>2, <1>8, <1>9, <1>10, <1>11, ContentsOfOthers DEF Contents

\* A process that fails, or is killed in the middle of qsort.
LEMMA FailureContents ==
  ASSUME IInv, Contents, NEW p \in Pids, status[p] = "live",
         NEW c \in Int \ {0}, Exit(p, c),
         Agree(arr', arr, Index \ Region(p)), arr' \in [Index -> Values],
         UNCHANGED <<stack, pc, temparr, i, input>>
  PROVE  Contents'
<1>1. /\ status' = [status EXCEPT ![p] = "zombie"] /\ code' = [code EXCEPT ![p] = c]
      /\ status \in [Pids -> Status] /\ code \in [Pids -> Int]
  BY DEF Exit, IInv, Types
<1>2. ~Alive(p)'
  BY <1>1 DEF Alive
<1>3. \A q \in Pids : q # p => Untouched(q) /\ (Alive(q)' => Alive(q))
  BY <1>1 DEF Untouched, Alive
<1> QED
  BY <1>2, <1>3, ContentsOfOthers DEF Contents

LEMMA FailuresContents == ASSUME IInv, Contents, NEW p \in Pids, Failure(p) PROVE Contents'
<1>1. arr \in [Index -> Values] /\ Agree(arr, arr, Index \ Region(p))
  BY DEF Contents, Agree
<1>2. CASE MainFails(p)
  <2>1. PICK c \in 3 .. 6 : Exit(p, c)
    BY <1>2 DEF MainFails
  <2>2. c \in Int \ {0} /\ status[p] = "live"
    BY <1>2 DEF MainFails, At
  <2>3. UNCHANGED <<arr, stack, pc, temparr, i, input>>
    BY <1>2 DEF MainFails, given
  <2> QED
    BY <1>1, <2>1, <2>2, <2>3, FailureContents
<1>3. CASE UnmapFails(p)
  <2>1. /\ Exit(p, 7) /\ status[p] = "live"
        /\ UNCHANGED <<arr, stack, pc, temparr, i, input>>
    BY <1>3 DEF UnmapFails, At, given
  <2> QED
    BY <1>1, <2>1, FailureContents
<1>4. CASE WaitFails(p)
  <2>1. /\ Exit(p, 9) /\ status[p] = "live"
        /\ UNCHANGED <<arr, stack, pc, temparr, i, input>>
    BY <1>4 DEF WaitFails, At, given
  <2> QED
    BY <1>1, <2>1, FailureContents
<1>5. CASE Kill(p)
  <2>1. /\ Exit(p, -1) /\ status[p] = "live" /\ UNCHANGED <<stack, pc, temparr, i, input>>
    BY <1>5 DEF Kill, KilledCode, given
  <2>2. arr' \in [Index -> Values] /\ Agree(arr', arr, Index \ Region(p))
    <3>1. CASE pc[p] = "call" /\ IsSmall(Top(p))
      <4>1. PICK g \in [Span(p) -> {arr[k] : k \in Span(p)}] :
              arr' = [k \in Index |-> IF k \in Span(p) THEN g[k] ELSE arr[k]]
        BY <1>5, <3>1 DEF Kill
      <4>2. Region(p) = Span(p) /\ Span(p) \subseteq Index
        BY <3>1, RegionIsSpan, RegionInFile
      <4>3. {arr[k] : k \in Span(p)} \subseteq Values
        BY <1>1, <4>2
      <4>4. \A k \in Span(p) : g[k] \in Values
        BY <4>1, <4>3
      <4> QED
        BY <1>1, <4>1, <4>2, <4>4 DEF Agree
    <3>2. CASE ~(pc[p] = "call" /\ IsSmall(Top(p)))
      <4>1. arr' = arr
        BY <1>5, <3>2 DEF Kill
      <4> QED
        BY <1>1, <4>1
    <3> QED
      BY <3>1, <3>2
  <2> QED
    BY <2>1, <2>2, FailureContents
<1> QED
  BY <1>2, <1>3, <1>4, <1>5 DEF Failure

LEMMA StepContents == ASSUME IInv, Contents, NEW p \in Pids, Step(p) PROVE Contents'
<1>1. arr \in [Index -> Values] /\ Agree(arr, arr, Index \ Region(p))
  BY DEF Contents, Agree
<1>2. CASE Return(p) /\ ~(Len(stack[p]) > 1)
  <2>1. /\ status[p] = "live" /\ status' = [status EXCEPT ![p] = "zombie"]
        /\ UNCHANGED <<arr, stack, pc, temparr, i, input>>
        /\ code' = [code EXCEPT ![p] = 0]
        /\ status \in [Pids -> Status] /\ code \in [Pids -> Int]
    BY <1>2 DEF Return, At, Exit, given, IInv, Types
  <2>2. \A q \in Pids : Alive(q)' => Alive(q)
    BY <2>1 DEF Alive
  <2> QED
    BY <2>1, <2>2, ContentsStay
<1>3. CASE Wait(p) /\ code[Top(p).child] # 0
  <2>1. /\ status[p] = "live"
        /\ \E q \in Pids : status' = [status EXCEPT ![q] = "reaped", ![p] = "zombie"]
        /\ \E c \in {10, 11} : code' = [code EXCEPT ![p] = c]
        /\ UNCHANGED <<arr, stack, pc, temparr, i, input>>
        /\ status \in [Pids -> Status] /\ code \in [Pids -> Int]
    <3>1. stack[p] # <<>>
      BY <1>3 DEF Wait, At, IInv, Started
    <3>2. Top(p).child \in Pids
      BY <3>1, InACall DEF Frame
    <3> QED
      BY <1>3, <3>2 DEF Wait, At, given, IInv, Types
  <2>2. \A q \in Pids : Alive(q)' => Alive(q)
    BY <2>1 DEF Alive
  <2> QED
    BY <2>1, <2>2, ContentsStay
<1>4. CASE ForkFails(p)
  <2>1. /\ Exit(p, 8) /\ status[p] = "live"
        /\ UNCHANGED <<arr, stack, pc, temparr, i, input>>
    BY <1>4 DEF ForkFails, At, given
  <2> QED
    BY <1>1, <2>1, FailureContents
<1> QED
  BY <1>2, <1>3, <1>4, MainContents, ReturnContents, QSortContents, ForkContents,
     WaitContents, MergeContents, CopyBackContents, CopiedContents DEF Step

\* The work of the program: a process that exits with 0 leaves its range sorted,
\* with the elements that the file had there at the start, for a file of any
\* size, any threshold and whatever happens to other processes meanwhile.
THEOREM SortedAtZero == Spec => []ExitZeroMeansSorted
<1>1. IInv /\ Contents /\ [Next]_vars => Contents'
  <2> SUFFICES ASSUME IInv, Contents, [Next]_vars PROVE Contents'
    OBVIOUS
  <2>1. CASE Next
    BY <2>1, StepContents, FailuresContents DEF Next
  <2>2. CASE UNCHANGED vars
    <3>1. ASSUME NEW q \in Pids, Alive(q)' PROVE Content(q)'
      <4>1. /\ Untouched(q) /\ Agree(arr', arr, Region(q)) /\ Alive(q)
        BY <2>2, <3>1 DEF vars, Untouched, Agree, Alive
      <4>2. Content(q) /\ i[q] \in Nat
        BY <4>1 DEF Contents
      <4> QED
        BY <4>1, <4>2, ContentKept
    <3> QED
      BY <2>2, <3>1 DEF vars, Contents
  <2> QED
    BY <2>1, <2>2
<1>2. IInv /\ Contents => ExitZeroMeansSorted
  <2> SUFFICES ASSUME IInv, Contents, NEW p \in Pids, status[p] = "zombie", code[p] = 0
               PROVE  Sorted(arr, Span(p)) /\ SameElements(arr, input, Span(p))
    BY DEF ExitZeroMeansSorted
  <2>1. pc[p] = "return"
    BY DEF IInv, DoneAtZero
  <2>2. Done(Region(p)) /\ Region(p) = Span(p)
    BY <2>1, RegionIsSpan DEF Contents, Content, Alive
  <2> QED
    BY <2>2 DEF Done
<1> QED
  BY Invariant, ContentsAtStart, <1>1, <1>2, PTL DEF Spec

------------------------------------------------------------------------------
(* Who waits for whom *)

\* A live process that has forked a child for a call can still wait for it, and
\* nobody else does.
Kinship ==
  \A p \in Pids : \A j \in 1 .. Len(stack[p]) :
    Forked(p, j) =>
      /\ status[p] = "live" => status[stack[p][j].child] \in {"live", "zombie"}
      /\ \A r \in Pids : \A k \in 1 .. Len(stack[r]) :
           Forked(r, k) /\ stack[r][k].child = stack[p][j].child => r = p /\ k = j

LEMMA KinshipAtStart == Init => Kinship
<1> SUFFICES ASSUME Init PROVE Kinship
  OBVIOUS
<1>1. \A p \in Pids : Len(stack[p]) = 0
  BY DEF Init
<1> QED
  BY <1>1 DEF Kinship

\* A step after which each call with a child had that child before, and which
\* reaps none that a live process waits for.
LEMMA KinshipKept ==
  ASSUME Kinship,
         \A r \in Pids : \A k \in 1 .. Len(stack'[r]) :
           Forked(r, k)' => /\ k \in 1 .. Len(stack[r]) /\ Forked(r, k)
                            /\ stack'[r][k].child = stack[r][k].child,
         \A r \in Pids : status'[r] = "live" => status[r] = "live",
         \A r \in Pids : \A k \in 1 .. Len(stack'[r]) :
           Forked(r, k)' /\ status'[r] = "live"
             /\ status[stack'[r][k].child] \in {"live", "zombie"}
           => status'[stack'[r][k].child] \in {"live", "zombie"}
  PROVE  Kinship'
<1> SUFFICES ASSUME NEW p \in Pids, NEW j \in 1 .. Len(stack'[p]), Forked(p, j)'
             PROVE  /\ status'[p] = "live" =>
                         status'[stack'[p][j].child] \in {"live", "zombie"}
                    /\ \A r \in Pids : \A k \in 1 .. Len(stack'[r]) :
                         Forked(r, k)' /\ stack'[r][k].child = stack'[p][j].child
                           => r = p /\ k = j
  BY DEF Kinship
<1>1. /\ j \in 1 .. Len(stack[p]) /\ Forked(p, j)
      /\ stack'[p][j].child = stack[p][j].child
  OBVIOUS
<1>2. ASSUME status'[p] = "live"
      PROVE  status'[stack'[p][j].child] \in {"live", "zombie"}
  <2>1. status[stack[p][j].child] \in {"live", "zombie"}
    BY <1>1, <1>2 DEF Kinship
  <2> QED
    BY <1>1, <1>2, <2>1
<1>3. ASSUME NEW r \in Pids, NEW k \in 1 .. Len(stack'[r]), Forked(r, k)',
             stack'[r][k].child = stack'[p][j].child
      PROVE  r = p /\ k = j
  <2>1. /\ k \in 1 .. Len(stack[r]) /\ Forked(r, k)
        /\ stack'[r][k].child = stack[r][k].child
    BY <1>3
  <2>2. stack[r][k].child = stack[p][j].child
    BY <1>1, <1>3, <2>1
  <2> QED
    BY <1>1, <2>1, <2>2 DEF Kinship
<1> QED
  BY <1>2, <1>3

\* A step of a process in its call, or its end.
LEMMA KinshipStays ==
  ASSUME IInv, Kinship, stack' = stack,
         \A r \in Pids : pc'[r] = "wait" => pc[r] = "wait",
         \A r \in Pids : \/ status'[r] = status[r]
                         \/ status[r] = "live" /\ status'[r] = "zombie"
  PROVE  Kinship'
<1>1. ASSUME NEW r \in Pids, NEW k \in 1 .. Len(stack'[r]), Forked(r, k)'
      PROVE  /\ k \in 1 .. Len(stack[r]) /\ Forked(r, k)
             /\ stack'[r][k].child = stack[r][k].child
             /\ stack'[r][k].child \in Pids
  <2>1. stack[r][k].child \in Pids
    BY CallsAre DEF IInv
  <2> QED
    BY <1>1, <2>1 DEF Forked
<1> QED
  BY <1>1, KinshipKept

LEMMA MainKinship == ASSUME IInv, Kinship, NEW p \in Pids, MainSorts(p) PROVE Kinship'
<1>1. /\ stack' = [stack EXCEPT ![p] = <<Call(0, N)>>] /\ status' = status
      /\ pc' = [pc EXCEPT ![p] = "call"]
      /\ stack \in [Pids -> Seq(Frame)] /\ pc \in [Pids -> PC]
  BY DEF MainSorts, Goto, process, IInv, Types
<1>2. /\ stack'[p] = <<Call(0, N)>> /\ Len(stack'[p]) = 1 /\ pc'[p] = "call"
      /\ \A r \in Pids : r # p => stack'[r] = stack[r] /\ pc'[r] = pc[r]
  BY <1>1
<1>3. ASSUME NEW r \in Pids, NEW k \in 1 .. Len(stack'[r]), Forked(r, k)'
      PROVE  /\ k \in 1 .. Len(stack[r]) /\ Forked(r, k)
             /\ stack'[r][k].child = stack[r][k].child
  <2>1. r # p
    <3> SUFFICES ASSUME r = p PROVE FALSE
      OBVIOUS
    <3>1. k \in 1 .. 1
      BY <1>2
    <3>2. k < 1 \/ pc'[p] = "wait"
      BY <1>2, <1>3 DEF Forked
    <3> QED
      BY <1>2, <3>1, <3>2
  <2> QED
    BY <1>2, <1>3, <2>1 DEF Forked
<1> QED
  BY <1>1, <1>3, KinshipKept

LEMMA ReturnKinship == ASSUME IInv, Kinship, NEW p \in Pids, Return(p) PROVE Kinship'
<1>1. stack \in [Pids -> Seq(Frame)] /\ pc \in [Pids -> PC] /\ status \in [Pids -> Status]
  BY DEF IInv, Types
<1>2. CASE Len(stack[p]) > 1
  <2>1. /\ stack' = [stack EXCEPT ![p] = SubSeq(@, 1, Len(@) - 1)]
        /\ pc' = [pc EXCEPT ![p] = "wait"] /\ status' = status
    BY <1>2 DEF Return, Goto, process
  <2>2. /\ stack'[p] = SubSeq(stack[p], 1, Len(stack[p]) - 1)
        /\ \A r \in Pids : r # p => stack'[r] = stack[r] /\ pc'[r] = pc[r]
    BY <1>1, <2>1
  <2>3. /\ Len(stack[p]) \in Nat /\ Len(stack'[p]) = Len(stack[p]) - 1
        /\ \A j \in 1 .. Len(stack[p]) - 1 : stack'[p][j] = stack[p][j]
    <3>1. stack[p] \in Seq(Frame)
      BY <1>1
    <3> QED
      BY <1>2, <2>2, <3>1, Popped
  <2>4. ASSUME NEW r \in Pids, NEW k \in 1 .. Len(stack'[r]), Forked(r, k)'
        PROVE  /\ k \in 1 .. Len(stack[r]) /\ Forked(r, k)
               /\ stack'[r][k].child = stack[r][k].child
    <3>1. CASE r = p
      <4>1. k \in 1 .. Len(stack[p]) - 1
        BY <2>3, <3>1
      <4>2. k \in 1 .. Len(stack[p]) /\ k < Len(stack[p])
        BY <2>3, <4>1
      <4> QED
        BY <2>3, <3>1, <4>1, <4>2 DEF Forked
    <3>2. CASE r # p
      BY <2>2, <2>4, <3>2 DEF Forked
    <3> QED
      BY <3>1, <3>2
  <2> QED
    BY <2>1, <2>4, KinshipKept
<1>3. CASE ~(Len(stack[p]) > 1)
  <2>1. UNCHANGED <<stack, pc>> /\ status' = [status EXCEPT ![p] = "zombie"]
        /\ status[p] = "live"
    BY <1>3 DEF Return, Exit, At
  <2> QED
    BY <1>1, <2>1, KinshipStays
<1> QED
  BY <1>2, <1>3

\* The child is new to everybody.
LEMMA ForkKinship == ASSUME IInv, Kinship, NEW p \in Pids, Fork(p) PROVE Kinship'
<1>1. PICK q \in Pids, x \in Frame, y \in Frame, z \in Frame : Splits(p, q, x, y, z)
  BY ForkDoes
<1>2. stack[p] # <<>> /\ pc[p] = "call"
  BY <1>1 DEF IInv, Started, Splits
<1>3. PICK n \in Nat : n = Len(stack[p])
  BY <1>2, TopIsFrame DEF IInv
<1>4. n >= 1
  BY <1>2, <1>3, TopIsFrame DEF IInv
<1>5. /\ status[q] = "unused" /\ status'[q] = "live" /\ p # q
      /\ stack'[q] = <<z>> /\ pc'[q] = "call" /\ pc'[p] = "call" /\ status[p] = "live"
      /\ Len(stack'[p]) = n + 1 /\ stack'[p][n].child = q
      /\ \A j \in 1 .. n - 1 : stack'[p][j] = stack[p][j]
      /\ \A r \in Pids : r # p /\ r # q => stack'[r] = stack[r]
      /\ \A r \in Pids : r # q => status'[r] = status[r] /\ pc'[r] = pc[r]
  BY <1>1, <1>2, <1>3 DEF Splits
<1>6. ASSUME NEW r \in Pids, NEW k \in 1 .. Len(stack[r]), Forked(r, k)
      PROVE  stack[r][k].child \in Pids /\ stack[r][k].child # q
  <2>1. stack[r][k].child \in Pids
    BY CallsAre DEF IInv
  <2>2. status[stack[r][k].child] # "unused"
    BY <1>6 DEF IInv, LeftToChild
  <2> QED
    BY <1>5, <2>1, <2>2
\* Which calls have a child now: the one that forked, and those that had one.
<1>7. ASSUME NEW r \in Pids, NEW k \in 1 .. Len(stack'[r]), Forked(r, k)'
      PROVE  \/ r = p /\ k = n /\ stack'[r][k].child = q
             \/ /\ k \in 1 .. Len(stack[r]) /\ Forked(r, k)
                /\ stack'[r][k].child = stack[r][k].child /\ r # q
  <2>1. CASE r = q
    <3>1. Len(stack'[q]) = 1
      BY <1>5
    <3>2. k \in 1 .. 1
      BY <2>1, <3>1
    <3>3. k < 1 \/ pc'[q] = "wait"
      BY <1>7, <2>1, <3>1 DEF Forked
    <3> QED
      BY <1>5, <3>2, <3>3
  <2>2. CASE r = p
    <3>1. k \in 1 .. n + 1 /\ k < n + 1
      BY <1>3, <1>5, <1>7, <2>2 DEF Forked
    <3>2. k = n \/ k \in 1 .. n - 1
      BY <3>1
    <3>3. k \in 1 .. n - 1 => k \in 1 .. n /\ k < n
      BY <1>4
    <3> QED
      BY <1>3, <1>5, <2>2, <3>2, <3>3 DEF Forked
  <2>3. CASE r # p /\ r # q
    BY <1>5, <1>7, <2>3 DEF Forked
  <2> QED
    BY <2>1, <2>2, <2>3
<1> SUFFICES ASSUME NEW r \in Pids, NEW j \in 1 .. Len(stack'[r]), Forked(r, j)'
             PROVE  /\ status'[r] = "live" =>
                         status'[stack'[r][j].child] \in {"live", "zombie"}
                    /\ \A s \in Pids : \A k \in 1 .. Len(stack'[s]) :
                         Forked(s, k)' /\ stack'[s][k].child = stack'[r][j].child
                           => s = r /\ k = j
  BY DEF Kinship
<1>8. CASE r = p /\ j = n /\ stack'[r][j].child = q
  <2>1. ASSUME NEW s \in Pids, NEW k \in 1 .. Len(stack'[s]), Forked(s, k)',
               stack'[s][k].child = q
        PROVE  s = p /\ k = n
    BY <1>6, <1>7, <2>1
  <2> QED
    BY <1>5, <1>8, <2>1
<1>9. CASE /\ j \in 1 .. Len(stack[r]) /\ Forked(r, j)
           /\ stack'[r][j].child = stack[r][j].child /\ r # q
  <2>1. stack[r][j].child \in Pids /\ stack[r][j].child # q
    BY <1>6, <1>9
  <2>2. status'[r] = "live" => status'[stack'[r][j].child] \in {"live", "zombie"}
    <3> SUFFICES ASSUME status'[r] = "live"
                 PROVE  status[stack[r][j].child] \in {"live", "zombie"}
      BY <1>5, <1>9, <2>1
    <3> QED
      BY <1>5, <1>9 DEF Kinship
  <2>3. ASSUME NEW s \in Pids, NEW k \in 1 .. Len(stack'[s]), Forked(s, k)',
               stack'[s][k].child = stack'[r][j].child
        PROVE  s = r /\ k = j
    <3>1. /\ k \in 1 .. Len(stack[s]) /\ Forked(s, k)
          /\ stack'[s][k].child = stack[s][k].child
      BY <1>7, <1>9, <2>1, <2>3
    <3> QED
      BY <1>9, <2>3, <3>1 DEF Kinship
  <2> QED
    BY <2>2, <2>3
<1> QED
  BY <1>7, <1>8, <1>9

\* The one that waited no longer does, or is no longer live.
LEMMA WaitKinship == ASSUME IInv, Kinship, NEW p \in Pids, Wait(p) PROVE Kinship'
<1> DEFINE q == Top(p).child
<1>1. status[p] = "live" /\ pc[p] = "wait" /\ status[q] = "zombie" /\ stack[p] # <<>>
      /\ stack' = stack
  BY DEF Wait, At, IInv, Started
<1>2. PICK n \in Nat : n = Len(stack[p])
  BY <1>1, TopIsFrame DEF IInv
<1>3. n \in 1 .. n /\ Top(p) = stack[p][n] /\ q \in Pids /\ q # p /\ Forked(p, n)
  <2>1. n >= 1 /\ Top(p) = stack[p][n] /\ Top(p) \in Frame
    BY <1>1, <1>2, TopIsFrame DEF IInv
  <2> QED
    BY <1>1, <1>2, <2>1 DEF Forked, Frame
<1>4. pc \in [Pids -> PC] /\ status \in [Pids -> Status]
  BY DEF IInv, Types
<1>5. /\ pc'[p] = "merge" \/ status'[p] = "zombie"
      /\ \A r \in Pids : pc'[r] = "wait" => pc[r] = "wait"
      /\ status'[q] = "reaped"
      /\ \A r \in Pids : r # p /\ r # q => status'[r] = status[r]
      /\ status'[p] \in {"live", "zombie"}
  <2>1. CASE code[q] = 0
    <3>1. /\ pc' = [pc EXCEPT ![p] = "merge"]
          /\ status' = [status EXCEPT ![q] = "reaped"]
      BY <2>1 DEF Wait, Goto
    <3> QED
      BY <1>1, <1>3, <1>4, <3>1
  <2>2. CASE code[q] # 0
    <3>1. /\ pc' = pc
          /\ status' = [status EXCEPT ![q] = "reaped", ![p] = "zombie"]
      BY <2>2 DEF Wait
    <3> QED
      BY <1>1, <1>3, <1>4, <3>1
  <2> QED
    BY <2>1, <2>2
<1>6. ASSUME NEW r \in Pids, NEW k \in 1 .. Len(stack'[r]), Forked(r, k)'
      PROVE  /\ k \in 1 .. Len(stack[r]) /\ Forked(r, k)
             /\ stack'[r][k].child = stack[r][k].child
             /\ stack[r][k].child \in Pids
  <2>1. stack[r][k].child \in Pids
    BY <1>1, CallsAre DEF IInv
  <2> QED
    BY <1>1, <1>5, <1>6, <2>1 DEF Forked
<1>7. \A r \in Pids : status'[r] = "live" => status[r] = "live"
  BY <1>1, <1>5
<1>8. ASSUME NEW r \in Pids, NEW k \in 1 .. Len(stack'[r]), Forked(r, k)',
             status'[r] = "live", status[stack'[r][k].child] \in {"live", "zombie"}
      PROVE  status'[stack'[r][k].child] \in {"live", "zombie"}
  <2>1. /\ k \in 1 .. Len(stack[r]) /\ Forked(r, k) /\ stack[r][k].child \in Pids
        /\ stack'[r][k].child = stack[r][k].child
    BY <1>6, <1>8
  <2>2. stack[r][k].child # q
    <3> SUFFICES ASSUME stack[r][k].child = q PROVE FALSE
      OBVIOUS
    <3>1. r = p /\ k = n
      BY <1>2, <1>3, <2>1 DEF Kinship
    <3>2. pc'[p] = "wait"
      BY <1>1, <1>2, <1>8, <3>1 DEF Forked
    <3> QED
      BY <1>5, <1>8, <3>1, <3>2
  <2> QED
    BY <1>5, <1>8, <2>1, <2>2
<1> QED
  BY <1>6, <1>7, <1>8, KinshipKept

LEMMA StepKinship ==
  ASSUME IInv, Kinship, NEW p \in Pids, Step(p) \/ Failure(p)
  PROVE  Kinship'
<1> USE DEF At
<1>1. pc \in [Pids -> PC] /\ status \in [Pids -> Status]
  BY DEF IInv, Types
<1>2. CASE MainSorts(p) \/ Return(p) \/ Fork(p) \/ Wait(p)
  BY <1>2, MainKinship, ReturnKinship, ForkKinship, WaitKinship
<1>3. CASE QSort(p) \/ Merge(p) \/ CopyBack(p) \/ Copied(p)
  <2>1. PICK l \in {"return", "copy"} : pc' = [pc EXCEPT ![p] = l] \/ pc' = pc
    BY <1>3 DEF QSort, Merge, CopyBack, Copied, Goto
  <2>2. stack' = stack /\ status' = status
    BY <1>3 DEF QSort, Merge, CopyBack, Copied, process
  <2> QED
    BY <1>1, <2>1, <2>2, KinshipStays
<1>4. CASE ForkFails(p) \/ Failure(p)
  <2>1. /\ status[p] = "live" /\ status' = [status EXCEPT ![p] = "zombie"]
        /\ stack' = stack /\ pc' = pc
    BY <1>4 DEF ForkFails, Failure, MainFails, UnmapFails, WaitFails, Kill, Exit
  <2> QED
    BY <1>1, <2>1, KinshipStays
<1> QED
  BY <1>2, <1>3, <1>4 DEF Step

\* What a process still works on is the end of what it was started for.
LEMMA TopIsTheEnd ==
  ASSUME IInv, NEW p \in Pids, stack[p] # <<>>
  PROVE  Top(p).begin >= stack[p][1].begin /\ Top(p).end = stack[p][1].end
<1>1. PICK n \in Nat : n = Len(stack[p]) /\ n >= 1 /\ Top(p) = stack[p][n]
  BY TopIsFrame DEF IInv
<1>2. \A j \in 1 .. n : /\ stack[p][j] \in Frame
                        /\ stack[p][j].begin \in Nat /\ stack[p][j].end \in Nat
  BY <1>1, CallsAre DEF IInv
<1> DEFINE S == {m \in Nat : m + 1 \in 1 .. n =>
                    /\ stack[p][m + 1].begin >= stack[p][1].begin
                    /\ stack[p][m + 1].end = stack[p][1].end}
<1>3. 0 \in S
  <2>1. 1 \in 1 .. n
    BY <1>1
  <2> QED
    BY <1>2, <2>1
<1>4. ASSUME NEW m \in Nat, m \in S PROVE m + 1 \in S
  <2> SUFFICES ASSUME m + 2 \in 1 .. n
               PROVE  /\ stack[p][m + 2].begin >= stack[p][1].begin
                      /\ stack[p][m + 2].end = stack[p][1].end
    OBVIOUS
  <2> DEFINE c == stack[p][m + 1]
  <2>1. m + 1 \in 1 .. n /\ m + 1 < n /\ 1 \in 1 .. n /\ (m + 1) + 1 = m + 2
    OBVIOUS
  <2>2. c.begin >= stack[p][1].begin /\ c.end = stack[p][1].end
    BY <1>4, <2>1
  <2>3. /\ c.begin <= c.end /\ stack[p][m + 2].begin = Mid(c)
        /\ stack[p][m + 2].end = c.end
    BY <1>1, <2>1 DEF IInv, Nested
  <2>4. c \in Frame /\ c.begin \in Nat /\ stack[p][1].begin \in Nat
    BY <1>2, <2>1
  <2>5. Mid(c) \in Nat /\ c.begin <= Mid(c)
    BY <2>3, <2>4, MidBetween
  <2> QED
    BY <2>2, <2>3, <2>4, <2>5
<1> HIDE DEF S
<1>5. \A m \in Nat : m \in S
  BY <1>3, <1>4, SetInduction
<1>6. n - 1 \in Nat /\ (n - 1) + 1 = n /\ n \in 1 .. n
  BY <1>1
<1> QED
  BY <1>1, <1>5, <1>6 DEF S

\* Of the live processes, the one with the least left to sort in its call does
\* not wait for another that does.
LEMMA LeastGoesOn == ASSUME IInv, Kinship PROVE SomebodyGoesOn
<1> SUFFICES ASSUME NEW a \in Pids, status[a] = "live", \A p \in Pids : ~GoesOn(p)
             PROVE  FALSE
  BY DEF SomebodyGoesOn
<1> DEFINE Live == {p \in Pids : status[p] = "live"}
           Left(p) == Top(p).end - Top(p).begin
<1>1. ASSUME NEW p \in Live
      PROVE  LET q == Top(p).child
             IN  q \in Live /\ Left(p) \in Nat /\ Left(q) \in Nat /\ Left(q) < Left(p)
  <2> DEFINE q == Top(p).child
             n == Len(stack[p])
  <2>1. p \in Pids /\ pc[p] = "wait" /\ status[q] # "zombie" /\ status[p] = "live"
    BY <1>1 DEF GoesOn
  <2>2. stack[p] # <<>>
    BY <2>1 DEF IInv, Started
  <2>3. /\ n \in Nat /\ n >= 1 /\ Top(p) = stack[p][n]
        /\ Top(p) \in Frame /\ q \in Pids
    BY <2>1, <2>2, TopIsFrame DEF IInv, Frame
  <2>4. n \in 1 .. n /\ Forked(p, n)
    BY <2>1, <2>3 DEF Forked
  <2>5. q \in Live
    BY <2>1, <2>3, <2>4 DEF Kinship
  <2>6. /\ stack[q] # <<>> /\ stack[q][1].begin = Top(p).begin
        /\ stack[q][1].end = Mid(Top(p))
    BY <2>1, <2>3, <2>4 DEF IInv, LeftToChild
  <2>7. Top(q).begin >= Top(p).begin /\ Top(q).end = Mid(Top(p))
    BY <2>3, <2>6, TopIsTheEnd
  <2>8. /\ Top(p).begin \in Nat /\ Top(p).end \in Nat /\ Top(p).begin <= Top(p).end
        /\ Mid(Top(p)) \in Nat
    BY <2>1, <2>2, InACall
  <2>9. Top(q).begin \in Nat /\ Top(q).end \in Nat /\ Top(q).begin <= Top(q).end
    BY <2>3, <2>6, InACall
  <2>10. Mid(Top(p)) < Top(p).end
    <3>1. ~IsSmall(Top(p)) /\ threshold \in Nat
      BY <2>1, <2>3, <2>4 DEF IInv, Nested, Types
    <3>2. Top(p).begin < Top(p).end
      BY <2>8, <3>1 DEF IsSmall
    <3> QED
      BY <2>3, <2>8, <3>2, MidBetween
  <2> QED
    BY <2>5, <2>7, <2>8, <2>9, <2>10
<1> HIDE DEF Left
<1>2. a \in Live
  OBVIOUS
<1> DEFINE T == {Left(p) : p \in Live}
<1>3. T \subseteq Nat /\ T # {}
  BY <1>1, <1>2
<1>4. PICK k \in T : \A m \in T : k <= m
  BY <1>3, LeastNat
<1>5. PICK p \in Live : k = Left(p)
  BY <1>4
<1>6. Top(p).child \in Live /\ Left(p) \in Nat /\ Left(Top(p).child) \in Nat
      /\ Left(Top(p).child) < Left(p)
  BY <1>1, <1>5
<1>7. k <= Left(Top(p).child)
  BY <1>4, <1>6
<1> QED
  BY <1>5, <1>6, <1>7

\* The processes of the program never wait in a circle, and none of them waits
\* for a child that is not to be waited for: as long as one of them lives, one
\* can go on, whatever fails, for a file of any size and any threshold.
THEOREM NeverStuck == Spec => []SomebodyGoesOn
<1>1. IInv /\ Kinship /\ [Next]_vars => Kinship'
  <2> SUFFICES ASSUME IInv, Kinship, [Next]_vars PROVE Kinship'
    OBVIOUS
  <2>1. CASE Next
    BY <2>1, StepKinship DEF Next
  <2>2. CASE UNCHANGED vars
    <3>1. UNCHANGED <<stack, pc, status>>
      BY <2>2 DEF vars
    <3> QED
      BY <3>1, KinshipStays
  <2> QED
    BY <2>1, <2>2
<1> QED
  BY Invariant, KinshipAtStart, <1>1, LeastGoesOn, PTL DEF Spec

==============================================================================
