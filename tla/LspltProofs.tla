--------------------------- MODULE LspltProofs ---------------------------
(***************************************************************************)
(* Theorems about Lsplt and PltOwners, for every set of libraries, slots,  *)
(* functions and owners.                                                   *)
(*                                                                         *)
(* HooksRecordOriginal is not inductive: why the pages that are moved      *)
(* aside hold the original functions follows from the region having had    *)
(* no hook when it was moved (Clean), and a commit forgets no hook         *)
(* because the entries of moved regions are always kept (Kept).            *)
(***************************************************************************)
EXTENDS PltOwners, SequenceTheorems, FiniteSetTheorems, WellFoundedInduction, TLAPS

\* Of some naturals there is a least one.
LEMMA MinExists ==
    ASSUME NEW S, S \subseteq Nat, S # {}
    PROVE  \E m \in S : \A k \in S : m <= k
<1>1. IsWellFoundedOn(OpToRel(<, Nat), Nat)
  BY NatLessThanWellFounded
<1>2. PICK m \in S : \A y \in S : ~(<<y, m>> \in OpToRel(<, Nat))
  BY <1>1, WFMin
<1>3. \A y \in S : ~(y < m)
  BY <1>2 DEF OpToRel
<1> QED
  BY <1>3

\* A set of numbers that has 0 and each successor has all numbers.
LEMMA AllNaturals ==
    ASSUME NEW S, 0 \in S, \A n \in Nat : n \in S => n + 1 \in S
    PROVE  Nat \subseteq S
<1> DEFINE R == Nat \ S
<1> SUFFICES ASSUME R # {} PROVE FALSE
  OBVIOUS
<1>1. PICK m \in R : \A k \in R : m <= k
  BY MinExists
<1>2. m # 0 /\ m - 1 \in Nat /\ m - 1 \notin R
  BY <1>1
<1>3. m - 1 \in S /\ (m - 1) + 1 = m
  BY <1>2
<1> QED
  BY <1>2, <1>3

\* c is the function with a given first value and given steps.
Recursive(c, A, a, step) ==
    /\ c \in [Nat -> A]
    /\ c[0] = a
    /\ \A n \in Nat : c[n + 1] = step[<<n, c[n]>>]

LEMMA RecursionExists ==
    ASSUME NEW A, NEW a \in A, NEW step \in [Nat \X A -> A]
    PROVE  \E c : Recursive(c, A, a, step)
<1> DEFINE Part(k, g) == /\ g \in [0 .. k -> A] /\ g[0] = a
                         /\ \A n \in 0 .. k - 1 : g[n + 1] = step[<<n, g[n]>>]
           defined == {k \in Nat : \E g : Part(k, g)}
<1>1. Nat \subseteq defined
  <2>1. 0 \in defined
    <3>1. Part(0, [n \in 0 .. 0 |-> a])
      OBVIOUS
    <3> QED
      BY <3>1
  <2>2. ASSUME NEW k \in Nat, k \in defined PROVE k + 1 \in defined
    <3>1. PICK g : Part(k, g)
      BY <2>2
    <3> DEFINE h == [n \in 0 .. k + 1 |-> IF n = k + 1 THEN step[<<k, g[k]>>] ELSE g[n]]
    <3>2. h \in [0 .. k + 1 -> A] /\ h[0] = a
      BY <3>1
    <3>3. \A n \in 0 .. k : h[n] = g[n]
      OBVIOUS
    <3>4. h[k + 1] = step[<<k, g[k]>>]
      OBVIOUS
    <3> HIDE DEF h
    <3>5. ASSUME NEW n \in 0 .. (k + 1) - 1 PROVE h[n + 1] = step[<<n, h[n]>>]
      <4>1. CASE n = k
        BY <3>3, <3>4, <4>1
      <4>2. CASE n # k
        <5>1. n \in 0 .. k - 1 /\ n + 1 \in 0 .. k /\ n \in 0 .. k
          BY <4>2
        <5>2. g[n + 1] = step[<<n, g[n]>>]
          BY <3>1, <5>1
        <5>3. h[n + 1] = g[n + 1] /\ h[n] = g[n]
          BY <3>3, <5>1
        <5> QED
          BY <5>2, <5>3
      <4> QED
        BY <4>1, <4>2
    <3>6. Part(k + 1, h)
      BY <3>2, <3>5
    <3> QED
      BY <3>6
  <2> HIDE DEF defined
  <2> QED
    BY <2>1, <2>2, AllNaturals
<1>2. ASSUME NEW k \in Nat, NEW l \in Nat, NEW g, NEW h, Part(k, g), Part(l, h)
      PROVE  \A n \in Nat : n <= k /\ n <= l => g[n] = h[n]
  <2> DEFINE same == {n \in Nat : n <= k /\ n <= l => g[n] = h[n]}
  <2>1. 0 \in same
    BY <1>2
  <2>2. ASSUME NEW n \in Nat, n \in same PROVE n + 1 \in same
    <3> SUFFICES ASSUME n + 1 <= k, n + 1 <= l PROVE g[n + 1] = h[n + 1]
      OBVIOUS
    <3>1. n \in 0 .. k - 1 /\ n \in 0 .. l - 1 /\ n <= k /\ n <= l
      OBVIOUS
    <3>2. g[n] = h[n]
      BY <2>2, <3>1
    <3>3. g[n + 1] = step[<<n, g[n]>>] /\ h[n + 1] = step[<<n, h[n]>>]
      BY <1>2, <3>1
    <3> QED
      BY <3>2, <3>3
  <2>3. Nat \subseteq same
    <3> HIDE DEF same
    <3> QED
      BY <2>1, <2>2, AllNaturals
  <2> QED
    BY <2>3
<1> DEFINE c == [n \in Nat |-> (CHOOSE g : Part(n, g))[n]]
<1>3. ASSUME NEW n \in Nat PROVE \E g : Part(n, g) /\ c[n] = g[n]
  BY <1>1
<1>4. c \in [Nat -> A]
  BY <1>3
<1>5. c[0] = a
  BY <1>3
<1>6. ASSUME NEW n \in Nat PROVE c[n + 1] = step[<<n, c[n]>>]
  <2>1. PICK g : Part(n, g) /\ c[n] = g[n]
    BY <1>3
  <2>2. n + 1 \in Nat
    OBVIOUS
  <2>3. PICK h : Part(n + 1, h) /\ c[n + 1] = h[n + 1]
    <3> HIDE DEF c, Part
    <3> QED
      BY <1>3, <2>2
  <2>4. n <= n /\ n <= n + 1
    OBVIOUS
  <2>5. g[n] = h[n]
    <3> HIDE DEF c, Part
    <3> QED
      BY <2>1, <2>2, <2>3, <2>4, <1>2
  <2>6. h[n + 1] = step[<<n, h[n]>>]
    BY <2>3
  <2> QED
    BY <2>1, <2>3, <2>5, <2>6
<1> HIDE DEF c
<1> QED
  BY <1>4, <1>5, <1>6 DEF Recursive


\* A commit works on one entry at a time, that of a mapped library.
Committing ==
    /\ ~Locked => work = <<>>
    /\ work # <<>> => mapped[work.base] # NoLib /\ work.base \in hook_info

\* Of the region at b: nothing is known before a library is mapped there, and
\* a library is never without its functions (Mapped).  Outside LSPlt's own
\* library, a region that was not moved aside has no hooks (Clean), one that
\* was has an entry and functions in every slot (Kept), and the hooks, the
\* slots and the moved pages agree on the original functions (Recorded).
MappedAt(b) ==
    /\ mapped[b] = NoLib => mem[b] = NoPages /\ hooks[b] = NoHooks /\ ~backup[b]
    /\ mapped[b] # NoLib => \A s \in Slot : orig[b][s] \in Fn

CleanAt(b) == ~IsSelf(b) /\ ~backup[b] => hooks[b] = NoHooks

KeptAt(b) ==
    backup[b] => b \in hook_info /\ ~IsSelf(b) /\ \A s \in Slot : mem[b][s] \in Fn

RecordedAt(b) ==
    ~IsSelf(b) => \A s \in Slot :
        /\ hooks[b][s] \in {Null, orig[b][s]}
        /\ hooks[b][s] = Null => mem[b][s] = orig[b][s] \/ Hole(b)
        /\ backup[b] => saved[b][s] = orig[b][s]

RegionOK(b) == MappedAt(b) /\ CleanAt(b) /\ KeptAt(b) /\ RecordedAt(b)

IInv == TypeOK /\ Committing /\ \A b \in Base : RegionOK(b)

---------------------------------------------------------------------------
LEMMA RemoveAtType ==
    ASSUME NEW S, NEW seq \in Seq(S), NEW i \in DOMAIN seq
    PROVE  RemoveAt(seq, i) \in Seq(S)
<1>1. i \in 1..Len(seq) /\ Len(seq) \in Nat /\ \A j \in 1..Len(seq) : seq[j] \in S
  OBVIOUS
<1>2. SubSeq(seq, 1, i - 1) \in Seq(S)
  <2>1. \A j \in 1..(i - 1) : seq[j] \in S
    BY <1>1
  <2> QED BY <1>1, <2>1, SubSeqProperties
<1>3. SubSeq(seq, i + 1, Len(seq)) \in Seq(S)
  <2>1. \A j \in (i + 1)..Len(seq) : seq[j] \in S
    BY <1>1
  <2> QED BY <1>1, <2>1, SubSeqProperties
<1> QED BY <1>2, <1>3, ConcatProperties DEF RemoveAt

\* Next, one disjunct per step of a commit.
LEMMA NextCases ==
    ASSUME Next
    PROVE  \/ \E l \in Lib, b \in Base : Dlopen(l, b)
           \/ \E l \in Lib, y \in Sym, f \in Fn, p \in Ptr \cup {Null} : RegisterHook(l, y, f, p)
           \/ CommitHook
           \/ \E i \in DOMAIN register_info : TakeRegistration(i)
           \/ \E s \in Slot : DoHook(s)
           \/ FinishRegistration
           \/ CommitReturns
           \/ InvalidateBackup
<1>1. ASSUME NEW i \in 1..MaxPending, TakeRegistration(i) PROVE i \in DOMAIN register_info
  BY <1>1 DEF TakeRegistration
<1> QED BY <1>1 DEF Next, Register, Commit

LEMMA NoPagesType == NoPages \in [Slot -> Fn \cup {Null}] /\ NoHooks \in [Slot -> Fn \cup {Null}]
BY DEF NoPages, NoHooks

LEMMA DoHookType ==
    ASSUME TypeOK, Committing, NEW s \in Slot, DoHook(s)
    PROVE  TypeOK'
<1> DEFINE b == work.base
           f == work.callback
           g == mem[b][s]
           pages == IF ~backup[b] /\ ~IsSelf(b) THEN mem[b] ELSE saved[b]
<1>1. work \in Work /\ b \in Base /\ f \in Fn /\ work.ptr \in Ptr \cup {Null}
  <2>1. work \in Work
    BY DEF TypeOK, DoHook
  <2> QED BY <2>1 DEF Work
<1>2. work' \in Work
  BY <1>1 DEF DoHook, Work
<1>3. g \in Fn \cup {Null} /\ pages \in [Slot -> Fn \cup {Null}]
  BY <1>1 DEF TypeOK
<1>4. /\ mapped' \in [Base -> Lib \cup {NoLib}]
      /\ hook_info' \in SUBSET Base
      /\ register_info' \in Seq(Registration)
  BY DEF TypeOK, DoHook
<1>5. CASE HookSlot(b, s, f)
  <2>1. Recorded(b, s, f, g) \in Fn \cup {Null}
    BY <1>1, <1>3 DEF Recorded, TypeOK
  <2>2. hooks' \in [Base -> [Slot -> Fn \cup {Null}]]
    <3>1. [hooks[b] EXCEPT ![s] = Recorded(b, s, f, g)] \in [Slot -> Fn \cup {Null}]
      BY <1>1, <2>1 DEF TypeOK
    <3> QED BY <1>1, <1>5, <3>1 DEF HookSlot, TypeOK
  <2>3. old' \in [Ptr -> Fn \cup {Null}]
    BY <1>1, <1>3, <1>5 DEF HookSlot, BackupWritten, TypeOK
  <2>4. mem' \in [Base -> [Slot -> Fn \cup {Null}]]
    <3>1. CASE mem' = [mem EXCEPT ![b] = pages]
      BY <1>3, <3>1 DEF TypeOK
    <3>2. CASE mem' = [mem EXCEPT ![b][s] = f]
      <4>1. [mem[b] EXCEPT ![s] = f] \in [Slot -> Fn \cup {Null}]
        BY <1>1 DEF TypeOK
      <4> QED BY <3>2, <4>1 DEF TypeOK
    <3> QED BY <1>5, <3>1, <3>2 DEF HookSlot
  <2>5. saved' \in [Base -> [Slot -> Fn \cup {Null}]]
    <3>1. saved' = [saved EXCEPT ![b] = NoPages] \/ saved' = [saved EXCEPT ![b] = pages]
      BY <1>5 DEF HookSlot
    <3> QED BY <1>3, <3>1, NoPagesType DEF TypeOK
  <2>6. backup' \in [Base -> BOOLEAN]
    <3>1. IsSelf(b) \in BOOLEAN
      BY DEF IsSelf
    <3>2. backup' = [backup EXCEPT ![b] = FALSE] \/ backup' = [backup EXCEPT ![b] = ~IsSelf(b)]
      BY <1>5 DEF HookSlot
    <3> QED BY <3>1, <3>2 DEF TypeOK
  <2>7. result' \in {"none", "running", "failing", "true", "false"}
    <3>1. result' = result \/ result' = "failing"
      BY <1>5 DEF HookSlot
    <3> QED BY <3>1 DEF TypeOK
  <2>8. orig' \in [Base -> [Slot -> Fn \cup {Null}]]
    BY <1>5 DEF HookSlot, TypeOK
  <2> QED BY <1>2, <1>4, <2>2, <2>3, <2>4, <2>5, <2>6, <2>7, <2>8 DEF TypeOK
<1>6. CASE HookFails(b)
  <2>1. /\ mem' \in [Base -> [Slot -> Fn \cup {Null}]]
        /\ orig' \in [Base -> [Slot -> Fn \cup {Null}]]
    <3>1. InFile[mapped[b]] \in [Slot -> Fn \cup {Null}]
      <4>1. mapped[b] \in Lib
        BY <1>1 DEF Committing, TypeOK, DoHook
      <4> QED BY <4>1, LibAssumption
    <3>2. \/ mem' = mem /\ orig' = orig
          \/ mem' = [mem EXCEPT ![b] = NoPages] /\ orig' = orig
          \/ /\ mem' = [mem EXCEPT ![b] = InFile[mapped[b]]]
             /\ orig' = [orig EXCEPT ![b] = InFile[mapped[b]]]
      BY <1>6 DEF HookFails
    <3> QED BY <3>1, <3>2, NoPagesType DEF TypeOK
  <2>2. /\ hooks' = hooks /\ backup' = backup /\ saved' = saved /\ old' = old
        /\ result' = "failing"
    BY <1>6 DEF HookFails
  <2> QED BY <1>2, <1>4, <2>1, <2>2 DEF TypeOK
<1> QED BY <1>5, <1>6 DEF DoHook

LEMMA TypeStep == TypeOK /\ Committing /\ [Next]_vars => TypeOK'
<1> SUFFICES ASSUME TypeOK, Committing, [Next]_vars PROVE TypeOK'
  OBVIOUS
<1>1. ASSUME NEW l \in Lib, NEW b \in Base, Dlopen(l, b) PROVE TypeOK'
  <2>1. Loaded[l] \in [Slot -> Fn \cup {Null}]
    BY LibAssumption
  <2>2. mem' \in [Base -> [Slot -> Fn \cup {Null}]] /\ orig' \in [Base -> [Slot -> Fn \cup {Null}]]
    BY <1>1, <2>1 DEF Dlopen, TypeOK
  <2>3. mapped' \in [Base -> Lib \cup {NoLib}]
    BY <1>1 DEF Dlopen, TypeOK
  <2> QED BY <1>1, <2>2, <2>3 DEF Dlopen, TypeOK, infoVars
<1>2. ASSUME NEW l \in Lib, NEW y \in Sym, NEW f \in Fn, NEW p \in Ptr \cup {Null},
             RegisterHook(l, y, f, p)
      PROVE  TypeOK'
  <2>1. [lib |-> l, sym |-> y, callback |-> f, ptr |-> p] \in Registration
    BY DEF Registration
  <2>2. register_info' \in Seq(Registration)
    BY <1>2, <2>1, AppendProperties DEF RegisterHook, TypeOK
  <2> QED BY <1>2, <2>2 DEF RegisterHook, TypeOK, memVars, infoVars
<1>3. CASE CommitHook
  <2>1. hook_info' \in SUBSET Base
    BY <1>3 DEF CommitHook, TypeOK, Scanned, Merge
  <2>2. hooks' \in [Base -> [Slot -> Fn \cup {Null}]]
    BY <1>3, NoPagesType DEF CommitHook, TypeOK
  <2>3. result' \in {"none", "running", "failing", "true", "false"}
    BY <1>3 DEF CommitHook
  <2> QED BY <1>3, <2>1, <2>2, <2>3 DEF CommitHook, TypeOK, memVars
<1>4. ASSUME NEW i \in DOMAIN register_info, TakeRegistration(i) PROVE TypeOK'
  <2>1. register_info' \in Seq(Registration)
    BY <1>4, RemoveAtType DEF TakeRegistration, TypeOK
  <2>2. register_info[i] \in Registration
    BY DEF TypeOK
  <2>3. NextEntry \in Base
    BY <1>4 DEF TakeRegistration, Targets, TypeOK
  <2>4. work' \in Work
    BY <1>4, <2>2, <2>3, LibAssumption DEF TakeRegistration, Work, Registration
  <2> QED BY <1>4, <2>1, <2>4 DEF TakeRegistration, TypeOK, memVars, infoVars
<1>5. ASSUME NEW s \in Slot, DoHook(s) PROVE TypeOK'
  BY <1>5, DoHookType
<1>6. CASE FinishRegistration
  BY <1>6 DEF FinishRegistration, TypeOK, memVars, infoVars
<1>7. CASE CommitReturns
  <2>1. result' \in {"none", "running", "failing", "true", "false"}
    BY <1>7 DEF CommitReturns
  <2> QED BY <1>7, <2>1 DEF CommitReturns, TypeOK, memVars, infoVars
<1>8. CASE InvalidateBackup
  <2>0. PICK kept, locked \in SUBSET {b \in Base : backup[b]} :
          /\ mem' = [b \in Base |->
               IF ~backup[b] \/ b \in kept THEN mem[b]
               ELSE IF b \in locked THEN saved[b] ELSE Hooked(b)]
          /\ orig' = [b \in Base |-> IF backup[b] THEN mem'[b] ELSE orig[b]]
          /\ hooks' = [b \in Base |-> IF backup[b] THEN NoHooks ELSE hooks[b]]
          /\ backup' = [b \in Base |-> b \in kept]
          /\ saved' = [b \in Base |-> IF b \in kept THEN saved[b] ELSE NoPages]
          /\ result' = IF kept = {} THEN "true" ELSE "false"
    BY <1>8 DEF InvalidateBackup
  <2>1. \A b \in Base : Hooked(b) \in [Slot -> Fn \cup {Null}]
    BY DEF Hooked, TypeOK
  <2>2. mem' \in [Base -> [Slot -> Fn \cup {Null}]]
    BY <2>0, <2>1 DEF TypeOK
  <2>3. orig' \in [Base -> [Slot -> Fn \cup {Null}]]
    BY <2>0, <2>2 DEF TypeOK
  <2>4. hooks' \in [Base -> [Slot -> Fn \cup {Null}]] /\ saved' \in [Base -> [Slot -> Fn \cup {Null}]]
    BY <2>0, NoPagesType DEF TypeOK
  <2>5. backup' \in [Base -> BOOLEAN] /\ result' \in {"none", "running", "failing", "true", "false"}
    BY <2>0
  <2> QED BY <1>8, <2>2, <2>3, <2>4, <2>5 DEF InvalidateBackup, TypeOK
<1>9. CASE UNCHANGED vars
  BY <1>9 DEF vars, memVars, infoVars, TypeOK
<1> QED BY <1>1, <1>2, <1>3, <1>4, <1>5, <1>6, <1>7, <1>8, <1>9, NextCases

LEMMA CommittingStep ==
    ASSUME TypeOK, Committing, Next
    PROVE  Committing'
<1>0. TypeOK /\ Committing
  OBVIOUS
<1>1. ASSUME NEW l \in Lib, NEW b \in Base, Dlopen(l, b) PROVE Committing'
  <2>1. work' = work /\ result' = result /\ hook_info' = hook_info
    BY <1>1 DEF Dlopen, infoVars
  <2>2. ASSUME work # <<>> PROVE mapped'[work.base] # NoLib
    <3>1. work.base \in Base /\ work.base # b
      BY <1>0, <1>1, <2>2 DEF TypeOK, Work, Committing, Dlopen
    <3> QED BY <1>0, <1>1, <2>2, <3>1 DEF TypeOK, Committing, Dlopen
  <2> QED BY <1>0, <2>1, <2>2 DEF Committing, Locked
<1>2. ASSUME NEW l \in Lib, NEW y \in Sym, NEW f \in Fn, NEW p \in Ptr \cup {Null},
             RegisterHook(l, y, f, p)
      PROVE  Committing'
  BY <1>0, <1>2 DEF RegisterHook, Committing, Locked, memVars, infoVars
<1>3. CASE CommitHook
  <2>1. work' = work /\ work = <<>>
    BY <1>0, <1>3 DEF CommitHook, Committing
  <2> QED BY <2>1 DEF Committing
<1>4. ASSUME NEW i \in DOMAIN register_info, TakeRegistration(i) PROVE Committing'
  <2>1. register_info[i] \in Registration
    BY <1>0 DEF TypeOK
  <2>2. work'.base \in hook_info /\ mapped[work'.base] = register_info[i].lib
    BY <1>4 DEF TakeRegistration, Targets
  <2>3. register_info[i].lib # NoLib
    BY <2>1, LibAssumption DEF Registration
  <2> QED BY <1>4, <2>2, <2>3 DEF TakeRegistration, Committing, Locked, memVars, infoVars
<1>5. ASSUME NEW s \in Slot, DoHook(s) PROVE Committing'
  <2>1. result' = result \/ result' = "failing"
    BY <1>5 DEF DoHook, HookSlot, HookFails
  <2>2. Locked'
    BY <1>5, <2>1 DEF Locked, DoHook
  <2>3. work'.base = work.base
    BY <1>0, <1>5 DEF DoHook, TypeOK, Work
  <2>4. UNCHANGED <<mapped, hook_info>> /\ work # <<>>
    BY <1>5 DEF DoHook
  <2> QED BY <1>0, <2>2, <2>3, <2>4 DEF Committing
<1>6. CASE FinishRegistration
  BY <1>6 DEF FinishRegistration, Committing
<1>7. CASE CommitReturns
  BY <1>7 DEF CommitReturns, Committing
<1>8. CASE InvalidateBackup
  BY <1>0, <1>8 DEF InvalidateBackup, Committing
<1> QED BY <1>1, <1>2, <1>3, <1>4, <1>5, <1>6, <1>7, <1>8, NextCases

LEMMA TypeInit == Init => TypeOK
BY NoPagesType DEF Init, TypeOK

\* Every variable of LSPlt keeps its type: in particular a hook's record, a
\* backup variable and a moved page hold nothing but functions or null.
THEOREM TypeCorrect == Spec => []TypeOK
<1>1. Init => TypeOK /\ Committing
  BY TypeInit DEF Init, Committing
<1>2. TypeOK /\ Committing /\ [Next]_vars => (TypeOK /\ Committing)'
  <2>1. Committing /\ UNCHANGED vars => Committing'
    BY DEF vars, memVars, infoVars, Committing, Locked
  <2> QED BY <2>1, TypeStep, CommittingStep
<1> QED BY <1>1, <1>2, PTL DEF Spec

---------------------------------------------------------------------------
\* A step that leaves the region at b alone leaves it as it was.
LEMMA Frame ==
    ASSUME NEW b \in Base, RegionOK(b),
           mapped'[b] = mapped[b], mem'[b] = mem[b], orig'[b] = orig[b],
           hooks'[b] = hooks[b], backup'[b] = backup[b], saved'[b] = saved[b],
           b \in hook_info => b \in hook_info'
    PROVE  RegionOK(b)'
BY DEF RegionOK, MappedAt, CleanAt, KeptAt, RecordedAt, IsSelf, Hole

\* Hooking slot s of a region that is not LSPlt's own.
LEMMA HookSlotRegion ==
    ASSUME IInv, NEW b \in Base, NEW s \in Slot, NEW f \in Fn, HookSlot(b, s, f),
           ~IsSelf(b), mapped[b] # NoLib, b \in hook_info,
           UNCHANGED <<mapped, hook_info>>
    PROVE  RegionOK(b)'
<1> DEFINE g == mem[b][s]
           pages == IF ~backup[b] THEN mem[b] ELSE saved[b]
           record == [hooks[b] EXCEPT ![s] = Recorded(b, s, f, g)]
<1>0. TypeOK /\ RegionOK(b)
  BY DEF IInv
<1>1. /\ hooks[b] \in [Slot -> Fn \cup {Null}]
      /\ mem[b] \in [Slot -> Fn \cup {Null}]
      /\ saved[b] \in [Slot -> Fn \cup {Null}]
      /\ orig[b] \in [Slot -> Fn \cup {Null}]
      /\ backup[b] \in BOOLEAN
  BY <1>0 DEF TypeOK
<1>2. \A z \in Slot : orig[b][z] \in Fn
  BY <1>0 DEF RegionOK, MappedAt
<1>3. \A z \in Slot : pages[z] = orig[b][z]
  <2>1. CASE backup[b]
    BY <1>0, <2>1 DEF RegionOK, RecordedAt
  <2>2. CASE ~backup[b]
    <3>1. ~Hole(b) /\ hooks[b] = NoHooks
      BY <1>0, <2>2 DEF HookSlot, RegionOK, CleanAt
    <3> QED BY <1>0, <2>2, <3>1 DEF RegionOK, RecordedAt, NoHooks
  <2> QED BY <2>1, <2>2
<1>4. \A z \in Slot : mem[b][z] \in Fn
  <2>1. CASE backup[b]
    BY <1>0, <2>1 DEF RegionOK, KeptAt
  <2>2. CASE ~backup[b]
    BY <1>2, <1>3, <2>2
  <2> QED BY <2>1, <2>2
<1>5. ~Hole(b)
  BY <1>4, NullAssumption DEF Hole, NoPages
<1>6. \A z \in Slot : hooks[b][z] \in {Null, orig[b][z]} /\ (hooks[b][z] = Null => mem[b][z] = orig[b][z])
  BY <1>0, <1>5 DEF RegionOK, RecordedAt
<1>7. /\ hooks'[b] = record
      /\ mapped'[b] = mapped[b] /\ orig'[b] = orig[b] /\ b \in hook_info'
      /\ ~IsSelf(b)'
  BY <1>0 DEF HookSlot, TypeOK, IsSelf
<1>8. /\ record \in [Slot -> Fn \cup {Null}]
      /\ \A z \in Slot : z # s => record[z] = hooks[b][z]
      /\ record[s] \in {Null, orig[b][s]}
      /\ record[s] = Null => f = orig[b][s]
  <2>1. record[s] = Recorded(b, s, f, g)
    BY <1>1
  <2>2. \A z \in Slot : z # s => record[z] = hooks[b][z]
    BY <1>1
  <2>3. CASE hooks[b][s] = Null
    <3>1. Recorded(b, s, f, g) = orig[b][s] /\ orig[b][s] # Null
      BY <1>2, <1>6, <2>3, NullAssumption DEF Recorded
    <3> QED BY <1>1, <2>1, <2>2, <3>1
  <2>4. CASE hooks[b][s] # Null
    <3>1. hooks[b][s] = orig[b][s]
      BY <1>6, <2>4
    <3>2. CASE hooks[b][s] = f
      <4>1. Recorded(b, s, f, g) = Null
        BY <2>4, <3>2 DEF Recorded
      <4> QED BY <1>1, <2>1, <2>2, <3>1, <3>2, <4>1
    <3>3. CASE hooks[b][s] # f
      <4>1. Recorded(b, s, f, g) = orig[b][s] /\ orig[b][s] # Null
        BY <1>2, <2>4, <3>1, <3>3, NullAssumption DEF Recorded
      <4> QED BY <1>1, <2>1, <2>2, <4>1
    <3> QED BY <3>2, <3>3
  <2> QED BY <2>3, <2>4
<1>9. CASE /\ record = NoHooks
           /\ mem' = [mem EXCEPT ![b] = pages]
           /\ backup' = [backup EXCEPT ![b] = FALSE]
  <2>1. mem'[b] = pages /\ backup'[b] = FALSE
    BY <1>0, <1>9 DEF TypeOK
  <2>2. RecordedAt(b)'
    BY <1>1, <1>3, <1>7, <1>9, <2>1 DEF RecordedAt, NoHooks
  <2> QED BY <1>2, <1>7, <1>9, <2>1, <2>2, mapped[b] # NoLib DEF RegionOK, MappedAt, CleanAt, KeptAt
<1>10. CASE /\ mem' = [mem EXCEPT ![b][s] = f]
            /\ saved' = [saved EXCEPT ![b] = pages]
            /\ backup' = [backup EXCEPT ![b] = ~IsSelf(b)]
  <2>1. mem'[b] = [mem[b] EXCEPT ![s] = f] /\ saved'[b] = pages /\ backup'[b] = TRUE
    BY <1>0, <1>1, <1>10 DEF TypeOK
  <2>2. mem'[b][s] = f /\ \A z \in Slot : z # s => mem'[b][z] = mem[b][z]
    BY <1>1, <2>1
  <2>3. \A z \in Slot : record[z] \in {Null, orig[b][z]} /\ (record[z] = Null => mem'[b][z] = orig[b][z])
    BY <1>6, <1>8, <2>2
  <2>4. RecordedAt(b)'
    BY <1>3, <1>7, <2>1, <2>3 DEF RecordedAt
  <2>5. \A z \in Slot : mem'[b][z] \in Fn
    BY <1>4, <2>2
  <2> QED BY <1>2, <1>7, <2>1, <2>4, <2>5, mapped[b] # NoLib DEF RegionOK, MappedAt, CleanAt, KeptAt
<1> QED BY <1>9, <1>10 DEF HookSlot

\* Hooking a slot of LSPlt's own library keeps no record that matters.
LEMMA HookSlotSelf ==
    ASSUME IInv, NEW b \in Base, NEW s \in Slot, NEW f \in Fn, HookSlot(b, s, f),
           IsSelf(b), mapped[b] # NoLib,
           UNCHANGED <<mapped, hook_info>>
    PROVE  RegionOK(b)'
<1>0. TypeOK /\ RegionOK(b)
  BY DEF IInv
<1>1. ~backup'[b]
  BY <1>0 DEF HookSlot, TypeOK
<1>2. IsSelf(b)' /\ mapped'[b] = mapped[b] /\ orig'[b] = orig[b]
  BY DEF IsSelf, HookSlot
<1> QED BY <1>0, <1>1, <1>2, mapped[b] # NoLib DEF RegionOK, MappedAt, CleanAt, KeptAt, RecordedAt

LEMMA HookFailsRegion ==
    ASSUME IInv, NEW b \in Base, HookFails(b), mapped[b] # NoLib,
           UNCHANGED <<mapped, hook_info>>
    PROVE  RegionOK(b)'
<1>0. TypeOK /\ RegionOK(b)
  BY DEF IInv
<1>1. ~backup[b] /\ ~IsSelf(b) /\ hooks[b] = NoHooks
  BY <1>0 DEF HookFails, RegionOK, CleanAt
<1>2. /\ hooks' = hooks /\ backup' = backup /\ saved' = saved
      /\ mapped' = mapped /\ hook_info' = hook_info
  BY DEF HookFails
<1>3. CASE mem' = mem /\ orig' = orig
  BY <1>0, <1>2, <1>3, Frame
<1>4. CASE mem' = [mem EXCEPT ![b] = NoPages] /\ orig' = orig
  <2>1. Hole(b)'
    BY <1>0, <1>4 DEF Hole, TypeOK, NoPages
  <2>2. RecordedAt(b)'
    BY <1>0, <1>1, <1>2, <1>4, <2>1 DEF RegionOK, RecordedAt, IsSelf
  <2> QED BY <1>0, <1>1, <1>2, <1>4, <2>2, mapped[b] # NoLib DEF RegionOK, MappedAt, CleanAt, KeptAt
<1>5. CASE /\ mem' = [mem EXCEPT ![b] = InFile[mapped[b]]]
           /\ orig' = [orig EXCEPT ![b] = InFile[mapped[b]]]
  <2>1. mem'[b] = InFile[mapped[b]] /\ orig'[b] = mem'[b]
    BY <1>0, <1>5 DEF TypeOK
  <2>2. \A s \in Slot : orig'[b][s] \in Fn
    <3>1. mapped[b] \in Lib
      BY <1>0, mapped[b] # NoLib DEF TypeOK
    <3> QED BY <2>1, <3>1, LibAssumption
  <2>3. hooks'[b] = NoHooks /\ ~backup'[b] /\ mapped'[b] # NoLib
    BY <1>0, <1>1, <1>2, mapped[b] # NoLib DEF TypeOK
  <2>4. RecordedAt(b)'
    <3>1. \A s \in Slot : hooks'[b][s] = Null /\ mem'[b][s] = orig'[b][s]
      BY <2>1, <2>3 DEF NoHooks
    <3> QED BY <2>3, <3>1 DEF RecordedAt
  <2> QED BY <2>2, <2>3, <2>4 DEF RegionOK, MappedAt, CleanAt, KeptAt
<1> QED BY <1>3, <1>4, <1>5 DEF HookFails

LEMMA DoHookStep ==
    ASSUME IInv, NEW s \in Slot, DoHook(s)
    PROVE  IInv'
<1>0. TypeOK /\ Committing /\ Locked /\ work # <<>> /\ \A c \in Base : RegionOK(c)
  BY DEF IInv, DoHook
<1>a. PICK b \in Base : b = work.base
  BY <1>0 DEF TypeOK, Work
<1>1. work.callback \in Fn /\ mapped[b] # NoLib /\ b \in hook_info
  BY <1>0, <1>a DEF TypeOK, Work, Committing
<1>2. UNCHANGED <<mapped, hook_info>>
  BY DEF DoHook
<1>3. RegionOK(b)'
  BY <1>a, <1>1, <1>2, HookSlotRegion, HookSlotSelf, HookFailsRegion DEF DoHook
<1>4. ASSUME NEW c \in Base, c # b PROVE RegionOK(c)'
  <2>1. /\ mem'[c] = mem[c] /\ orig'[c] = orig[c] /\ hooks'[c] = hooks[c]
        /\ backup'[c] = backup[c] /\ saved'[c] = saved[c]
    <3>1. CASE HookSlot(b, s, work.callback)
      BY <1>0, <1>1, <1>4, <3>1 DEF HookSlot, TypeOK
    <3>2. CASE HookFails(b)
      BY <1>0, <1>1, <1>4, <3>2 DEF HookFails, TypeOK
    <3> QED BY <1>a, <3>1, <3>2 DEF DoHook
  <2> QED BY <1>0, <1>2, <2>1, Frame
<1>5. Committing'
  <2>1. result' = result \/ result' = "failing"
    BY DEF DoHook, HookSlot, HookFails
  <2>2. Locked'
    BY <1>0, <2>1 DEF Locked
  <2>3. work'.base = b
    BY <1>0, <1>a DEF DoHook, TypeOK, Work
  <2> QED BY <1>1, <1>2, <2>2, <2>3 DEF Committing
<1>6. TypeOK'
  BY <1>0, DoHookType
<1> QED BY <1>3, <1>4, <1>5, <1>6 DEF IInv

LEMMA InvalidateStep ==
    ASSUME IInv, InvalidateBackup, "invalidate" \notin Failures
    PROVE  \A b \in Base : RegionOK(b)'
<1>0. TypeOK /\ \A c \in Base : RegionOK(c)
  BY DEF IInv
<1>1. PICK kept, locked \in SUBSET {b \in Base : backup[b]} :
        /\ kept = {}
        /\ mem' = [b \in Base |->
             IF ~backup[b] \/ b \in kept THEN mem[b]
             ELSE IF b \in locked THEN saved[b] ELSE Hooked(b)]
        /\ orig' = [b \in Base |-> IF backup[b] THEN mem'[b] ELSE orig[b]]
        /\ hooks' = [b \in Base |-> IF backup[b] THEN NoHooks ELSE hooks[b]]
        /\ backup' = [b \in Base |-> b \in kept]
  BY DEF InvalidateBackup, MayFail
<1>2. mapped' = mapped /\ hook_info' = hook_info
  BY DEF InvalidateBackup
<1> SUFFICES ASSUME NEW b \in Base PROVE RegionOK(b)'
  OBVIOUS
<1>3. CASE backup[b]
  <2>1. /\ mem'[b] = IF b \in locked THEN saved[b] ELSE Hooked(b)
        /\ orig'[b] = mem'[b] /\ hooks'[b] = NoHooks /\ ~backup'[b]
        /\ mapped'[b] = mapped[b]
    BY <1>1, <1>2, <1>3
  <2>2. mapped[b] # NoLib
    BY <1>0, <1>3 DEF RegionOK, MappedAt
  <2>3. \A s \in Slot : saved[b][s] \in Fn /\ mem[b][s] \in Fn
    BY <1>0, <1>3, <2>2 DEF RegionOK, MappedAt, KeptAt, RecordedAt
  <2>4. \A s \in Slot : mem'[b][s] \in Fn
    BY <2>1, <2>3 DEF Hooked
  <2> QED BY <2>1, <2>2, <2>4 DEF RegionOK, MappedAt, CleanAt, KeptAt, RecordedAt, NoHooks
<1>4. CASE ~backup[b]
  <2>1. /\ mem'[b] = mem[b] /\ orig'[b] = orig[b] /\ hooks'[b] = hooks[b]
        /\ ~backup'[b] /\ mapped'[b] = mapped[b]
    BY <1>1, <1>2, <1>4
  <2> QED BY <1>0, <1>4, <2>1 DEF RegionOK, MappedAt, CleanAt, KeptAt, RecordedAt, IsSelf, Hole
<1> QED BY <1>3, <1>4, <1>0 DEF TypeOK

LEMMA CommitHookStep ==
    ASSUME IInv, CommitHook
    PROVE  \A b \in Base : RegionOK(b)'
<1>0. TypeOK /\ \A c \in Base : RegionOK(c)
  BY DEF IInv
<1>1. UNCHANGED <<mapped, mem, orig, backup, saved>>
  BY DEF CommitHook, memVars
<1> SUFFICES ASSUME NEW b \in Base PROVE RegionOK(b)'
  OBVIOUS
<1>2. CASE UNCHANGED <<hook_info, hooks>>
  BY <1>0, <1>1, <1>2, Frame
<1>3. CASE /\ hook_info' = Scanned \cup Merge
           /\ hooks' = [c \in Base |-> IF c \in Merge THEN hooks[c] ELSE NoHooks]
  <2>1. hooks'[b] = hooks[b] \/ (hooks'[b] = NoHooks /\ ~(b \in Merge))
    BY <1>3
  <2>2. backup[b] => b \in Merge
    BY <1>0 DEF RegionOK, KeptAt, Merge
  <2>3. backup[b] => b \in hook_info'
    BY <1>3, <2>2
  <2>4. CASE hooks'[b] = hooks[b]
    BY <1>0, <1>1, <2>3, <2>4 DEF RegionOK, MappedAt, CleanAt, KeptAt, RecordedAt, IsSelf, Hole
  <2>5. CASE hooks'[b] = NoHooks /\ ~backup[b]
    <3>1. ~IsSelf(b) => hooks'[b] = hooks[b]
      BY <1>0, <2>5 DEF RegionOK, CleanAt
    <3>2. CASE ~IsSelf(b)
      BY <2>4, <3>1, <3>2
    <3>3. CASE IsSelf(b)
      BY <1>0, <1>1, <2>5, <3>3 DEF RegionOK, MappedAt, CleanAt, KeptAt, RecordedAt, IsSelf
    <3> QED BY <3>2, <3>3
  <2> QED BY <2>1, <2>2, <2>4, <2>5
<1> QED BY <1>2, <1>3 DEF CommitHook

LEMMA DlopenStep ==
    ASSUME IInv, NEW l \in Lib, NEW a \in Base, Dlopen(l, a)
    PROVE  \A b \in Base : RegionOK(b)'
<1>0. TypeOK /\ \A c \in Base : RegionOK(c)
  BY DEF IInv
<1>1. UNCHANGED <<hook_info, hooks, backup, saved>>
  BY DEF Dlopen, infoVars
<1> SUFFICES ASSUME NEW b \in Base PROVE RegionOK(b)'
  OBVIOUS
<1>2. CASE b # a
  BY <1>0, <1>1, <1>2, Frame DEF Dlopen, TypeOK
<1>3. CASE b = a
  <2>1. mapped'[b] = l /\ mem'[b] = Loaded[l] /\ orig'[b] = Loaded[l] /\ l # NoLib
    BY <1>0, <1>3, LibAssumption DEF Dlopen, TypeOK
  <2>2. hooks[b] = NoHooks /\ ~backup[b]
    BY <1>0, <1>3 DEF Dlopen, RegionOK, MappedAt
  <2>3. \A s \in Slot : Loaded[l][s] \in Fn
    BY LibAssumption
  <2>4. hooks'[b] = NoHooks /\ ~backup'[b]
    BY <1>1, <2>2
  <2> QED BY <2>1, <2>3, <2>4 DEF RegionOK, MappedAt, CleanAt, KeptAt, RecordedAt, NoHooks
<1> QED BY <1>2, <1>3

LEMMA IInvStep == "invalidate" \notin Failures /\ IInv /\ [Next]_vars => IInv'
<1> SUFFICES ASSUME "invalidate" \notin Failures, IInv, [Next]_vars PROVE IInv'
  OBVIOUS
<1>0. TypeOK /\ Committing /\ \A c \in Base : RegionOK(c)
  BY DEF IInv
<1>1. TypeOK'
  BY <1>0, TypeStep
<1>2. CASE UNCHANGED vars
  <2>1. UNCHANGED <<mapped, mem, orig, hook_info, hooks, backup, saved, work, result>>
    BY <1>2 DEF vars, memVars, infoVars
  <2>2. Committing'
    BY <1>0, <2>1 DEF Committing, Locked
  <2>3. \A b \in Base : RegionOK(b)'
    BY <1>0, <2>1, Frame
  <2> QED BY <1>1, <2>2, <2>3 DEF IInv
<1>3. CASE Next
  <2>1. Committing'
    BY <1>0, <1>3, CommittingStep
  <2>2. \A b \in Base : RegionOK(b)'
    <3>1. CASE UNCHANGED <<memVars, infoVars>>
      BY <1>0, <3>1, Frame DEF memVars, infoVars
    <3>2. CASE \E s \in Slot : DoHook(s)
      BY <3>2, DoHookStep DEF IInv
    <3> QED BY <1>3, <3>1, <3>2, NextCases, DlopenStep, CommitHookStep, InvalidateStep
            DEF RegisterHook, TakeRegistration, FinishRegistration, CommitReturns
  <2> QED BY <1>1, <2>1, <2>2 DEF IInv
<1> QED BY <1>2, <1>3

LEMMA IInvInit == Init => IInv
<1> SUFFICES ASSUME Init PROVE IInv
  OBVIOUS
<1>1. TypeOK
  BY TypeInit
<1>2. Committing
  BY DEF Init, Committing
<1>3. \A b \in Base : RegionOK(b)
  BY DEF Init, RegionOK, MappedAt, CleanAt, KeptAt, RecordedAt, NoHooks, NoPages
<1> QED BY <1>1, <1>2, <1>3 DEF IInv

THEOREM IInvCorrect == ASSUME "invalidate" \notin Failures PROVE Spec => []IInv
<1>1. Init => IInv
  BY IInvInit
<1>2. IInv /\ [Next]_vars => IInv'
  BY IInvStep
<1> QED BY <1>1, <1>2, PTL DEF Spec

\* Unless an mremap of InvalidateBackup fails, the hooks, the slots and the
\* moved pages agree on the original functions, whatever else fails.
THEOREM HooksRecordOriginalCorrect ==
    ASSUME "invalidate" \notin Failures
    PROVE  Spec => []HooksRecordOriginal
<1>1. IInv => HooksRecordOriginal
  BY DEF IInv, RegionOK, RecordedAt, HooksRecordOriginal
<1> QED BY <1>1, IInvCorrect, PTL

---------------------------------------------------------------------------
LEMMA MovedHookSlot ==
    ASSUME IInv, MovedWhileHooked, "restore" \notin Failures,
           NEW b \in Base, NEW s \in Slot, NEW f \in Fn, HookSlot(b, s, f), ~IsSelf(b)
    PROVE  backup'[b] <=> hooks'[b] # NoHooks
<1> DEFINE record == [hooks[b] EXCEPT ![s] = Recorded(b, s, f, mem[b][s])]
<1>1. hooks'[b] = record
  BY DEF HookSlot, IInv, TypeOK
<1>2. CASE record = NoHooks /\ backup' = [backup EXCEPT ![b] = FALSE]
  BY <1>1, <1>2 DEF IInv, TypeOK
<1>3. CASE record # NoHooks /\ backup' = [backup EXCEPT ![b] = ~IsSelf(b)]
  BY <1>1, <1>3 DEF IInv, TypeOK
<1> QED BY <1>2, <1>3 DEF HookSlot, MayFail

LEMMA MovedStep ==
    ASSUME "restore" \notin Failures, "invalidate" \notin Failures,
           IInv, MovedWhileHooked, [Next]_vars
    PROVE  MovedWhileHooked'
<1> SUFFICES ASSUME NEW b \in Base, ~IsSelf(b)' PROVE (backup[b] <=> hooks[b] # NoHooks)'
  BY DEF MovedWhileHooked
<1>0. TypeOK /\ Committing /\ RegionOK(b) /\ (~IsSelf(b) => (backup[b] <=> hooks[b] # NoHooks))
  BY DEF IInv, MovedWhileHooked
<1>1. CASE UNCHANGED <<mapped, hooks, backup>>
  BY <1>0, <1>1 DEF IsSelf
<1>2. ASSUME NEW l \in Lib, NEW a \in Base, Dlopen(l, a)
      PROVE  (backup[b] <=> hooks[b] # NoHooks)'
  <2>1. hooks' = hooks /\ backup' = backup
    BY <1>2 DEF Dlopen, infoVars
  <2>2. CASE b = a
    BY <1>0, <1>2, <2>1, <2>2 DEF Dlopen, RegionOK, MappedAt
  <2>3. CASE b # a
    BY <1>0, <1>2, <2>1, <2>3 DEF Dlopen, TypeOK, IsSelf
  <2> QED BY <2>2, <2>3
<1>3. CASE CommitHook
  <2>1. backup' = backup /\ ~IsSelf(b)
    BY <1>3 DEF CommitHook, memVars, IsSelf
  <2>2. backup[b] => b \in Merge
    BY <1>0 DEF RegionOK, KeptAt, Merge
  <2>3. hooks'[b] = hooks[b] \/ (hooks'[b] = NoHooks /\ b \notin Merge)
    BY <1>3 DEF CommitHook
  <2> QED BY <1>0, <2>1, <2>2, <2>3
<1>4. ASSUME NEW s \in Slot, DoHook(s)
      PROVE  (backup[b] <=> hooks[b] # NoHooks)'
  <2>1. ~IsSelf(b)
    BY <1>4 DEF DoHook, IsSelf
  <2>2. work \in Work /\ work.callback \in Fn /\ work.base \in Base
    BY <1>0, <1>4 DEF TypeOK, DoHook, Work
  <2>3. CASE HookFails(work.base)
    BY <1>0, <2>1, <2>3 DEF HookFails
  <2>4. CASE HookSlot(work.base, s, work.callback) /\ b = work.base
    BY <2>1, <2>2, <2>4, MovedHookSlot
  <2>5. CASE HookSlot(work.base, s, work.callback) /\ b # work.base
    BY <1>0, <2>1, <2>2, <2>5 DEF HookSlot, TypeOK
  <2> QED BY <1>4, <2>3, <2>4, <2>5 DEF DoHook
<1>5. CASE InvalidateBackup
  <2>1. PICK kept \in SUBSET {c \in Base : backup[c]} :
          /\ kept = {}
          /\ hooks' = [c \in Base |-> IF backup[c] THEN NoHooks ELSE hooks[c]]
          /\ backup' = [c \in Base |-> c \in kept]
    BY <1>5 DEF InvalidateBackup, MayFail
  <2>2. ~backup'[b] /\ hooks'[b] = IF backup[b] THEN NoHooks ELSE hooks[b]
    BY <2>1
  <2>3. ~IsSelf(b)
    BY <1>5 DEF InvalidateBackup, IsSelf
  <2> QED BY <1>0, <2>2, <2>3
<1> QED BY <1>1, <1>2, <1>3, <1>4, <1>5, NextCases
        DEF RegisterHook, TakeRegistration, FinishRegistration, CommitReturns,
            memVars, infoVars, vars

\* If pages that were moved aside can always be moved back, they are aside
\* exactly as long as a slot of the region is hooked.
THEOREM MovedWhileHookedCorrect ==
    ASSUME "restore" \notin Failures, "invalidate" \notin Failures
    PROVE  Spec => []MovedWhileHooked
<1>1. Init => MovedWhileHooked
  BY DEF Init, MovedWhileHooked
<1>2. IInv /\ MovedWhileHooked /\ [Next]_vars => MovedWhileHooked'
  BY MovedStep
<1> QED BY <1>1, <1>2, IInvCorrect, PTL DEF Spec

LEMMA InvalidateKeepsMem ==
    ASSUME "mprotect" \notin Failures, "invalidate" \notin Failures, IInv, InvalidateBackup
    PROVE  mem' = mem
<1>1. TypeOK /\ \A b \in Base : RegionOK(b)
  BY DEF IInv
<1>2. mem' = [b \in Base |-> IF ~backup[b] THEN mem[b] ELSE Hooked(b)]
  BY DEF InvalidateBackup, MayFail
<1>3. ASSUME NEW b \in Base, backup[b] PROVE Hooked(b) = mem[b]
  <2>1. mem[b] \in [Slot -> Fn \cup {Null}]
    BY <1>1 DEF TypeOK
  <2>2. ASSUME NEW s \in Slot, hooks[b][s] = Null PROVE saved[b][s] = mem[b][s]
    <3>1. ~Hole(b)
      BY <1>1, <1>3, NullAssumption DEF RegionOK, KeptAt, Hole, NoPages
    <3> QED BY <1>1, <1>3, <2>2, <3>1 DEF RegionOK, KeptAt, RecordedAt
  <2> QED BY <2>1, <2>2 DEF Hooked
<1>4. mem = [b \in Base |-> mem[b]]
  BY <1>1 DEF TypeOK
<1> QED BY <1>2, <1>3, <1>4

\* If the moved pages can be put back and written, InvalidateBackup changes no
\* slot of any library, and so loses no hook.
THEOREM InvalidatedMeansHookedCorrect ==
    ASSUME "mprotect" \notin Failures, "invalidate" \notin Failures
    PROVE  Spec => InvalidatedMeansHooked
<1>1. IInv /\ [Next]_vars => [InvalidateBackup /\ result' = "true" => mem' = mem]_vars
  BY InvalidateKeepsMem
<1> QED BY <1>1, IInvCorrect, PTL DEF Spec, InvalidatedMeansHooked

---------------------------------------------------------------------------
(***************************************************************************)
(* The queue of redirections that a caller sees, from register_info.       *)
(***************************************************************************)
Redirection == [slots : SUBSET Slot, callback : Fn]

LEMMA RequestType == ASSUME NEW r \in Registration PROVE Request(r) \in Redirection
  BY LibAssumption DEF Registration, Request, Redirection

\* R collects the requests to l of the list, one registration after the other.
Collects(R, l, list) ==
    /\ R[0] = <<>>
    /\ \A n \in Nat :
         /\ R[n] \in Seq(Redirection)
         /\ n + 1 \in DOMAIN list /\ list[n + 1].lib = l
              => R[n + 1] = Append(R[n], Request(list[n + 1]))
         /\ n + 1 \notin DOMAIN list \/ list[n + 1].lib # l => R[n + 1] = R[n]

LEMMA RequestsCollect ==
    ASSUME NEW l, NEW list \in Seq(Registration)
    PROVE  Collects(Requests(l, list), l, list)
<1> DEFINE A == Seq(Redirection)
           More(n, q) == IF n \in DOMAIN list /\ list[n].lib = l
                         THEN Append(q, Request(list[n])) ELSE q
           step == [x \in Nat \X A |-> More(x[1] + 1, x[2])]
           Body(c) == [n \in Nat |->
               IF n = 0 THEN <<>>
               ELSE IF n \in DOMAIN list /\ list[n].lib = l
               THEN Append(c[n - 1], Request(list[n])) ELSE c[n - 1]]
<1>1. \A n \in Nat, q \in A : More(n, q) \in A
  <2> SUFFICES ASSUME NEW n \in Nat, NEW q \in A, n \in DOMAIN list
               PROVE  Append(q, Request(list[n])) \in A
    OBVIOUS
  <2>1. Request(list[n]) \in Redirection
    BY RequestType
  <2> QED
    BY <2>1, AppendProperties
<1>2. step \in [Nat \X A -> A]
  <2> HIDE DEF More, A
  <2> QED
    BY <1>1
<1>3. <<>> \in A
  OBVIOUS
<1>4. \A n \in Nat, q \in A : step[<<n, q>>] = More(n + 1, q)
  <2> HIDE DEF More, A
  <2> QED
    OBVIOUS
<1> HIDE DEF step, A
<1>5. PICK c : Recursive(c, A, <<>>, step)
  BY <1>2, <1>3, RecursionExists
<1>6. /\ c \in [Nat -> A] /\ c[0] = <<>>
      /\ \A n \in Nat : c[n + 1] = step[<<n, c[n]>>]
  BY <1>5 DEF Recursive
<1>7. c = Body(c)
  <2>1. ASSUME NEW n \in Nat, n # 0 PROVE c[n] = More(n, c[n - 1])
    <3>1. n - 1 \in Nat /\ (n - 1) + 1 = n
      BY <2>1
    <3> HIDE DEF More
    <3> QED
      BY <3>1, <1>4, <1>6
  <2> QED
    BY <2>1, <1>6
<1>8. Requests(l, list) = CHOOSE f : f = Body(f)
  BY Zenon DEF Requests
<1> HIDE DEF Body
<1>9. Requests(l, list) = Body(Requests(l, list))
  BY <1>7, <1>8
<1> USE DEF Body
<1> DEFINE R == Requests(l, list)
<1>10. \A n \in Nat : R[n] = IF n = 0 THEN <<>> ELSE More(n, R[n - 1])
  BY <1>9
<1> HIDE DEF More, R
<1>11. R[0] = <<>>
  BY <1>10
<1>12. ASSUME NEW n \in Nat PROVE R[n + 1] = More(n + 1, R[n])
  <2>1. n + 1 \in Nat /\ n + 1 # 0 /\ (n + 1) - 1 = n
    OBVIOUS
  <2> QED
    BY <2>1, <1>10
<1> DEFINE typed == {n \in Nat : R[n] \in A}
<1>13. Nat \subseteq typed
  <2>1. 0 \in typed
    BY <1>3, <1>11
  <2>2. ASSUME NEW n \in Nat, n \in typed PROVE n + 1 \in typed
    <3>1. n + 1 \in Nat /\ R[n] \in A
      BY <2>2
    <3>2. More(n + 1, R[n]) \in A
      BY <1>1, <3>1
    <3> QED
      BY <1>12, <3>1, <3>2
  <2> HIDE DEF typed
  <2> QED
    BY <2>1, <2>2, AllNaturals
<1> QED
  BY <1>11, <1>12, <1>13 DEF A, More, R, Collects

\* Lists that agree on their first k registrations ask the same with them.
LEMMA SamePrefix ==
    ASSUME NEW l, NEW list \in Seq(Registration), NEW other \in Seq(Registration),
           NEW k \in Nat, k <= Len(list), k <= Len(other),
           \A n \in 1 .. k : list[n] = other[n]
    PROVE  \A n \in 0 .. k : Requests(l, list)[n] = Requests(l, other)[n]
<1> DEFINE R == Requests(l, list)
           S == Requests(l, other)
           same == {n \in Nat : n <= k => R[n] = S[n]}
<1>0. Collects(R, l, list) /\ Collects(S, l, other)
  BY RequestsCollect
<1> HIDE DEF R, S
<1>1. 0 \in same
  BY <1>0 DEF Collects
<1>2. ASSUME NEW n \in Nat, n \in same PROVE n + 1 \in same
  <2> SUFFICES ASSUME n + 1 <= k PROVE R[n + 1] = S[n + 1]
    OBVIOUS
  <2>1. n + 1 \in DOMAIN list /\ n + 1 \in DOMAIN other /\ list[n + 1] = other[n + 1]
    OBVIOUS
  <2>2. R[n] = S[n]
    BY <1>2
  <2> QED
    BY <1>0, <2>1, <2>2 DEF Collects
<1>3. Nat \subseteq same
  <2> HIDE DEF same
  <2> QED
    BY <1>1, <1>2, AllNaturals
<1> QED
  BY <1>3 DEF R, S

LEMMA RequestsAppend ==
    ASSUME NEW l, NEW list \in Seq(Registration), NEW r \in Registration
    PROVE  Requests(l, Append(list, r))[Len(list) + 1] =
             IF r.lib = l THEN Append(Requests(l, list)[Len(list)], Request(r))
             ELSE Requests(l, list)[Len(list)]
<1> DEFINE more == Append(list, r)
<1>1. /\ more \in Seq(Registration) /\ Len(more) = Len(list) + 1 /\ Len(list) \in Nat
      /\ \A n \in 1 .. Len(list) : more[n] = list[n]
      /\ more[Len(list) + 1] = r /\ Len(list) + 1 \in DOMAIN more
  BY AppendProperties
<1> HIDE DEF more
<1>2. Requests(l, more)[Len(list)] = Requests(l, list)[Len(list)]
  BY <1>1, SamePrefix
<1>3. Collects(Requests(l, more), l, more)
  BY <1>1, RequestsCollect
<1> QED
  BY <1>1, <1>2, <1>3 DEF more, Collects

LEMMA RemoveAtProperties ==
    ASSUME NEW list \in Seq(Registration), NEW i \in DOMAIN list
    PROVE  LET rest == RemoveAt(list, i) IN
           /\ Len(rest) = Len(list) - 1 /\ Len(list) \in Nat \ {0}
           /\ i \in 1 .. Len(list)
           /\ \A n \in 1 .. Len(rest) : rest[n] = IF n < i THEN list[n] ELSE list[n + 1]
<1>1. i \in 1 .. Len(list) /\ Len(list) \in Nat \ {0}
  OBVIOUS
<1>2. /\ SubSeq(list, 1, i - 1) \in Seq(Registration)
      /\ Len(SubSeq(list, 1, i - 1)) = i - 1
      /\ \A n \in 1 .. i - 1 : SubSeq(list, 1, i - 1)[n] = list[n]
  BY <1>1
<1>3. /\ SubSeq(list, i + 1, Len(list)) \in Seq(Registration)
      /\ Len(SubSeq(list, i + 1, Len(list))) = Len(list) - i
      /\ \A n \in 1 .. Len(list) - i : SubSeq(list, i + 1, Len(list))[n] = list[i + n]
  BY <1>1
<1> DEFINE a == SubSeq(list, 1, i - 1)
           b == SubSeq(list, i + 1, Len(list))
<1>4. /\ Len(a \o b) = Len(list) - 1
      /\ \A n \in 1 .. Len(list) - 1 : (a \o b)[n] = IF n < i THEN a[n] ELSE b[n - (i - 1)]
  <2> HIDE DEF a, b
  <2>1. a \in Seq(Registration) /\ b \in Seq(Registration) /\ Len(a) = i - 1 /\ Len(b) = Len(list) - i
    BY <1>2, <1>3 DEF a, b
  <2> QED
    BY <1>1, <2>1, ConcatProperties
<1>5. ASSUME NEW n \in 1 .. Len(list) - 1
      PROVE  (a \o b)[n] = IF n < i THEN list[n] ELSE list[n + 1]
  <2>1. CASE n < i
    BY <1>2, <1>4, <2>1
  <2>2. CASE ~(n < i)
    <3>1. n - (i - 1) \in 1 .. Len(list) - i /\ i + (n - (i - 1)) = n + 1
      BY <1>1, <2>2
    <3>2. b[n - (i - 1)] = list[i + (n - (i - 1))]
      BY <1>3, <3>1
    <3> QED
      BY <1>4, <2>2, <3>1, <3>2
  <2> QED
    BY <2>1, <2>2
<1>6. RemoveAt(list, i) = a \o b
  BY DEF RemoveAt
<1> HIDE DEF a, b
<1> QED
  BY <1>1, <1>4, <1>5, <1>6

\* Taking the first registration of a library from the list takes its first
\* request, and no other library's.
TakesFirst(l, list, i) ==
    Requests(l, list)[Len(list)] =
      (IF list[i].lib = l THEN <<Request(list[i])>> ELSE <<>>)
      \o Requests(l, RemoveAt(list, i))[Len(RemoveAt(list, i))]

LEMMA RequestsRemove ==
    ASSUME NEW l, NEW list \in Seq(Registration), NEW i \in DOMAIN list,
           \A j \in 1 .. i - 1 : list[j].lib # list[i].lib
    PROVE  TakesFirst(l, list, i)
<1> DEFINE rest == RemoveAt(list, i)
           R == Requests(l, list)
           S == Requests(l, rest)
           first == IF list[i].lib = l THEN <<Request(list[i])>> ELSE <<>>
<1>1. /\ rest \in Seq(Registration) /\ Len(rest) = Len(list) - 1
      /\ Len(list) \in Nat \ {0} /\ i \in 1 .. Len(list)
      /\ \A n \in 1 .. Len(rest) : rest[n] = IF n < i THEN list[n] ELSE list[n + 1]
  BY RemoveAtType, RemoveAtProperties
<1> HIDE DEF rest
<1>2. Collects(R, l, list)
  BY RequestsCollect
<1>3. Collects(S, l, rest)
  BY <1>1, RequestsCollect
<1>4. Request(list[i]) \in Redirection
  BY RequestType
<1> DEFINE j == i - 1
<1>a. j \in Nat /\ i = j + 1 /\ j <= Len(list) /\ j <= Len(rest)
  BY <1>1
<1>b. \A n \in 1 .. j : list[n] = rest[n]
  BY <1>1
<1> HIDE DEF j
<1>5. R[j] = S[j]
  BY <1>1, <1>a, <1>b, SamePrefix
<1> HIDE DEF R, S
<1>6. ASSUME list[i].lib = l PROVE R[j] = <<>>
  <2> DEFINE empty == {n \in Nat : n < i => R[n] = <<>>}
  <2>1. 0 \in empty
    BY <1>2 DEF Collects
  <2>2. ASSUME NEW n \in Nat, n \in empty PROVE n + 1 \in empty
    <3> SUFFICES ASSUME n + 1 < i PROVE R[n + 1] = <<>>
      OBVIOUS
    <3>1. n + 1 \in 1 .. i - 1
      BY <1>1
    <3>2. list[n + 1].lib # l
      BY <1>6, <3>1
    <3> QED
      BY <1>2, <2>2, <3>2 DEF Collects
  <2>3. Nat \subseteq empty
    <3> HIDE DEF empty
    <3> QED
      BY <2>1, <2>2, AllNaturals
  <2> QED
    BY <1>a, <2>3
<1> DEFINE shifted == {n \in Nat : j + n < Len(list) => R[(j + n) + 1] = first \o S[j + n]}
<1>7. 0 \in shifted
  <2>1. j + 0 = j /\ j + 1 \in DOMAIN list
    BY <1>1, <1>a
  <2>2. R[j + 1] = IF list[i].lib = l THEN Append(R[j], Request(list[i])) ELSE R[j]
    BY <1>2, <1>a, <2>1 DEF Collects
  <2>3. S[j] \in Seq(Redirection)
    BY <1>3, <1>a DEF Collects
  <2>4. R[j + 1] = first \o S[j]
    <3>1. CASE list[i].lib = l
      BY <1>4, <1>5, <1>6, <2>2, <3>1
    <3>2. CASE list[i].lib # l
      BY <1>5, <2>2, <2>3, <3>2
    <3> QED
      BY <3>1, <3>2
  <2> HIDE DEF first
  <2> QED
    BY <2>1, <2>4
<1>8. ASSUME NEW n \in Nat, n \in shifted PROVE n + 1 \in shifted
  <2> SUFFICES ASSUME j + (n + 1) < Len(list)
               PROVE  R[(j + (n + 1)) + 1] = first \o S[j + (n + 1)]
    <3> HIDE DEF first
    <3> QED
      OBVIOUS
  <2> DEFINE k == j + n
             r == list[(k + 1) + 1]
  <2>1. k \in Nat /\ k < Len(list) /\ j + (n + 1) = k + 1
    BY <1>1, <1>a
  <2>2. R[k + 1] = first \o S[k]
    <3> HIDE DEF first
    <3> QED
      BY <1>8, <2>1
  <2> HIDE DEF k
  <2>3. (k + 1) + 1 \in DOMAIN list /\ k + 1 \in DOMAIN rest /\ rest[k + 1] = r
    <3>1. k + 1 < Len(list) /\ k + 1 >= i
      BY <1>a, <2>1 DEF k
    <3> QED
      BY <1>1, <2>1, <3>1
  <2>4. R[(k + 1) + 1] = IF r.lib = l THEN Append(R[k + 1], Request(r)) ELSE R[k + 1]
    <3>1. k + 1 \in Nat
      BY <2>1
    <3> QED
      BY <1>2, <2>3, <3>1 DEF Collects
  <2>5. S[k + 1] = IF r.lib = l THEN Append(S[k], Request(r)) ELSE S[k]
    BY <1>3, <2>1, <2>3 DEF Collects
  <2>6. first \in Seq(Redirection) /\ S[k] \in Seq(Redirection)
    BY <1>3, <1>4, <2>1 DEF Collects
  <2>7. Request(r) \in Redirection
    BY <2>3, RequestType
  <2> HIDE DEF first, r
  <2>8. Append(first \o S[k], Request(r)) = first \o Append(S[k], Request(r))
    <3>1. \A x \in Seq(Redirection), y \in Seq(Redirection), z \in Redirection :
            Append(x \o y, z) = x \o Append(y, z)
      OBVIOUS
    <3> QED
      BY <2>6, <2>7, <3>1
  <2> QED
    BY <2>1, <2>2, <2>4, <2>5, <2>8
<1>9. Nat \subseteq shifted
  <2> HIDE DEF shifted
  <2> QED
    BY <1>7, <1>8, AllNaturals
<1>10. R[Len(list)] = first \o S[Len(rest)]
  <2> DEFINE n == Len(rest) - j
  <2>1. n \in Nat /\ j + n = Len(rest) /\ j + n < Len(list) /\ (j + n) + 1 = Len(list)
    BY <1>1, <1>a
  <2>2. n \in shifted
    BY <1>9, <2>1
  <2> HIDE DEF first, n
  <2> QED
    BY <2>1, <2>2
<1> QED
  BY <1>10 DEF R, S, rest, first, TakesFirst

---------------------------------------------------------------------------
(***************************************************************************)
(* Lsplt implements PltView.  LSPlt's own library is never moved, so it    *)
(* always has its functions.                                               *)
(***************************************************************************)
SelfMapped ==
    \A b \in Base : IsSelf(b) /\ mapped[b] # NoLib => \A s \in Slot : mem[b][s] \in Fn

LEMMA SelfMappedStep ==
    ASSUME "mprotect" \notin Failures, "invalidate" \notin Failures,
           IInv, SelfMapped, [Next]_vars
    PROVE  SelfMapped'
<1>0. TypeOK
  BY DEF IInv
<1>1. CASE UNCHANGED <<mapped, mem>>
  BY <1>1 DEF SelfMapped, IsSelf
<1>2. ASSUME NEW l \in Lib, NEW b \in Base, Dlopen(l, b) PROVE SelfMapped'
  BY <1>0, <1>2, LibAssumption DEF Dlopen, SelfMapped, IsSelf, TypeOK
<1>3. ASSUME NEW s \in Slot, DoHook(s) PROVE SelfMapped'
  <2> SUFFICES ASSUME NEW b \in Base, IsSelf(b)', mapped'[b] # NoLib, NEW z \in Slot
               PROVE  mem'[b][z] \in Fn
    BY DEF SelfMapped
  <2>1. IsSelf(b) /\ mapped[b] # NoLib /\ mem[b][z] \in Fn
    BY <1>3 DEF DoHook, IsSelf, SelfMapped
  <2>2. work.base \in Base /\ work.callback \in Fn
    BY <1>0, <1>3 DEF DoHook, TypeOK, Work
  <2>3. CASE work.base # b
    BY <1>0, <1>3, <2>1, <2>2, <2>3 DEF DoHook, HookSlot, HookFails, TypeOK
  <2>4. CASE work.base = b
    <3>1. mem' = [mem EXCEPT ![b][s] = work.callback]
      BY <1>3, <2>1, <2>4 DEF DoHook, HookSlot, HookFails
    <3> QED
      BY <1>0, <2>1, <2>2, <3>1 DEF TypeOK
  <2> QED
    BY <2>3, <2>4
<1>4. CASE InvalidateBackup
  <2>1. mem' = mem /\ mapped' = mapped
    BY <1>4, InvalidateKeepsMem DEF InvalidateBackup
  <2> QED
    BY <2>1 DEF SelfMapped, IsSelf
<1> QED
  BY <1>1, <1>2, <1>3, <1>4, NextCases
     DEF RegisterHook, CommitHook, TakeRegistration, FinishRegistration, CommitReturns,
         memVars, infoVars, vars

Queues == [l \in Lib |-> Queue(l)]

LEMMA QueueSame ==
    ASSUME register_info' = register_info, NEW l, Taken(l)' = Taken(l)
    PROVE  Queue(l)' = Queue(l)
BY DEF Queue, Requests, Request

LEMMA QueueType ==
    ASSUME TypeOK, NEW l \in Lib
    PROVE  /\ Taken(l) \in Seq(Redirection)
           /\ Requests(l, register_info)[Len(register_info)] \in Seq(Redirection)
           /\ Queue(l) \in Seq(Redirection)
<1>1. Taken(l) \in Seq(Redirection)
  <2>1. CASE work = <<>>
    BY <2>1 DEF Taken
  <2>2. CASE work # <<>>
    <3>1. [slots |-> work.slots, callback |-> work.callback] \in Redirection
      BY <2>2 DEF TypeOK, Work, Redirection
    <3> DEFINE q == [slots |-> work.slots, callback |-> work.callback]
    <3> HIDE DEF q
    <3>2. <<q>> \in Seq(Redirection) /\ <<>> \in Seq(Redirection)
      BY <3>1 DEF q
    <3>3. Taken(l) = <<q>> \/ Taken(l) = <<>>
      BY DEF Taken, q
    <3> QED
      BY <3>2, <3>3
  <2> QED
    BY <2>1, <2>2
<1>2. register_info \in Seq(Registration) /\ Len(register_info) \in Nat
  BY DEF TypeOK
<1>3. Requests(l, register_info)[Len(register_info)] \in Seq(Redirection)
  BY <1>2, RequestsCollect DEF Collects
<1> QED
  BY <1>1, <1>3, ConcatProperties DEF Queue

LEMMA ViewInit == Init => View!Init
<1> SUFFICES ASSUME Init PROVE View!Init
  OBVIOUS
<1>1. ASSUME NEW l \in Lib PROVE Queue(l) = <<>>
  <2>1. Taken(l) = <<>> /\ register_info = <<>>
    BY DEF Init, Taken
  <2>2. Requests(l, <<>>)[0] = <<>>
    <3>1. <<>> \in Seq(Registration)
      OBVIOUS
    <3> QED
      BY <3>1, RequestsCollect DEF Collects
  <2> QED
    BY <2>1, <2>2 DEF Queue
<1> QED
  BY <1>1 DEF Init, View!Init

Seen == [View!Next]_(View!vars)

\* Steps that a caller does not see.
LEMMA Unseen ==
    ASSUME UNCHANGED <<mapped, mem>>, \A l \in Lib : Queue(l)' = Queue(l)
    PROVE  Seen
BY DEF Seen, View!vars

LEMMA DlopenSeen ==
    ASSUME IInv, NEW l \in Lib, NEW b \in Base, Dlopen(l, b)
    PROVE  Seen
<1>1. ASSUME NEW k \in Lib PROVE Queue(k)' = Queue(k)
  <2>1. work' = work /\ register_info' = register_info
    BY DEF Dlopen
  <2>2. work # <<>> => mapped'[work.base] = mapped[work.base]
    <3> SUFFICES ASSUME work # <<>> PROVE mapped'[work.base] = mapped[work.base]
      OBVIOUS
    <3>1. work.base \in Base /\ work.base # b
      BY DEF IInv, TypeOK, Work, Committing, Dlopen
    <3> QED
      BY <3>1 DEF Dlopen, IInv, TypeOK
  <2>3. Taken(k)' = Taken(k)
    BY <2>1, <2>2 DEF Taken
  <2> QED
    BY <2>1, <2>3, QueueSame
<1>2. View!Load(l, b)
  BY <1>1 DEF View!Load, Dlopen
<1> QED
  BY <1>2 DEF Seen, View!Next

LEMMA RegisterSeen ==
    ASSUME IInv, NEW l \in Lib, NEW y \in Sym, NEW f \in Fn, NEW p \in Ptr \cup {Null},
           RegisterHook(l, y, f, p)
    PROVE  Seen
<1> DEFINE r == [lib |-> l, sym |-> y, callback |-> f, ptr |-> p]
           q == [slots |-> Plt[l][y], callback |-> f]
<1>1. /\ register_info \in Seq(Registration) /\ register_info' = Append(register_info, r)
      /\ r \in Registration /\ Request(r) = q /\ r.lib = l
      /\ Len(register_info)' = Len(register_info) + 1
  BY DEF IInv, TypeOK, RegisterHook, Registration, Request
<1>2. UNCHANGED <<mapped, mem, work>>
  BY DEF RegisterHook, memVars
<1>3. q \in Redirection
  BY <1>1, RequestType
<1> HIDE DEF r, q
<1>4. ASSUME NEW k \in Lib
      PROVE  Queue(k)' = IF k = l THEN Append(Queue(k), q) ELSE Queue(k)
  <2> DEFINE before == Requests(k, register_info)[Len(register_info)]
             after == Requests(k, Append(register_info, r))[Len(register_info) + 1]
  <2>1. after = IF k = l THEN Append(before, q) ELSE before
    BY <1>1, RequestsAppend
  <2>2. Taken(k)' = Taken(k)
    BY <1>2 DEF Taken
  <2>3. Queue(k)' = Taken(k) \o after
    BY <1>1, <2>2 DEF Queue, Requests, Request
  <2>4. Taken(k) \in Seq(Redirection) /\ before \in Seq(Redirection)
    BY QueueType DEF IInv
  <2>5. Queue(k) = Taken(k) \o before
    BY DEF Queue
  <2> HIDE DEF before, after
  <2>6. Append(Taken(k) \o before, q) = Taken(k) \o Append(before, q)
    <3>1. \A x \in Seq(Redirection), z \in Seq(Redirection) :
            Append(x \o z, q) = x \o Append(z, q)
      BY <1>3
    <3> QED
      BY <2>4, <3>1
  <2> QED
    BY <2>1, <2>3, <2>5, <2>6
<1>5. View!Request(l, Plt[l][y], f)
  BY <1>2, <1>4 DEF View!Request, q
<1>6. Plt[l][y] \in SUBSET Slot
  BY LibAssumption
<1> QED
  BY <1>5, <1>6 DEF Seen, View!Next

LEMMA TakeSeen ==
    ASSUME IInv, NEW i \in DOMAIN register_info, TakeRegistration(i)
    PROVE  Seen
<1> DEFINE r == register_info[i]
           rest == RemoveAt(register_info, i)
<1>1. /\ register_info \in Seq(Registration) /\ register_info' = rest
      /\ work = <<>> /\ UNCHANGED <<mapped, mem>> /\ r \in Registration
      /\ rest \in Seq(Registration)
  BY RemoveAtType DEF IInv, TypeOK, TakeRegistration, memVars
<1>2. /\ work' = [base |-> NextEntry, callback |-> r.callback, ptr |-> r.ptr,
                  slots |-> Plt[r.lib][r.sym]]
      /\ mapped[NextEntry] = r.lib
  BY DEF TakeRegistration, Targets
<1>3. \A j \in 1 .. i - 1 : register_info[j].lib # r.lib
  BY DEF TakeRegistration, Targets
<1>4. ASSUME NEW k \in Lib PROVE Queue(k)' = Queue(k)
  <2>1. Requests(k, register_info)[Len(register_info)] =
          (IF r.lib = k THEN <<Request(r)>> ELSE <<>>) \o Requests(k, rest)[Len(rest)]
    <3>1. \A j \in 1 .. i - 1 : register_info[j].lib # register_info[i].lib
      BY <1>3
    <3>2. register_info \in Seq(Registration)
      BY <1>1
    <3>3. TakesFirst(k, register_info, i)
      BY <3>1, <3>2, RequestsRemove
    <3> QED
      BY <3>3 DEF TakesFirst
  <2>2. Taken(k) = <<>>
    BY <1>1 DEF Taken
  <2>3. Taken(k)' = IF r.lib = k THEN <<Request(r)>> ELSE <<>>
    <3>1. work' # <<>>
      BY <1>2
    <3>2. Request(r) = [slots |-> Plt[r.lib][r.sym], callback |-> r.callback]
      BY DEF Request
    <3>3. work'.callback = r.callback /\ work'.slots = Plt[r.lib][r.sym]
          /\ mapped'[work'.base] = r.lib
      BY <1>1, <1>2
    <3> HIDE DEF r
    <3> QED
      BY <3>1, <3>2, <3>3 DEF Taken
  <2>4. Queue(k)' = Taken(k)' \o Requests(k, rest)[Len(rest)]
    BY <1>1 DEF Queue, Requests, Request
  <2>5. Queue(k) = Requests(k, register_info)[Len(register_info)]
    BY <2>2, QueueType, ConcatEmptySeq DEF Queue, IInv
  <2> QED
    BY <2>1, <2>3, <2>4, <2>5
<1> QED
  BY <1>1, <1>4, Unseen

LEMMA FinishSeen == ASSUME IInv, FinishRegistration PROVE Seen
<1>1. /\ work \in Work /\ work.slots = {} /\ work' = <<>> /\ work # <<>>
      /\ UNCHANGED <<mapped, mem, register_info>>
      /\ mapped[work.base] \in Lib
  BY DEF IInv, TypeOK, Work, Committing, FinishRegistration, memVars
<1>2. PICK l \in Lib : l = mapped[work.base]
  BY <1>1
<1> DEFINE q == [slots |-> work.slots, callback |-> work.callback]
<1>3. \A k \in Lib : Taken(k) = (IF k = l THEN <<q>> ELSE <<>>) /\ Taken(k)' = <<>>
  BY <1>1, <1>2 DEF Taken
<1>4. ASSUME NEW k \in Lib
      PROVE  Queue(k) = IF k = l THEN <<q>> \o Queue(k)' ELSE Queue(k)'
  <2> DEFINE asked == Requests(k, register_info)[Len(register_info)]
  <2>1. asked \in Seq(Redirection)
    BY QueueType DEF IInv
  <2>2. Queue(k)' = <<>> \o asked
    BY <1>1, <1>3 DEF Queue, Requests, Request
  <2>3. Queue(k) = Taken(k) \o asked
    BY DEF Queue
  <2> HIDE DEF asked
  <2>4. <<>> \o asked = asked
    BY <2>1
  <2> QED
    BY <1>3, <2>2, <2>3, <2>4
<1>5. Queue(l)' \in Seq(Redirection)
  <2>1. Queue(l)' = Requests(l, register_info)[Len(register_info)]
    <3>1. Queue(l)' = <<>> \o Requests(l, register_info)[Len(register_info)]
      BY <1>1, <1>3 DEF Queue, Requests, Request
    <3> QED
      BY <3>1, QueueType, ConcatEmptySeq DEF IInv
  <2> QED
    BY <2>1, QueueType DEF IInv
<1>6. q \in Redirection /\ q.slots = {}
  BY <1>1 DEF Work, Redirection
<1> HIDE DEF q
<1>7. /\ Queue(l) # <<>> /\ Head(Queue(l)) = q /\ Tail(Queue(l)) = Queue(l)'
  BY <1>4, <1>5, <1>6
<1>8. View!Finish(l)
  BY <1>1, <1>4, <1>6, <1>7 DEF View!Finish
<1> QED
  BY <1>8 DEF Seen, View!Next

\* What HookSlot does to the pages: if they are put back, the slot has the
\* function that it is to have, and no other slot was hooked.
LEMMA HookSlotMem ==
    ASSUME IInv, SelfMapped, NEW b \in Base, NEW s \in Slot, NEW f \in Fn,
           HookSlot(b, s, f), mapped[b] # NoLib
    PROVE  mem' = [mem EXCEPT ![b][s] = f] /\ mem[b] # NoPages
<1> DEFINE record == [hooks[b] EXCEPT ![s] = Recorded(b, s, f, mem[b][s])]
           pages == IF ~backup[b] THEN mem[b] ELSE saved[b]
<1>0. TypeOK /\ RegionOK(b)
  BY DEF IInv
<1>1. mem[b] # NoPages
  <2>1. CASE IsSelf(b)
    BY <2>1, NullAssumption DEF SelfMapped, NoPages
  <2>2. CASE ~IsSelf(b) /\ backup[b]
    BY <1>0, <2>2, NullAssumption DEF RegionOK, KeptAt, NoPages
  <2>3. CASE ~IsSelf(b) /\ ~backup[b]
    BY <2>3 DEF HookSlot, Hole
  <2> QED
    BY <2>1, <2>2, <2>3
<1>2. ASSUME ~IsSelf(b), record = NoHooks, mem' = [mem EXCEPT ![b] = pages]
      PROVE  pages = [mem[b] EXCEPT ![s] = f]
  <2>1. /\ hooks[b] \in [Slot -> Fn \cup {Null}] /\ mem[b] \in [Slot -> Fn \cup {Null}]
        /\ pages \in [Slot -> Fn \cup {Null}]
    BY <1>0 DEF TypeOK
  <2>2. /\ \A z \in Slot : z # s => hooks[b][z] = Null
        /\ Recorded(b, s, f, mem[b][s]) = Null
    BY <1>2, <2>1 DEF NoHooks
  <2>3. \A z \in Slot : /\ orig[b][z] \in Fn /\ hooks[b][z] \in {Null, orig[b][z]}
                        /\ hooks[b][z] = Null => mem[b][z] = orig[b][z]
    BY <1>0, <1>1, <1>2 DEF RegionOK, RecordedAt, MappedAt, Hole
  <2>4. hooks[b][s] = f /\ hooks[b][s] # Null
    BY <2>2, <2>3, NullAssumption DEF Recorded
  <2>5. backup[b]
    BY <1>0, <1>2, <2>4 DEF RegionOK, CleanAt, NoHooks
  <2>6. \A z \in Slot : pages[z] = orig[b][z]
    BY <1>0, <1>2, <2>5 DEF RegionOK, RecordedAt
  <2>7. \A z \in Slot : pages[z] = IF z = s THEN f ELSE mem[b][z]
    BY <2>2, <2>3, <2>4, <2>6
  <2> HIDE DEF pages
  <2> QED
    BY <2>1, <2>7
<1>3. CASE mem' = [mem EXCEPT ![b][s] = f]
  BY <1>1, <1>3
<1>4. CASE ~IsSelf(b) /\ record = NoHooks /\ mem' = [mem EXCEPT ![b] = pages]
  <2>1. pages = [mem[b] EXCEPT ![s] = f]
    BY <1>2, <1>4
  <2> HIDE DEF pages
  <2> QED
    BY <1>0, <1>1, <1>4, <2>1 DEF TypeOK
<1> QED
  BY <1>3, <1>4 DEF HookSlot

LEMMA DoHookSeen ==
    ASSUME IInv, SelfMapped, NEW s \in Slot, DoHook(s)
    PROVE  Seen
<1>1. /\ work \in Work /\ work # <<>> /\ s \in work.slots
      /\ work' = [work EXCEPT !.slots = @ \ {s}]
      /\ UNCHANGED <<mapped, register_info>>
  BY DEF IInv, TypeOK, DoHook
<1>2. PICK b \in Base : b = work.base
  BY <1>1 DEF Work
<1>3. PICK l \in Lib : l = mapped[b] /\ l # NoLib
  BY <1>1, <1>2 DEF IInv, TypeOK, Committing
<1> DEFINE q == [slots |-> work.slots, callback |-> work.callback]
           r == [q EXCEPT !.slots = q.slots \ {s}]
<1>4. /\ q \in Redirection /\ r \in Redirection /\ s \in q.slots
      /\ q.callback = work.callback /\ work.callback \in Fn
  BY <1>1 DEF Work, Redirection
<1>5. \A k \in Lib : /\ Taken(k) = (IF k = l THEN <<q>> ELSE <<>>)
                     /\ Taken(k)' = (IF k = l THEN <<r>> ELSE <<>>)
  <2>1. /\ work' # <<>> /\ work'.base = b /\ work'.callback = work.callback
        /\ work'.slots = work.slots \ {s}
    BY <1>1, <1>2 DEF Work
  <2>2. r = [slots |-> work.slots \ {s}, callback |-> work.callback]
    OBVIOUS
  <2>3. ASSUME NEW k \in Lib PROVE Taken(k) = (IF k = l THEN <<q>> ELSE <<>>)
    BY <1>1, <1>2, <1>3 DEF Taken
  <2> HIDE DEF r
  <2>4. ASSUME NEW k \in Lib PROVE Taken(k)' = (IF k = l THEN <<r>> ELSE <<>>)
    BY <1>1, <1>2, <1>3, <2>1, <2>2 DEF Taken
  <2> QED
    BY <2>3, <2>4
<1> HIDE DEF q, r
<1>6. ASSUME NEW k \in Lib
      PROVE  Queue(k)' = IF k = l THEN <<r>> \o Tail(Queue(l)) ELSE Queue(k)
  <2> DEFINE asked == Requests(k, register_info)[Len(register_info)]
  <2>1. asked \in Seq(Redirection)
    BY QueueType DEF IInv
  <2>2. Queue(k)' = Taken(k)' \o asked
    BY <1>1 DEF Queue, Requests, Request
  <2>3. Queue(k) = Taken(k) \o asked
    BY DEF Queue
  <2> HIDE DEF asked
  <2>4. Tail(<<q>> \o asked) = asked
    BY <1>4, <2>1
  <2> QED
    BY <1>5, <2>2, <2>3, <2>4
<1>7. Queue(l) # <<>> /\ Head(Queue(l)) = q
  <2> DEFINE asked == Requests(l, register_info)[Len(register_info)]
  <2>1. asked \in Seq(Redirection) /\ Queue(l) = <<q>> \o asked
    BY <1>5, QueueType DEF IInv, Queue
  <2> HIDE DEF asked
  <2> QED
    BY <1>4, <2>1
<1>8. Queues' = [Queues EXCEPT ![l] = <<r>> \o Tail(Queue(l))]
  BY <1>6 DEF Queues
<1>9. r = [q EXCEPT !.slots = q.slots \ {s}]
  BY DEF r
<1>10. \/ UNCHANGED mem
       \/ mem[b] # NoPages /\ mem' = [mem EXCEPT ![b][s] = Head(Queue(l)).callback]
       \/ \E pages \in {NoPages, InFile[l]} : mem' = [mem EXCEPT ![b] = pages]
  <2>1. CASE HookSlot(b, s, work.callback)
    BY <1>3, <1>4, <1>7, <2>1, HookSlotMem
  <2>2. CASE HookFails(b)
    BY <1>3, <2>2 DEF HookFails
  <2> QED
    BY <1>2, <2>1, <2>2 DEF DoHook
<1>11. View!Redirect(b, s)
  BY <1>1, <1>3, <1>4, <1>7, <1>8, <1>9, <1>10 DEF View!Redirect, Queues
<1> QED
  BY <1>11 DEF Seen, View!Next

LEMMA StepSeen ==
    ASSUME "mprotect" \notin Failures, "invalidate" \notin Failures,
           IInv, SelfMapped, [Next]_vars
    PROVE  Seen
<1>1. CASE UNCHANGED <<mapped, mem, work, register_info>>
  <2>1. \A l \in Lib : Taken(l)' = Taken(l)
    BY <1>1 DEF Taken
  <2> QED
    BY <1>1, <2>1, QueueSame, Unseen
<1>2. CASE InvalidateBackup
  <2>1. UNCHANGED <<mapped, mem, work, register_info>>
    BY <1>2, InvalidateKeepsMem DEF InvalidateBackup
  <2> QED
    BY <1>1, <2>1
<1>3. CASE CommitHook \/ CommitReturns \/ UNCHANGED vars
  <2>1. UNCHANGED <<mapped, mem, work, register_info>>
    BY <1>3 DEF CommitHook, CommitReturns, vars, memVars
  <2> QED
    BY <1>1, <2>1
<1> QED
  BY <1>2, <1>3, NextCases, DlopenSeen, RegisterSeen, TakeSeen, FinishSeen, DoHookSeen

\* To a caller who knows nothing of regions, LSPlt redirects slots one at a
\* time and in the order of the registrations, whatever scans and moves fail.
THEOREM ImplementsPltViewCorrect ==
    ASSUME "mprotect" \notin Failures, "invalidate" \notin Failures
    PROVE  Spec => ImplementsPltView
<1>1. Init => SelfMapped
  BY DEF Init, SelfMapped
<1>2. IInv /\ SelfMapped /\ [Next]_vars => SelfMapped'
  BY SelfMappedStep
<1>3. Spec => [](IInv /\ SelfMapped)
  BY <1>1, <1>2, IInvCorrect, PTL DEF Spec
<1>4. IInv /\ SelfMapped /\ [Next]_vars => Seen
  BY StepSeen
<1> QED
  BY <1>3, <1>4, ViewInit, PTL DEF Spec, ImplementsPltView, View!Spec, Seen

---------------------------------------------------------------------------
(***************************************************************************)
(* The owners who share LSPlt.  Callers may register while earlier         *)
(* registrations are queued, and a commit takes those of one library       *)
(* before those of another, so the invariant says what each registration   *)
(* will find in its slots when its turn comes (Found).                     *)
(***************************************************************************)
Callbacks == {Callback[o] : o \in Owner}

\* v is what those of owners up to n leave in a slot: the callback of the n-th,
\* or, if n is 0, a function that is nobody's callback.
OnTop(v, owners, n) == IF n = 0 THEN v \notin Callbacks ELSE v = Callback[owners[n]]

Touches(r, l, s) == r.lib = l /\ s \in Plt[l][r.sym]

\* The slot once the registration that is under way is done.
Now(b, s) ==
    IF work # <<>> /\ work.base = b /\ s \in work.slots THEN work.callback ELSE mem[b][s]

\* v is in the slot when the i-th registration of the list is next: the
\* callback of the last one before it for that slot, if there is one.
Found(b, s, i, v) ==
    \/ /\ \A j \in 1 .. i - 1 : ~Touches(register_info[j], mapped[b], s)
       /\ v = Now(b, s)
    \/ \E j \in 1 .. i - 1 :
         /\ Touches(register_info[j], mapped[b], s) /\ v = register_info[j].callback
         /\ \A k \in 1 .. i - 1 : j < k => ~Touches(register_info[k], mapped[b], s)

Held(o, l, y, n) == n \in DOMAIN held[l][y] /\ held[l][y][n] = o
Queued(o) == \E i \in DOMAIN register_info : register_info[i].ptr = o
Working(o) == work # <<>> /\ work.ptr = o

\* An owner hooks at most one symbol, in a library that is mapped.
HeldOnce ==
    /\ held \in [Lib -> [Sym -> Seq(Owner)]]
    /\ \A o \in Owner, l, k \in Lib, y, z \in Sym :
         \A n \in DOMAIN held[l][y], m \in DOMAIN held[k][z] :
           Held(o, l, y, n) /\ Held(o, k, z, m) => l = k /\ y = z /\ n = m
    /\ \A l \in Lib, y \in Sym : held[l][y] # <<>> => l \in ToSet(mapped)

\* A library is mapped once and keeps its pages.
MappedOnce ==
    /\ \A b, c \in Base : mapped[b] = mapped[c] /\ mapped[b] # NoLib => b = c
    /\ \A b \in Base, s \in Slot : mapped[b] # NoLib => mem[b][s] \in Fn

\* A registration that hooks is queued once, and will find in every slot what
\* the owners who hooked before its own left there.
QueueRight == \A i \in DOMAIN register_info :
    LET r == register_info[i] IN
    /\ r.lib \in ToSet(mapped)
    /\ \A j \in DOMAIN register_info : r.ptr = register_info[j].ptr /\ r.ptr # Null => i = j
    /\ r.ptr # Null =>
         /\ ~Working(r.ptr) /\ r.callback = Callback[r.ptr]
         /\ \E n \in DOMAIN held[r.lib][r.sym] :
              /\ held[r.lib][r.sym][n] = r.ptr
              /\ \A b \in Base, s \in Plt[r.lib][r.sym], v \in Fn :
                   mapped[b] = r.lib /\ Found(b, s, i, v) => OnTop(v, held[r.lib][r.sym], n - 1)

\* So do the slots that the commit has yet to write for the one under way, and
\* its backup holds that from the first slot on.
WorkRight == work # <<>> /\ work.ptr # Null =>
    LET b == work.base  l == mapped[b] IN
    /\ work.callback = Callback[work.ptr]
    /\ \E y \in Sym : \E n \in DOMAIN held[l][y] :
         /\ held[l][y][n] = work.ptr
         /\ work.slots \subseteq Plt[l][y]
         /\ \A s \in work.slots : OnTop(mem[b][s], held[l][y], n - 1)
         /\ work.slots # Plt[l][y] => OnTop(old[work.ptr], held[l][y], n - 1)

\* So does the backup of an owner whose registration is done, as long as the
\* owner hooks the symbol.
BackupRight == \A l \in Lib, y \in Sym : \A n \in DOMAIN held[l][y] :
    LET o == held[l][y][n] IN
    Plt[l][y] # {} /\ ~Queued(o) /\ ~Working(o) => OnTop(old[o], held[l][y], n - 1)

\* Once the list is done, the latest owner is on top in every slot.
TopRight == \A b \in Base : mapped[b] # NoLib =>
    \A y \in Sym : \A s \in Plt[mapped[b]][y], v \in Fn :
      Found(b, s, Len(register_info) + 1, v) =>
        OnTop(v, held[mapped[b]][y], Len(held[mapped[b]][y]))

OwnersInv == HeldOnce /\ MappedOnce /\ QueueRight /\ WorkRight /\ BackupRight /\ TopRight

\* Registrations that are queued, by place.
LEMMA Listed ==
    ASSUME TypeOK
    PROVE  /\ Len(register_info) \in Nat /\ DOMAIN register_info = 1 .. Len(register_info)
           /\ \A i \in DOMAIN register_info :
                LET r == register_info[i] IN
                r.lib \in Lib /\ r.sym \in Sym /\ r.callback \in Fn /\ r.ptr \in Ptr \cup {Null}
<1>1. register_info \in Seq(Registration)
  BY DEF TypeOK
<1>2. \A i \in DOMAIN register_info : register_info[i] \in Registration
  BY <1>1
<1>3. Len(register_info) \in Nat /\ DOMAIN register_info = 1 .. Len(register_info)
  BY <1>1
<1> QED
  BY <1>2, <1>3 DEF Registration

\* One more registration: what the earlier ones find stays, and whatever comes
\* behind it finds it, if it is for the slot.
LEMMA FoundGrows ==
    ASSUME TypeOK, NEW r \in Registration, register_info' = Append(register_info, r),
           UNCHANGED <<mapped, mem, work>>
    PROVE  /\ DOMAIN register_info' = 1 .. Len(register_info) + 1
           /\ Len(register_info') = Len(register_info) + 1
           /\ \A i \in DOMAIN register_info : register_info'[i] = register_info[i]
           /\ register_info'[Len(register_info) + 1] = r
           /\ \A b, s, v : \A i \in 1 .. Len(register_info) + 1 :
                Found(b, s, i, v)' <=> Found(b, s, i, v)
           /\ \A b, s, v : Found(b, s, Len(register_info) + 1, v)' =>
                IF Touches(r, mapped[b], s) THEN v = r.callback
                ELSE Found(b, s, Len(register_info) + 1, v)
<1>1. PICK n \in Nat : n = Len(register_info) /\ DOMAIN register_info = 1 .. n
  BY Listed
<1>2. /\ register_info' \in Seq(Registration) /\ Len(register_info') = n + 1
      /\ DOMAIN register_info' = 1 .. n + 1
      /\ \A i \in 1 .. n : register_info'[i] = register_info[i]
      /\ register_info'[n + 1] = r
  <2>1. register_info \in Seq(Registration)
    BY DEF TypeOK
  <2> QED
    BY <1>1, <2>1, AppendProperties
<1>3. \A b, s : Now(b, s)' = Now(b, s)
  BY DEF Now
<1>4. ASSUME NEW b, NEW s, NEW v, NEW i \in 1 .. n + 1
      PROVE  Found(b, s, i, v)' <=> Found(b, s, i, v)
  <2>1. \A j \in 1 .. i - 1 : register_info'[j] = register_info[j]
    BY <1>1, <1>2
  <2> QED
    BY <1>3, <2>1 DEF Found
<1>5. ASSUME NEW b, NEW s, NEW v, NEW i, i = n + 2, Found(b, s, i, v)'
      PROVE  IF Touches(r, mapped[b], s) THEN v = r.callback ELSE Found(b, s, n + 1, v)
  <2>1. n + 1 \in 1 .. (n + 2) - 1 /\ (n + 2) - 1 = n + 1 /\ (n + 1) - 1 = n
    BY <1>1
  <2>2. CASE /\ \A j \in 1 .. n + 1 : ~Touches(register_info'[j], mapped[b], s)
             /\ v = Now(b, s)
    BY <1>1, <1>2, <2>1, <2>2 DEF Found
  <2>3. ASSUME NEW j \in 1 .. n + 1,
               Touches(register_info'[j], mapped[b], s), v = register_info'[j].callback,
               \A k \in 1 .. n + 1 : j < k => ~Touches(register_info'[k], mapped[b], s)
        PROVE  IF Touches(r, mapped[b], s) THEN v = r.callback ELSE Found(b, s, n + 1, v)
    <3>1. CASE j = n + 1
      BY <1>2, <2>3, <3>1
    <3>2. CASE j # n + 1
      <4>1. j \in 1 .. n /\ j < n + 1 /\ ~Touches(r, mapped[b], s)
        BY <1>1, <1>2, <2>3, <3>2
      <4>2. \A k \in 1 .. n : register_info'[k] = register_info[k] /\ k \in 1 .. n + 1
        BY <1>1, <1>2
      <4>3. /\ Touches(register_info[j], mapped[b], s) /\ v = register_info[j].callback
            /\ \A k \in 1 .. n : j < k => ~Touches(register_info[k], mapped[b], s)
        BY <2>3, <4>1, <4>2
      <4>4. Found(b, s, n + 1, v)
        BY <2>1, <4>1, <4>3 DEF Found
      <4> QED
        BY <4>1, <4>4
    <3> QED
      BY <3>1, <3>2
  <2>4. \/ /\ \A j \in 1 .. n + 1 : ~Touches(register_info'[j], mapped[b], s)
           /\ v = Now(b, s)
        \/ \E j \in 1 .. n + 1 :
             /\ Touches(register_info'[j], mapped[b], s) /\ v = register_info'[j].callback
             /\ \A k \in 1 .. n + 1 : j < k => ~Touches(register_info'[k], mapped[b], s)
    <3> DEFINE places == 1 .. i - 1
    <3>1. \/ /\ \A j \in places : ~Touches(register_info'[j], mapped[b], s)
             /\ v = Now(b, s)
          \/ \E j \in places :
               /\ Touches(register_info'[j], mapped[b], s) /\ v = register_info'[j].callback
               /\ \A k \in places : j < k => ~Touches(register_info'[k], mapped[b], s)
      BY <1>3, <1>5 DEF Found
    <3>2. places = 1 .. n + 1
      BY <1>5, <2>1
    <3> HIDE DEF places
    <3> QED
      BY <3>1, <3>2
  <2> QED
    BY <2>2, <2>3, <2>4
<1>6. ASSUME NEW b, NEW s, NEW v, Found(b, s, Len(register_info) + 1, v)'
      PROVE  IF Touches(r, mapped[b], s) THEN v = r.callback ELSE Found(b, s, n + 1, v)
  <2>1. PICK i : i = Len(register_info') + 1
    OBVIOUS
  <2>2. Found(b, s, i, v)' /\ i = n + 2
    BY <1>1, <1>2, <1>6, <2>1
  <2> QED
    BY <1>5, <2>2
<1> QED
  BY <1>1, <1>2, <1>4, <1>6

\* A step that changes none of it.
LEMMA OwnersSame ==
    ASSUME OwnersInv, UNCHANGED <<mapped, mem, register_info, work, old, held>>
    PROVE  OwnersInv'
<1>1. \A b, s, i, v : Found(b, s, i, v)' <=> Found(b, s, i, v)
  BY DEF Found, Now
<1>2. \A o : (Queued(o)' <=> Queued(o)) /\ (Working(o)' <=> Working(o))
  BY DEF Queued, Working
<1>3. HeldOnce' /\ MappedOnce' /\ WorkRight'
  BY DEF OwnersInv, HeldOnce, MappedOnce, WorkRight, Held
<1>4. QueueRight'
  BY <1>1, <1>2 DEF OwnersInv, QueueRight
<1>5. BackupRight' /\ TopRight'
  BY <1>1, <1>2 DEF OwnersInv, BackupRight, TopRight
<1> QED
  BY <1>3, <1>4, <1>5 DEF OwnersInv

\* The first owners stay as they are.
LEMMA OnTopSame ==
    ASSUME NEW v, NEW p, NEW q, NEW n \in Nat, \A i \in 1 .. n : p[i] = q[i]
    PROVE  OnTop(v, p, n) <=> OnTop(v, q, n)
<1>1. n # 0 => n \in 1 .. n
  OBVIOUS
<1> QED
  BY <1>1 DEF OnTop

LEMMA HookStep ==
    ASSUME IInv, OwnersInv, OwnersApart,
           NEW o \in Owner, NEW l \in Lib, NEW y \in Sym, Hook(o, l, y)
    PROVE  OwnersInv'
<1> DEFINE r == [lib |-> l, sym |-> y, callback |-> Callback[o], ptr |-> o]
<1>1. TypeOK /\ Committing
  BY DEF IInv
<1>2. /\ register_info' = Append(register_info, r) /\ work = <<>>
      /\ UNCHANGED <<mapped, mem, work, old>>
      /\ held' = [held EXCEPT ![l][y] = Append(@, o)]
      /\ l \in ToSet(mapped)
      /\ \A k \in Lib, z \in Sym : o \notin Owners(k, z)
  BY <1>1 DEF Hook, RegisterHook, Committing, memVars
<1>3. /\ r \in Registration /\ r.lib = l /\ r.sym = y /\ r.callback = Callback[o] /\ r.ptr = o
      /\ o \in Ptr /\ o # Null
  BY NullAssumption DEF Registration, OwnersApart, Owner
<1> HIDE DEF r
<1>4. PICK n \in Nat : n = Len(register_info) /\ DOMAIN register_info = 1 .. n
  BY <1>1, Listed
<1>5. /\ DOMAIN register_info' = 1 .. n + 1 /\ Len(register_info') = n + 1
      /\ \A i \in 1 .. n : register_info'[i] = register_info[i]
      /\ register_info'[n + 1] = r
      /\ \A b, s, v : \A i \in 1 .. n + 1 : Found(b, s, i, v)' <=> Found(b, s, i, v)
      /\ \A b, s, v : Found(b, s, Len(register_info) + 1, v)' =>
           IF Touches(r, mapped[b], s) THEN v = r.callback ELSE Found(b, s, n + 1, v)
  BY <1>1, <1>2, <1>3, <1>4, FoundGrows
<1>6. PICK m \in Nat : m = Len(held[l][y]) /\ DOMAIN held[l][y] = 1 .. m
  <2>1. held[l][y] \in Seq(Owner)
    BY DEF OwnersInv, HeldOnce
  <2> QED
    BY <2>1
<1>7. /\ held' \in [Lib -> [Sym -> Seq(Owner)]]
      /\ DOMAIN held'[l][y] = 1 .. m + 1 /\ Len(held'[l][y]) = m + 1
      /\ \A i \in 1 .. m : held'[l][y][i] = held[l][y][i]
      /\ held'[l][y][m + 1] = o
      /\ \A k \in Lib, z \in Sym : k # l \/ z # y => held'[k][z] = held[k][z]
  <2>1. held \in [Lib -> [Sym -> Seq(Owner)]] /\ held[l][y] \in Seq(Owner)
    BY DEF OwnersInv, HeldOnce
  <2>2. held'[l][y] = Append(held[l][y], o)
    BY <1>2, <2>1
  <2>3. Append(held[l][y], o) \in Seq(Owner)
    BY <2>1
  <2>4. held' \in [Lib -> [Sym -> Seq(Owner)]]
    BY <1>2, <2>1, <2>3
  <2>5. \A k \in Lib, z \in Sym : k # l \/ z # y => held'[k][z] = held[k][z]
    BY <1>2, <2>1
  <2> QED
    BY <1>6, <2>1, <2>2, <2>4, <2>5, AppendProperties
<1>8. \A k \in Lib, z \in Sym : \A i \in DOMAIN held[k][z] : held[k][z][i] # o
  BY <1>2 DEF Owners, ToSet
<1>9. \A k \in Lib, z \in Sym :
        /\ DOMAIN held[k][z] \subseteq DOMAIN held'[k][z]
        /\ \A i \in DOMAIN held[k][z] : /\ held'[k][z][i] = held[k][z][i]
                                        /\ i \in Nat \ {0} /\ i - 1 \in Nat
                                        /\ \A j \in 1 .. i - 1 : j \in DOMAIN held[k][z]
  <2> SUFFICES ASSUME NEW k \in Lib, NEW z \in Sym
               PROVE  /\ DOMAIN held[k][z] \subseteq DOMAIN held'[k][z]
                      /\ \A i \in DOMAIN held[k][z] :
                           /\ held'[k][z][i] = held[k][z][i]
                           /\ i \in Nat \ {0} /\ i - 1 \in Nat
                           /\ \A j \in 1 .. i - 1 : j \in DOMAIN held[k][z]
    OBVIOUS
  <2>1. held[k][z] \in Seq(Owner)
    BY DEF OwnersInv, HeldOnce
  <2>2. \A i \in DOMAIN held[k][z] : /\ i \in Nat \ {0} /\ i - 1 \in Nat
                                     /\ \A j \in 1 .. i - 1 : j \in DOMAIN held[k][z]
    BY <2>1
  <2>3. CASE k = l /\ z = y
    <3>1. \A i \in 1 .. m : i \in 1 .. m + 1
      OBVIOUS
    <3> QED
      BY <1>6, <1>7, <2>2, <2>3, <3>1
  <2>4. CASE ~(k = l /\ z = y)
    BY <1>7, <2>2, <2>4
  <2> QED
    BY <2>3, <2>4
<1>10. \A k \in Lib, z \in Sym : \A v : \A i \in DOMAIN held[k][z] :
         OnTop(v, held'[k][z], i - 1) <=> OnTop(v, held[k][z], i - 1)
  BY <1>9, OnTopSame
<1>21. \A k \in Lib, z \in Sym : \A i \in DOMAIN held'[k][z] :
         /\ held'[k][z][i] = o => k = l /\ z = y /\ i = m + 1
         /\ held'[k][z][i] # o => i \in DOMAIN held[k][z] /\ held[k][z][i] = held'[k][z][i]
  <2> SUFFICES ASSUME NEW k \in Lib, NEW z \in Sym, NEW i \in DOMAIN held'[k][z]
               PROVE  /\ held'[k][z][i] = o => k = l /\ z = y /\ i = m + 1
                      /\ held'[k][z][i] # o => /\ i \in DOMAIN held[k][z]
                                               /\ held[k][z][i] = held'[k][z][i]
    OBVIOUS
  <2>1. CASE k = l /\ z = y
    <3>1. i \in 1 .. m + 1
      BY <1>7, <2>1
    <3>2. i = m + 1 \/ i \in 1 .. m
      BY <3>1
    <3> QED
      BY <1>6, <1>7, <1>8, <2>1, <3>2
  <2>2. CASE ~(k = l /\ z = y)
    BY <1>7, <1>8, <2>2
  <2> QED
    BY <2>1, <2>2
<1>11. HeldOnce'
  <2>1. ASSUME NEW k \in Lib, NEW z \in Sym, held'[k][z] # <<>> PROVE k \in ToSet(mapped')
    <3>1. k = l \/ held[k][z] # <<>>
      BY <1>7, <2>1
    <3> QED
      BY <1>2, <3>1 DEF OwnersInv, HeldOnce
  <2>2. ASSUME NEW p \in Owner, NEW h \in Lib, NEW k \in Lib, NEW x \in Sym, NEW z \in Sym,
               NEW i \in DOMAIN held'[h][x], NEW j \in DOMAIN held'[k][z],
               held'[h][x][i] = p, held'[k][z][j] = p
        PROVE  h = k /\ x = z /\ i = j
    <3>1. CASE p = o
      BY <1>21, <2>2, <3>1
    <3>2. CASE p # o
      <4>2. /\ i \in DOMAIN held[h][x] /\ held[h][x][i] = p
            /\ j \in DOMAIN held[k][z] /\ held[k][z][j] = p
        BY <1>21, <2>2, <3>2
      <4> QED
        BY <4>2 DEF OwnersInv, HeldOnce, Held
    <3> QED
      BY <3>1, <3>2
  <2> QED
    BY <1>7, <2>1, <2>2 DEF HeldOnce, Held
<1>12. MappedOnce'
  BY <1>2 DEF OwnersInv, MappedOnce
<1>13. ~Queued(o) /\ ~Working(o)
  <2>1. \A i \in 1 .. n : register_info[i].ptr # o
    <3> SUFFICES ASSUME NEW i \in 1 .. n, register_info[i].ptr = o PROVE FALSE
      OBVIOUS
    <3>1. register_info[i].lib \in Lib /\ register_info[i].sym \in Sym
      BY <1>1, <1>4, Listed
    <3>2. \E j \in DOMAIN held[register_info[i].lib][register_info[i].sym] :
            held[register_info[i].lib][register_info[i].sym][j] = o
      BY <1>3, <1>4 DEF OwnersInv, QueueRight
    <3> QED
      BY <1>8, <3>1, <3>2
  <2> QED
    BY <1>2, <1>4, <2>1 DEF Queued, Working
<1>14. ASSUME NEW i \in 1 .. n + 1
       PROVE  /\ register_info'[i].lib \in ToSet(mapped')
              /\ \A j \in 1 .. n + 1 :
                   register_info'[i].ptr = register_info'[j].ptr /\ register_info'[i].ptr # Null => i = j
  <2>1. \A j \in 1 .. n : /\ register_info[j].lib \in ToSet(mapped) /\ register_info[j].ptr # o
                          /\ \A k \in 1 .. n : register_info[j].ptr = register_info[k].ptr
                                                 /\ register_info[j].ptr # Null => j = k
    BY <1>4, <1>13 DEF OwnersInv, QueueRight, Queued
  <2>2. \A j \in 1 .. n + 1 : j = n + 1 \/ j \in 1 .. n
    OBVIOUS
  <2> QED
    BY <1>2, <1>3, <1>5, <2>1, <2>2
<1>15. ASSUME NEW i \in 1 .. n, NEW g, g = register_info[i], g.ptr # Null
       PROVE  /\ ~Working(g.ptr)' /\ g.callback = Callback[g.ptr]
              /\ \E j \in DOMAIN held'[g.lib][g.sym] :
                   /\ held'[g.lib][g.sym][j] = g.ptr
                   /\ \A b \in Base, s \in Plt[g.lib][g.sym], v \in Fn :
                        mapped'[b] = g.lib /\ Found(b, s, i, v)' =>
                          OnTop(v, held'[g.lib][g.sym], j - 1)
  <2>1. g.lib \in Lib /\ g.sym \in Sym
    BY <1>1, <1>4, <1>15, Listed
  <2>2. /\ ~Working(g.ptr) /\ g.callback = Callback[g.ptr]
        /\ \E j \in DOMAIN held[g.lib][g.sym] :
             /\ held[g.lib][g.sym][j] = g.ptr
             /\ \A b \in Base, s \in Plt[g.lib][g.sym], v \in Fn :
                  mapped[b] = g.lib /\ Found(b, s, i, v) => OnTop(v, held[g.lib][g.sym], j - 1)
    BY <1>4, <1>15 DEF OwnersInv, QueueRight
  <2>3. PICK j \in DOMAIN held[g.lib][g.sym] :
             /\ held[g.lib][g.sym][j] = g.ptr
             /\ \A b \in Base, s \in Plt[g.lib][g.sym], v \in Fn :
                  mapped[b] = g.lib /\ Found(b, s, i, v) => OnTop(v, held[g.lib][g.sym], j - 1)
    BY <2>2
  <2>4. j \in DOMAIN held'[g.lib][g.sym] /\ held'[g.lib][g.sym][j] = g.ptr
    BY <1>9, <2>1, <2>3
  <2>5. ASSUME NEW b \in Base, NEW s \in Plt[g.lib][g.sym], NEW v \in Fn,
               mapped'[b] = g.lib, Found(b, s, i, v)'
        PROVE  OnTop(v, held'[g.lib][g.sym], j - 1)
    <3>1. Found(b, s, i, v) /\ mapped[b] = g.lib
      BY <1>2, <1>5, <2>5
    <3>2. OnTop(v, held[g.lib][g.sym], j - 1)
      BY <2>3, <2>5, <3>1
    <3> QED
      BY <1>10, <2>1, <2>3, <3>2
  <2>6. ~Working(g.ptr)'
    BY <1>2, <2>2 DEF Working
  <2> QED
    BY <2>2, <2>4, <2>5, <2>6
<1>16. ASSUME NEW b \in Base, NEW s \in Plt[l][y], NEW v \in Fn,
              mapped'[b] = l, Found(b, s, n + 1, v)
       PROVE  OnTop(v, held'[l][y], m)
  <2>1. mapped[b] = l /\ mapped[b] # NoLib
    BY <1>2, <1>16, LibAssumption
  <2>2. OnTop(v, held[l][y], m)
    BY <1>4, <1>6, <1>16, <2>1 DEF OwnersInv, TopRight
  <2> QED
    BY <1>7, <2>2, OnTopSame
<1>17. QueueRight'
  <2> SUFFICES ASSUME NEW i \in 1 .. n + 1, NEW g, g = register_info'[i], g.ptr # Null
               PROVE  /\ ~Working(g.ptr)' /\ g.callback = Callback[g.ptr]
                      /\ \E j \in DOMAIN held'[g.lib][g.sym] :
                           /\ held'[g.lib][g.sym][j] = g.ptr
                           /\ \A b \in Base, s \in Plt[g.lib][g.sym], v \in Fn :
                                mapped'[b] = g.lib /\ Found(b, s, i, v)' =>
                                  OnTop(v, held'[g.lib][g.sym], j - 1)
    BY <1>5, <1>14 DEF QueueRight
  <2>1. CASE i \in 1 .. n
    BY <1>5, <1>15, <2>1
  <2>2. CASE i = n + 1
    <3>1. ~Working(o)'
      BY <1>2 DEF Working
    <3>2. m + 1 \in DOMAIN held'[l][y] /\ held'[l][y][m + 1] = o /\ (m + 1) - 1 = m
      BY <1>7
    <3>3. ASSUME NEW b \in Base, NEW s \in Plt[l][y], NEW v \in Fn,
                 mapped'[b] = l, Found(b, s, i, v)'
          PROVE  OnTop(v, held'[l][y], m)
      BY <1>5, <1>16, <2>2, <3>3
    <3> QED
      BY <1>3, <1>5, <2>2, <3>1, <3>2, <3>3
  <2> QED
    BY <2>1, <2>2
<1>18. WorkRight'
  BY <1>2 DEF WorkRight
<1>19. BackupRight'
  <2> SUFFICES ASSUME NEW k \in Lib, NEW z \in Sym, NEW i \in DOMAIN held'[k][z],
                      NEW p, p = held'[k][z][i], Plt[k][z] # {}, ~Queued(p)', ~Working(p)'
               PROVE  OnTop(old'[p], held'[k][z], i - 1)
    BY DEF BackupRight
  <2>1. Queued(o)'
    BY <1>3, <1>5 DEF Queued
  <2>2. p # o
    BY <2>1
  <2>3. i \in DOMAIN held[k][z] /\ held[k][z][i] = p
    BY <1>21, <2>2
  <2>4. ~Queued(p)
    BY <1>4, <1>5, <2>3 DEF Queued
  <2>5. ~Working(p)
    BY <1>2, <2>3 DEF Working
  <2>6. OnTop(old[p], held[k][z], i - 1)
    BY <2>3, <2>4, <2>5 DEF OwnersInv, BackupRight
  <2> QED
    BY <1>2, <1>10, <2>3, <2>6
<1>20. TopRight'
  <2> SUFFICES ASSUME NEW b \in Base, mapped'[b] # NoLib, NEW z \in Sym,
                      NEW s \in Plt[mapped'[b]][z], NEW v \in Fn,
                      Found(b, s, Len(register_info) + 1, v)'
               PROVE  OnTop(v, held'[mapped'[b]][z], Len(held'[mapped'[b]][z]))
    BY DEF TopRight
  <2>1. PICK k \in Lib : k = mapped[b] /\ k = mapped'[b]
    BY <1>1, <1>2 DEF TypeOK
  <2>2. IF Touches(r, k, s) THEN v = r.callback ELSE Found(b, s, n + 1, v)
    BY <1>5, <2>1
  <2>3. CASE k = l /\ z = y
    <3>1. v = Callback[o]
      BY <1>3, <2>1, <2>2, <2>3 DEF Touches
    <3>2. m + 1 # 0
      OBVIOUS
    <3> QED
      BY <1>7, <2>1, <2>3, <3>1, <3>2 DEF OnTop
  <2>4. CASE ~(k = l /\ z = y)
    <3>1. ~Touches(r, k, s)
      BY <1>3, <2>1, <2>4 DEF Touches, OwnersApart
    <3>2. OnTop(v, held[k][z], Len(held[k][z]))
      BY <1>4, <2>1, <2>2, <3>1 DEF OwnersInv, TopRight
    <3> QED
      BY <1>7, <2>1, <2>4, <3>2
  <2> QED
    BY <2>3, <2>4
<1> QED
  BY <1>11, <1>12, <1>17, <1>18, <1>19, <1>20 DEF OwnersInv

LEMMA UnhookStep ==
    ASSUME IInv, OwnersInv, OwnersApart,
           NEW o \in Owner, NEW l \in Lib, NEW y \in Sym, Unhook(o, l, y)
    PROVE  OwnersInv'
<1> DEFINE r == [lib |-> l, sym |-> y, callback |-> old[o], ptr |-> Null]
<1>1. TypeOK /\ Committing
  BY DEF IInv
<1>2. /\ register_info' = Append(register_info, r) /\ work = <<>>
      /\ UNCHANGED <<mapped, mem, work, old>>
      /\ held' = [held EXCEPT ![l][y] = Front(@)]
      /\ ~Queued(o) /\ ~Working(o) /\ old[o] # Null
      /\ o \in Owners(l, y) /\ o = Last(held[l][y])
  BY <1>1 DEF Unhook, RegisterHook, Committing, Settled, memVars, Queued, Working
<1>3. /\ r \in Registration /\ r.lib = l /\ r.sym = y /\ r.callback = old[o] /\ r.ptr = Null
      /\ o \in Ptr /\ o # Null
  <2>1. old[o] \in Fn
    BY <1>1, <1>2 DEF TypeOK, Owner
  <2> QED
    BY <2>1, NullAssumption DEF Registration, Owner
<1> HIDE DEF r
<1>4. PICK n \in Nat : n = Len(register_info) /\ DOMAIN register_info = 1 .. n
  BY <1>1, Listed
<1>5. /\ DOMAIN register_info' = 1 .. n + 1 /\ Len(register_info') = n + 1
      /\ \A i \in 1 .. n : register_info'[i] = register_info[i]
      /\ register_info'[n + 1] = r
      /\ \A b, s, v : \A i \in 1 .. n + 1 : Found(b, s, i, v)' <=> Found(b, s, i, v)
      /\ \A b, s, v : Found(b, s, Len(register_info) + 1, v)' =>
           IF Touches(r, mapped[b], s) THEN v = r.callback ELSE Found(b, s, n + 1, v)
  BY <1>1, <1>2, <1>3, <1>4, FoundGrows
<1>6. PICK m \in Nat : /\ m + 1 = Len(held[l][y]) /\ DOMAIN held[l][y] = 1 .. m + 1
                       /\ held[l][y][m + 1] = o
  <2>1. held[l][y] \in Seq(Owner)
    BY DEF OwnersInv, HeldOnce
  <2>2. Len(held[l][y]) \in Nat /\ Len(held[l][y]) # 0 /\ DOMAIN held[l][y] = 1 .. Len(held[l][y])
    BY <1>2, <2>1 DEF Owners, ToSet
  <2>3. Len(held[l][y]) - 1 \in Nat /\ (Len(held[l][y]) - 1) + 1 = Len(held[l][y])
    BY <2>2
  <2> QED
    BY <1>2, <2>2, <2>3 DEF Last
<1>7. /\ held' \in [Lib -> [Sym -> Seq(Owner)]]
      /\ DOMAIN held'[l][y] = 1 .. m /\ Len(held'[l][y]) = m
      /\ \A i \in 1 .. m : held'[l][y][i] = held[l][y][i]
      /\ \A k \in Lib, z \in Sym : k # l \/ z # y => held'[k][z] = held[k][z]
  <2>1. held \in [Lib -> [Sym -> Seq(Owner)]] /\ held[l][y] \in Seq(Owner)
    BY DEF OwnersInv, HeldOnce
  <2>2. held'[l][y] = Front(held[l][y])
    BY <1>2, <2>1
  <2>3. Front(held[l][y]) = SubSeq(held[l][y], 1, m)
    BY <1>6 DEF Front
  <2>4. /\ SubSeq(held[l][y], 1, m) \in Seq(Owner)
        /\ Len(SubSeq(held[l][y], 1, m)) = m
        /\ \A i \in 1 .. m : SubSeq(held[l][y], 1, m)[i] = held[l][y][i]
    BY <1>6, <2>1
  <2>5. held' \in [Lib -> [Sym -> Seq(Owner)]]
    BY <1>2, <2>1, <2>3, <2>4
  <2>6. \A k \in Lib, z \in Sym : k # l \/ z # y => held'[k][z] = held[k][z]
    BY <1>2, <2>1
  <2>7. DOMAIN held'[l][y] = 1 .. Len(held'[l][y])
    BY <2>5
  <2> QED
    BY <2>2, <2>3, <2>4, <2>5, <2>6, <2>7
<1>8. \A k \in Lib, z \in Sym : \A i \in DOMAIN held[k][z] :
        held[k][z][i] = o => k = l /\ z = y /\ i = m + 1
  <2>1. m + 1 \in DOMAIN held[l][y]
    BY <1>6
  <2> QED
    BY <1>6, <2>1 DEF OwnersInv, HeldOnce, Held
<1>9. \A k \in Lib, z \in Sym :
        /\ \A i \in DOMAIN held'[k][z] : /\ i \in DOMAIN held[k][z]
                                         /\ held[k][z][i] = held'[k][z][i] /\ held[k][z][i] # o
        /\ \A i \in DOMAIN held[k][z] : held[k][z][i] # o => i \in DOMAIN held'[k][z]
        /\ \A i \in DOMAIN held'[k][z] : /\ i - 1 \in Nat
                                         /\ \A j \in 1 .. i - 1 : j \in DOMAIN held'[k][z]
  <2> SUFFICES ASSUME NEW k \in Lib, NEW z \in Sym
               PROVE  /\ \A i \in DOMAIN held'[k][z] :
                           /\ i \in DOMAIN held[k][z]
                           /\ held[k][z][i] = held'[k][z][i] /\ held[k][z][i] # o
                      /\ \A i \in DOMAIN held[k][z] : held[k][z][i] # o => i \in DOMAIN held'[k][z]
                      /\ \A i \in DOMAIN held'[k][z] :
                           /\ i - 1 \in Nat
                           /\ \A j \in 1 .. i - 1 : j \in DOMAIN held'[k][z]
    OBVIOUS
  <2>1. held'[k][z] \in Seq(Owner)
    BY <1>7
  <2>2. \A i \in DOMAIN held'[k][z] : /\ i - 1 \in Nat
                                      /\ \A j \in 1 .. i - 1 : j \in DOMAIN held'[k][z]
    BY <2>1
  <2>3. CASE k = l /\ z = y
    <3>1. /\ \A i \in 1 .. m : i \in 1 .. m + 1 /\ i # m + 1
          /\ \A i \in 1 .. m + 1 : i # m + 1 => i \in 1 .. m
      OBVIOUS
    <3>2. \A i \in DOMAIN held'[k][z] : /\ i \in DOMAIN held[k][z]
                                        /\ held[k][z][i] = held'[k][z][i] /\ held[k][z][i] # o
      BY <1>6, <1>7, <1>8, <2>3, <3>1
    <3>3. \A i \in DOMAIN held[k][z] : held[k][z][i] # o => i \in DOMAIN held'[k][z]
      BY <1>6, <1>7, <2>3, <3>1
    <3> QED
      BY <2>2, <3>2, <3>3
  <2>4. CASE ~(k = l /\ z = y)
    BY <1>7, <1>8, <2>2, <2>4
  <2> QED
    BY <2>3, <2>4
<1>10. \A k \in Lib, z \in Sym : \A v : \A i \in DOMAIN held'[k][z] :
         OnTop(v, held'[k][z], i - 1) <=> OnTop(v, held[k][z], i - 1)
  BY <1>9, OnTopSame
<1>11. HeldOnce'
  <2>1. ASSUME NEW k \in Lib, NEW z \in Sym, held'[k][z] # <<>> PROVE k \in ToSet(mapped')
    <3>1. held[k][z] # <<>>
      <4>1. CASE k = l /\ z = y
        <5>1. Len(held[l][y]) # 0
          BY <1>6
        <5> QED
          BY <4>1, <5>1
      <4>2. CASE ~(k = l /\ z = y)
        BY <1>7, <2>1, <4>2
      <4> QED
        BY <4>1, <4>2
    <3> QED
      BY <1>2, <3>1 DEF OwnersInv, HeldOnce
  <2>2. ASSUME NEW p \in Owner, NEW h \in Lib, NEW k \in Lib, NEW x \in Sym, NEW z \in Sym,
               NEW i \in DOMAIN held'[h][x], NEW j \in DOMAIN held'[k][z],
               held'[h][x][i] = p, held'[k][z][j] = p
        PROVE  h = k /\ x = z /\ i = j
    <3>1. /\ i \in DOMAIN held[h][x] /\ held[h][x][i] = p
          /\ j \in DOMAIN held[k][z] /\ held[k][z][j] = p
      BY <1>9, <2>2
    <3> QED
      BY <3>1 DEF OwnersInv, HeldOnce, Held
  <2> QED
    BY <1>7, <2>1, <2>2 DEF HeldOnce, Held
<1>12. MappedOnce'
  BY <1>2 DEF OwnersInv, MappedOnce
<1>13. ASSUME NEW i \in 1 .. n + 1
       PROVE  /\ register_info'[i].lib \in ToSet(mapped')
              /\ \A j \in 1 .. n + 1 :
                   register_info'[i].ptr = register_info'[j].ptr /\ register_info'[i].ptr # Null => i = j
  <2>1. \A j \in 1 .. n : /\ register_info[j].lib \in ToSet(mapped)
                          /\ \A k \in 1 .. n : register_info[j].ptr = register_info[k].ptr
                                                 /\ register_info[j].ptr # Null => j = k
    BY <1>4 DEF OwnersInv, QueueRight
  <2>2. \A j \in 1 .. n + 1 : j = n + 1 \/ j \in 1 .. n
    OBVIOUS
  <2>3. l \in ToSet(mapped)
    BY <1>6 DEF OwnersInv, HeldOnce
  <2> QED
    BY <1>2, <1>3, <1>5, <2>1, <2>2, <2>3
<1>14. ASSUME NEW i \in 1 .. n, NEW g, g = register_info[i], g.ptr # Null
       PROVE  /\ ~Working(g.ptr)' /\ g.callback = Callback[g.ptr]
              /\ \E j \in DOMAIN held'[g.lib][g.sym] :
                   /\ held'[g.lib][g.sym][j] = g.ptr
                   /\ \A b \in Base, s \in Plt[g.lib][g.sym], v \in Fn :
                        mapped'[b] = g.lib /\ Found(b, s, i, v)' =>
                          OnTop(v, held'[g.lib][g.sym], j - 1)
  <2>1. g.lib \in Lib /\ g.sym \in Sym /\ g.ptr # o
    BY <1>1, <1>2, <1>4, <1>14, Listed DEF Queued
  <2>2. /\ ~Working(g.ptr) /\ g.callback = Callback[g.ptr]
        /\ \E j \in DOMAIN held[g.lib][g.sym] :
             /\ held[g.lib][g.sym][j] = g.ptr
             /\ \A b \in Base, s \in Plt[g.lib][g.sym], v \in Fn :
                  mapped[b] = g.lib /\ Found(b, s, i, v) => OnTop(v, held[g.lib][g.sym], j - 1)
    BY <1>4, <1>14 DEF OwnersInv, QueueRight
  <2>3. PICK j \in DOMAIN held[g.lib][g.sym] :
             /\ held[g.lib][g.sym][j] = g.ptr
             /\ \A b \in Base, s \in Plt[g.lib][g.sym], v \in Fn :
                  mapped[b] = g.lib /\ Found(b, s, i, v) => OnTop(v, held[g.lib][g.sym], j - 1)
    BY <2>2
  <2>4. j \in DOMAIN held'[g.lib][g.sym] /\ held'[g.lib][g.sym][j] = g.ptr
    BY <1>9, <2>1, <2>3
  <2>5. ASSUME NEW b \in Base, NEW s \in Plt[g.lib][g.sym], NEW v \in Fn,
               mapped'[b] = g.lib, Found(b, s, i, v)'
        PROVE  OnTop(v, held'[g.lib][g.sym], j - 1)
    <3>1. Found(b, s, i, v) /\ mapped[b] = g.lib
      BY <1>2, <1>5, <2>5
    <3>2. OnTop(v, held[g.lib][g.sym], j - 1)
      BY <2>3, <2>5, <3>1
    <3> QED
      BY <1>10, <2>1, <2>4, <3>2
  <2>6. ~Working(g.ptr)'
    BY <1>2, <2>2 DEF Working
  <2> QED
    BY <2>2, <2>4, <2>5, <2>6
<1>15. QueueRight'
  <2> SUFFICES ASSUME NEW i \in 1 .. n + 1, NEW g, g = register_info'[i], g.ptr # Null
               PROVE  /\ ~Working(g.ptr)' /\ g.callback = Callback[g.ptr]
                      /\ \E j \in DOMAIN held'[g.lib][g.sym] :
                           /\ held'[g.lib][g.sym][j] = g.ptr
                           /\ \A b \in Base, s \in Plt[g.lib][g.sym], v \in Fn :
                                mapped'[b] = g.lib /\ Found(b, s, i, v)' =>
                                  OnTop(v, held'[g.lib][g.sym], j - 1)
    BY <1>5, <1>13 DEF QueueRight
  <2>1. i \in 1 .. n
    BY <1>3, <1>5
  <2> QED
    BY <1>5, <1>14, <2>1
<1>16. WorkRight'
  BY <1>2 DEF WorkRight
<1>17. BackupRight'
  <2> SUFFICES ASSUME NEW k \in Lib, NEW z \in Sym, NEW i \in DOMAIN held'[k][z],
                      NEW p, p = held'[k][z][i], Plt[k][z] # {}, ~Queued(p)', ~Working(p)'
               PROVE  OnTop(old'[p], held'[k][z], i - 1)
    BY DEF BackupRight
  <2>1. i \in DOMAIN held[k][z] /\ held[k][z][i] = p
    BY <1>9
  <2>2. ~Queued(p)
    BY <1>4, <1>5 DEF Queued
  <2>3. ~Working(p)
    BY <1>2 DEF Working
  <2>4. OnTop(old[p], held[k][z], i - 1)
    BY <2>1, <2>2, <2>3 DEF OwnersInv, BackupRight
  <2> QED
    BY <1>2, <1>10, <2>4
<1>18. Plt[l][y] # {} => OnTop(old[o], held'[l][y], m)
  <2>1. m + 1 \in DOMAIN held[l][y] /\ (m + 1) - 1 = m
    BY <1>6
  <2>2. Plt[l][y] # {} => OnTop(old[o], held[l][y], m)
    BY <1>2, <1>6, <2>1 DEF OwnersInv, BackupRight
  <2> QED
    BY <1>7, <2>2, OnTopSame
<1>19. TopRight'
  <2> SUFFICES ASSUME NEW b \in Base, mapped'[b] # NoLib, NEW z \in Sym,
                      NEW s \in Plt[mapped'[b]][z], NEW v \in Fn,
                      Found(b, s, Len(register_info) + 1, v)'
               PROVE  OnTop(v, held'[mapped'[b]][z], Len(held'[mapped'[b]][z]))
    BY DEF TopRight
  <2>1. PICK k \in Lib : k = mapped[b] /\ k = mapped'[b]
    BY <1>1, <1>2 DEF TypeOK
  <2>2. IF Touches(r, k, s) THEN v = r.callback ELSE Found(b, s, n + 1, v)
    BY <1>5, <2>1
  <2>3. CASE k = l /\ z = y
    <3>1. v = old[o]
      BY <1>3, <2>1, <2>2, <2>3 DEF Touches
    <3> QED
      BY <1>7, <1>18, <2>1, <2>3, <3>1
  <2>4. CASE ~(k = l /\ z = y)
    <3>1. ~Touches(r, k, s)
      BY <1>3, <2>1, <2>4 DEF Touches, OwnersApart
    <3>2. OnTop(v, held[k][z], Len(held[k][z]))
      BY <1>4, <2>1, <2>2, <3>1 DEF OwnersInv, TopRight
    <3> QED
      BY <1>7, <2>1, <2>4, <3>2
  <2> QED
    BY <2>3, <2>4
<1> QED
  BY <1>11, <1>12, <1>15, <1>16, <1>17, <1>19 DEF OwnersInv

\* A library that was not mapped has its own functions, and nobody hooks it.
LEMMA MapStep ==
    ASSUME IInv, OwnersInv, OwnersApart, NEW l \in Lib, NEW a \in Base, MapLibrary(l, a),
           held' = held
    PROVE  OwnersInv'
<1>1. TypeOK /\ Committing
  BY DEF IInv
<1>2. /\ mapped[a] = NoLib /\ l \notin ToSet(mapped) /\ l # NoLib
      /\ mapped' = [mapped EXCEPT ![a] = l] /\ mem' = [mem EXCEPT ![a] = Loaded[l]]
      /\ UNCHANGED <<register_info, work, old, held>>
  BY LibAssumption DEF MapLibrary, Dlopen
<1>3. /\ mapped'[a] = l /\ mem'[a] = Loaded[l]
      /\ \A b \in Base : b # a => mapped'[b] = mapped[b] /\ mem'[b] = mem[b]
      /\ \A b \in Base : mapped[b] # l
      /\ \A k \in ToSet(mapped) : k # NoLib => k \in ToSet(mapped')
  <2>1. mapped \in [Base -> Lib \cup {NoLib}] /\ mem \in [Base -> [Slot -> Fn \cup {Null}]]
    BY <1>1 DEF TypeOK
  <2>2. \A b \in Base : mapped[b] # l
    BY <1>2, <2>1 DEF ToSet
  <2>3. ASSUME NEW b \in Base, mapped[b] # NoLib PROVE mapped[b] \in ToSet(mapped')
    <3>1. b # a /\ b \in DOMAIN mapped' /\ mapped'[b] = mapped[b]
      BY <1>2, <2>1, <2>3
    <3> QED
      BY <3>1 DEF ToSet
  <2>4. \A k \in ToSet(mapped) : \E b \in Base : k = mapped[b]
    BY <2>1 DEF ToSet
  <2> QED
    BY <1>2, <2>1, <2>2, <2>3, <2>4
<1>4. \A k \in Lib : k # NoLib
  BY LibAssumption
<1>5. work # <<>> => work.base # a
  BY <1>1, <1>2 DEF Committing
<1>6. \A b \in Base : \A s, i, v : b # a => (Found(b, s, i, v)' <=> Found(b, s, i, v))
  <2>1. ASSUME NEW b \in Base, NEW s, b # a PROVE Now(b, s)' = Now(b, s)
    BY <1>2, <1>3, <2>1 DEF Now
  <2> QED
    BY <1>2, <1>3, <2>1 DEF Found
<1>7. \A o : (Queued(o)' <=> Queued(o)) /\ (Working(o)' <=> Working(o))
  BY <1>2 DEF Queued, Working
<1>8. HeldOnce'
  <2>1. \A k \in Lib, y \in Sym : held[k][y] # <<>> => k \in ToSet(mapped')
    BY <1>3, <1>4 DEF OwnersInv, HeldOnce
  <2>2. /\ held' = held /\ held \in [Lib -> [Sym -> Seq(Owner)]]
        /\ \A o \in Owner, h, k \in Lib, y, z \in Sym :
             \A n \in DOMAIN held[h][y], m \in DOMAIN held[k][z] :
               Held(o, h, y, n) /\ Held(o, k, z, m) => h = k /\ y = z /\ n = m
    BY <1>2 DEF OwnersInv, HeldOnce
  <2>3. \A o, k, y, n : Held(o, k, y, n)' <=> Held(o, k, y, n)
    BY <1>2 DEF Held
  <2> QED
    BY <2>1, <2>2, <2>3 DEF HeldOnce
<1>9. MappedOnce'
  <2>1. \A s \in Slot : Loaded[l][s] \in Fn
    BY LibAssumption
  <2>2. ASSUME NEW b \in Base, NEW c \in Base, mapped'[b] = mapped'[c], mapped'[b] # NoLib
        PROVE  b = c
    BY <1>3, <2>2 DEF OwnersInv, MappedOnce
  <2>3. ASSUME NEW b \in Base, NEW s \in Slot, mapped'[b] # NoLib PROVE mem'[b][s] \in Fn
    BY <1>3, <2>1, <2>3 DEF OwnersInv, MappedOnce
  <2> QED
    BY <2>2, <2>3 DEF MappedOnce
<1>10. \A i \in DOMAIN register_info : /\ register_info[i].lib \in ToSet(mapped)
                                       /\ register_info[i].lib \in Lib
  BY <1>1, Listed DEF OwnersInv, QueueRight
<1>11. QueueRight'
  <2>0. register_info' = register_info /\ held' = held
    BY <1>2
  <2> SUFFICES ASSUME NEW i \in DOMAIN register_info', NEW r, r = register_info'[i]
               PROVE  /\ r.lib \in ToSet(mapped')
                      /\ \A j \in DOMAIN register_info' :
                           r.ptr = register_info'[j].ptr /\ r.ptr # Null => i = j
                      /\ r.ptr # Null =>
                           /\ ~Working(r.ptr)' /\ r.callback = Callback[r.ptr]
                           /\ \E n \in DOMAIN held'[r.lib][r.sym] :
                                /\ held'[r.lib][r.sym][n] = r.ptr
                                /\ \A b \in Base, s \in Plt[r.lib][r.sym], v \in Fn :
                                     mapped'[b] = r.lib /\ Found(b, s, i, v)' =>
                                       OnTop(v, held'[r.lib][r.sym], n - 1)
    BY DEF QueueRight
  <2>5. /\ r.lib \in ToSet(mapped') /\ r.lib # l
        /\ \A j \in DOMAIN register_info :
             r.ptr = register_info[j].ptr /\ r.ptr # Null => i = j
    <3>1. r.lib \in ToSet(mapped) /\ r.lib \in Lib
      BY <1>10, <2>0
    <3>2. \A j \in DOMAIN register_info :
            r.ptr = register_info[j].ptr /\ r.ptr # Null => i = j
      BY <2>0 DEF OwnersInv, QueueRight
    <3> QED
      BY <1>2, <1>3, <1>4, <3>1, <3>2
  <2> SUFFICES ASSUME r.ptr # Null
               PROVE  /\ ~Working(r.ptr)' /\ r.callback = Callback[r.ptr]
                      /\ \E n \in DOMAIN held[r.lib][r.sym] :
                           /\ held[r.lib][r.sym][n] = r.ptr
                           /\ \A b \in Base, s \in Plt[r.lib][r.sym], v \in Fn :
                                mapped'[b] = r.lib /\ Found(b, s, i, v)' =>
                                  OnTop(v, held[r.lib][r.sym], n - 1)
    BY <2>0, <2>5
  <2>1. /\ ~Working(r.ptr) /\ r.callback = Callback[r.ptr]
        /\ \E n \in DOMAIN held[r.lib][r.sym] :
             /\ held[r.lib][r.sym][n] = r.ptr
             /\ \A b \in Base, s \in Plt[r.lib][r.sym], v \in Fn :
                  mapped[b] = r.lib /\ Found(b, s, i, v) => OnTop(v, held[r.lib][r.sym], n - 1)
    BY <2>0 DEF OwnersInv, QueueRight
  <2>3. \A b \in Base, s \in Plt[r.lib][r.sym], v \in Fn :
          mapped'[b] = r.lib /\ Found(b, s, i, v)' => mapped[b] = r.lib /\ Found(b, s, i, v)
    BY <1>3, <1>6, <2>5
  <2>4. ~Working(r.ptr)'
    BY <1>7, <2>1
  <2> QED
    BY <2>1, <2>3, <2>4
<1>12. WorkRight'
  <2>1. work # <<>> => mapped'[work.base] = mapped[work.base] /\ mem'[work.base] = mem[work.base]
    <3>1. work # <<>> => work.base \in Base
      BY <1>1 DEF TypeOK, Work
    <3> QED
      BY <1>3, <1>5, <3>1
  <2> QED
    BY <1>2, <2>1 DEF OwnersInv, WorkRight
<1>13. BackupRight'
  BY <1>2, <1>7 DEF OwnersInv, BackupRight
<1>14. TopRight'
  <2> SUFFICES ASSUME NEW b \in Base, mapped'[b] # NoLib, NEW y \in Sym,
                      NEW s \in Plt[mapped'[b]][y], NEW v \in Fn,
                      Found(b, s, Len(register_info) + 1, v)'
               PROVE  OnTop(v, held[mapped'[b]][y], Len(held[mapped'[b]][y]))
    BY <1>2 DEF TopRight
  <2>0. PICK n : n = Len(register_info) /\ DOMAIN register_info = 1 .. n /\ n \in Nat
    BY <1>1, Listed
  <2>1. PICK i : i = n + 1 /\ Found(b, s, i, v)'
    BY <1>2, <2>0
  <2>2. CASE b # a
    <3>1. Found(b, s, n + 1, v) /\ mapped[b] = mapped'[b]
      BY <1>3, <1>6, <2>1, <2>2
    <3> QED
      BY <2>0, <3>1 DEF OwnersInv, TopRight
  <2>3. CASE b = a
    <3>1. \A j \in 1 .. i - 1 : ~Touches(register_info'[j], mapped'[b], s)
      BY <1>2, <1>3, <1>10, <2>0, <2>1, <2>3 DEF Touches
    <3>2. v = Now(b, s)'
      BY <2>1, <3>1 DEF Found
    <3>3. v = Loaded[l][s]
      BY <1>2, <1>3, <1>5, <2>3, <3>2 DEF Now
    <3>4. held[l][y] = <<>>
      BY <1>2 DEF OwnersInv, HeldOnce
    <3>5. s \in Slot
      BY <1>3, <2>3, LibAssumption
    <3>6. v \notin Callbacks
      BY <3>3, <3>5 DEF OwnersApart, Callbacks
    <3> QED
      BY <1>3, <2>3, <3>4, <3>6 DEF OnTop
  <2> QED
    BY <2>2, <2>3
<1> QED
  BY <1>8, <1>9, <1>11, <1>12, <1>13, <1>14 DEF OwnersInv

\* The commit leaves a registration whose slots are all done.
LEMMA FinishStep ==
    ASSUME IInv, OwnersInv, FinishRegistration, held' = held
    PROVE  OwnersInv'
<1>1. TypeOK /\ Committing
  BY DEF IInv
<1>2. /\ work # <<>> /\ work.slots = {} /\ work' = <<>>
      /\ UNCHANGED <<mapped, mem, register_info, old, held>>
  BY DEF FinishRegistration, memVars
<1>3. \A b, s : Now(b, s)' = Now(b, s)
  BY <1>2 DEF Now
<1>4. \A b, s, i, v : Found(b, s, i, v)' <=> Found(b, s, i, v)
  BY <1>2, <1>3 DEF Found
<1>5. \A o : (Queued(o)' <=> Queued(o)) /\ ~Working(o)'
  BY <1>2 DEF Queued, Working
<1>6. HeldOnce' /\ MappedOnce' /\ WorkRight'
  BY <1>2 DEF OwnersInv, HeldOnce, MappedOnce, WorkRight, Held
<1>7. QueueRight' /\ TopRight'
  BY <1>2, <1>4, <1>5 DEF OwnersInv, QueueRight, TopRight
<1>8. BackupRight'
  <2> SUFFICES ASSUME NEW l \in Lib, NEW y \in Sym, NEW n \in DOMAIN held[l][y],
                      NEW o, o = held[l][y][n], Plt[l][y] # {}, ~Queued(o)
               PROVE  OnTop(old[o], held[l][y], n - 1)
    BY <1>2, <1>5 DEF BackupRight
  <2>1. CASE ~Working(o)
    BY <2>1 DEF OwnersInv, BackupRight
  <2>2. CASE Working(o)
    <3>1. held[l][y] \in Seq(Owner)
      BY DEF OwnersInv, HeldOnce
    <3>2. o \in Owner /\ work.ptr = o /\ work.ptr # Null
      BY <2>2, <3>1, NullAssumption DEF Working, Owner
    <3>3. mapped[work.base] \in Lib
      BY <1>1, <1>2 DEF Committing, TypeOK, Work
    <3>4. PICK z \in Sym : \E m \in DOMAIN held[mapped[work.base]][z] :
            /\ held[mapped[work.base]][z][m] = work.ptr
            /\ work.slots # Plt[mapped[work.base]][z] =>
                 OnTop(old[work.ptr], held[mapped[work.base]][z], m - 1)
      BY <1>2, <3>2 DEF OwnersInv, WorkRight
    <3>5. PICK m \in DOMAIN held[mapped[work.base]][z] :
            /\ held[mapped[work.base]][z][m] = work.ptr
            /\ work.slots # Plt[mapped[work.base]][z] =>
                 OnTop(old[work.ptr], held[mapped[work.base]][z], m - 1)
      BY <3>4
    <3>6. l = mapped[work.base] /\ y = z /\ n = m
      BY <3>2, <3>3, <3>5 DEF OwnersInv, HeldOnce, Held
    <3> QED
      BY <1>2, <3>2, <3>5, <3>6
  <2> QED
    BY <2>1, <2>2
<1> QED
  BY <1>6, <1>7, <1>8 DEF OwnersInv

\* One slot is written.
LEMMA DoHookOwners ==
    ASSUME IInv, OwnersInv, OwnersApart, NoneLost, NEW s \in Slot, DoHook(s), held' = held
    PROVE  OwnersInv'
<1>1. TypeOK /\ Committing
  BY DEF IInv
<1>2. /\ work # <<>> /\ work \in Work /\ s \in work.slots
      /\ work' = [work EXCEPT !.slots = @ \ {s}]
      /\ UNCHANGED <<mapped, register_info, held>>
  BY <1>1 DEF DoHook, TypeOK
<1>3. PICK b \in Base : b = work.base
  BY <1>2 DEF Work
<1>4. PICK f \in Fn : f = work.callback
  BY <1>2 DEF Work
<1>5. PICK l \in Lib : l = mapped[b] /\ l # NoLib
  BY <1>1, <1>2, <1>3, LibAssumption DEF Committing, TypeOK
<1>6. /\ work' # <<>> /\ work'.base = b /\ work'.callback = f /\ work'.ptr = work.ptr
      /\ work'.slots = work.slots \ {s}
  BY <1>2, <1>3, <1>4 DEF Work
<1>7. HookSlot(b, s, f)
  <2>1. mem[b] # NoPages
    BY <1>5, NullAssumption DEF OwnersInv, MappedOnce, NoPages
  <2>2. ~HookFails(b)
    BY <2>1 DEF HookFails, Hole, MayFail, NoneLost
  <2> QED
    BY <1>3, <1>4, <2>2 DEF DoHook
<1>8. mem' = [mem EXCEPT ![b][s] = f] /\ old' = BackupWritten(f, mem[b][s])
  <2>1. SelfMapped
    BY DEF OwnersInv, MappedOnce, SelfMapped
  <2>2. old' = BackupWritten(f, mem[b][s])
    BY <1>7 DEF HookSlot
  <2> QED
    BY <1>5, <1>7, <2>1, <2>2, HookSlotMem
<1>9. /\ mem'[b][s] = f
      /\ \A c \in Base, z \in Slot : c # b \/ z # s => mem'[c][z] = mem[c][z]
  BY <1>1, <1>8 DEF TypeOK
<1>10. \A c \in Base, z \in Slot : Now(c, z)' = Now(c, z)
  BY <1>2, <1>3, <1>4, <1>6, <1>9 DEF Now
<1>11. \A c \in Base, z \in Slot : \A i, v : Found(c, z, i, v)' <=> Found(c, z, i, v)
  BY <1>2, <1>10 DEF Found
<1>12. \A o : (Queued(o)' <=> Queued(o)) /\ (Working(o)' <=> Working(o))
  BY <1>2, <1>6 DEF Queued, Working
<1>13. /\ \A o : o # work.ptr => old'[o] = old[o]
       /\ work.ptr # Null /\ f # mem[b][s] => old'[work.ptr] = mem[b][s]
  BY <1>1, <1>2, <1>8 DEF BackupWritten, Work, TypeOK
<1>14. HeldOnce'
  BY <1>2 DEF OwnersInv, HeldOnce, Held
<1>15. MappedOnce'
  BY <1>2, <1>9 DEF OwnersInv, MappedOnce
<1>16. \A h \in Lib, y \in Sym : Plt[h][y] \subseteq Slot
  BY LibAssumption
<1>17. QueueRight'
  <2>1. ASSUME NEW i \in DOMAIN register_info
        PROVE  \A c \in Base, z \in Plt[register_info[i].lib][register_info[i].sym] : \A v :
                 Found(c, z, i, v)' <=> Found(c, z, i, v)
    <3>1. register_info[i].lib \in Lib /\ register_info[i].sym \in Sym
      BY <1>1, Listed
    <3>2. \A z \in Plt[register_info[i].lib][register_info[i].sym] : z \in Slot
      BY <1>16, <3>1
    <3> QED
      BY <1>11, <3>2
  <2>2. \A i \in DOMAIN register_info :
          /\ register_info[i].lib \in ToSet(mapped')
          /\ \A j \in DOMAIN register_info :
               register_info[i].ptr = register_info[j].ptr /\ register_info[i].ptr # Null => i = j
    BY <1>2 DEF OwnersInv, QueueRight
  <2> SUFFICES ASSUME NEW i \in DOMAIN register_info, NEW r, r = register_info[i], r.ptr # Null
               PROVE  /\ ~Working(r.ptr)' /\ r.callback = Callback[r.ptr]
                      /\ \E n \in DOMAIN held'[r.lib][r.sym] :
                           /\ held'[r.lib][r.sym][n] = r.ptr
                           /\ \A c \in Base, z \in Plt[r.lib][r.sym], v \in Fn :
                                mapped'[c] = r.lib /\ Found(c, z, i, v)' =>
                                  OnTop(v, held'[r.lib][r.sym], n - 1)
    <3>1. register_info' = register_info
      BY <1>2
    <3> QED
      BY <2>2, <3>1 DEF QueueRight
  <2>3. /\ ~Working(r.ptr) /\ r.callback = Callback[r.ptr]
        /\ \E n \in DOMAIN held[r.lib][r.sym] :
             /\ held[r.lib][r.sym][n] = r.ptr
             /\ \A c \in Base, z \in Plt[r.lib][r.sym], v \in Fn :
                  mapped[c] = r.lib /\ Found(c, z, i, v) => OnTop(v, held[r.lib][r.sym], n - 1)
    BY DEF OwnersInv, QueueRight
  <2>4. ~Working(r.ptr)' /\ held' = held /\ mapped' = mapped
    BY <1>2, <1>12, <2>3
  <2> QED
    BY <2>1, <2>3, <2>4
<1>18. TopRight'
  <2> SUFFICES ASSUME NEW c \in Base, mapped[c] # NoLib, NEW y \in Sym,
                      NEW z \in Plt[mapped[c]][y], NEW v \in Fn,
                      Found(c, z, Len(register_info) + 1, v)
               PROVE  OnTop(v, held[mapped[c]][y], Len(held[mapped[c]][y]))
    <3>1. ASSUME NEW c \in Base, mapped[c] # NoLib, NEW y \in Sym, NEW z \in Plt[mapped[c]][y], NEW i, NEW v
          PROVE  Found(c, z, i, v)' <=> Found(c, z, i, v)
      BY <1>1, <1>11, <1>16, <3>1 DEF TypeOK
    <3> QED
      BY <1>2, <3>1 DEF TopRight
  <2> QED
    BY DEF OwnersInv, TopRight
<1>19. WorkRight'
  <2> SUFFICES ASSUME work.ptr # Null
               PROVE  /\ f = Callback[work.ptr]
                      /\ \E y \in Sym : \E n \in DOMAIN held[l][y] :
                           /\ held[l][y][n] = work.ptr
                           /\ work'.slots \subseteq Plt[l][y]
                           /\ \A z \in work'.slots : OnTop(mem'[b][z], held[l][y], n - 1)
                           /\ OnTop(old'[work.ptr], held[l][y], n - 1)
    BY <1>2, <1>5, <1>6 DEF WorkRight
  <2>1. /\ f = Callback[work.ptr]
        /\ \E y \in Sym : \E n \in DOMAIN held[l][y] :
             /\ held[l][y][n] = work.ptr
             /\ work.slots \subseteq Plt[l][y]
             /\ \A z \in work.slots : OnTop(mem[b][z], held[l][y], n - 1)
    BY <1>2, <1>3, <1>4, <1>5 DEF OwnersInv, WorkRight
  <2>2. PICK y \in Sym : \E n \in DOMAIN held[l][y] :
             /\ held[l][y][n] = work.ptr
             /\ work.slots \subseteq Plt[l][y]
             /\ \A z \in work.slots : OnTop(mem[b][z], held[l][y], n - 1)
    BY <2>1
  <2>3. PICK n \in DOMAIN held[l][y] :
             /\ held[l][y][n] = work.ptr
             /\ work.slots \subseteq Plt[l][y]
             /\ \A z \in work.slots : OnTop(mem[b][z], held[l][y], n - 1)
    BY <2>2
  <2>4. ASSUME NEW z \in work'.slots PROVE OnTop(mem'[b][z], held[l][y], n - 1)
    BY <1>6, <1>9, <1>16, <2>3
  <2>5. held[l][y] \in Seq(Owner) /\ n \in 1 .. Len(held[l][y])
    BY <2>3 DEF OwnersInv, HeldOnce
  <2>6. mem[b][s] # Callback[work.ptr]
    <3>1. work.ptr \in Owner
      BY <2>3, <2>5
    <3>2. CASE n - 1 = 0
      BY <1>2, <2>3, <3>1, <3>2 DEF OnTop, Callbacks
    <3>3. CASE n - 1 # 0
      <4>1. n - 1 \in DOMAIN held[l][y] /\ n - 1 # n
        BY <2>5, <3>3
      <4>2. held[l][y][n - 1] \in Owner /\ held[l][y][n - 1] # work.ptr
        BY <2>3, <2>5, <3>1, <4>1 DEF OwnersInv, HeldOnce, Held
      <4>3. mem[b][s] = Callback[held[l][y][n - 1]]
        BY <1>2, <2>3, <3>3 DEF OnTop
      <4> QED
        BY <3>1, <4>2, <4>3 DEF OwnersApart
    <3> QED
      BY <3>2, <3>3
  <2>7. OnTop(old'[work.ptr], held[l][y], n - 1)
    BY <1>2, <1>13, <2>1, <2>3, <2>6
  <2>8. work'.slots \subseteq Plt[l][y]
    BY <1>6, <2>3
  <2> QED
    BY <2>1, <2>3, <2>4, <2>7, <2>8
<1>20. BackupRight'
  <2> SUFFICES ASSUME NEW h \in Lib, NEW y \in Sym, NEW n \in DOMAIN held[h][y],
                      NEW o, o = held[h][y][n], Plt[h][y] # {}, ~Queued(o), ~Working(o)
               PROVE  OnTop(old'[o], held[h][y], n - 1)
    BY <1>2, <1>12 DEF BackupRight
  <2>1. OnTop(old[o], held[h][y], n - 1)
    BY DEF OwnersInv, BackupRight
  <2>2. o # work.ptr
    BY <1>2 DEF Working
  <2> QED
    BY <1>13, <2>1, <2>2
<1> QED
  BY <1>14, <1>15, <1>17, <1>18, <1>19, <1>20 DEF OwnersInv

\* The commit takes a registration from the list, the first for its library:
\* the others find what they would have found.
LEMMA FoundTaken ==
    ASSUME IInv, MappedOnce, NEW i \in DOMAIN register_info, NEW r, r = register_info[i],
           NEW b \in Base, mapped[b] = r.lib, work = <<>>,
           work' = [base |-> b, callback |-> r.callback, ptr |-> r.ptr, slots |-> Plt[r.lib][r.sym]],
           register_info' = RemoveAt(register_info, i), UNCHANGED <<mapped, mem>>,
           \A j \in 1 .. i - 1 : register_info[j].lib # mapped[b]
    PROVE  \A c \in Base : \A s, v : \A j \in 1 .. Len(register_info) :
             Found(c, s, j, v)' /\ (c # b \/ i <= j) =>
               Found(c, s, IF j < i THEN j ELSE j + 1, v)
<1>1. TypeOK
  BY DEF IInv
<1>2. PICK n \in Nat : n = Len(register_info) /\ DOMAIN register_info = 1 .. n
  BY <1>1, Listed
<1>3. /\ i \in 1 .. n
      /\ \A k \in 1 .. n - 1 : register_info'[k] = IF k < i THEN register_info[k] ELSE register_info[k + 1]
  <2>1. register_info \in Seq(Registration)
    BY <1>1 DEF TypeOK
  <2> QED
    BY <1>2, <2>1, RemoveAtProperties
<1>4. r.lib \in Lib /\ r.lib # NoLib
  BY <1>1, Listed, LibAssumption
<1> SUFFICES ASSUME NEW c \in Base, NEW s, NEW v, NEW j \in 1 .. n,
                    Found(c, s, j, v)', c # b \/ i <= j
             PROVE  Found(c, s, IF j < i THEN j ELSE j + 1, v)
  BY <1>2
<1>5. PICK d : d = (IF j < i THEN j ELSE j + 1)
  OBVIOUS
<1>6. d \in Nat /\ (j < i => d = j) /\ (~(j < i) => d = j + 1)
  BY <1>5
<1> DEFINE T(k) == Touches(register_info[k], mapped[c], s)
<1>7. c # b => ~T(i)
  BY <1>4 DEF Touches, MappedOnce
<1>8. c = b => \A k \in 1 .. i - 1 : ~T(k)
  BY DEF Touches
<1> DEFINE Last1 == /\ \A k \in 1 .. j - 1 : ~Touches(register_info'[k], mapped[c], s)
                    /\ v = Now(c, s)'
           Last2(a) == /\ Touches(register_info'[a], mapped[c], s) /\ v = register_info'[a].callback
                       /\ \A k \in 1 .. j - 1 : a < k => ~Touches(register_info'[k], mapped[c], s)
<1>9. Last1 \/ \E a \in 1 .. j - 1 : Last2(a)
  <2>1. mapped' = mapped
    OBVIOUS
  <2> QED
    BY <2>1 DEF Found
<1>10. \A k \in 1 .. j - 1 : /\ k \in 1 .. n - 1
                             /\ k < i => register_info'[k] = register_info[k]
                             /\ ~(k < i) => register_info'[k] = register_info[k + 1]
  BY <1>3
<1>11. \A k \in 1 .. d - 1 : \/ k = i /\ i <= j
                             \/ k < i /\ k \in 1 .. j - 1
                             \/ i < k /\ k - 1 \in 1 .. j - 1 /\ ~(k - 1 < i) /\ (k - 1) + 1 = k
  BY <1>3, <1>6
<1>12. CASE Last1
  <2>1. \A k \in 1 .. d - 1 : k # i => ~T(k)
    <3> SUFFICES ASSUME NEW k \in 1 .. d - 1, k # i PROVE ~T(k)
      OBVIOUS
    <3>1. CASE k < i /\ k \in 1 .. j - 1
      BY <1>10, <1>12, <3>1
    <3>2. CASE i < k /\ k - 1 \in 1 .. j - 1 /\ ~(k - 1 < i) /\ (k - 1) + 1 = k
      BY <1>10, <1>12, <3>2
    <3> QED
      BY <1>11, <3>1, <3>2
  <2>2. CASE T(i) /\ i <= j
    <3>1. c = b /\ v = r.callback
      BY <1>7, <1>12, <2>2 DEF Touches, Now
    <3>2. i \in 1 .. d - 1
      BY <1>3, <1>6, <2>2
    <3>3. \A k \in 1 .. d - 1 : i < k => ~T(k)
      BY <1>3, <2>1
    <3> QED
      BY <1>5, <2>2, <3>1, <3>2, <3>3 DEF Found
  <2>3. CASE ~T(i) \/ ~(i <= j)
    <3>1. \A k \in 1 .. d - 1 : ~T(k)
      BY <1>11, <2>1, <2>3
    <3>2. v = mem[c][s]
      <4>1. ~(c = b /\ s \in Plt[r.lib][r.sym])
        BY <2>3 DEF Touches
      <4> QED
        BY <1>12, <4>1 DEF Now
    <3>3. v = Now(c, s)
      BY <3>2 DEF Now
    <3> QED
      BY <1>5, <3>1, <3>3 DEF Found
  <2> QED
    BY <2>2, <2>3
<1>13. ASSUME NEW a \in 1 .. j - 1, Last2(a) PROVE Found(c, s, d, v)
  <2>1. PICK e \in 1 .. d - 1 : e = IF a < i THEN a ELSE a + 1
    BY <1>3, <1>6
  <2>2. (a < i => e = a) /\ (~(a < i) => e = a + 1) /\ e \in Nat
    BY <2>1
  <2>3. T(e) /\ v = register_info[e].callback
    BY <1>10, <1>13, <2>2
  <2>4. ASSUME NEW k \in 1 .. d - 1, e < k PROVE ~T(k)
    <3>1. CASE k = i
      <4>1. a < i /\ e = a /\ a \in 1 .. i - 1
        BY <1>3, <2>2, <2>4, <3>1
      <4>2. c # b
        BY <1>8, <2>3, <4>1
      <4> QED
        BY <1>7, <3>1, <4>2
    <3>2. CASE k < i /\ k \in 1 .. j - 1
      <4>1. a < k
        BY <1>3, <2>2, <2>4, <3>2
      <4> QED
        BY <1>10, <1>13, <3>2, <4>1
    <3>3. CASE i < k /\ k - 1 \in 1 .. j - 1 /\ ~(k - 1 < i) /\ (k - 1) + 1 = k
      <4>1. a < k - 1
        BY <1>3, <2>2, <2>4, <3>3
      <4> QED
        BY <1>10, <1>13, <3>3, <4>1
    <3> QED
      BY <1>11, <3>1, <3>2, <3>3
  <2> QED
    BY <2>3, <2>4 DEF Found
<1> QED
  BY <1>5, <1>9, <1>12, <1>13

LEMMA TakeOwners ==
    ASSUME IInv, OwnersInv, OwnersApart, NEW i \in DOMAIN register_info, TakeRegistration(i),
           held' = held
    PROVE  OwnersInv'
<1>1. TypeOK /\ Committing
  BY DEF IInv
<1>2. PICK b \in Base : b = NextEntry /\ b \in hook_info
  BY <1>1 DEF TakeRegistration, Targets, TypeOK
<1>3. PICK r : r = register_info[i]
  OBVIOUS
<1>4. /\ work = <<>> /\ mapped[b] = r.lib
      /\ work' = [base |-> b, callback |-> r.callback, ptr |-> r.ptr, slots |-> Plt[r.lib][r.sym]]
      /\ register_info' = RemoveAt(register_info, i)
      /\ UNCHANGED <<mapped, mem, old, held>>
      /\ \A j \in 1 .. i - 1 : register_info[j].lib # mapped[b]
  BY <1>2, <1>3 DEF TakeRegistration, Targets, memVars
<1>5. PICK n \in Nat : n = Len(register_info) /\ DOMAIN register_info = 1 .. n
  BY <1>1, Listed
<1>6. /\ i \in 1 .. n /\ Len(register_info') = n - 1 /\ DOMAIN register_info' = 1 .. n - 1
      /\ \A k \in 1 .. n - 1 : register_info'[k] = IF k < i THEN register_info[k] ELSE register_info[k + 1]
  <2>1. register_info \in Seq(Registration)
    BY <1>1 DEF TypeOK
  <2>2. register_info' \in Seq(Registration)
    BY <1>4, <2>1, RemoveAtType
  <2>3. /\ Len(RemoveAt(register_info, i)) = n - 1
        /\ i \in 1 .. n
        /\ \A k \in 1 .. n - 1 : RemoveAt(register_info, i)[k] =
             IF k < i THEN register_info[k] ELSE register_info[k + 1]
    BY <1>5, <2>1, RemoveAtProperties
  <2>4. DOMAIN register_info' = 1 .. Len(register_info')
    BY <2>2
  <2> QED
    BY <1>4, <2>3, <2>4
<1>7. \A c \in Base : \A s, v : \A j \in 1 .. n :
        Found(c, s, j, v)' /\ (c # b \/ i <= j) => Found(c, s, IF j < i THEN j ELSE j + 1, v)
  <2>1. MappedOnce
    BY DEF OwnersInv
  <2> QED
    BY <1>3, <1>4, <1>5, <2>1, FoundTaken
<1>8. r.lib \in Lib /\ r.sym \in Sym /\ r.callback \in Fn /\ r.ptr \in Ptr \cup {Null} /\ r.lib # NoLib
  BY <1>1, <1>3, Listed, LibAssumption
<1>9. /\ work' # <<>> /\ work'.base = b /\ work'.callback = r.callback /\ work'.ptr = r.ptr
      /\ work'.slots = Plt[r.lib][r.sym]
  BY <1>4
<1>10. \A k \in 1 .. n - 1 : \E j \in 1 .. n :
         /\ j # i /\ register_info'[k] = register_info[j]
         /\ j = IF k < i THEN k ELSE k + 1
  BY <1>6
<1>11. \A j \in 1 .. n : j # i => \E k \in 1 .. n - 1 : register_info'[k] = register_info[j]
  <2> SUFFICES ASSUME NEW j \in 1 .. n, j # i
               PROVE  \E k \in 1 .. n - 1 : register_info'[k] = register_info[j]
    OBVIOUS
  <2>1. CASE j < i
    <3>1. j \in 1 .. n - 1
      BY <1>6, <2>1
    <3> QED
      BY <1>6, <2>1, <3>1
  <2>2. CASE ~(j < i)
    <3>1. j - 1 \in 1 .. n - 1 /\ ~(j - 1 < i) /\ (j - 1) + 1 = j
      BY <1>6, <2>2
    <3> QED
      BY <1>6, <3>1
  <2> QED
    BY <2>1, <2>2
<1>12. \A o : Queued(o)' \/ Working(o)' <=> Queued(o) \/ Working(o)
  <2>1. \A o : Queued(o) <=> \E j \in 1 .. n : register_info[j].ptr = o
    BY <1>5 DEF Queued
  <2>2. \A o : Queued(o)' <=> \E k \in 1 .. n - 1 : register_info'[k].ptr = o
    BY <1>6 DEF Queued
  <2>3. \A o : ~Working(o) /\ (Working(o)' <=> r.ptr = o)
    BY <1>4, <1>9 DEF Working
  <2> QED
    BY <1>3, <1>6, <1>10, <1>11, <2>1, <2>2, <2>3
<1>13. HeldOnce' /\ MappedOnce'
  BY <1>4 DEF OwnersInv, HeldOnce, MappedOnce, Held
<1>14. \A j \in 1 .. n :
         /\ register_info[j].lib \in ToSet(mapped)
         /\ \A k \in 1 .. n :
              register_info[j].ptr = register_info[k].ptr /\ register_info[j].ptr # Null => j = k
  BY <1>5 DEF OwnersInv, QueueRight
<1>15. ASSUME NEW j \in 1 .. n, NEW g, g = register_info[j], g.ptr # Null
       PROVE  /\ g.lib \in Lib /\ g.sym \in Sym /\ g.callback = Callback[g.ptr]
              /\ \E a \in DOMAIN held[g.lib][g.sym] :
                   /\ held[g.lib][g.sym][a] = g.ptr
                   /\ \A c \in Base, s \in Plt[g.lib][g.sym], v \in Fn :
                        mapped[c] = g.lib /\ Found(c, s, j, v) => OnTop(v, held[g.lib][g.sym], a - 1)
  BY <1>1, <1>5, <1>15, Listed DEF OwnersInv, QueueRight
<1>16. QueueRight'
  <2> SUFFICES ASSUME NEW k \in DOMAIN register_info', NEW g, g = register_info'[k]
               PROVE  /\ g.lib \in ToSet(mapped')
                      /\ \A j \in DOMAIN register_info' :
                           g.ptr = register_info'[j].ptr /\ g.ptr # Null => k = j
                      /\ g.ptr # Null =>
                           /\ ~Working(g.ptr)' /\ g.callback = Callback[g.ptr]
                           /\ \E a \in DOMAIN held'[g.lib][g.sym] :
                                /\ held'[g.lib][g.sym][a] = g.ptr
                                /\ \A c \in Base, s \in Plt[g.lib][g.sym], v \in Fn :
                                     mapped'[c] = g.lib /\ Found(c, s, k, v)' =>
                                       OnTop(v, held'[g.lib][g.sym], a - 1)
    BY DEF QueueRight
  <2>0. k \in 1 .. n - 1 /\ DOMAIN register_info' = 1 .. n - 1
    BY <1>6
  <2>1. PICK j \in 1 .. n : j # i /\ g = register_info[j] /\ j = IF k < i THEN k ELSE k + 1
    BY <1>10, <2>0
  <2>2. g.lib \in ToSet(mapped')
    BY <1>4, <1>14, <2>1
  <2>3. ASSUME NEW m \in 1 .. n - 1, g.ptr = register_info'[m].ptr, g.ptr # Null PROVE k = m
    <3>1. PICK h \in 1 .. n : /\ h # i /\ register_info'[m] = register_info[h]
                              /\ h = IF m < i THEN m ELSE m + 1
      BY <1>10
    <3>2. j = h
      BY <1>14, <2>1, <2>3, <3>1
    <3> QED
      BY <1>6, <2>0, <2>1, <3>1, <3>2
  <2>4. ASSUME g.ptr # Null
        PROVE  /\ ~Working(g.ptr)' /\ g.callback = Callback[g.ptr]
               /\ \E a \in DOMAIN held[g.lib][g.sym] :
                    /\ held[g.lib][g.sym][a] = g.ptr
                    /\ \A c \in Base, s \in Plt[g.lib][g.sym], v \in Fn :
                         mapped[c] = g.lib /\ Found(c, s, k, v)' =>
                           OnTop(v, held[g.lib][g.sym], a - 1)
    <3>1. g.ptr # r.ptr
      BY <1>3, <1>6, <1>14, <2>1, <2>4
    <3>2. ~Working(g.ptr)'
      BY <1>9, <3>1 DEF Working
    <3>3. g.lib \in Lib /\ g.sym \in Sym /\ g.callback = Callback[g.ptr]
      BY <1>15, <2>1, <2>4
    <3>4. PICK a \in DOMAIN held[g.lib][g.sym] :
            /\ held[g.lib][g.sym][a] = g.ptr
            /\ \A c \in Base, s \in Plt[g.lib][g.sym], v \in Fn :
                 mapped[c] = g.lib /\ Found(c, s, j, v) => OnTop(v, held[g.lib][g.sym], a - 1)
      BY <1>15, <2>1, <2>4
    <3>5. ASSUME NEW c \in Base, NEW s \in Plt[g.lib][g.sym], NEW v \in Fn,
                 mapped[c] = g.lib, Found(c, s, k, v)'
          PROVE  Found(c, s, j, v)
      <4>1. c # b \/ i <= k
        <5> SUFFICES ASSUME c = b, k < i PROVE FALSE
          BY <1>6, <2>0
        <5>1. j = k /\ k \in 1 .. i - 1
          BY <1>6, <2>0, <2>1
        <5> QED
          BY <1>4, <2>1, <3>5, <5>1
      <4>2. k \in 1 .. n
        BY <1>6, <2>0
      <4> QED
        BY <1>7, <2>1, <3>5, <4>1, <4>2
    <3> QED
      BY <3>2, <3>3, <3>4, <3>5
  <2> QED
    BY <1>4, <2>0, <2>2, <2>3, <2>4
<1>17. WorkRight'
  <2> SUFFICES ASSUME r.ptr # Null
               PROVE  /\ r.callback = Callback[r.ptr]
                      /\ \E y \in Sym : \E a \in DOMAIN held[r.lib][y] :
                           /\ held[r.lib][y][a] = r.ptr
                           /\ Plt[r.lib][r.sym] \subseteq Plt[r.lib][y]
                           /\ \A s \in Plt[r.lib][r.sym] : OnTop(mem[b][s], held[r.lib][y], a - 1)
                           /\ Plt[r.lib][r.sym] # Plt[r.lib][y] =>
                                OnTop(old[r.ptr], held[r.lib][y], a - 1)
    BY <1>4, <1>9 DEF WorkRight
  <2>1. PICK a \in DOMAIN held[r.lib][r.sym] :
          /\ held[r.lib][r.sym][a] = r.ptr
          /\ \A c \in Base, s \in Plt[r.lib][r.sym], v \in Fn :
               mapped[c] = r.lib /\ Found(c, s, i, v) => OnTop(v, held[r.lib][r.sym], a - 1)
    BY <1>3, <1>6, <1>15
  <2>2. ASSUME NEW s \in Plt[r.lib][r.sym] PROVE OnTop(mem[b][s], held[r.lib][r.sym], a - 1)
    <3>1. s \in Slot
      BY <1>8, LibAssumption
    <3>2. mem[b][s] \in Fn
      BY <1>4, <1>8, <3>1 DEF OwnersInv, MappedOnce
    <3>3. \A j \in 1 .. i - 1 : ~Touches(register_info[j], mapped[b], s)
      BY <1>4 DEF Touches
    <3>4. Found(b, s, i, mem[b][s])
      BY <1>4, <3>3 DEF Found, Now
    <3> QED
      BY <1>4, <2>1, <3>2, <3>4
  <2>3. r.callback = Callback[r.ptr]
    BY <1>3, <1>6, <1>15
  <2> QED
    BY <1>8, <2>1, <2>2, <2>3
<1>18. BackupRight'
  <2> SUFFICES ASSUME NEW h \in Lib, NEW y \in Sym, NEW m \in DOMAIN held[h][y],
                      NEW o, o = held[h][y][m], Plt[h][y] # {}, ~Queued(o)', ~Working(o)'
               PROVE  OnTop(old[o], held[h][y], m - 1)
    BY <1>4 DEF BackupRight
  <2>1. ~Queued(o) /\ ~Working(o)
    BY <1>12
  <2> QED
    BY <2>1 DEF OwnersInv, BackupRight
<1>19. TopRight'
  <2> SUFFICES ASSUME NEW c \in Base, mapped[c] # NoLib, NEW y \in Sym,
                      NEW s \in Plt[mapped[c]][y], NEW v \in Fn,
                      Found(c, s, Len(register_info) + 1, v)'
               PROVE  OnTop(v, held[mapped[c]][y], Len(held[mapped[c]][y]))
    BY <1>4 DEF TopRight
  <2>1. PICK j : j = n /\ j = Len(register_info') + 1
    BY <1>5, <1>6
  <2>2. Found(c, s, j, v)' /\ j \in 1 .. n /\ i <= j /\ ~(j < i)
    BY <1>6, <2>1
  <2>3. Found(c, s, n + 1, v)
    BY <1>7, <2>1, <2>2
  <2> QED
    BY <1>5, <2>3 DEF OwnersInv, TopRight
<1> QED
  BY <1>13, <1>16, <1>17, <1>18, <1>19 DEF OwnersInv

---------------------------------------------------------------------------
\* What owners do, LSPlt sees as operations of its callers.
LEMMA OwnersStepIsStep ==
    ASSUME TypeOK, OwnersApart, [OwnersNext]_ownerVars
    PROVE  [Next]_vars
<1>1. ASSUME NEW o \in Owner, NEW l \in Lib, NEW y \in Sym, Hook(o, l, y) PROVE Next
  <2>1. Callback[o] \in Fn /\ o \in Ptr \cup {Null}
    BY DEF OwnersApart, Owner
  <2>2. RegisterHook(l, y, Callback[o], o)
    BY <1>1 DEF Hook
  <2> QED
    BY <2>1, <2>2 DEF Next, Register
<1>2. ASSUME NEW o \in Owner, NEW l \in Lib, NEW y \in Sym, Unhook(o, l, y) PROVE Next
  <2>1. old[o] \in Fn
    BY <1>2 DEF Unhook, TypeOK, Owner
  <2>2. RegisterHook(l, y, old[o], Null)
    BY <1>2 DEF Unhook
  <2> QED
    BY <2>1, <2>2 DEF Next, Register
<1>3. ASSUME NEW l \in Lib, NEW b \in Base, MapLibrary(l, b) PROVE Next
  BY <1>3 DEF MapLibrary, Next
<1>4. CASE UNCHANGED ownerVars
  BY <1>4 DEF ownerVars
<1>5. CASE OwnersNext
  BY <1>1, <1>2, <1>3, <1>5 DEF OwnersNext, Next
<1> QED
  BY <1>4, <1>5

LEMMA OwnersInvInit == ASSUME OwnersInit PROVE OwnersInv
<1>1. /\ register_info = <<>> /\ work = <<>>
      /\ \A b \in Base : mapped[b] = NoLib
      /\ \A l \in Lib, y \in Sym : held[l][y] = <<>>
      /\ held \in [Lib -> [Sym -> Seq(Owner)]]
  BY DEF OwnersInit, Init
<1>2. HeldOnce
  BY <1>1 DEF HeldOnce
<1>3. MappedOnce
  BY <1>1 DEF MappedOnce
<1>4. QueueRight /\ WorkRight
  BY <1>1 DEF QueueRight, WorkRight
<1>5. BackupRight
  BY <1>1 DEF BackupRight
<1>6. TopRight
  BY <1>1 DEF TopRight
<1> QED
  BY <1>2, <1>3, <1>4, <1>5, <1>6 DEF OwnersInv

LEMMA OwnersInvStep ==
    ASSUME OwnersApart, NoneLost, IInv, OwnersInv, [OwnersNext]_ownerVars
    PROVE  OwnersInv'
<1>1. CASE UNCHANGED ownerVars
  BY <1>1, OwnersSame DEF ownerVars, vars, memVars, infoVars
<1>2. ASSUME NEW o \in Owner, NEW l \in Lib, NEW y \in Sym, Hook(o, l, y) \/ Unhook(o, l, y)
      PROVE  OwnersInv'
  BY <1>2, HookStep, UnhookStep
<1>3. CASE held' = held /\ Commit
  <2>1. CASE CommitHook \/ CommitReturns
    BY <1>3, <2>1, OwnersSame DEF CommitHook, CommitReturns, memVars, infoVars
  <2>2. ASSUME NEW i \in 1 .. MaxPending, TakeRegistration(i) PROVE OwnersInv'
    <3>1. i \in DOMAIN register_info
      BY <2>2 DEF TakeRegistration
    <3> QED
      BY <1>3, <2>2, <3>1, TakeOwners
  <2>3. ASSUME NEW s \in Slot, DoHook(s) PROVE OwnersInv'
    BY <1>3, <2>3, DoHookOwners
  <2>4. CASE FinishRegistration
    BY <1>3, <2>4, FinishStep
  <2> QED
    BY <1>3, <2>1, <2>2, <2>3, <2>4 DEF Commit
<1>4. CASE held' = held /\ InvalidateBackup
  <2>1. mem' = mem
    BY <1>4, InvalidateKeepsMem DEF NoneLost
  <2>2. UNCHANGED <<mapped, register_info, work, old>>
    BY <1>4 DEF InvalidateBackup
  <2> QED
    BY <1>4, <2>1, <2>2, OwnersSame
<1>5. ASSUME held' = held, NEW l \in Lib, NEW b \in Base, MapLibrary(l, b) PROVE OwnersInv'
  BY <1>5, MapStep
<1> QED
  BY <1>1, <1>2, <1>3, <1>4, <1>5 DEF OwnersNext

\* Everyone who shares LSPlt finds what they should: each queued registration
\* will find, in every slot of its symbol, the callback of whoever hooked the
\* symbol before it, and each backup holds that.
THEOREM OwnersInvCorrect ==
    ASSUME OwnersApart, NoneLost
    PROVE  OwnersSpec => [](IInv /\ OwnersInv)
<1>1. OwnersInit => IInv /\ OwnersInv
  BY IInvInit, OwnersInvInit DEF OwnersInit
<1>2. IInv /\ OwnersInv /\ [OwnersNext]_ownerVars => IInv' /\ OwnersInv'
  <2> SUFFICES ASSUME IInv, OwnersInv, [OwnersNext]_ownerVars PROVE IInv' /\ OwnersInv'
    OBVIOUS
  <2>1. [Next]_vars
    BY OwnersStepIsStep DEF IInv
  <2>2. "invalidate" \notin Failures
    BY DEF NoneLost
  <2> QED
    BY <2>1, <2>2, IInvStep, OwnersInvStep
<1> QED
  BY <1>1, <1>2, PTL DEF OwnersSpec

---------------------------------------------------------------------------
\* What a call runs, one function at a time.
LEMMA ChainSteps ==
    ASSUME TypeOK, OwnersApart
    PROVE  /\ \A n \in Nat, f \in Fn \cup {Null} : Chain[n][f] \in Seq(Fn \cup {Null})
           /\ \A n \in Nat, f \in Fn \cup {Null} : f \notin Callbacks => Chain[n + 1][f] = <<f>>
           /\ \A n \in Nat, o \in Owner :
                Chain[n + 1][Callback[o]] = <<Callback[o]>> \o Chain[n][old[o]]
<1> DEFINE F == Fn \cup {Null}
           A == [F -> Seq(F)]
           whose(f) == CHOOSE o \in Owner : Callback[o] = f
           Rest(g, f) == IF \E o \in Owner : Callback[o] = f THEN g[old[whose(f)]] ELSE <<>>
           More(g) == [f \in F |-> <<f>> \o Rest(g, f)]
           none == [f \in F |-> <<>>]
           step == [x \in Nat \X A |-> More(x[2])]
           Body(c) == [n \in Nat |-> [f \in F |->
               IF n = 0 THEN <<>>
               ELSE <<f>> \o (IF \E o \in Owner : Callback[o] = f
                              THEN c[n - 1][old[CHOOSE o \in Owner : Callback[o] = f]]
                              ELSE <<>>)]]
<1>1. \A f \in F : (\E o \in Owner : Callback[o] = f) => whose(f) \in Owner /\ old[whose(f)] \in F
  <2> SUFFICES ASSUME NEW f \in F, \E o \in Owner : Callback[o] = f
               PROVE  whose(f) \in Owner /\ old[whose(f)] \in F
    OBVIOUS
  <2>1. whose(f) \in Owner
    OBVIOUS
  <2> HIDE DEF whose
  <2> QED
    BY <2>1 DEF TypeOK, Owner
<1>2. ASSUME NEW g \in A PROVE More(g) \in A
  <2>1. ASSUME NEW f \in F PROVE <<f>> \o Rest(g, f) \in Seq(F)
    <3>1. Rest(g, f) \in Seq(F)
      <4> HIDE DEF F, whose
      <4> QED
        BY <1>1
    <3>2. <<f>> \in Seq(F)
      OBVIOUS
    <3> HIDE DEF Rest, F
    <3> QED
      BY <3>1, <3>2, ConcatProperties
  <2> HIDE DEF Rest, F
  <2> QED
    BY <2>1
<1>3. none \in A
  OBVIOUS
<1>4. step \in [Nat \X A -> A] /\ \A n \in Nat, g \in A : step[<<n, g>>] = More(g)
  <2> HIDE DEF More, A
  <2> QED
    BY <1>2
<1> HIDE DEF step, A, none
<1>5. PICK c : Recursive(c, A, none, step)
  BY <1>3, <1>4, RecursionExists
<1>6. c \in [Nat -> A] /\ c[0] = none /\ \A n \in Nat : c[n + 1] = More(c[n])
  <2> HIDE DEF More
  <2> QED
    BY <1>4, <1>5 DEF Recursive
<1>7. c = Body(c)
  <2>1. ASSUME NEW n \in Nat, n # 0 PROVE c[n] = More(c[n - 1])
    <3>1. n - 1 \in Nat /\ (n - 1) + 1 = n
      BY <2>1
    <3> HIDE DEF More
    <3> QED
      BY <3>1, <1>6
  <2>2. ASSUME NEW n \in Nat
        PROVE  c[n] = [f \in F |->
               IF n = 0 THEN <<>>
               ELSE <<f>> \o (IF \E o \in Owner : Callback[o] = f
                              THEN c[n - 1][old[CHOOSE o \in Owner : Callback[o] = f]]
                              ELSE <<>>)]
    <3>1. CASE n = 0
      BY <1>6, <3>1 DEF none
    <3>2. CASE n # 0
      <4>1. c[n] = More(c[n - 1])
        BY <2>1, <3>2
      <4> QED
        BY <3>2, <4>1
    <3> QED
      BY <3>1, <3>2
  <2>3. c = [n \in Nat |-> c[n]]
    BY <1>6
  <2> QED
    BY <2>2, <2>3
<1>8. Chain = CHOOSE g : g = Body(g)
  BY Zenon DEF Chain
<1> HIDE DEF Body
<1>9. Chain = Body(Chain)
  BY <1>7, <1>8
<1> USE DEF Body
<1>10. /\ Chain[0] = none
       /\ \A n \in Nat : Chain[n + 1] = More(Chain[n])
  <2> DEFINE ch == Chain
  <2>1. ch = Body(ch)
    BY <1>9
  <2> HIDE DEF ch
  <2>2. ch[0] = none
    BY <2>1 DEF none
  <2>3. ASSUME NEW n \in Nat PROVE ch[n + 1] = More(ch[n])
    <3>1. n + 1 \in Nat /\ n + 1 # 0 /\ (n + 1) - 1 = n
      OBVIOUS
    <3> QED
      BY <2>1, <3>1
  <2> QED
    BY <2>2, <2>3 DEF ch
<1> DEFINE typed == {n \in Nat : Chain[n] \in A}
<1>11. Nat \subseteq typed
  <2>1. 0 \in typed
    BY <1>3, <1>10
  <2>2. ASSUME NEW n \in Nat, n \in typed PROVE n + 1 \in typed
    <3>1. n + 1 \in Nat /\ Chain[n] \in A
      BY <2>2
    <3> HIDE DEF More
    <3> QED
      BY <1>2, <1>10, <3>1
  <2> HIDE DEF typed
  <2> QED
    BY <2>1, <2>2, AllNaturals
<1>12. \A n \in Nat, f \in F : Chain[n + 1][f] = <<f>> \o Rest(Chain[n], f)
  <2> HIDE DEF Rest
  <2> QED
    BY <1>10
<1>13. ASSUME NEW n \in Nat, NEW f \in F, f \notin Callbacks PROVE Chain[n + 1][f] = <<f>>
  <2>1. Rest(Chain[n], f) = <<>>
    BY <1>13 DEF Callbacks
  <2>2. <<f>> \o <<>> = <<f>>
    BY ConcatEmptySeq
  <2> HIDE DEF Rest
  <2> QED
    BY <1>12, <2>1, <2>2
<1>14. ASSUME NEW n \in Nat, NEW o \in Owner
       PROVE  Chain[n + 1][Callback[o]] = <<Callback[o]>> \o Chain[n][old[o]]
  <2>1. Callback[o] \in F
    BY DEF OwnersApart
  <2>2. whose(Callback[o]) = o
    BY DEF OwnersApart
  <2>3. Rest(Chain[n], Callback[o]) = Chain[n][old[o]]
    <3> HIDE DEF whose
    <3> QED
      BY <2>2
  <2> HIDE DEF Rest
  <2> QED
    BY <1>12, <2>1, <2>3
<1> QED
  BY <1>11, <1>13, <1>14 DEF A

\* If each backup holds the callback of who hooked before, or a function that
\* is nobody's callback, a call runs all those callbacks, the latest first.
LEMMA ChainRuns ==
    ASSUME TypeOK, OwnersApart, NEW owners \in Seq(Owner),
           \A n \in DOMAIN owners : OnTop(old[owners[n]], owners, n - 1)
    PROVE  \A k \in Nat, f \in Fn \cup {Null} : k <= Len(owners) /\ OnTop(f, owners, k) =>
             /\ Chain[k + 2][f] \in Seq(Fn \cup {Null}) /\ Len(Chain[k + 2][f]) = k + 1
             /\ \A i \in 1 .. k : Chain[k + 2][f][i] = Callback[owners[k + 1 - i]]
<1> DEFINE F == Fn \cup {Null}
           Runs(k) == \A f \in F : k <= Len(owners) /\ OnTop(f, owners, k) =>
             /\ Chain[k + 2][f] \in Seq(F) /\ Len(Chain[k + 2][f]) = k + 1
             /\ \A i \in 1 .. k : Chain[k + 2][f][i] = Callback[owners[k + 1 - i]]
           right == {k \in Nat : Runs(k)}
<1>1. 0 \in right
  <2> SUFFICES ASSUME NEW f \in F, OnTop(f, owners, 0)
               PROVE  Chain[0 + 2][f] \in Seq(F) /\ Len(Chain[0 + 2][f]) = 0 + 1
    OBVIOUS
  <2>1. f \notin Callbacks
    BY DEF OnTop
  <2>2. Chain[1 + 1][f] = <<f>>
    BY <2>1, ChainSteps
  <2>3. Chain[0 + 2][f] = <<f>>
    <3>1. 0 + 2 = 1 + 1
      OBVIOUS
    <3> QED
      BY <2>2, <3>1
  <2>4. <<f>> \in Seq(F) /\ Len(<<f>>) = 0 + 1
    OBVIOUS
  <2> HIDE DEF F
  <2> QED
    BY <2>3, <2>4
<1>2. ASSUME NEW k \in Nat, Runs(k) PROVE Runs(k + 1)
  <2> SUFFICES ASSUME NEW f \in F, k + 1 <= Len(owners), OnTop(f, owners, k + 1)
               PROVE  /\ Chain[(k + 1) + 2][f] \in Seq(F)
                      /\ Len(Chain[(k + 1) + 2][f]) = (k + 1) + 1
                      /\ \A i \in 1 .. k + 1 :
                           Chain[(k + 1) + 2][f][i] = Callback[owners[(k + 1) + 1 - i]]
    OBVIOUS
  <2>1. k + 1 \in DOMAIN owners /\ (k + 1) - 1 = k /\ k + 1 # 0 /\ (k + 1) + 2 = (k + 2) + 1
    OBVIOUS
  <2>2. PICK o \in Owner : o = owners[k + 1]
    BY <2>1
  <2>3. f = Callback[o] /\ OnTop(old[o], owners, k) /\ old[o] \in F
    BY <2>1, <2>2 DEF OnTop, TypeOK, Owner
  <2>4. PICK rest \in Seq(F) : rest = Chain[k + 2][old[o]]
    BY <2>3, ChainSteps
  <2>5. Len(rest) = k + 1 /\ \A i \in 1 .. k : rest[i] = Callback[owners[k + 1 - i]]
    BY <1>2, <2>3, <2>4
  <2>6. Chain[(k + 1) + 2][f] = <<f>> \o rest
    <3>1. k + 2 \in Nat
      OBVIOUS
    <3>2. Chain[(k + 2) + 1][Callback[o]] = <<Callback[o]>> \o Chain[k + 2][old[o]]
      BY <3>1, ChainSteps
    <3> QED
      BY <2>1, <2>3, <2>4, <3>2
  <2>7. PICK chain : chain = <<f>> \o rest
    OBVIOUS
  <2>8. <<f>> \in Seq(F) /\ Len(<<f>>) = 1 /\ <<f>>[1] = f
    OBVIOUS
  <2>9. /\ chain \in Seq(F) /\ Len(chain) = 1 + (k + 1)
        /\ chain[1] = f
        /\ \A i \in 2 .. k + 2 : chain[i] = rest[i - 1]
    <3> HIDE DEF F
    <3> QED
      BY <2>5, <2>7, <2>8, ConcatProperties
  <2>10. ASSUME NEW i \in 1 .. k + 1 PROVE chain[i] = Callback[owners[(k + 1) + 1 - i]]
    <3>1. CASE i = 1
      <4>1. (k + 1) + 1 - i = k + 1
        BY <3>1
      <4> QED
        BY <2>2, <2>3, <2>9, <3>1, <4>1
    <3>2. CASE i # 1
      <4>1. i \in 2 .. k + 2 /\ i - 1 \in 1 .. k /\ k + 1 - (i - 1) = (k + 1) + 1 - i
        BY <3>2
      <4> QED
        BY <2>5, <2>9, <4>1
    <3> QED
      BY <3>1, <3>2
  <2>11. Len(chain) = (k + 1) + 1
    BY <2>9
  <2> QED
    BY <2>6, <2>7, <2>9, <2>10, <2>11
<1>3. Nat \subseteq right
  <2> HIDE DEF Runs
  <2>1. \A k \in Nat : k \in right => k + 1 \in right
    BY <1>2
  <2> HIDE DEF right
  <2> QED
    BY <1>1, <2>1, AllNaturals
<1> QED
  BY <1>3

\* Between commits nothing is queued or under way, so the latest owner is on
\* top in every slot and every backup is right.
LEMMA ChainHeld ==
    ASSUME OwnersApart, IInv, OwnersInv
    PROVE  ChainIsHeld
<1>1. TypeOK /\ Committing
  BY DEF IInv
<1> SUFFICES ASSUME Idle, NEW b \in Base, NEW y \in Sym, mapped[b] # NoLib,
                    NEW s \in Plt[mapped[b]][y]
             PROVE  Front(Chain[Len(held[mapped[b]][y]) + 2][mem[b][s]]) =
                      [i \in DOMAIN held[mapped[b]][y] |->
                        Callback[Reverse(held[mapped[b]][y])[i]]]
  BY DEF ChainIsHeld
<1>0. PICK owners, chain : /\ owners = held[mapped[b]][y]
                           /\ chain = Chain[Len(owners) + 2][mem[b][s]]
  OBVIOUS
<1>2. PICK l \in Lib : l = mapped[b]
  BY <1>1 DEF TypeOK
<1>3. work = <<>> /\ register_info = <<>>
  BY <1>1 DEF Committing, Idle
<1>4. owners \in Seq(Owner)
  BY <1>0, <1>2 DEF OwnersInv, HeldOnce
<1>5. PICK k \in Nat : k = Len(owners) /\ DOMAIN owners = 1 .. k
  BY <1>4
<1>6. \A o : ~Queued(o) /\ ~Working(o)
  BY <1>3 DEF Queued, Working
<1>7. \A n \in DOMAIN owners : OnTop(old[owners[n]], owners, n - 1)
  <2> SUFFICES ASSUME NEW n \in DOMAIN owners PROVE OnTop(old[owners[n]], owners, n - 1)
    OBVIOUS
  <2>1. Plt[l][y] # {} /\ l \in Lib /\ owners = held[l][y]
    BY <1>0, <1>2
  <2> QED
    BY <2>1, <1>6 DEF OwnersInv, BackupRight
<1>8. s \in Slot /\ mem[b][s] \in Fn
  BY <1>2, LibAssumption DEF OwnersInv, MappedOnce
<1>9. OnTop(mem[b][s], owners, k)
  <2>1. Len(register_info) = 0
    BY <1>3
  <2>2. Found(b, s, Len(register_info) + 1, mem[b][s])
    BY <1>3, <2>1 DEF Found, Now
  <2> QED
    BY <1>0, <1>5, <1>8, <2>2 DEF OwnersInv, TopRight
<1>10. /\ chain \in Seq(Fn \cup {Null}) /\ Len(chain) = k + 1
       /\ \A i \in 1 .. k : chain[i] = Callback[owners[k + 1 - i]]
  <2>1. \A g \in Fn \cup {Null} : k <= Len(owners) /\ OnTop(g, owners, k) =>
          /\ Chain[k + 2][g] \in Seq(Fn \cup {Null}) /\ Len(Chain[k + 2][g]) = k + 1
          /\ \A i \in 1 .. k : Chain[k + 2][g][i] = Callback[owners[k + 1 - i]]
    BY <1>1, <1>4, <1>5, <1>7, ChainRuns
  <2>2. chain = Chain[k + 2][mem[b][s]] /\ k <= Len(owners)
    BY <1>0, <1>5
  <2> QED
    BY <1>8, <1>9, <2>1, <2>2
<1>11. Front(chain) = [i \in 1 .. k |-> chain[i]]
  BY <1>10 DEF Front
<1>12. \A i \in 1 .. k : Reverse(owners)[i] = owners[k + 1 - i]
  <2>1. \A i \in 1 .. k : (k - i) + 1 = k + 1 - i
    OBVIOUS
  <2> QED
    BY <1>5, <2>1 DEF Reverse
<1>13. [i \in DOMAIN owners |-> Callback[Reverse(owners)[i]]] = [i \in 1 .. k |-> chain[i]]
  BY <1>5, <1>10, <1>12
<1> QED
  BY <1>0, <1>11, <1>13

\* When no hook is lost to a failure and owners unhook in the reverse order, a
\* call through a slot runs the callbacks of exactly those who hook it, the
\* latest first, however many they are and whatever was hooked before.
THEOREM ChainIsHeldCorrect ==
    ASSUME OwnersApart, NoneLost
    PROVE  OwnersSpec => []ChainIsHeld
<1>1. IInv /\ OwnersInv => ChainIsHeld
  BY ChainHeld
<1> QED
  BY <1>1, OwnersInvCorrect, PTL
=============================================================================
