--------------------------- MODULE JniHooksProofs ---------------------------
(***************************************************************************)
(* Theorems about JniHooks, for any set of methods, any classes that have  *)
(* each name at most once, and any modules that use a function for one     *)
(* method only.                                                            *)
(***************************************************************************)
EXTENDS JniHooks, FiniteSetTheorems, WellFoundedInduction, TLAPS

\* Of some naturals there is a least one.
LEMMA MinExists ==
    ASSUME NEW S, S \subseteq Nat, S # {}
    PROVE  \E m \in S : \A k \in S : m <= k
<1>1. IsWellFoundedOn(OpToRel(<, Nat), Nat)
  BY NatLessThanWellFounded
<1>2. PICK m \in S : \A y \in S : ~(<<y, m>> \in OpToRel(<, Nat))
  BY <1>1, WFMin
<1>3. \A y \in S : ~(y < m)
  BY <1>2 DEF OpToRel
<1> QED
  BY <1>3

\* A set of numbers that has 0 and each successor has all numbers.
LEMMA AllNaturals ==
    ASSUME NEW S, 0 \in S, \A n \in Nat : n \in S => n + 1 \in S
    PROVE  Nat \subseteq S
<1> DEFINE R == Nat \ S
<1> SUFFICES ASSUME R # {} PROVE FALSE
  OBVIOUS
<1>1. PICK m \in R : \A k \in R : m <= k
  BY MinExists
<1>2. m # 0 /\ m - 1 \in Nat /\ m - 1 \notin R
  BY <1>1
<1>3. m - 1 \in S /\ (m - 1) + 1 = m
  BY <1>2
<1> QED
  BY <1>2, <1>3

\* c is the function with a given first value and given steps.
Recursive(c, A, a, step) ==
    /\ c \in [Nat -> A]
    /\ c[0] = a
    /\ \A n \in Nat : c[n + 1] = step[<<n, c[n]>>]

LEMMA RecursionExists ==
    ASSUME NEW A, NEW a \in A, NEW step \in [Nat \X A -> A]
    PROVE  \E c : Recursive(c, A, a, step)
<1> DEFINE Part(k, g) == /\ g \in [0 .. k -> A] /\ g[0] = a
                         /\ \A n \in 0 .. k - 1 : g[n + 1] = step[<<n, g[n]>>]
           defined == {k \in Nat : \E g : Part(k, g)}
<1>1. Nat \subseteq defined
  <2>1. 0 \in defined
    <3>1. Part(0, [n \in 0 .. 0 |-> a])
      OBVIOUS
    <3> QED
      BY <3>1
  <2>2. ASSUME NEW k \in Nat, k \in defined PROVE k + 1 \in defined
    <3>1. PICK g : Part(k, g)
      BY <2>2
    <3> DEFINE h == [n \in 0 .. k + 1 |-> IF n = k + 1 THEN step[<<k, g[k]>>] ELSE g[n]]
    <3>2. h \in [0 .. k + 1 -> A] /\ h[0] = a
      BY <3>1
    <3>3. \A n \in 0 .. k : h[n] = g[n]
      OBVIOUS
    <3>4. h[k + 1] = step[<<k, g[k]>>]
      OBVIOUS
    <3> HIDE DEF h
    <3>5. ASSUME NEW n \in 0 .. (k + 1) - 1 PROVE h[n + 1] = step[<<n, h[n]>>]
      <4>1. CASE n = k
        BY <3>3, <3>4, <4>1
      <4>2. CASE n # k
        <5>1. n \in 0 .. k - 1 /\ n + 1 \in 0 .. k /\ n \in 0 .. k
          BY <4>2
        <5>2. g[n + 1] = step[<<n, g[n]>>]
          BY <3>1, <5>1
        <5>3. h[n + 1] = g[n + 1] /\ h[n] = g[n]
          BY <3>3, <5>1
        <5> QED
          BY <5>2, <5>3
      <4> QED
        BY <4>1, <4>2
    <3>6. Part(k + 1, h)
      BY <3>2, <3>5
    <3> QED
      BY <3>6
  <2> HIDE DEF defined
  <2> QED
    BY <2>1, <2>2, AllNaturals
<1>2. ASSUME NEW k \in Nat, NEW l \in Nat, NEW g, NEW h, Part(k, g), Part(l, h)
      PROVE  \A n \in Nat : n <= k /\ n <= l => g[n] = h[n]
  <2> DEFINE same == {n \in Nat : n <= k /\ n <= l => g[n] = h[n]}
  <2>1. 0 \in same
    BY <1>2
  <2>2. ASSUME NEW n \in Nat, n \in same PROVE n + 1 \in same
    <3> SUFFICES ASSUME n + 1 <= k, n + 1 <= l PROVE g[n + 1] = h[n + 1]
      OBVIOUS
    <3>1. n \in 0 .. k - 1 /\ n \in 0 .. l - 1 /\ n <= k /\ n <= l
      OBVIOUS
    <3>2. g[n] = h[n]
      BY <2>2, <3>1
    <3>3. g[n + 1] = step[<<n, g[n]>>] /\ h[n + 1] = step[<<n, h[n]>>]
      BY <1>2, <3>1
    <3> QED
      BY <3>2, <3>3
  <2>3. Nat \subseteq same
    <3> HIDE DEF same
    <3> QED
      BY <2>1, <2>2, AllNaturals
  <2> QED
    BY <2>3
<1> DEFINE c == [n \in Nat |-> (CHOOSE g : Part(n, g))[n]]
<1>3. ASSUME NEW n \in Nat PROVE \E g : Part(n, g) /\ c[n] = g[n]
  BY <1>1
<1>4. c \in [Nat -> A]
  BY <1>3
<1>5. c[0] = a
  BY <1>3
<1>6. ASSUME NEW n \in Nat PROVE c[n + 1] = step[<<n, c[n]>>]
  <2>1. PICK g : Part(n, g) /\ c[n] = g[n]
    BY <1>3
  <2>2. n + 1 \in Nat
    OBVIOUS
  <2>3. PICK h : Part(n + 1, h) /\ c[n + 1] = h[n + 1]
    <3> HIDE DEF c, Part
    <3> QED
      BY <1>3, <2>2
  <2>4. n <= n /\ n <= n + 1
    OBVIOUS
  <2>5. g[n] = h[n]
    <3> HIDE DEF c, Part
    <3> QED
      BY <2>1, <2>2, <2>3, <2>4, <1>2
  <2>6. h[n + 1] = step[<<n, h[n]>>]
    BY <2>3
  <2> QED
    BY <2>1, <2>3, <2>5, <2>6
<1> HIDE DEF c
<1> QED
  BY <1>4, <1>5, <1>6 DEF Recursive


OneOfEachName ==
    \A class \in Class : \A m, k \in class :
        NameOf[m] = NameOf[k] /\ NameOf[m] \in Name => m = k

Present(m) == natives[m] # Null

\* A class keeps its methods, each name once.
NamesOnce ==
    \A m, k \in Method :
        Present(m) /\ Present(k) /\ NameOf[m] = NameOf[k] /\ NameOf[m] \in Name => m = k

\* What a method can run: its own original, its own wrapper, or a module.
Own(m) == {Null, Original(m)} \cup Callback \cup (IF m \in Known THEN {Wrapper(m)} ELSE {})
OwnOnly ==
    \A m \in Method :
        /\ natives[m] \in Own(m)
        /\ \A f \in Callback : returned[f][m] \in Own(m)

\* The functions of modules that run for a method form a stack: each, from the
\* one the class has downwards, got something back, and no two the same.
Placed == \A m \in Method : natives[m] \in Callback =>
    /\ returned[natives[m]][m] # Null
    /\ \A f \in Callback : returned[f][m] # natives[m]
Linked == \A m \in Method, f \in Callback : returned[f][m] \in Callback =>
    /\ returned[returned[f][m]][m] # Null
    /\ \A g \in Callback : returned[g][m] = returned[f][m] => f = g

NoModules == \A m \in Method : natives[m] \notin Callback

Untouched(m) ==
    /\ natives[m] \in {Null, Original(m)}
    /\ m \in Known => lists[m] = Wrapper(m)
Done(m) ==
    IF Present(m) THEN m \in Known /\ natives[m] = Wrapper(m) /\ lists[m] = Original(m)
    ELSE m \in Known => lists[m] = Null

\* While the lists are being hooked, names are either done or untouched, and
\* no method of a name is left out; or everything has been put back.
GivenUp ==
    /\ todo = {}
    /\ \A m \in Method : natives[m] \in {Null, Original(m)}
    /\ \A m \in Known : lists[m] = Null
Replacing ==
    /\ \A m \in Method : IF NameOf[m] \in replaced THEN Done(m) ELSE Untouched(m)
    /\ \A m \in todo : Present(m) /\ NameOf[m] \in Name \ replaced
    /\ replaced # {} \/ todo # {} => \A m \in Method :
         Present(m) /\ NameOf[m] \in Name => m \in todo \/ NameOf[m] \in replaced

Boot == todo = {} /\ replaced = {} /\ \A m \in Method : Untouched(m)

\* In a child the lists hold what must be put back.
Restorable == \A m \in Known : Present(m) => lists[m] = Original(m)

IInv ==
    /\ TypeOK
    /\ NamesOnce /\ OwnOnly /\ Placed /\ Linked
    /\ phase # "replacing" => todo = {}
    /\ phase = "boot" => Boot /\ NoModules
    /\ phase = "replacing" => (GivenUp \/ Replacing) /\ NoModules
    /\ phase = "child" => Restorable
    /\ RestoreUndoes

---------------------------------------------------------------------------
LEMMA Functions ==
    /\ \A m, k \in Method :
         /\ Original(m) # Wrapper(k)
         /\ Original(m) = Original(k) => m = k
         /\ Wrapper(m) = Wrapper(k) => m = k
         /\ Original(m) \in Fn /\ Wrapper(m) \in Fn
         /\ Original(m) # Null /\ Wrapper(m) # Null
         /\ Original(m) \notin Callback /\ Wrapper(m) \notin Callback
    /\ Null \notin Callback /\ Callback \subseteq Fn
    /\ Known \subseteq Method
    /\ \A m \in Known : NameOf[m] \in Name
<1>1. \A m, k \in Method : Original(m) # Wrapper(k)
  BY DEF Original, Wrapper
<1>2. \A m, k \in Method : (Original(m) = Original(k) => m = k) /\ (Wrapper(m) = Wrapper(k) => m = k)
  BY DEF Original, Wrapper
<1>3. \A m \in Method : Original(m) \in Fn /\ Wrapper(m) \in Fn
  BY DEF Fn
<1>4. Callback \subseteq Fn
  BY DEF Fn
<1> QED BY <1>1, <1>2, <1>3, <1>4, FunctionAssumption, CallbackAssumption, MethodAssumption

LEMMA RegisteredType ==
    ASSUME TypeOK, NEW list, \A m \in DOMAIN list : list[m] \in Fn \cup {Null}
    PROVE  /\ Registered(list) \in [Method -> Fn \cup {Null}]
           /\ \A m \in Method : Registered(list)[m] # Null <=> Present(m)
  BY DEF TypeOK, Registered, Takes, Present

\* A class that keeps its methods keeps each name once.
LEMMA NamesOnceStep ==
    ASSUME NamesOnce, \A m \in Method : Present(m)' <=> Present(m)
    PROVE  NamesOnce'
  BY DEF NamesOnce

LEMMA TypeStep == TypeOK /\ [Next]_vars => TypeOK'
<1> SUFFICES ASSUME TypeOK, [Next]_vars PROVE TypeOK'
  OBVIOUS
<1>1. CASE hook_zygote_jni
  BY <1>1 DEF hook_zygote_jni, TypeOK
<1>2. ASSUME NEW m \in Method, Replace(m) PROVE TypeOK'
  <2>1. PICK out \in [DOMAIN Entries(ListOf(NameOf[m])) -> Fn \cup {Null}] : lists' = Filled(out)
    BY <1>2 DEF Replace
  <2>2. natives' \in [Method -> Fn \cup {Null}]
    BY <1>2, RegisteredType DEF Replace, Entries, ListOf, TypeOK
  <2>3. lists' \in [Known -> Fn \cup {Null}]
    BY <2>1 DEF Filled, TypeOK
  <2>4. NameOf[m] \in Name
    BY <1>2, MethodAssumption DEF Replace, CanHook, ListOf
  <2> QED BY <1>2, <2>2, <2>3, <2>4 DEF Replace, TypeOK
<1>3. ASSUME NEW m \in Method, Missing(m) PROVE TypeOK'
  <2>1. natives' \in [Method -> Fn \cup {Null}]
    BY <1>3, RegisteredType DEF Missing, Entries, ListOf, TypeOK
  <2> QED BY <1>3, <2>1 DEF Missing, TypeOK
<1>4. CASE EnterChild
  BY <1>4 DEF EnterChild, TypeOK
<1>5. CASE restore_zygote_hook
  <2>1. natives' \in [Method -> Fn \cup {Null}]
    BY <1>5, RegisteredType DEF restore_zygote_hook, TypeOK
  <2>2. lists' \in [Known -> Fn \cup {Null}]
    BY <1>5 DEF restore_zygote_hook, TypeOK
  <2> QED BY <1>5, <2>1, <2>2 DEF restore_zygote_hook, TypeOK
<1>6. ASSUME NEW ms \in Choice, NEW fs \in [ms -> Callback], hookJniNativeMethods(ms, fs)
      PROVE  TypeOK'
  <2>1. PICK out \in [ms -> Fn \cup {Null}] :
          returned' = [f \in Callback |-> [m \in Method |->
              IF m \in ms /\ fs[m] = f THEN out[m] ELSE returned[f][m]]]
    BY <1>6 DEF hookJniNativeMethods
  <2>2. natives' \in [Method -> Fn \cup {Null}]
    BY <1>6, RegisteredType, Functions DEF hookJniNativeMethods
  <2>3. returned' \in [Callback -> [Method -> Fn \cup {Null}]]
    BY <2>1 DEF TypeOK
  <2> QED BY <1>6, <2>2, <2>3 DEF hookJniNativeMethods, TypeOK
<1>7. ASSUME NEW m \in Method, Unhook(m) PROVE TypeOK'
  <2>1. natives' \in [Method -> Fn \cup {Null}]
    BY <1>7, RegisteredType DEF Unhook, TypeOK
  <2> QED BY <1>7, <2>1 DEF Unhook, TypeOK
<1>8. CASE UNCHANGED vars
  BY <1>8 DEF vars, TypeOK
<1> QED BY <1>1, <1>2, <1>3, <1>4, <1>5, <1>6, <1>7, <1>8 DEF Next, Zygisk, Module

LEMMA TypeInit == Init => TypeOK
<1> SUFFICES ASSUME Init PROVE TypeOK
  OBVIOUS
<1> QED BY Functions DEF Init, TypeOK

THEOREM TypeCorrect == Spec => []TypeOK
<1> QED BY TypeInit, TypeStep, PTL DEF Spec

---------------------------------------------------------------------------
\* Steps that leave modules alone: a method keeps its function, or gets one
\* that is its own and not a module's.
LEMMA ModulesFrame ==
    ASSUME OwnOnly, Placed, Linked, returned' = returned,
           \A m \in Method :
               \/ natives'[m] = natives[m]
               \/ natives'[m] \in Own(m) \ Callback
    PROVE  OwnOnly' /\ Placed' /\ Linked'
<1>1. OwnOnly'
  BY DEF OwnOnly, Own
<1>2. Placed'
  BY DEF Placed
<1>3. Linked'
  BY DEF Linked
<1> QED BY <1>1, <1>2, <1>3

LEMMA BootStep == IInv /\ TypeOK' /\ hook_zygote_jni => IInv'
<1> SUFFICES ASSUME IInv, TypeOK', hook_zygote_jni PROVE IInv'
  OBVIOUS
<1>1. /\ phase = "boot" /\ phase' = "replacing"
      /\ natives' = natives /\ lists' = lists /\ replaced' = replaced /\ returned' = returned
      /\ todo' \in {{}, {m \in Method : natives[m] # Null /\ NameOf[m] \in Name}}
  BY DEF hook_zygote_jni
<1>2. Boot /\ NoModules
  BY <1>1 DEF IInv
<1>3. Replacing'
  BY <1>1, <1>2 DEF Replacing, Boot, Untouched, Present
<1>4. NoModules' /\ NamesOnce' /\ OwnOnly' /\ Placed' /\ Linked'
  BY <1>1, <1>2, ModulesFrame, NamesOnceStep DEF IInv, NoModules, Present
<1> QED BY <1>1, <1>3, <1>4 DEF IInv, RestoreUndoes

\* The list of a name is hooked: of its entries, the class has m alone.
LEMMA ReplaceStep ==
    ASSUME IInv, TypeOK', NEW m \in Method, Replace(m) PROVE IInv'
<1> DEFINE list == Entries(ListOf(NameOf[m]))
<1>1. /\ m \in todo /\ CanHook(m)
      /\ natives' = Registered(list)
      /\ replaced' = replaced \cup {NameOf[m]}
      /\ todo' = todo \ {m}
      /\ phase' = phase /\ returned' = returned
  BY DEF Replace
<1>2. phase = "replacing" /\ Replacing /\ NoModules
  BY <1>1 DEF IInv, GivenUp
<1>3. NameOf[m] \in Name /\ NameOf[m] \notin replaced /\ Present(m)
  BY <1>1, <1>2 DEF Replacing
<1>4. \A k \in ListOf(NameOf[m]) : k \in Known /\ k \in Method /\ NameOf[k] = NameOf[m] /\ lists[k] = Wrapper(k)
  BY <1>2, <1>3, Functions DEF Replacing, Untouched, ListOf
<1>5. \A k \in ListOf(NameOf[m]) : Present(k) => k = m
  BY <1>3, <1>4 DEF IInv, NamesOnce
<1>6. m \in ListOf(NameOf[m]) /\ m \in Known
  BY <1>1, <1>4, <1>5 DEF CanHook, Takes, Present
<1>7. /\ DOMAIN list = ListOf(NameOf[m])
      /\ \A k \in ListOf(NameOf[m]) : list[k] = Wrapper(k) /\ (Takes(list, k) <=> k = m)
  BY <1>3, <1>4, <1>5, <1>6, Functions DEF Entries, Takes, Present
<1>8. natives'[m] = Wrapper(m) /\ \A k \in Method : k # m => natives'[k] = natives[k]
  BY <1>1, <1>6, <1>7 DEF Registered, Takes
<1>9. natives[m] = Original(m)
  BY <1>2, <1>3 DEF Replacing, Untouched, Present
<1>10. /\ lists'[m] = Original(m)
       /\ \A k \in Known : k # m => lists'[k] = IF NameOf[k] = NameOf[m] THEN Null ELSE lists[k]
  <2>1. PICK out \in [DOMAIN list -> Fn \cup {Null}] : Hooked(list, out) /\ lists' = Filled(out)
    BY DEF Replace
  <2>2. PICK k \in Method : Registered(list)[k] = list[m] /\ out[m] = natives[k]
    BY <2>1, <1>6, <1>7 DEF Hooked
  <2>3. k = m
    <3>1. natives'[k] = Wrapper(m)
      BY <2>2, <1>1, <1>6, <1>7
    <3>2. k # m => natives[k] \in Own(k)
      BY DEF IInv, OwnOnly
    <3> QED BY <3>1, <3>2, <1>8, Functions DEF Own
  <2>4. out[m] = Original(m)
    BY <2>2, <2>3, <1>9
  <2>5. \A j \in ListOf(NameOf[m]) : j # m => out[j] = Null
    BY <2>1, <1>7 DEF Hooked
  <2>6. DOMAIN out = ListOf(NameOf[m])
    BY <1>7, <2>1
  <2> QED BY <2>1, <2>4, <2>5, <2>6, <1>6 DEF Filled, ListOf
<1>11. Replacing'
  <2>1. \A k \in Method : IF NameOf[k] \in replaced' THEN Done(k)' ELSE Untouched(k)'
    <3> TAKE k \in Method
    <3>1. CASE k = m
      BY <3>1, <1>1, <1>6, <1>8, <1>10, Functions DEF Done, Present
    <3>2. CASE k # m /\ NameOf[k] = NameOf[m]
      <4>1. ~Present(k)
        BY <3>2, <1>3 DEF IInv, NamesOnce
      <4> QED BY <3>2, <4>1, <1>1, <1>8, <1>10 DEF Done, Present
    <3>3. CASE NameOf[k] # NameOf[m]
      <4>1. natives'[k] = natives[k] /\ (k \in Known => lists'[k] = lists[k])
        BY <3>3, <1>8, <1>10
      <4>2. NameOf[k] \in replaced' <=> NameOf[k] \in replaced
        BY <3>3, <1>1
      <4> QED BY <4>1, <4>2, <1>2 DEF Replacing, Done, Untouched, Present
    <3> QED BY <3>1, <3>2, <3>3
  <2>2. \A k \in Method : Present(k)' <=> Present(k)
    BY <1>3, <1>8, Functions DEF Present
  <2>3. \A k \in todo' : k \in Method /\ Present(k)' /\ NameOf[k] \in Name \ replaced'
    <3> TAKE k \in todo'
    <3>1. k \in Method /\ k \in todo /\ k # m
      BY <1>1 DEF IInv, TypeOK
    <3>2. Present(k) /\ NameOf[k] \in Name \ replaced
      BY <3>1, <1>2 DEF Replacing
    <3>3. NameOf[k] # NameOf[m]
      BY <3>1, <3>2, <1>3 DEF IInv, NamesOnce
    <3> QED BY <3>1, <3>2, <3>3, <2>2, <1>1
  <2>4. \A k \in Method : Present(k)' /\ NameOf[k] \in Name => k \in todo' \/ NameOf[k] \in replaced'
    <3> SUFFICES ASSUME NEW k \in Method, Present(k)', NameOf[k] \in Name
                 PROVE  k \in todo' \/ NameOf[k] \in replaced'
      OBVIOUS
    <3>1. k = m \/ k \in todo \/ NameOf[k] \in replaced
      <4>1. Present(k)
        BY <2>2
      <4>2. todo # {}
        BY <1>1
      <4> QED BY <4>1, <4>2, <1>2 DEF Replacing
    <3> QED BY <3>1, <1>1
  <2> QED BY <2>1, <2>3, <2>4 DEF Replacing
<1>12. NoModules' /\ NamesOnce' /\ OwnOnly' /\ Placed' /\ Linked'
  <2>1. \A k \in Method : Present(k)' <=> Present(k)
    BY <1>3, <1>8, Functions DEF Present
  <2>2. \A k \in Method : natives'[k] = natives[k] \/ natives'[k] \in Own(k) \ Callback
    BY <1>6, <1>8, Functions DEF Own
  <2>3. NoModules'
    BY <1>2, <1>8, Functions DEF NoModules
  <2> QED BY <2>1, <2>2, <2>3, <1>1, ModulesFrame, NamesOnceStep DEF IInv
<1> QED BY <1>1, <1>2, <1>11, <1>12 DEF IInv, RestoreUndoes

\* What is put back is the original of every method that was replaced.
LEMMA MissingStep ==
    ASSUME IInv, TypeOK', NEW m \in Method, Missing(m) PROVE IInv'
<1> DEFINE list == Entries(UNION {ListOf(n) : n \in replaced})
<1>1. /\ m \in todo
      /\ natives' = Registered(list)
      /\ todo' = {} /\ phase' = phase /\ returned' = returned
  BY DEF Missing
<1>2. phase = "replacing" /\ Replacing /\ NoModules
  BY <1>1 DEF IInv, GivenUp
<1>3. /\ DOMAIN list = {k \in Known : NameOf[k] \in replaced}
      /\ \A k \in DOMAIN list : list[k] = lists[k]
  BY DEF Entries, ListOf
<1>4. \A k \in Method : natives'[k] \in {Null, Original(k)} /\ (Present(k)' <=> Present(k))
  <2> SUFFICES ASSUME NEW k \in Method
               PROVE  natives'[k] \in {Null, Original(k)} /\ (Present(k)' <=> Present(k))
    OBVIOUS
  <2>1. natives'[k] = IF Takes(list, k) THEN list[k] ELSE natives[k]
    BY <1>1 DEF Registered
  <2>2. CASE ~Present(k)
    BY <2>1, <2>2 DEF Takes, Present
  <2>3. CASE Present(k) /\ NameOf[k] \in replaced
    <3>1. k \in Known /\ lists[k] = Original(k)
      BY <2>3, <1>2 DEF Replacing, Done
    <3>2. Takes(list, k)
      BY <2>3, <3>1, <1>3, Functions DEF Takes, Present
    <3> QED BY <3>1, <3>2, <2>1, <2>3, <1>3, Functions DEF Present
  <2>4. CASE Present(k) /\ NameOf[k] \notin replaced
    <3>1. natives[k] = Original(k)
      BY <2>4, <1>2 DEF Replacing, Untouched, Present
    <3>2. ~Takes(list, k)
      BY <2>4, <1>3 DEF Takes
    <3> QED BY <3>1, <3>2, <2>1, Functions DEF Present
  <2> QED BY <2>2, <2>3, <2>4
<1>5. GivenUp'
  <2>1. todo' = {} /\ \A k \in Known : lists'[k] = Null
    BY DEF Missing
  <2> QED BY <2>1, <1>4 DEF GivenUp
<1>6. NoModules' /\ NamesOnce' /\ OwnOnly' /\ Placed' /\ Linked'
  <2>1. \A k \in Method : natives'[k] \in Own(k) \ Callback
    BY <1>4, Functions DEF Own
  <2>2. NoModules'
    BY <2>1 DEF NoModules
  <2> QED BY <2>1, <2>2, <1>1, <1>4, ModulesFrame, NamesOnceStep DEF IInv
<1> QED BY <1>1, <1>2, <1>5, <1>6 DEF IInv, RestoreUndoes

\* A wrapper that can be called shows that nothing was given up.
LEMMA EnterChildStep ==
    ASSUME IInv, TypeOK', EnterChild PROVE IInv'
<1>1. /\ phase = "replacing" /\ phase' = "child" /\ todo = {} /\ todo' = {}
      /\ natives' = natives /\ lists' = lists /\ returned' = returned
  BY DEF EnterChild
<1>2. PICK m \in Method : natives[m] = Wrapper(m)
  BY DEF EnterChild
<1>3. ~GivenUp /\ ~Untouched(m)
  BY <1>2, Functions DEF GivenUp, Untouched
<1>4. Replacing
  BY <1>1, <1>3 DEF IInv
<1>5. NameOf[m] \in replaced
  BY <1>3, <1>4 DEF Replacing
<1>6. Restorable
  BY <1>1, <1>4, <1>5, Functions DEF Restorable, Replacing, Done
<1>7. Restorable'
  BY <1>1, <1>6 DEF Restorable, Present
<1>8. NamesOnce' /\ OwnOnly' /\ Placed' /\ Linked'
  BY <1>1, ModulesFrame, NamesOnceStep DEF IInv, Present
<1> QED BY <1>1, <1>7, <1>8 DEF IInv, RestoreUndoes

LEMMA RestoreStep ==
    ASSUME IInv, TypeOK', restore_zygote_hook PROVE IInv'
<1>1. /\ phase = "child" /\ phase' = "restored"
      /\ natives' = Registered(lists)
      /\ todo' = todo /\ returned' = returned
  BY DEF restore_zygote_hook
<1>2. DOMAIN lists = Known /\ todo = {} /\ Restorable
  BY <1>1 DEF IInv, TypeOK
<1>3. \A k \in Method : k \in Known => natives'[k] = IF Present(k) THEN Original(k) ELSE Null
  BY <1>1, <1>2, Functions DEF Restorable, Registered, Takes, Present
<1>4. \A k \in Method : k \notin Known => natives'[k] = natives[k]
  BY <1>1, <1>2 DEF Registered, Takes
<1>5. RestoreUndoes'
  <2>1. \A k \in Method : k \notin Known => natives[k] \in {Null, Original(k)} \cup Callback
    BY DEF IInv, OwnOnly, Own
  <2> QED BY <2>1, <1>3, <1>4, Functions DEF RestoreUndoes
<1>6. NamesOnce' /\ OwnOnly' /\ Placed' /\ Linked'
  <2>1. \A k \in Method : Present(k)' <=> Present(k)
    BY <1>3, <1>4, Functions DEF Present
  <2>2. \A k \in Method : natives'[k] = natives[k] \/ natives'[k] \in Own(k) \ Callback
    BY <1>3, <1>4, Functions DEF Own
  <2> QED BY <2>1, <2>2, <1>1, ModulesFrame, NamesOnceStep DEF IInv
<1> QED BY <1>1, <1>2, <1>5, <1>6 DEF IInv

---------------------------------------------------------------------------
\* A module's functions are pushed on the stacks of the methods that it names.
LEMMA HookStep ==
    ASSUME ~Shared, IInv, TypeOK', NEW ms \in Choice, NEW fs \in [ms -> Callback],
           hookJniNativeMethods(ms, fs)
    PROVE  IInv'
<1>1. /\ phase = "child" /\ phase' = phase /\ lists' = lists /\ todo' = todo
      /\ natives' = Registered(fs)
      /\ ms \subseteq Method
  BY DEF hookJniNativeMethods, Choice
<1>2. \A m \in ms : \A k \in Method :
        /\ returned[fs[m]][k] = Null
        /\ k \in ms /\ k # m => fs[k] # fs[m]
  BY DEF hookJniNativeMethods
<1>3. PICK out \in [ms -> Fn \cup {Null}] :
        /\ Hooked(fs, out)
        /\ returned' = [f \in Callback |-> [m \in Method |->
             IF m \in ms /\ fs[m] = f THEN out[m] ELSE returned[f][m]]]
  BY DEF hookJniNativeMethods
<1>4. /\ \A m \in ms : fs[m] \in Callback /\ (Takes(fs, m) <=> Present(m))
      /\ \A m \in Method : m \notin ms => ~Takes(fs, m)
  BY Functions DEF Takes, Present
<1>5. \A m \in Method : natives'[m] = IF m \in ms /\ Present(m) THEN fs[m] ELSE natives[m]
  BY <1>1, <1>4 DEF Registered
<1>6. \A m \in ms, k \in Method : natives[k] # fs[m]
  BY <1>2, <1>4 DEF IInv, Placed
<1>7. \A m \in ms : out[m] = natives[m]
  <2> SUFFICES ASSUME NEW m \in ms PROVE out[m] = natives[m]
    OBVIOUS
  <2>1. CASE ~Present(m)
    BY <2>1, <1>3, <1>4 DEF Hooked, Present
  <2>2. CASE Present(m)
    <3>1. PICK k \in Method : Registered(fs)[k] = fs[m] /\ out[m] = natives[k]
      BY <2>2, <1>3, <1>4 DEF Hooked
    <3>2. natives'[k] = fs[m]
      BY <3>1, <1>1
    <3>3. k = m
      BY <3>2, <1>1, <1>2, <1>5, <1>6
    <3> QED BY <3>1, <3>3
  <2> QED BY <2>1, <2>2
<1>8. \A f \in Callback, m \in Method :
        returned'[f][m] = IF m \in ms /\ fs[m] = f THEN natives[m] ELSE returned[f][m]
  BY <1>3, <1>7
<1>9. \A m \in Method : Present(m)' <=> Present(m)
  BY <1>4, <1>5, Functions DEF Present
<1>10. NamesOnce' /\ Restorable'
  <2>1. Restorable
    BY <1>1 DEF IInv
  <2>2. \A k \in Known : Present(k)' => Present(k)
    BY <1>9, Functions
  <2>3. Restorable'
    BY <2>1, <2>2, <1>1 DEF Restorable
  <2>4. NamesOnce'
    BY <1>9, NamesOnceStep DEF IInv
  <2> QED BY <2>3, <2>4
<1>11. OwnOnly'
  <2>1. \A m \in Method : natives[m] \in Own(m) /\ \A f \in Callback : returned[f][m] \in Own(m)
    BY DEF IInv, OwnOnly
  <2>2. \A m \in Method : natives'[m] \in Own(m)
    BY <2>1, <1>4, <1>5 DEF Own
  <2>3. \A m \in Method, f \in Callback : returned'[f][m] \in Own(m)
    BY <2>1, <1>8
  <2> QED BY <2>2, <2>3 DEF OwnOnly, Own
<1>12. \A m \in ms, f \in Callback : returned[f][m] # fs[m]
  BY <1>1, <1>2, <1>4 DEF IInv, Linked
<1>13. Placed'
  <2> SUFFICES ASSUME NEW m \in Method, natives'[m] \in Callback
               PROVE  /\ returned'[natives'[m]][m] # Null
                      /\ \A f \in Callback : returned'[f][m] # natives'[m]
    BY DEF Placed
  <2>1. CASE m \in ms
    <3>1. Present(m) /\ natives'[m] = fs[m]
      BY <2>1, <1>5, Functions DEF Present
    <3>2. returned'[fs[m]][m] = natives[m]
      BY <2>1, <1>4, <1>8
    <3> QED BY <2>1, <3>1, <3>2, <1>6, <1>8, <1>12 DEF Present
  <2>2. CASE m \notin ms
    BY <2>2, <1>5, <1>8 DEF IInv, Placed
  <2> QED BY <2>1, <2>2
<1>14. Linked'
  <2> SUFFICES ASSUME NEW m \in Method, NEW f \in Callback, returned'[f][m] \in Callback
               PROVE  /\ returned'[returned'[f][m]][m] # Null
                      /\ \A g \in Callback : returned'[g][m] = returned'[f][m] => f = g
    BY DEF Linked
  <2>1. CASE m \notin ms
    BY <2>1, <1>8 DEF IInv, Linked
  <2>2. CASE m \in ms /\ f = fs[m]
    <3>1. returned'[f][m] = natives[m] /\ natives[m] # fs[m] /\ natives[m] \in Callback
      BY <2>2, <1>6, <1>8
    <3>2. returned'[natives[m]][m] # Null
      BY <2>2, <3>1, <1>8 DEF IInv, Placed
    <3>3. \A g \in Callback : g # f => returned'[g][m] # natives[m]
      BY <2>2, <3>1, <1>8 DEF IInv, Placed
    <3> QED BY <3>1, <3>2, <3>3
  <2>3. CASE m \in ms /\ f # fs[m]
    <3>1. returned'[f][m] = returned[f][m] /\ returned[f][m] \in Callback /\ returned[f][m] # fs[m]
      BY <2>3, <1>8, <1>12
    <3>2. returned'[returned[f][m]][m] # Null
      BY <2>3, <3>1, <1>8 DEF IInv, Linked
    <3>3. \A g \in Callback : returned'[g][m] = returned[f][m] => f = g
      <4> SUFFICES ASSUME NEW g \in Callback, returned'[g][m] = returned[f][m] PROVE f = g
        OBVIOUS
      <4>1. CASE g = fs[m]
        BY <4>1, <2>3, <3>1, <1>8 DEF IInv, Placed
      <4>2. CASE g # fs[m]
        BY <4>2, <3>1, <1>8 DEF IInv, Linked
      <4> QED BY <4>1, <4>2
    <3> QED BY <3>1, <3>2, <3>3
  <2> QED BY <2>1, <2>2, <2>3
<1> QED BY <1>1, <1>10, <1>11, <1>13, <1>14 DEF IInv, RestoreUndoes

\* The top of a method's stack is removed.
LEMMA UnhookStep ==
    ASSUME IInv, TypeOK', NEW m \in Method, Unhook(m) PROVE IInv'
<1>1. PICK h \in Callback : h = natives[m]
  BY DEF Unhook
<1>2. PICK r : r = returned[h][m]
  OBVIOUS
<1>3. /\ phase = "child" /\ phase' = phase /\ lists' = lists /\ todo' = todo
      /\ natives' = Registered([k \in {m} |-> r])
      /\ returned' = [returned EXCEPT ![h][m] = Null]
  BY <1>1, <1>2 DEF Unhook
<1>4. /\ r # Null /\ r # h
      /\ \A f \in Callback : returned[f][m] # h
  BY <1>1, <1>2 DEF IInv, Placed
<1>5. \A k \in Method : natives'[k] = IF k = m THEN r ELSE natives[k]
  BY <1>1, <1>3, <1>4, Functions DEF Registered, Takes
<1>6. \A f \in Callback, k \in Method :
        returned'[f][k] = IF f = h /\ k = m THEN Null ELSE returned[f][k]
  BY <1>3 DEF IInv, TypeOK
<1>7. \A k \in Method : Present(k)' <=> Present(k)
  BY <1>1, <1>4, <1>5, Functions DEF Present
<1>8. NamesOnce' /\ Restorable'
  <2>1. Restorable
    BY <1>3 DEF IInv
  <2>2. \A k \in Known : Present(k)' => Present(k)
    BY <1>7, Functions
  <2>3. Restorable'
    BY <2>1, <2>2, <1>3 DEF Restorable
  <2>4. NamesOnce'
    BY <1>7, NamesOnceStep DEF IInv
  <2> QED BY <2>3, <2>4
<1>9. OwnOnly'
  <2>1. \A k \in Method : natives[k] \in Own(k) /\ \A f \in Callback : returned[f][k] \in Own(k)
    BY DEF IInv, OwnOnly
  <2>2. \A k \in Method : Null \in Own(k)
    BY DEF Own
  <2>3. \A k \in Method : natives'[k] \in Own(k)
    BY <2>1, <1>2, <1>5
  <2>4. \A k \in Method, f \in Callback : returned'[f][k] \in Own(k)
    BY <2>1, <2>2, <1>6
  <2> QED BY <2>3, <2>4 DEF OwnOnly, Own
<1>10. Placed'
  <2> SUFFICES ASSUME NEW k \in Method, natives'[k] \in Callback
               PROVE  /\ returned'[natives'[k]][k] # Null
                      /\ \A f \in Callback : returned'[f][k] # natives'[k]
    BY DEF Placed
  <2>1. CASE k # m
    BY <2>1, <1>5, <1>6 DEF IInv, Placed
  <2>2. CASE k = m
    <3>1. natives'[k] = r /\ r \in Callback
      BY <2>2, <1>5
    <3>2. returned[r][m] # Null /\ \A f \in Callback : returned[f][m] = r => f = h
      BY <3>1, <1>2 DEF IInv, Linked
    <3> QED BY <2>2, <3>1, <3>2, <1>4, <1>6
  <2> QED BY <2>1, <2>2
<1>11. Linked'
  <2> SUFFICES ASSUME NEW k \in Method, NEW f \in Callback, returned'[f][k] \in Callback
               PROVE  /\ returned'[returned'[f][k]][k] # Null
                      /\ \A g \in Callback : returned'[g][k] = returned'[f][k] => f = g
    BY DEF Linked
  <2>1. returned'[f][k] = returned[f][k] /\ ~(f = h /\ k = m)
    BY <1>6, Functions
  <2>2. returned[returned[f][k]][k] # Null /\ \A g \in Callback : returned[g][k] = returned[f][k] => f = g
    BY <2>1 DEF IInv, Linked
  <2>3. k = m => returned[f][k] # h
    BY <1>4
  <2> QED BY <2>1, <2>2, <2>3, <1>6, Functions
<1> QED BY <1>3, <1>8, <1>9, <1>10, <1>11 DEF IInv, RestoreUndoes

---------------------------------------------------------------------------
LEMMA IInvInit == OneOfEachName /\ Init => IInv
<1> SUFFICES ASSUME OneOfEachName, Init PROVE IInv
  OBVIOUS
<1>1. PICK class \in Class :
        natives = [m \in Method |-> IF m \in class THEN Original(m) ELSE Null]
  BY DEF Init
<1>2. /\ lists = [m \in Known |-> Wrapper(m)] /\ replaced = {} /\ todo = {} /\ phase = "boot"
      /\ returned = [f \in Callback |-> [m \in Method |-> Null]]
  BY DEF Init
<1>3. NamesOnce
  BY <1>1 DEF NamesOnce, Present, OneOfEachName
<1>4. OwnOnly /\ Placed /\ Linked /\ NoModules
  BY <1>1, <1>2, Functions DEF OwnOnly, Placed, Linked, NoModules, Own
<1>5. Boot
  BY <1>1, <1>2 DEF Boot, Untouched
<1> QED BY <1>2, <1>3, <1>4, <1>5, TypeInit DEF IInv, RestoreUndoes

LEMMA IInvStutter == IInv /\ UNCHANGED vars => IInv'
<1> SUFFICES ASSUME IInv, UNCHANGED vars PROVE IInv'
  OBVIOUS
<1>1. /\ natives' = natives /\ lists' = lists /\ replaced' = replaced
      /\ todo' = todo /\ phase' = phase /\ returned' = returned
  BY DEF vars
<1>2. TypeOK'
  BY TypeStep DEF IInv
<1>3. NamesOnce' /\ OwnOnly' /\ Placed' /\ Linked'
  BY <1>1, ModulesFrame, NamesOnceStep DEF IInv, Present
<1>4. /\ (phase' = "boot" => Boot' /\ NoModules')
      /\ (phase' = "replacing" => (GivenUp' \/ Replacing') /\ NoModules')
      /\ (phase' = "child" => Restorable')
      /\ RestoreUndoes'
  BY <1>1 DEF IInv, Boot, NoModules, GivenUp, Replacing, Untouched, Done, Present,
              Restorable, RestoreUndoes
<1> QED BY <1>1, <1>2, <1>3, <1>4 DEF IInv

LEMMA IInvStep == ~Shared /\ IInv /\ [Next]_vars => IInv'
<1> SUFFICES ASSUME ~Shared, IInv, [Next]_vars PROVE IInv'
  OBVIOUS
<1>1. TypeOK'
  BY TypeStep DEF IInv
<1> QED BY <1>1, BootStep, ReplaceStep, MissingStep, EnterChildStep, RestoreStep,
           HookStep, UnhookStep, IInvStutter DEF Next, Zygisk, Module

\* The inductive invariant: where a wrapper, an original and a module's function
\* may be, and the stack of functions of each method.
THEOREM IInvCorrect == ASSUME OneOfEachName, ~Shared PROVE Spec => []IInv
<1> QED BY IInvInit, IInvStep, PTL DEF Spec

\* hook_zygote_jni replaces all of the methods that it finds, or none.
THEOREM AllOrNothingCorrect == ASSUME OneOfEachName, ~Shared PROVE Spec => []AllOrNothing
<1>1. IInv => AllOrNothing
  <2> SUFFICES ASSUME IInv, phase = "replacing", todo = {}
               PROVE  LET found == {m \in Method : natives[m] # Null /\ NameOf[m] \in Name} IN
                      \/ /\ replaced # {}
                         /\ \A m \in found : m \in Known /\ natives[m] = Wrapper(m)
                                            /\ lists[m] = Original(m)
                      \/ /\ \A m \in Method : natives[m] \in {Null, Original(m)}
                         /\ \/ \A m \in Known : lists[m] = Null
                            \/ replaced = {} /\ \A m \in Known : lists[m] = Wrapper(m)
    BY DEF AllOrNothing
  <2>1. CASE GivenUp
    BY <2>1 DEF GivenUp
  <2>2. CASE Replacing /\ replaced = {}
    BY <2>2, MethodAssumption DEF Replacing, Untouched
  <2>3. CASE Replacing /\ replaced # {}
    <3>1. \A m \in Method : Present(m) /\ NameOf[m] \in Name => Done(m)
      BY <2>3 DEF Replacing
    <3> QED BY <3>1, <2>3 DEF Done, Present
  <2> QED BY <2>1, <2>2, <2>3 DEF IInv
<1> QED BY <1>1, IInvCorrect, PTL

\* The destructor of a child's context leaves no wrapper in the class.
THEOREM RestoreUndoesCorrect == ASSUME OneOfEachName, ~Shared PROVE Spec => []RestoreUndoes
<1>1. IInv => RestoreUndoes
  BY DEF IInv
<1> QED BY <1>1, IInvCorrect, PTL

---------------------------------------------------------------------------
\* The functions through which a call of m goes.
LEMMA AfterSteps ==
    ASSUME TypeOK, NEW m \in Method
    PROVE  /\ After(m)[0] = natives[m]
           /\ \A n \in Nat : After(m)[n + 1] = CallsOn(After(m)[n], m)
           /\ \A n \in Nat : After(m)[n] \in Fn \cup {Null}
<1> DEFINE A == Fn \cup {Null}
           step == [x \in Nat \X A |-> CallsOn(x[2], m)]
           Body(c) == [n \in Nat |-> IF n = 0 THEN natives[m] ELSE CallsOn(c[n - 1], m)]
<1>1. \A f \in A : CallsOn(f, m) \in A
  BY DEF TypeOK, CallsOn
<1>2. step \in [Nat \X A -> A]
  BY <1>1
<1>3. natives[m] \in A
  BY DEF TypeOK
<1>4. \A n \in Nat, f \in A : step[<<n, f>>] = CallsOn(f, m)
  OBVIOUS
<1> HIDE DEF step, A
<1>a. PICK c : Recursive(c, A, natives[m], step)
  BY <1>2, <1>3, RecursionExists
<1>5. /\ c \in [Nat -> A] /\ c[0] = natives[m]
      /\ \A n \in Nat : c[n + 1] = step[<<n, c[n]>>]
  BY <1>a DEF Recursive
<1>6. \A n \in Nat : c[n + 1] = CallsOn(c[n], m)
  BY <1>4, <1>5
<1>7. c = Body(c)
  <2>1. ASSUME NEW n \in Nat, n # 0 PROVE c[n] = CallsOn(c[n - 1], m)
    <3>1. n - 1 \in Nat /\ (n - 1) + 1 = n
      BY <2>1
    <3> QED
      BY <3>1, <1>6
  <2> QED
    BY <2>1, <1>5
<1>8. After(m) = CHOOSE f : f = Body(f)
  BY Zenon DEF After
<1> HIDE DEF Body
<1>9. After(m) = Body(After(m))
  BY <1>7, <1>8
<1> USE DEF Body
<1>10. After(m)[0] = natives[m]
  BY <1>9
<1>11. ASSUME NEW n \in Nat PROVE After(m)[n + 1] = CallsOn(After(m)[n], m)
  <2>1. n + 1 \in Nat /\ n + 1 # 0 /\ (n + 1) - 1 = n
    OBVIOUS
  <2>2. \A k \in Nat : After(m)[k] = IF k = 0 THEN natives[m] ELSE CallsOn(After(m)[k - 1], m)
    BY <1>9
  <2> QED
    BY <2>1, <2>2
<1> DEFINE typed == {n \in Nat : After(m)[n] \in A}
<1>12. Nat \subseteq typed
  <2>1. 0 \in typed
    BY <1>3, <1>10
  <2>2. ASSUME NEW n \in Nat, n \in typed PROVE n + 1 \in typed
    BY <1>1, <1>11, <2>2
  <2> HIDE DEF typed
  <2> QED
    BY <2>1, <2>2, AllNaturals
<1> QED
  BY <1>10, <1>11, <1>12 DEF A

\* What the functions of a method call on to, and that lists have the original
\* for each wrapper that can run.
LEMMA CallsOnTo ==
    ASSUME IInv, NEW m \in Method
    PROVE  /\ \A f \in Callback : CallsOn(f, m) = returned[f][m]
           /\ CallsOn(Original(m), m) = Original(m)
           /\ m \in Known => CallsOn(Wrapper(m), m) = lists[m]
<1>1. m \in Known => (CHOOSE k \in Known : Wrapper(m) = Wrapper(k)) = m
  BY Functions
<1>2. \A k \in Known : Original(m) # Wrapper(k)
  BY Functions
<1> QED
  BY <1>1, <1>2, Functions DEF CallsOn

LEMMA WrapperHasOriginal ==
    ASSUME IInv, NEW m \in Known, natives[m] \in Callback \cup {Wrapper(m)}
    PROVE  lists[m] = Original(m)
<1>1. m \in Method /\ natives[m] # Null /\ natives[m] # Original(m)
  BY Functions
<1>2. phase # "restored" /\ phase # "boot"
  BY <1>1 DEF IInv, RestoreUndoes, Boot, Untouched
<1>3. CASE phase = "replacing"
  BY <1>1, <1>3 DEF IInv, GivenUp, Replacing, NoModules, Untouched, Done, Present
<1>4. CASE phase = "child"
  BY <1>1, <1>4 DEF IInv, Restorable, Present
<1> QED
  BY <1>2, <1>3, <1>4 DEF IInv, TypeOK

\* A call leaves the modules' functions: if it went through more of them than
\* there are, it would come to one twice, and the first such one has two
\* functions above it in the stack, or is its top and has one.
LEMMA LeavesModules ==
    ASSUME IInv, NEW m \in Method
    PROVE  \E n \in 0 .. Cardinality(Callback) : After(m)[n] \notin Callback
<1> DEFINE N == Cardinality(Callback)
           c == [n \in 0 .. N |-> After(m)[n]]
<1>1. N \in Nat /\ IsFiniteSet(Callback)
  BY CallbackAssumption, FS_CardinalityType
<1> HIDE DEF N
<1> SUFFICES ASSUME \A n \in 0 .. N : After(m)[n] \in Callback PROVE FALSE
  BY DEF N
<1>2. c[0] = natives[m] /\ \A n \in 0 .. N - 1 : c[n + 1] = returned[c[n]][m]
  <2>1. \A n \in Nat : After(m)[n + 1] = CallsOn(After(m)[n], m)
    BY AfterSteps DEF IInv
  <2>2. \A n \in 0 .. N - 1 : n \in Nat /\ n \in 0 .. N /\ n + 1 \in 0 .. N
    BY <1>1
  <2>3. \A n \in 0 .. N - 1 : After(m)[n + 1] = returned[After(m)[n]][m]
    BY <2>1, <2>2, CallsOnTo
  <2>4. After(m)[0] = natives[m] /\ 0 \in 0 .. N
    BY <1>1, AfterSteps DEF IInv
  <2> QED
    BY <2>2, <2>3, <2>4
<1>3. c \in [0 .. N -> Callback]
  OBVIOUS
<1> HIDE DEF c
<1> DEFINE twice == {i \in Nat : \E j \in 0 .. N : i < j /\ c[i] = c[j]}
<1>4. twice # {}
  <2>1. Cardinality(0 .. N) = N + 1 /\ IsFiniteSet(0 .. N)
    BY <1>1, FS_Interval
  <2>2. N < N + 1
    BY <1>1
  <2>3. PICK x, y \in 0 .. N : x # y /\ c[x] = c[y]
    BY <1>1, <1>3, <2>1, <2>2, FS_PigeonHole DEF N
  <2>4. x \in twice \/ y \in twice
    BY <2>3
  <2> QED
    BY <2>4
<1>5. PICK i \in twice : \A k \in twice : i <= k
  BY <1>4, MinExists
<1>6. PICK j \in 0 .. N : i < j /\ c[i] = c[j]
  BY <1>5
<1>7. j - 1 \in 0 .. N - 1 /\ (j - 1) + 1 = j /\ i \in 0 .. N
  BY <1>1, <1>6
<1> DEFINE Step(k) == c[k + 1] = returned[c[k]][m] /\ c[k] \in Callback
<1>11. \A k \in 0 .. N - 1 : Step(k)
  BY <1>1, <1>2, <1>3
<1>8. c[j] = returned[c[j - 1]][m] /\ c[j - 1] \in Callback
  <2>1. Step(j - 1)
    BY <1>7, <1>11
  <2> QED
    BY <1>7, <2>1
<1>9. CASE i = 0
  BY <1>2, <1>3, <1>6, <1>7, <1>8, <1>9 DEF IInv, Placed
<1>10. CASE i # 0
  <2>1. i - 1 \in 0 .. N - 1 /\ (i - 1) + 1 = i /\ i - 1 \in Nat /\ j - 1 \in 0 .. N
    BY <1>1, <1>6, <1>7, <1>10
  <2>2. c[i] = returned[c[i - 1]][m] /\ c[i - 1] \in Callback
    <3>1. Step(i - 1)
      BY <2>1, <1>11
    <3> QED
      BY <2>1, <3>1
  <2>3. c[i] \in Callback
    BY <1>3, <1>7
  <2>4. c[i - 1] = c[j - 1]
    BY <1>6, <1>8, <2>2, <2>3 DEF IInv, Linked
  <2>5. i - 1 \in twice
    BY <1>6, <2>1, <2>4
  <2> QED
    BY <1>5, <2>1, <2>5
<1> QED
  BY <1>9, <1>10

\* A call of a native method ends in the method's own original.
THEOREM CallsReachOriginalCorrect ==
    ASSUME OneOfEachName, ~Shared PROVE Spec => []CallsReachOriginal
<1>1. IInv => CallsReachOriginal
  <2> SUFFICES ASSUME IInv, NEW m \in Method, natives[m] # Null
               PROVE  After(m)[Cardinality(Callback) + 2] = Original(m)
    BY DEF CallsReachOriginal
  <2> DEFINE N == Cardinality(Callback)
             Right(f) == \/ f = Original(m)
                         \/ m \in Known /\ f = Wrapper(m) /\ lists[m] = Original(m)
                         \/ /\ f \in Callback /\ returned[f][m] # Null
                            /\ natives[m] \in Callback
             right == {n \in Nat : Right(After(m)[n])}
  <2>1. /\ After(m)[0] = natives[m]
        /\ \A n \in Nat : After(m)[n + 1] = CallsOn(After(m)[n], m)
    BY AfterSteps DEF IInv
  <2>2. natives[m] \in Own(m) /\ \A f \in Callback : returned[f][m] \in Own(m)
    BY DEF IInv, OwnOnly
  <2>3. Right(natives[m])
    BY <2>2, WrapperHasOriginal DEF Own, IInv, Placed
  <2>4. ASSUME NEW f, Right(f) PROVE Right(CallsOn(f, m))
    <3>1. CASE f \in Callback
      <4>1. CallsOn(f, m) = returned[f][m] /\ returned[f][m] \in Own(m) /\ returned[f][m] # Null
        BY <2>2, <2>4, <3>1, CallsOnTo, Functions
      <4>2. natives[m] \in Callback
        BY <2>4, <3>1, Functions
      <4> QED
        BY <3>1, <4>1, <4>2, WrapperHasOriginal DEF Own, IInv, Linked
    <3>2. CASE f \notin Callback
      BY <2>4, <3>2, CallsOnTo
    <3> QED
      BY <3>1, <3>2
  <2>5. Nat \subseteq right
    <3>1. 0 \in right
      BY <2>1, <2>3
    <3>2. ASSUME NEW n \in Nat, n \in right PROVE n + 1 \in right
      BY <2>1, <2>4, <3>2
    <3> HIDE DEF right
    <3> QED
      BY <3>1, <3>2, AllNaturals
  <2>6. N \in Nat
    BY CallbackAssumption, FS_CardinalityType
  <2>7. PICK k \in 0 .. N : After(m)[k] \notin Callback
    BY LeavesModules
  <2>8. After(m)[k + 1] = Original(m)
    <3>1. k \in Nat /\ Right(After(m)[k])
      BY <2>5, <2>6
    <3> QED
      BY <2>1, <2>7, <3>1, CallsOnTo
  <2> DEFINE there == {n \in Nat : n > k => After(m)[n] = Original(m)}
  <2>9. Nat \subseteq there
    <3>1. 0 \in there
      OBVIOUS
    <3>2. ASSUME NEW n \in Nat, n \in there PROVE n + 1 \in there
      <4>1. CASE n > k
        BY <2>1, <3>2, <4>1, CallsOnTo
      <4>2. CASE n = k
        BY <2>8, <4>2
      <4>3. CASE n < k
        BY <4>3
      <4> QED
        BY <4>1, <4>2, <4>3
    <3> HIDE DEF there
    <3> QED
      BY <3>1, <3>2, AllNaturals
  <2> QED
    BY <2>6, <2>9
<1> QED
  BY <1>1, IInvCorrect, PTL
=============================================================================
