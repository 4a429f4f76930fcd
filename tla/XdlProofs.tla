----------------------------- MODULE XdlProofs -----------------------------
(***************************************************************************)
(* Theorems about Xdl, for any threads, libraries, devices, handles and    *)
(* calls: a table is searched only after it was loaded, the linker's list  *)
(* is walked and its loader called only with the linker's mutex, no call   *)
(* ends with a lock, and what a handle holds stays mapped.                 *)
(*                                                                         *)
(* Neither can be seen from one step: what a step relies on was brought    *)
(* about by one before it, on a list that other steps have put steps on    *)
(* in between.  The argument is therefore about the lists.  Orderly says   *)
(* what any list a thread can have looks like: which step may come right   *)
(* before which, that a loading is done after all of its parts, that a     *)
(* lock is released once and that nothing is on a handle after the step    *)
(* that closes it.  Every list that a step expands to is orderly, and      *)
(* stays so when a step of it is replaced by its own expansion             *)
(* (GraftOrderly), which is how the recursion of the code is followed      *)
(* without an induction.  The rest of the inductive invariant ties the     *)
(* lists to the state: a lock is held exactly by the thread whose list     *)
(* releases it (LockInv), a step that comes next finds what the one before *)
(* it leaves (NextInv), and nobody is on a handle that another thread      *)
(* closes (OwnInv, UseInv).                                                *)
(*                                                                         *)
(* That the linker keeps a library mapped is a matter of counting: its     *)
(* count of the library is never below the number of those who claim it,   *)
(* the application, the handles, the functions taken from liblzma and the  *)
(* steps that threads still have ahead (Claimants, CountInv).  A step adds *)
(* a claim only if it counts up, and counts down only for a claim that     *)
(* ends with it.                                                           *)
(***************************************************************************)
EXTENDS Xdl, FiniteSetTheorems, WellFoundedInduction, TLAPS

\* Of some naturals there is a least one.
LEMMA MinExists ==
    ASSUME NEW S, S \subseteq Nat, S # {}
    PROVE  \E m \in S : \A k \in S : m <= k
<1>1. IsWellFoundedOn(OpToRel(<, Nat), Nat)
  BY NatLessThanWellFounded
<1>2. PICK m \in S : \A y \in S : ~(<<y, m>> \in OpToRel(<, Nat))
  BY <1>1, WFMin
<1>3. \A y \in S : ~(y < m)
  BY <1>2 DEF OpToRel
<1> QED
  BY <1>3

-----------------------------------------------------------------------------
(***************************************************************************)
(* The steps, and which of them may come right before which.               *)
(***************************************************************************)
Key == Table \cup Once
AnyLib == Lib \cup {Linker}
Steps ==
    {Do(op) : op \in {"lockLinker", "unlockLinker", "auxv", "again", "linkerFound",
                      "scanCallers", "lzmaFound", "give", "cache"}}
    \cup {DoLib(op, lib) : op \in {"iterate", "tryForce", "forced", "forceAs", "dlopen",
                                   "hold", "drop"}, lib \in AnyLib}
    \cup {DoKey(op, k) : op \in {"ensure", "lock", "done", "unlock"}, k \in Key}
    \cup {DoKey(op, k) : op \in {"read", "whole", "unpack", "close", "noExt"}, k \in Table}
    \cup {Take(k, into) : k \in Table,
                          into \in {"nothing", "mutex", "dlopen", "dlopen_ext", "code"}}

Asks(x) == x.op \in {"ensure", "lock", "unlock"}
Fills(x) == x.op \in {"read", "whole", "unpack"}
OnKey(x) == Asks(x) \/ Fills(x) \/ x.op \in {"done", "close", "noExt", "take"}

\* What is done with the linker locked.
Guarded(api, x) == \/ x.op = "iterate" /\ api \in {21, 22}
                   \/ x.op = "dlopen" /\ api \in {24, 25}

\* What returns an xdl_t or Null, what returns the linker's handle or Null, and
\* what looks at which.
Yields(api, x) == \/ x.op \in {"auxv", "again", "tryForce", "forced", "hold"}
                  \/ x.op = "iterate" /\ api \notin {21, 22}
                  \/ x.op = "unlockLinker" /\ api \notin {24, 25}
Loads(api, x) == \/ x.op = "forceAs"
                 \/ x.op = "dlopen" /\ api \notin {24, 25}
                 \/ x.op = "unlockLinker" /\ api \in {24, 25}
Awaits(x) == x.op \in {"linkerFound", "give", "cache", "tryForce", "hold", "lzmaFound"}

Before(api, x, y) ==
    /\ y.op = "lockLinker" => Asks(x) /\ x.key = Symbols
    /\ x.op = "lockLinker" <=> Guarded(api, y)
    /\ Guarded(api, x) <=> y.op = "unlockLinker"
    /\ x.op = "done" <=> y.op = "unlock"
    /\ y.op = "unlock" => x.key = y.key
    /\ y.op = "take" => Asks(x) /\ x.key = y.key
    /\ Awaits(y) => Yields(api, x)
    /\ y.op = "forced" <=> Loads(api, x)
    /\ y.op = "done" /\ y.key \in Table => Fills(x) /\ x.key = y.key
    /\ x.op = "read" /\ x.key[1] = "dynsym" => y.op = "whole"

LEMMA StepFacts ==
    ASSUME NEW x \in Steps
    PROVE  /\ OnKey(x) => x.key \in Key
           /\ Fills(x) \/ x.op \in {"close", "noExt", "take"} => x.key \in Table
           /\ "key" \in DOMAIN x <=> OnKey(x)
BY DEF Steps, Do, DoLib, DoKey, Take, OnKey, Asks, Fills, Key

InOrder(api, L) == \A i \in 1 .. Len(L) - 1 : Before(api, L[i], L[i + 1])

\* A list of steps of S, from x to y.
Block(api, S, L, x, y) ==
    /\ L \in Seq(S) /\ L # <<>> /\ L[1] = x /\ L[Len(L)] = y
    /\ InOrder(api, L)

LEMMA BlockOne ==
    ASSUME NEW api, NEW S, NEW x \in S
    PROVE  Block(api, S, <<x>>, x, x)
BY DEF Block, InOrder

LEMMA BlockTwo ==
    ASSUME NEW api, NEW S, NEW x \in S, NEW y \in S, Before(api, x, y)
    PROVE  Block(api, S, <<x, y>>, x, y)
BY DEF Block, InOrder

LEMMA BlockJoin ==
    ASSUME NEW api, NEW S, NEW a, NEW b, NEW x, NEW y, NEW v, NEW w,
           Block(api, S, a, x, y), Block(api, S, b, v, w), Before(api, y, v)
    PROVE  Block(api, S, a \o b, x, w)
<1>1. a \o b \in Seq(S) /\ a \o b # <<>> /\ Len(a \o b) = Len(a) + Len(b)
  BY DEF Block
<1>2. Len(a) \in Nat \ {0} /\ Len(b) \in Nat \ {0}
  BY DEF Block
<1>3. /\ \A i \in 1 .. Len(a) : (a \o b)[i] = a[i]
      /\ \A i \in Len(a) + 1 .. Len(a) + Len(b) : (a \o b)[i] = b[i - Len(a)]
  BY DEF Block
<1>4. (a \o b)[1] = x /\ (a \o b)[Len(a \o b)] = w
  BY <1>1, <1>2, <1>3 DEF Block
<1>5. ASSUME NEW i \in 1 .. Len(a \o b) - 1
      PROVE  Before(api, (a \o b)[i], (a \o b)[i + 1])
  <2>1. CASE i < Len(a)
    BY <1>1, <1>2, <1>3, <2>1 DEF Block, InOrder
  <2>2. CASE i = Len(a)
    BY <1>1, <1>2, <1>3, <2>2 DEF Block
  <2>3. CASE i > Len(a)
    <3>1. i - Len(a) \in 1 .. Len(b) - 1 /\ (i + 1) - Len(a) = (i - Len(a)) + 1
      BY <1>1, <1>2, <2>3
    <3>2. (a \o b)[i] = b[i - Len(a)] /\ (a \o b)[i + 1] = b[(i - Len(a)) + 1]
      BY <1>1, <1>2, <1>3, <2>3, <3>1
    <3> QED
      BY <3>1, <3>2 DEF Block, InOrder
  <2> QED
    BY <1>2, <2>1, <2>2, <2>3
<1> QED
  BY <1>1, <1>4, <1>5 DEF Block, InOrder

-----------------------------------------------------------------------------
(***************************************************************************)
(* What the steps expand to.                                               *)
(***************************************************************************)
\* The steps of searching for a library and of loading it.
Loading == {x \in Steps : /\ OnKey(x) => x.op = "ensure" /\ x.key \in Once
                          /\ x.op \notin {"linkerFound", "scanCallers", "lzmaFound"}}

\* A step that may come first.
Opens(api, x) == \/ x.op \in {"ensure", "lock", "auxv", "again", "scanCallers", "forceAs",
                                "read", "whole", "close"}
                 \/ x.op \in {"iterate", "dlopen"} /\ ~Guarded(api, x)

Finds(api, y) == Yields(api, y) /\ y.op \in {"auxv", "iterate", "unlockLinker"}

LEMMA LockedBlock ==
    ASSUME NEW x \in Loading, Guarded(Api, x)
    PROVE  Block(Api, Loading, WithLinkerLock(<<x>>), DoKey("ensure", Symbols), Do("unlockLinker"))
<1> DEFINE e == DoKey("ensure", Symbols)
           l == Do("lockLinker")
           u == Do("unlockLinker")
<1>1. e \in Loading /\ l \in Loading /\ u \in Loading
  BY DEF Loading, Steps, Do, DoKey, OnKey, Asks, Fills, Key, Once, Symbols
<1>2. Before(Api, e, l) /\ Before(Api, l, x) /\ Before(Api, x, u)
  BY DEF Before, Do, DoKey, Asks, Guarded, Awaits, Loads, Yields, Fills
<1>3. Block(Api, Loading, <<e, l>>, e, l)
  BY <1>1, <1>2, BlockTwo
<1>4. Block(Api, Loading, <<x>>, x, x) /\ Block(Api, Loading, <<u>>, u, u)
  BY <1>1, BlockOne
<1>5. Block(Api, Loading, <<e, l>> \o <<x>>, e, x)
  BY <1>2, <1>3, <1>4, BlockJoin
<1>6. Block(Api, Loading, (<<e, l>> \o <<x>>) \o <<u>>, e, u)
  BY <1>2, <1>4, <1>5, BlockJoin
<1> QED
  BY <1>6 DEF WithLinkerLock

LEMMA IteratingBlock ==
    ASSUME NEW lib \in AnyLib
    PROVE  \E x, y : /\ Block(Api, Loading, Iterating(lib), x, y)
                     /\ Opens(Api, x) /\ Finds(Api, y)
<1> DEFINE i == DoLib("iterate", lib)
<1>1. i \in Loading /\ i.op = "iterate"
  BY DEF Loading, Steps, DoLib, OnKey, Asks, Fills
<1>2. CASE Lollipop
  <2>1. Guarded(Api, i)
    BY <1>1, <1>2 DEF Guarded, Lollipop
  <2>2. Block(Api, Loading, Iterating(lib), DoKey("ensure", Symbols), Do("unlockLinker"))
    BY <1>1, <1>2, <2>1, LockedBlock DEF Iterating
  <2>3. Opens(Api, DoKey("ensure", Symbols)) /\ Finds(Api, Do("unlockLinker"))
    BY <1>2 DEF Opens, Finds, Yields, Do, DoKey, Lollipop
  <2> QED
    BY <2>2, <2>3
<1>3. CASE ~Lollipop
  <2>1. Block(Api, Loading, Iterating(lib), i, i)
    BY <1>1, <1>3, BlockOne DEF Iterating
  <2>2. Opens(Api, i) /\ Finds(Api, i)
    BY <1>1, <1>3 DEF Opens, Finds, Yields, Guarded, Lollipop
  <2> QED
    BY <2>1, <2>2
<1> QED
  BY <1>2, <1>3

LEMMA FindBlock ==
    ASSUME NEW lib \in AnyLib
    PROVE  \E x, y : /\ Block(Api, Loading, Find(lib), x, y)
                     /\ Opens(Api, x) /\ Finds(Api, y)
<1> DEFINE a == Do("auxv")
<1>1. a \in Loading /\ Opens(Api, a) /\ Finds(Api, a)
  BY DEF Loading, Steps, Do, OnKey, Asks, Fills, Opens, Finds, Yields
<1>2. Block(Api, Loading, <<a>>, a, a)
  BY <1>1, BlockOne
<1> QED
  BY <1>1, <1>2, IteratingBlock DEF Find

\* xdl_linker_force_dlopen and what comes after it.
LEMMA ForceBlock ==
    ASSUME NEW lib \in AnyLib
    PROVE  \E x, y : /\ Block(Api, Loading, ForceDlopen(lib), x, y)
                     /\ Opens(Api, x) /\ Loads(Api, y)
<1> DEFINE d == DoLib("dlopen", lib)
           e == DoKey("ensure", Symbols)
           f == DoLib("forceAs", lib)
<1>1. d \in Loading /\ e \in Loading /\ f \in Loading
  BY DEF Loading, Steps, DoLib, DoKey, OnKey, Asks, Fills, Key, Once, Symbols
<1>2. CASE Api <= 23
  <2>1. Api \notin {24, 25}
    BY <1>2
  <2>2. Opens(Api, d) /\ Loads(Api, d)
    BY <2>1 DEF Opens, Loads, Guarded, DoLib
  <2>3. Block(Api, Loading, <<d>>, d, d)
    BY <1>1, BlockOne
  <2> QED
    BY <1>2, <2>2, <2>3 DEF ForceDlopen
<1>3. CASE ~(Api <= 23)
  <2>1. Before(Api, e, f) /\ Opens(Api, e) /\ Loads(Api, f)
    BY DEF Before, DoLib, DoKey, Asks, Guarded, Awaits, Loads, Yields, Fills, Opens
  <2>2. Block(Api, Loading, <<e, f>>, e, f)
    BY <1>1, <2>1, BlockTwo
  <2> QED
    BY <1>3, <2>1, <2>2 DEF ForceDlopen
<1> QED
  BY <1>2, <1>3

LEMMA OpenAlwaysBlock ==
    ASSUME NEW lib \in AnyLib
    PROVE  \E x : /\ Block(Api, Loading, OpenAlways(lib), x, DoLib("forced", lib))
                  /\ Opens(Api, x)
<1> DEFINE f == DoLib("forced", lib)
<1>1. f \in Loading
  BY DEF Loading, Steps, DoLib, OnKey, Asks, Fills
<1>2. PICK x, y : Block(Api, Loading, ForceDlopen(lib), x, y) /\ Opens(Api, x) /\ Loads(Api, y)
  BY ForceBlock
<1>3. Before(Api, y, f)
  BY <1>2 DEF Before, DoLib, Asks, Guarded, Awaits, Loads, Yields, Fills
<1>4. Block(Api, Loading, ForceDlopen(lib) \o <<f>>, x, f)
  BY <1>1, <1>2, <1>3, BlockOne, BlockJoin
<1> QED
  BY <1>2, <1>4 DEF OpenAlways

\* A search followed by a step z that looks at what was found.
LEMMA FindThenBlock ==
    ASSUME NEW lib \in AnyLib, NEW S, Loading \subseteq S, NEW z \in S, Awaits(z)
    PROVE  \E x : Block(Api, S, Find(lib) \o <<z>>, x, z) /\ Opens(Api, x)
<1>1. PICK x, y : Block(Api, Loading, Find(lib), x, y) /\ Opens(Api, x) /\ Finds(Api, y)
  BY FindBlock
<1>2. Block(Api, S, Find(lib), x, y)
  BY <1>1 DEF Block
<1>3. Before(Api, y, z)
  BY <1>1 DEF Before, Finds, Yields, Awaits, Asks, Guarded, Loads, Fills
<1>4. Block(Api, S, <<z>>, z, z)
  BY BlockOne
<1>5. Block(Api, S, Find(lib) \o <<z>>, x, z)
  BY <1>2, <1>3, <1>4, BlockJoin
<1> QED
  BY <1>1, <1>5

\* What is done while k is loaded.
PartOf(x, k) ==
    \/ Fills(x) /\ x.key = k
    \/ /\ k = Symbols
       /\ \/ x.op \in {"linkerFound", "noExt"}
          \/ x.op = "take" /\ x.into \in {"mutex", "dlopen", "dlopen_ext"}
    \/ k = Callers /\ x.op = "scanCallers"
    \/ /\ k = Unpacker
       /\ x.op = "lzmaFound" \/ (x.op = "take" /\ x.into = "code")

\* The steps that close a handle in the end.
Ends(x) == x.op \in {"close", "noExt"}

\* Steps on the tables of h alone, parts of loading P, that end no loading and
\* close nothing.
Inner(h, P) ==
    {x \in Steps : /\ x.op \notin {"done", "unlock"} /\ ~Ends(x)
                   /\ \A k \in Key : PartOf(x, k) => k \in P
                   /\ OnKey(x) /\ x.key \in Table => x.key[2] = h}

LEMMA LoadingIsInner ==
    ASSUME NEW h, NEW P
    PROVE  Loading \subseteq Inner(h, P)
<1> SUFFICES ASSUME NEW x \in Loading
             PROVE  x \in Inner(h, P)
  OBVIOUS
<1>1. x \in Steps /\ (OnKey(x) => x.op = "ensure" /\ x.key \in Once) /\ x.op \notin {"linkerFound", "scanCallers", "lzmaFound"}
  BY DEF Loading
<1>2. x.op \notin {"done", "unlock"} /\ ~Ends(x)
  BY <1>1 DEF OnKey, Asks, Ends
<1>3. \A k \in Key : ~PartOf(x, k)
  BY <1>1 DEF PartOf, OnKey, Fills
<1>4. OnKey(x) => x.key \notin Table
  BY <1>1 DEF Table, Once
<1> QED
  BY <1>1, <1>2, <1>3, <1>4 DEF Inner

\* A table is asked for and a symbol is taken from it.
LEMMA SearchBlock ==
    ASSUME NEW h \in Handle, NEW k \in Table, k[2] = h, NEW P,
           NEW into \in {"nothing", "mutex", "dlopen", "dlopen_ext", "code"},
           into \in {"mutex", "dlopen", "dlopen_ext"} => Symbols \in P,
           into = "code" => Unpacker \in P
    PROVE  Block(Api, Inner(h, P), Search(k, into), DoKey("ensure", k), Take(k, into))
<1> DEFINE e == DoKey("ensure", k)
           x == Take(k, into)
<1>1. e \in Steps /\ x \in Steps
  BY DEF Steps, Key
<1>2. e \in Inner(h, P) /\ x \in Inner(h, P)
  BY <1>1 DEF Inner, DoKey, Take, Ends, PartOf, Fills, OnKey
<1>3. Before(Api, e, x)
  BY DEF Before, DoKey, Take, Asks, Guarded, Awaits, Loads, Yields, Fills
<1> QED
  BY <1>2, <1>3, BlockTwo DEF Search

LEMMA SearchesBlock ==
    ASSUME NEW S, NEW a, NEW b, NEW e, NEW f, NEW x, NEW y,
           Block(Api, S, a, e, x), Block(Api, S, b, f, y), x.op = "take", f.op = "ensure"
    PROVE  Block(Api, S, a \o b, e, y)
<1>1. Before(Api, x, f)
  BY DEF Before, Asks, Guarded, Awaits, Loads, Yields, Fills
<1> QED
  BY <1>1, BlockJoin

-----------------------------------------------------------------------------
(***************************************************************************)
(* A step x is replaced by a list s: the steps of s are on the tables of h *)
(* alone, parts of what x is a part of, and s ends where x could.          *)
(***************************************************************************)
Final(x) == x.op \in {"give", "take", "drop", "cache"}

Stands(api, x, z) ==
    /\ \A y : Before(api, x, y) => Before(api, z, y)
    /\ Final(x) => Final(z)

Piece(api, x, s, h) ==
    /\ s \in Seq(Steps) /\ InOrder(api, s)
    /\ s # <<>> => Opens(api, s[1]) /\ Stands(api, x, s[Len(s)])
    /\ \A i \in 1 .. Len(s) :
         /\ s[i].op \notin {"done", "unlock"}
         /\ \A k \in Key : PartOf(s[i], k) => PartOf(x, k)
         /\ OnKey(s[i]) /\ s[i].key \in Table => s[i].key[2] = h
         /\ Ends(s[i]) => i = Len(s)

LEMMA EmptyPiece ==
    ASSUME NEW api, NEW x, NEW h
    PROVE  Piece(api, x, <<>>, h)
BY DEF Piece, InOrder

LEMMA InnerPiece ==
    ASSUME NEW api, NEW x, NEW h, NEW P, NEW s, NEW y, NEW z,
           Block(api, Inner(h, P), s, y, z), Opens(api, y), Stands(api, x, z),
           \A k \in P : PartOf(x, k)
    PROVE  Piece(api, x, s, h)
<1>1. s \in Seq(Inner(h, P)) /\ s # <<>> /\ s[1] = y /\ s[Len(s)] = z /\ InOrder(api, s)
  BY DEF Block
<1>2. \A i \in 1 .. Len(s) : s[i] \in Inner(h, P)
  BY <1>1
<1>3. \A i \in 1 .. Len(s) :
         /\ s[i] \in Steps
         /\ s[i].op \notin {"done", "unlock"}
         /\ \A k \in Key : PartOf(s[i], k) => PartOf(x, k)
         /\ OnKey(s[i]) /\ s[i].key \in Table => s[i].key[2] = h
         /\ ~Ends(s[i])
  BY <1>2 DEF Inner
<1>4. s \in Seq(Steps)
  BY <1>1, <1>3
<1> QED
  BY <1>1, <1>3, <1>4 DEF Piece

\* The same with a step at the end that closes h.
LEMMA ClosingPiece ==
    ASSUME NEW api, NEW x, NEW h, NEW P, NEW s, NEW y, NEW z, NEW c \in Steps,
           Block(api, Inner(h, P), s, y, z), Before(api, z, c), Opens(api, y),
           Stands(api, x, c), Ends(c), c.key[2] = h,
           \A k \in P : PartOf(x, k), \A k \in Key : PartOf(c, k) => PartOf(x, k)
    PROVE  Piece(api, x, s \o <<c>>, h)
<1>1. Block(api, Steps, s, y, z) /\ Block(api, Steps, <<c>>, c, c)
  BY BlockOne DEF Block, Inner
<1>2. Block(api, Steps, s \o <<c>>, y, c)
  BY <1>1, BlockJoin
<1>3. s \in Seq(Inner(h, P)) /\ Len(s \o <<c>>) = Len(s) + 1 /\ Len(s) \in Nat
  BY DEF Block
<1>4. \A i \in 1 .. Len(s) : (s \o <<c>>)[i] \in Inner(h, P)
  BY <1>3
<1>5. (s \o <<c>>)[Len(s) + 1] = c
  BY <1>3
<1>6. c.op \notin {"done", "unlock"}
  BY DEF Ends
<1>7. \A i \in 1 .. Len(s) :
         /\ (s \o <<c>>)[i].op \notin {"done", "unlock"}
         /\ \A k \in Key : PartOf((s \o <<c>>)[i], k) => PartOf(x, k)
         /\ OnKey((s \o <<c>>)[i]) /\ (s \o <<c>>)[i].key \in Table => (s \o <<c>>)[i].key[2] = h
         /\ ~Ends((s \o <<c>>)[i])
  BY <1>4 DEF Inner
<1> DEFINE w == s \o <<c>>
<1>8. /\ w \in Seq(Steps) /\ InOrder(api, w)
      /\ Opens(api, w[1]) /\ Stands(api, x, w[Len(w)])
  BY <1>2 DEF Block
<1>9. ASSUME NEW i \in 1 .. Len(w)
      PROVE  /\ w[i].op \notin {"done", "unlock"}
             /\ \A k \in Key : PartOf(w[i], k) => PartOf(x, k)
             /\ OnKey(w[i]) /\ w[i].key \in Table => w[i].key[2] = h
             /\ Ends(w[i]) => i = Len(w)
  <2>1. CASE i \in 1 .. Len(s)
    BY <1>7, <2>1
  <2>2. CASE i = Len(s) + 1
    BY <1>3, <1>5, <1>6, <2>2
  <2> QED
    BY <1>3, <2>1, <2>2
<1> QED
  BY <1>8, <1>9 DEF Piece

LEMMA LoadingPiece ==
    ASSUME NEW api, NEW x, NEW h, NEW s, NEW y, NEW z,
           Block(api, Loading, s, y, z),
           Opens(api, y), Stands(api, x, z)
    PROVE  Piece(api, x, s, h)
<1>1. Block(api, Inner(h, {}), s, y, z)
  BY LoadingIsInner DEF Block
<1> QED
  BY <1>1, InnerPiece

LEMMA OnePiece ==
    ASSUME NEW api, NEW x, NEW h, NEW z \in Steps, Opens(api, z), Stands(api, x, z),
           z.op \notin {"done", "unlock"}, \A k \in Key : PartOf(z, k) => PartOf(x, k),
           OnKey(z) /\ z.key \in Table => z.key[2] = h
    PROVE  Piece(api, x, <<z>>, h)
BY DEF Piece, InOrder

LEMMA EnsurePiece ==
    ASSUME NEW api, NEW k \in Key, NEW x, x.op = "ensure", x.key = k
    PROVE  Piece(api, x, <<DoKey("lock", k)>>, k[2])
<1> DEFINE z == DoKey("lock", k)
<1>1. z \in Steps /\ Opens(api, z)
  BY DEF Steps, Opens, DoKey
<1>2. Stands(api, x, z)
  BY DEF Stands, Final, Before, DoKey, Asks, Guarded, Awaits, Loads, Yields, Fills
<1>3. z.op \notin {"done", "unlock"} /\ \A q \in Key : ~PartOf(z, q)
  BY DEF PartOf, Fills, DoKey
<1>4. z.key = k
  BY DEF DoKey
<1> QED
  BY <1>1, <1>2, <1>3, <1>4, OnePiece

LEMMA AuxvPiece ==
    ASSUME NEW api, NEW h, NEW x, x.op = "auxv"
    PROVE  Piece(api, x, <<Do("again")>>, h)
<1> DEFINE z == Do("again")
<1>1. z \in Steps /\ Opens(api, z)
  BY DEF Steps, Opens, Do
<1>2. Stands(api, x, z)
  BY DEF Stands, Final, Before, Do, Asks, Guarded, Awaits, Loads, Yields, Fills
<1>3. z.op \notin {"done", "unlock"} /\ ~OnKey(z) /\ \A q \in Key : ~PartOf(z, q)
  BY DEF PartOf, Fills, Do, OnKey, Asks
<1> QED
  BY <1>1, <1>2, <1>3, OnePiece

LEMMA TryForcePiece ==
    ASSUME NEW lib \in AnyLib, NEW h, NEW x, x.op = "tryForce"
    PROVE  Piece(Api, x, OpenAlways(lib), h)
<1>1. PICK y : Block(Api, Loading, OpenAlways(lib), y, DoLib("forced", lib)) /\ Opens(Api, y)
  BY OpenAlwaysBlock
<1>2. Stands(Api, x, DoLib("forced", lib))
  BY DEF Stands, Final, Before, DoLib, Asks, Guarded, Awaits, Loads, Yields, Fills
<1> QED
  BY <1>1, <1>2, LoadingPiece

LEMMA ForceAsPiece ==
    ASSUME NEW lib \in AnyLib, NEW h, NEW x, x.op = "forceAs"
    PROVE  Piece(Api, x, <<DoKey("ensure", Callers)>> \o
                   IF Nougat THEN WithLinkerLock(<<DoLib("dlopen", lib)>>)
                             ELSE <<DoLib("dlopen", lib)>>, h)
<1> DEFINE e == DoKey("ensure", Callers)
           d == DoLib("dlopen", lib)
<1>1. e \in Loading /\ d \in Loading /\ Opens(Api, e)
  BY DEF Loading, Steps, DoLib, DoKey, OnKey, Asks, Fills, Key, Once, Callers, Opens
<1>2. Block(Api, Loading, <<e>>, e, e)
  BY <1>1, BlockOne
<1>3. CASE Nougat
  <2> DEFINE f == DoKey("ensure", Symbols)
             u == Do("unlockLinker")
  <2>1. Guarded(Api, d)
    BY <1>3 DEF Guarded, Nougat, DoLib
  <2>2. Block(Api, Loading, WithLinkerLock(<<d>>), f, u)
    BY <1>1, <2>1, LockedBlock
  <2>3. Before(Api, e, f)
    BY DEF Before, DoKey, Asks, Guarded, Awaits, Loads, Yields, Fills
  <2>4. Block(Api, Loading, <<e>> \o WithLinkerLock(<<d>>), e, u)
    BY <1>2, <2>2, <2>3, BlockJoin
  <2>5. Stands(Api, x, u)
    BY <1>3 DEF Stands, Final, Before, Do, Asks, Guarded, Awaits, Loads, Yields, Fills, Nougat
  <2> QED
    BY <1>1, <1>3, <2>4, <2>5, LoadingPiece
<1>4. CASE ~Nougat
  <2>1. ~Guarded(Api, d) /\ Stands(Api, x, d)
    BY <1>4 DEF Stands, Final, Before, DoLib, Asks, Guarded, Awaits, Loads, Yields, Fills, Nougat
  <2>2. Before(Api, e, d)
    BY <2>1 DEF Before, DoKey, DoLib, Asks, Guarded, Awaits, Loads, Yields, Fills
  <2>3. Block(Api, Loading, <<e>> \o <<d>>, e, d)
    BY <1>1, <1>2, <2>2, BlockOne, BlockJoin
  <2> QED
    BY <1>1, <1>4, <2>1, <2>3, LoadingPiece
<1> QED
  BY <1>3, <1>4

LEMMA ForcedPiece ==
    ASSUME NEW lib \in AnyLib, NEW h, NEW x, x.op = "forced"
    PROVE  Piece(Api, x, Find(lib) \o <<DoLib("hold", lib)>>, h)
<1> DEFINE z == DoLib("hold", lib)
<1>1. z \in Loading /\ Awaits(z)
  BY DEF Loading, Steps, DoLib, OnKey, Asks, Fills, Awaits
<1>2. PICK y : Block(Api, Loading, Find(lib) \o <<z>>, y, z) /\ Opens(Api, y)
  BY <1>1, FindThenBlock
<1>3. Stands(Api, x, z)
  BY DEF Stands, Final, Before, DoLib, Asks, Guarded, Awaits, Loads, Yields, Fills
<1> QED
  BY <1>2, <1>3, LoadingPiece

\* The symbols that are wanted are searched one after the other, and h closed.
LEMMA SearchAndClose ==
    ASSUME NEW h \in Handle, NEW k \in Table, k[2] = h, NEW q \in Table, q[2] = h, NEW x,
           NEW into \in {"mutex", "dlopen", "dlopen_ext", "code"},
           NEW op \in {"close", "noExt"},
           Stands(Api, x, DoKey(op, q)),
           into # "code" => PartOf(x, Symbols), into = "code" => PartOf(x, Unpacker),
           op = "noExt" => PartOf(x, Symbols)
    PROVE  Piece(Api, x, Search(k, into) \o <<DoKey(op, q)>>, h)
<1> DEFINE P == {p \in Key : PartOf(x, p)}
           c == DoKey(op, q)
<1>1. Symbols \in Key /\ Unpacker \in Key
  BY DEF Key, Once, Symbols, Unpacker
<1>2. (into # "code" => Symbols \in P) /\ (into = "code" => Unpacker \in P)
  BY <1>1
<1>3. Block(Api, Inner(h, P), Search(k, into), DoKey("ensure", k), Take(k, into))
  BY <1>2, SearchBlock
<1>4. Before(Api, Take(k, into), c)
  BY DEF Before, DoKey, Take, Asks, Guarded, Awaits, Loads, Yields, Fills
<1>5. c \in Steps /\ Ends(c) /\ c.key[2] = h /\ Opens(Api, DoKey("ensure", k))
  BY DEF Steps, Ends, DoKey, Opens
<1>6. \A p \in Key : PartOf(c, p) => PartOf(x, p)
  BY DEF PartOf, DoKey, Fills
<1> HIDE DEF P, c
<1>7. \A p \in P : PartOf(x, p)
  BY DEF P
<1>8. Stands(Api, x, c)
  BY DEF c
<1>9. Piece(Api, x, Search(k, into) \o <<c>>, h)
  BY <1>3, <1>4, <1>5, <1>6, <1>7, <1>8, ClosingPiece
<1> QED
  BY <1>9 DEF c

\* xdl_linker_init_symbols_impl, once the linker is found.
LEMMA LinkerFoundPiece ==
    ASSUME NEW h \in Handle, NEW x, x.op = "linkerFound"
    PROVE  LET sym == <<"symtab", h>> IN
           Piece(Api, x, CASE Lollipop        -> Search(sym, "mutex") \o <<DoKey("close", sym)>>
                           [] Nougat          -> Search(sym, "dlopen_ext") \o <<DoKey("noExt", sym)>>
                           [] Api \in {26,27} -> Search(sym, "dlopen") \o <<DoKey("close", sym)>>
                           [] Api >= 28       -> Search(<<"dynsym", h>>, "dlopen") \o <<DoKey("close", sym)>>
                           [] OTHER           -> <<DoKey("close", sym)>>, h)
<1> DEFINE sym == <<"symtab", h>>
           dyn == <<"dynsym", h>>
<1>1. sym \in Table /\ dyn \in Table /\ sym[2] = h /\ dyn[2] = h
  BY DEF Table
<1>2. PartOf(x, Symbols)
  BY DEF PartOf
<1>3. Stands(Api, x, DoKey("close", sym)) /\ Stands(Api, x, DoKey("noExt", sym))
  BY DEF Stands, Final, Before, DoKey, Asks, Guarded, Awaits, Loads, Yields, Fills
<1> HIDE DEF sym, dyn
<1>4. /\ Piece(Api, x, Search(sym, "mutex") \o <<DoKey("close", sym)>>, h)
      /\ Piece(Api, x, Search(sym, "dlopen_ext") \o <<DoKey("noExt", sym)>>, h)
      /\ Piece(Api, x, Search(sym, "dlopen") \o <<DoKey("close", sym)>>, h)
      /\ Piece(Api, x, Search(dyn, "dlopen") \o <<DoKey("close", sym)>>, h)
  BY <1>1, <1>2, <1>3, SearchAndClose
<1>5. Piece(Api, x, <<DoKey("close", sym)>>, h)
  <2>1. DoKey("close", sym) \in Steps /\ Opens(Api, DoKey("close", sym))
    BY <1>1 DEF Steps, Opens, DoKey
  <2>2. DoKey("close", sym).op = "close" /\ DoKey("close", sym).key[2] = h
    BY <1>1 DEF DoKey
  <2>3. \A k \in Key : ~PartOf(DoKey("close", sym), k)
    BY <2>2 DEF PartOf, Fills
  <2> QED
    BY <1>3, <2>1, <2>2, <2>3, OnePiece
<1> QED
  BY <1>4, <1>5 DEF sym, dyn

LEMMA NoExtPiece ==
    ASSUME NEW k \in Table, NEW x, x.op = "noExt", x.key = k
    PROVE  Piece(Api, x, (IF dlopenSym THEN <<>> ELSE Search(k, "dlopen") \o Search(k, "mutex"))
                           \o <<DoKey("close", k)>>, k[2])
<1> DEFINE c == DoKey("close", k)
<1>1. k[2] \in Handle /\ c \in Steps /\ c.op = "close" /\ c.key = k /\ Opens(Api, c)
  BY DEF Table, Steps, DoKey, Opens
<1>2. Stands(Api, x, c)
  BY <1>1 DEF Stands, Final, Before, Asks, Guarded, Awaits, Loads, Yields, Fills
<1>3. \A p \in Key : ~PartOf(c, p)
  BY <1>1 DEF PartOf, Fills
<1>4. CASE dlopenSym
  <2>1. Piece(Api, x, <<c>>, k[2])
    BY <1>1, <1>2, <1>3, OnePiece
  <2>2. <<>> \o <<c>> = <<c>>
    OBVIOUS
  <2> QED
    BY <1>4, <2>1, <2>2
<1>5. CASE ~dlopenSym
  <2> DEFINE P == {Symbols}
             e == DoKey("ensure", k)
  <2>1. Block(Api, Inner(k[2], P), Search(k, "dlopen"), e, Take(k, "dlopen"))
    BY <1>1, SearchBlock
  <2>2. Block(Api, Inner(k[2], P), Search(k, "mutex"), e, Take(k, "mutex"))
    BY <1>1, SearchBlock
  <2>3. e.op = "ensure" /\ Take(k, "dlopen").op = "take" /\ Take(k, "mutex").op = "take"
    BY DEF DoKey, Take
  <2>4. Block(Api, Inner(k[2], P), Search(k, "dlopen") \o Search(k, "mutex"), e, Take(k, "mutex"))
    BY <2>1, <2>2, <2>3, SearchesBlock
  <2>5. Before(Api, Take(k, "mutex"), c)
    BY <1>1, <2>3 DEF Before, Asks, Guarded, Awaits, Loads, Yields, Fills
  <2>6. \A p \in P : PartOf(x, p)
    BY DEF PartOf
  <2>7. Opens(Api, e) /\ Ends(c)
    BY <1>1, <2>3 DEF Opens, Ends
  <2> HIDE DEF P, c, e
  <2>8. Piece(Api, x, (Search(k, "dlopen") \o Search(k, "mutex")) \o <<c>>, k[2])
    BY <1>1, <1>2, <1>3, <2>4, <2>5, <2>6, <2>7, ClosingPiece
  <2> QED
    BY <1>5, <2>8 DEF c
<1> QED
  BY <1>4, <1>5

LEMMA LzmaFoundPiece ==
    ASSUME NEW h \in Handle, NEW x, x.op = "lzmaFound"
    PROVE  LET dyn == <<"dynsym", h>> IN
           Piece(Api, x, Search(dyn, "code") \o <<DoKey("close", dyn)>>, h)
<1> DEFINE dyn == <<"dynsym", h>>
<1>1. dyn \in Table /\ dyn[2] = h
  BY DEF Table
<1>2. PartOf(x, Unpacker)
  BY DEF PartOf
<1>3. Stands(Api, x, DoKey("close", dyn))
  BY DEF Stands, Final, Before, DoKey, Asks, Guarded, Awaits, Loads, Yields, Fills
<1> HIDE DEF dyn
<1>4. Piece(Api, x, Search(dyn, "code") \o <<DoKey("close", dyn)>>, h)
  BY <1>1, <1>2, <1>3, SearchAndClose
<1> QED
  BY <1>4 DEF dyn

\* xdl_addr's search for a name.
LEMMA NamedBlock ==
    ASSUME NEW h \in Handle, NEW P, NEW s \in Named(h), s # <<>>
    PROVE  \E y, z : Block(Api, Inner(h, P), s, y, z) /\ y.op = "ensure" /\ z.op = "take"
<1> DEFINE sym == <<"symtab", h>>
           dyn == <<"dynsym", h>>
<1>1. sym \in Table /\ dyn \in Table /\ sym[2] = h /\ dyn[2] = h
  BY DEF Table
<1>2. s = Search(dyn, "nothing") \/ s = Search(dyn, "nothing") \o Search(sym, "nothing")
  BY DEF Named
<1> HIDE DEF sym, dyn
<1> DEFINE a == Search(dyn, "nothing")
           b == Search(sym, "nothing")
<1>3. /\ Block(Api, Inner(h, P), a, DoKey("ensure", dyn), Take(dyn, "nothing"))
      /\ Block(Api, Inner(h, P), b, DoKey("ensure", sym), Take(sym, "nothing"))
  BY <1>1, SearchBlock
<1>4. /\ DoKey("ensure", dyn).op = "ensure" /\ DoKey("ensure", sym).op = "ensure"
      /\ Take(dyn, "nothing").op = "take" /\ Take(sym, "nothing").op = "take"
  BY DEF DoKey, Take
<1>5. Block(Api, Inner(h, P), a \o b, DoKey("ensure", dyn), Take(sym, "nothing"))
  BY <1>3, <1>4, SearchesBlock
<1> QED
  BY <1>2, <1>3, <1>4, <1>5

LEMMA NamedPiece ==
    ASSUME NEW h \in Handle, NEW x, x.op = "cache", NEW s \in Named(h)
    PROVE  Piece(Api, x, s, h)
<1>1. CASE s = <<>>
  BY <1>1, EmptyPiece
<1>2. CASE s # <<>>
  <2>1. PICK y, z : Block(Api, Inner(h, {}), s, y, z) /\ y.op = "ensure" /\ z.op = "take"
    BY <1>2, NamedBlock
  <2>2. Opens(Api, y) /\ Stands(Api, x, z)
    BY <2>1 DEF Opens, Stands, Final, Before, Asks, Guarded, Awaits, Loads, Yields, Fills
  <2> QED
    BY <2>1, <2>2, InnerPiece
<1> QED
  BY <1>1, <1>2

\* xdl_dynsym_load and xdl_symtab_load, without what is read at once.
LEMMA ReadPiece ==
    ASSUME NEW k \in Table, NEW x, x.op = "read", x.key = k, k[1] = "symtab"
    PROVE  /\ Piece(Api, x, <<DoKey("ensure", Unpacker), DoKey("unpack", k)>>, k[2])
           /\ Piece(Api, x, <<DoKey("whole", k)>>, k[2])
<1> DEFINE P == {p \in Key : PartOf(x, p)}
           e == DoKey("ensure", Unpacker)
           u == DoKey("unpack", k)
           w == DoKey("whole", k)
<1>0. Unpacker \in Key
  BY DEF Key, Once, Unpacker
<1>1. e \in Steps /\ u \in Steps /\ w \in Steps
  BY <1>0 DEF Steps
<1>2. /\ e.op = "ensure" /\ e.key = Unpacker /\ u.op = "unpack" /\ u.key = k
      /\ w.op = "whole" /\ w.key = k
  BY DEF DoKey
<1>3. Unpacker \notin Table
  BY DEF Unpacker, Table
<1> HIDE DEF e, u, w
<1>4. /\ \A p \in Key : ~PartOf(e, p)
      /\ \A p \in Key : PartOf(u, p) => PartOf(x, p)
      /\ \A p \in Key : PartOf(w, p) => PartOf(x, p)
  BY <1>2 DEF PartOf, Fills
<1>5. e \in Inner(k[2], P) /\ u \in Inner(k[2], P)
  BY <1>1, <1>2, <1>3, <1>4 DEF Inner, Ends, OnKey, Asks, Fills
<1>6. Before(Api, e, u)
  BY <1>2 DEF Before, Asks, Guarded, Awaits, Loads, Yields, Fills
<1>7. Stands(Api, x, u) /\ Stands(Api, x, w) /\ Opens(Api, e) /\ Opens(Api, w)
  BY <1>2 DEF Stands, Final, Before, Asks, Guarded, Awaits, Loads, Yields, Fills, Opens
<1>8. Block(Api, Inner(k[2], P), <<e, u>>, e, u)
  BY <1>5, <1>6, BlockTwo
<1>9. Piece(Api, x, <<e, u>>, k[2])
  BY <1>7, <1>8, InnerPiece
<1>10. Piece(Api, x, <<w>>, k[2])
  BY <1>1, <1>2, <1>4, <1>7, OnePiece
<1> QED
  BY <1>9, <1>10 DEF e, u, w

\* What is done to load k, and that k is then done.
LEMMA BodyBlock ==
    ASSUME NEW k \in Key
    PROVE  \E y, z : /\ Block(Api, Inner(k[2], {k}), Body(k), y, z)
                     /\ Opens(Api, y) /\ Before(Api, z, DoKey("done", k))
<1> DEFINE S == Inner(k[2], {k})
           d == DoKey("done", k)
<1>0. Loading \subseteq S
  BY LoadingIsInner
<1>1. d.op = "done" /\ d.key = k
  BY DEF DoKey
<1> HIDE DEF S, d
<1>2. /\ Symbols \notin Table /\ Callers \notin Table /\ Unpacker \notin Table
      /\ Symbols # Callers /\ Symbols # Unpacker /\ Callers # Unpacker
  BY DEF Symbols, Callers, Unpacker, Table
<1>20. /\ Symbols[1] \notin {"dynsym", "symtab"} /\ Callers[1] \notin {"dynsym", "symtab"}
       /\ Unpacker[1] \notin {"dynsym", "symtab"}
  BY DEF Symbols, Callers, Unpacker
<1>3. CASE k = Symbols
  <2> DEFINE z == Do("linkerFound")
  <2>1. z \in Steps /\ z.op = "linkerFound"
    BY DEF Steps, Do
  <2> HIDE DEF z
  <2>2. \A p \in Key : PartOf(z, p) => p = Symbols
    BY <2>1 DEF PartOf, Fills
  <2>3. z \in S /\ Awaits(z)
    BY <1>3, <2>1, <2>2 DEF S, Inner, Ends, OnKey, Asks, Fills, Awaits
  <2>4. PICK y : Block(Api, S, Find(Linker) \o <<z>>, y, z) /\ Opens(Api, y)
    BY <1>0, <2>3, FindThenBlock DEF AnyLib
  <2>5. Before(Api, z, d)
    BY <1>1, <1>2, <1>3, <2>1 DEF Before, Asks, Guarded, Awaits, Loads, Yields, Fills
  <2>6. Body(k) = Find(Linker) \o <<z>>
    BY <1>2, <1>20, <1>3 DEF Body, z
  <2> QED
    BY <2>4, <2>5, <2>6 DEF S, d
<1>4. CASE k = Callers
  <2> DEFINE z == Do("scanCallers")
  <2>1. z \in Steps /\ z.op = "scanCallers"
    BY DEF Steps, Do
  <2> HIDE DEF z
  <2>2. \A p \in Key : PartOf(z, p) => p = Callers
    BY <2>1 DEF PartOf, Fills
  <2>3. z \in S /\ Opens(Api, z)
    BY <1>4, <2>1, <2>2 DEF S, Inner, Ends, OnKey, Asks, Fills, Opens
  <2>4. Block(Api, S, <<z>>, z, z)
    BY <2>3, BlockOne
  <2>5. Before(Api, z, d)
    BY <1>1, <1>2, <1>4, <2>1 DEF Before, Asks, Guarded, Awaits, Loads, Yields, Fills
  <2>6. Body(k) = <<z>>
    BY <1>2, <1>20, <1>4 DEF Body, z
  <2> QED
    BY <2>3, <2>4, <2>5, <2>6 DEF S, d
<1>5. CASE k = Unpacker
  <2> DEFINE z == Do("lzmaFound")
             f == DoLib("tryForce", Lzma)
  <2>0. Lzma \in AnyLib
    BY LibAssumption DEF AnyLib
  <2>1. z \in Steps /\ z.op = "lzmaFound" /\ f \in Steps /\ f.op = "tryForce"
    BY <2>0 DEF Steps, Do, DoLib
  <2> HIDE DEF z, f
  <2>2. (\A p \in Key : PartOf(z, p) => p = Unpacker) /\ \A p \in Key : ~PartOf(f, p)
    BY <2>1 DEF PartOf, Fills
  <2>3. z \in S /\ f \in S /\ Awaits(f)
    BY <1>5, <2>1, <2>2 DEF S, Inner, Ends, OnKey, Asks, Fills, Awaits
  <2>4. PICK y : Block(Api, S, Find(Lzma) \o <<f>>, y, f) /\ Opens(Api, y)
    BY <1>0, <2>0, <2>3, FindThenBlock
  <2>5. Before(Api, z, d) /\ Before(Api, f, z)
    BY <1>1, <1>2, <1>5, <2>1 DEF Before, Asks, Guarded, Awaits, Loads, Yields, Fills
  <2>6. Block(Api, S, <<z>>, z, z)
    BY <2>3, BlockOne
  <2>7. Block(Api, S, (Find(Lzma) \o <<f>>) \o <<z>>, y, z)
    BY <2>4, <2>5, <2>6, BlockJoin
  <2>8. Body(k) = (Find(Lzma) \o <<f>>) \o <<z>>
    BY <1>2, <1>20, <1>5 DEF Body, OpenTry, z, f
  <2> QED
    BY <2>4, <2>5, <2>7, <2>8 DEF S, d
<1>6. CASE k \in Table
  <2> DEFINE r == DoKey("read", k)
             w == DoKey("whole", k)
  <2>1. r \in Steps /\ r.op = "read" /\ r.key = k /\ w \in Steps /\ w.op = "whole" /\ w.key = k
    BY <1>6 DEF Steps, DoKey
  <2> HIDE DEF r, w
  <2>2. \A p \in Key : (PartOf(r, p) => p = k) /\ (PartOf(w, p) => p = k)
    BY <2>1 DEF PartOf, Fills
  <2>3. r \in S /\ w \in S /\ Opens(Api, r)
    BY <2>1, <2>2 DEF S, Inner, Ends, OnKey, Asks, Fills, Opens
  <2>4. Before(Api, r, w) /\ Before(Api, w, d)
    BY <1>1, <2>1 DEF Before, Asks, Guarded, Awaits, Loads, Yields, Fills
  <2>5. CASE k[1] = "dynsym"
    <3>1. Body(k) = <<r, w>>
      BY <1>2, <1>6, <2>5 DEF Body, r, w
    <3>2. Block(Api, S, <<r, w>>, r, w)
      BY <2>3, <2>4, BlockTwo
    <3> QED
      BY <2>3, <2>4, <3>1, <3>2 DEF S, d
  <2>6. CASE k[1] = "symtab"
    <3>1. Body(k) = <<r>>
      BY <1>2, <1>6, <2>6 DEF Body, r
    <3>2. Block(Api, S, <<r>>, r, r)
      BY <2>3, BlockOne
    <3>3. Before(Api, r, d)
      BY <1>1, <2>1, <2>6 DEF Before, Asks, Guarded, Awaits, Loads, Yields, Fills
    <3> QED
      BY <2>3, <3>1, <3>2, <3>3 DEF S, d
  <2> QED
    BY <1>6, <2>5, <2>6 DEF Table
<1> QED
  BY <1>3, <1>4, <1>5, <1>6 DEF Key, Once, Symbols, Callers, Unpacker

-----------------------------------------------------------------------------
(***************************************************************************)
(* What is true of the steps that a thread has to do, whatever else goes   *)
(* on: their order, what they end in, that a loading is done after all its *)
(* parts, that a lock is released once, and that a handle is not used      *)
(* after the step that closes it.                                          *)
(***************************************************************************)
Finishes(x, k) == x.op = "done" /\ x.key = k
Releases(x, k) == x.op = "unlock" /\ x.key = k
On(x, h) == OnKey(x) /\ x.key[2] = h

PartsFinish(L) ==
    \A i \in 1 .. Len(L), k \in Key :
        PartOf(L[i], k) => \E j \in i + 1 .. Len(L) : Finishes(L[j], k)

ReleasesOnce(L) ==
    \A i, j \in 1 .. Len(L), k \in Key :
        Releases(L[i], k) /\ Releases(L[j], k) => i = j

EndsLast(L) ==
    \A i, j \in 1 .. Len(L) : i < j /\ Ends(L[i]) => ~On(L[j], L[i].key[2])

Orderly(api, L) ==
    /\ L \in Seq(Steps)
    /\ InOrder(api, L)
    /\ L # <<>> => Final(L[Len(L)])
    /\ PartsFinish(L) /\ ReleasesOnce(L) /\ EndsLast(L)

\* The list s can take the place of the first step of L.
Grafts(api, L, s) ==
    /\ s \in Seq(Steps) /\ InOrder(api, s)
    /\ s # <<>> => Stands(api, L[1], s[Len(s)])
    /\ \A i \in 1 .. Len(s) :
         /\ \A k \in Key : PartOf(s[i], k) =>
              PartOf(L[1], k) \/ \E j \in i + 1 .. Len(s) : Finishes(s[j], k)
         /\ s[i].op = "unlock" =>
              i = Len(s) /\ \A j \in 2 .. Len(L) : ~Releases(L[j], s[i].key)
         /\ Ends(s[i]) =>
              i = Len(s) /\ \A j \in 2 .. Len(L) : ~On(L[j], s[i].key[2])

LEMMA GraftOrderly ==
    ASSUME NEW api, NEW L, NEW s, Orderly(api, L), L # <<>>, Grafts(api, L, s)
    PROVE  Orderly(api, s \o Tail(L))
<1> DEFINE w == s \o Tail(L)
           n == Len(s)
           m == Len(L)
<1>1. L \in Seq(Steps) /\ s \in Seq(Steps) /\ n \in Nat /\ m \in Nat \ {0}
  BY DEF Orderly, Grafts
<1>2. w \in Seq(Steps) /\ Len(w) = n + m - 1
  BY <1>1
<1>3. /\ \A i \in 1 .. n : w[i] = s[i]
      /\ \A i \in n + 1 .. n + m - 1 : w[i] = L[i - n + 1] /\ i - n + 1 \in 2 .. m
  BY <1>1
<1> HIDE DEF w, n, m
<1>4. ASSUME NEW i \in 1 .. Len(w) - 1 PROVE Before(api, w[i], w[i + 1])
  <2>1. CASE i < n
    <3>1. i \in 1 .. n /\ i + 1 \in 1 .. n /\ i \in 1 .. Len(s) - 1
      BY <1>1, <2>1 DEF n
    <3> QED
      BY <1>3, <3>1 DEF Grafts, InOrder
  <2>2. CASE i = n
    <3>1. i \in 1 .. n /\ i + 1 \in n + 1 .. n + m - 1 /\ (i + 1) - n + 1 = 2
      BY <1>1, <1>2, <2>2
    <3>2. w[i] = s[Len(s)] /\ w[i + 1] = L[2] /\ s # <<>>
      BY <1>1, <1>3, <2>2, <3>1 DEF n
    <3>3. Before(api, L[1], L[1 + 1])
      <4>1. 1 \in 1 .. Len(L) - 1
        BY <1>1, <1>2, <2>2 DEF m
      <4> QED
        BY <4>1 DEF Orderly, InOrder
    <3> QED
      BY <3>2, <3>3 DEF Grafts, Stands
  <2>3. CASE i > n
    <3>1. /\ i \in n + 1 .. n + m - 1 /\ i + 1 \in n + 1 .. n + m - 1
          /\ (i + 1) - n + 1 = (i - n + 1) + 1 /\ i - n + 1 \in 1 .. Len(L) - 1
      BY <1>1, <1>2, <2>3 DEF m
    <3>2. w[i] = L[i - n + 1] /\ w[i + 1] = L[(i - n + 1) + 1]
      BY <1>3, <3>1
    <3> QED
      BY <3>1, <3>2 DEF Orderly, InOrder
  <2> QED
    BY <1>1, <2>1, <2>2, <2>3
<1>5. ASSUME w # <<>> PROVE Final(w[Len(w)])
  <2>1. CASE m = 1
    <3>1. n # 0 /\ Len(w) = n /\ s # <<>> /\ w[n] = s[Len(s)]
      BY <1>1, <1>2, <1>3, <1>5, <2>1 DEF n
    <3>2. Final(L[1])
      BY <2>1 DEF Orderly, m
    <3> QED
      BY <3>1, <3>2 DEF Grafts, Stands
  <2>2. CASE m # 1
    <3>1. Len(w) \in n + 1 .. n + m - 1 /\ Len(w) - n + 1 = m
      BY <1>1, <1>2, <2>2
    <3>2. w[Len(w)] = L[Len(L)]
      BY <1>3, <3>1 DEF m
    <3> QED
      BY <3>2 DEF Orderly
  <2> QED
    BY <2>1, <2>2
<1>6. ASSUME NEW i \in 1 .. Len(w), NEW k \in Key, PartOf(w[i], k)
      PROVE  \E j \in i + 1 .. Len(w) : Finishes(w[j], k)
  <2>1. ASSUME NEW a \in 1 .. m, PartOf(L[a], k)
        PROVE  \E j \in n + a .. n + m - 1 : Finishes(w[j], k)
    <3>1. PICK b \in a + 1 .. m : Finishes(L[b], k)
      BY <2>1 DEF Orderly, PartsFinish, m
    <3>2. b + n - 1 \in n + 1 .. n + m - 1 /\ (b + n - 1) - n + 1 = b /\ b + n - 1 \in n + a .. n + m - 1
      BY <1>1, <3>1
    <3> QED
      BY <1>3, <3>1, <3>2
  <2>2. CASE i \in 1 .. n
    <3>1. PartOf(s[i], k)
      BY <1>3, <1>6, <2>2
    <3>2. CASE PartOf(L[1], k)
      <4>1. PICK j \in n + 1 .. n + m - 1 : Finishes(w[j], k)
        BY <1>1, <2>1, <3>2
      <4> QED
        BY <1>1, <1>2, <2>2, <4>1
    <3>3. CASE \E j \in i + 1 .. Len(s) : Finishes(s[j], k)
      <4>1. PICK j \in i + 1 .. n : Finishes(s[j], k)
        BY <3>3 DEF n
      <4>2. j \in 1 .. n /\ j \in i + 1 .. Len(w)
        BY <1>1, <1>2, <2>2, <4>1
      <4> QED
        BY <1>3, <4>1, <4>2
    <3> QED
      BY <2>2, <3>1, <3>2, <3>3 DEF Grafts, n
  <2>3. CASE i \in n + 1 .. n + m - 1
    <3>1. i - n + 1 \in 1 .. m /\ PartOf(L[i - n + 1], k) /\ n + (i - n + 1) = i + 1
      BY <1>1, <1>3, <1>6, <2>3
    <3> QED
      BY <1>2, <2>1, <3>1
  <2> QED
    BY <1>1, <1>2, <2>2, <2>3
<1>7. ASSUME NEW i \in 1 .. Len(w), NEW j \in 1 .. Len(w), NEW k \in Key,
             Releases(w[i], k), Releases(w[j], k)
      PROVE  i = j
  <2>1. ASSUME NEW a \in 1 .. n, Releases(w[a], k)
        PROVE  a = n /\ \A b \in n + 1 .. n + m - 1 : ~Releases(w[b], k)
    <3>1. s[a].op = "unlock" /\ s[a].key = k
      BY <1>3, <2>1 DEF Releases
    <3>2. a = n /\ \A b \in 2 .. m : ~Releases(L[b], k)
      BY <2>1, <3>1 DEF Grafts, n, m
    <3> QED
      BY <1>3, <3>2
  <2>2. CASE i \in 1 .. n \/ j \in 1 .. n
    BY <1>1, <1>2, <1>7, <2>1, <2>2
  <2>3. CASE i \in n + 1 .. n + m - 1 /\ j \in n + 1 .. n + m - 1
    <3>1. /\ i - n + 1 \in 1 .. m /\ j - n + 1 \in 1 .. m
          /\ Releases(L[i - n + 1], k) /\ Releases(L[j - n + 1], k)
      BY <1>1, <1>3, <1>7, <2>3
    <3>2. i - n + 1 = j - n + 1
      BY <3>1 DEF Orderly, ReleasesOnce, m
    <3> QED
      BY <1>1, <2>3, <3>2
  <2> QED
    BY <1>1, <1>2, <2>2, <2>3
<1>8. ASSUME NEW i \in 1 .. Len(w), NEW j \in 1 .. Len(w), i < j, Ends(w[i])
      PROVE  ~On(w[j], w[i].key[2])
  <2>1. CASE i \in 1 .. n
    <3>1. Ends(s[i]) /\ w[i] = s[i]
      BY <1>3, <1>8, <2>1
    <3>2. i = n /\ \A b \in 2 .. m : ~On(L[b], w[i].key[2])
      BY <2>1, <3>1 DEF Grafts, n, m
    <3>3. j \in n + 1 .. n + m - 1
      BY <1>1, <1>2, <1>8, <3>2
    <3> QED
      BY <1>3, <3>2, <3>3
  <2>2. CASE i \in n + 1 .. n + m - 1
    <3>1. j \in n + 1 .. n + m - 1 /\ i - n + 1 < j - n + 1
      BY <1>1, <1>2, <1>8, <2>2
    <3>2. /\ i - n + 1 \in 1 .. m /\ w[i] = L[i - n + 1]
          /\ j - n + 1 \in 1 .. m /\ w[j] = L[j - n + 1]
      BY <1>1, <1>3, <2>2, <3>1
    <3> QED
      BY <1>8, <3>1, <3>2 DEF Orderly, EndsLast, m
  <2> QED
    BY <1>1, <1>2, <2>1, <2>2
<1>9. Orderly(api, w)
  BY <1>2, <1>4, <1>5, <1>6, <1>7, <1>8 DEF Orderly, InOrder, PartsFinish, ReleasesOnce, EndsLast
<1> QED
  BY <1>9 DEF w

LEMMA PieceGrafts ==
    ASSUME NEW api, NEW L, L # <<>>, NEW s, NEW h, Piece(api, L[1], s, h),
           (\E i \in 1 .. Len(s) : Ends(s[i])) => \A j \in 2 .. Len(L) : ~On(L[j], h)
    PROVE  Grafts(api, L, s)
<1>1. ASSUME NEW i \in 1 .. Len(s), Ends(s[i])
      PROVE  i = Len(s) /\ \A j \in 2 .. Len(L) : ~On(L[j], s[i].key[2])
  <2>1. s[i] \in Steps
    BY DEF Piece
  <2>2. OnKey(s[i]) /\ s[i].key \in Table
    BY <1>1, <2>1, StepFacts DEF Ends, OnKey
  <2> QED
    BY <1>1, <2>2 DEF Piece
<1>2. ASSUME NEW i \in 1 .. Len(s)
      PROVE  /\ \A k \in Key : PartOf(s[i], k) => PartOf(L[1], k)
             /\ s[i].op # "unlock"
  BY DEF Piece
<1> QED
  BY <1>1, <1>2 DEF Grafts, Piece

LEMMA PopOrderly ==
    ASSUME NEW api, NEW L, Orderly(api, L), L # <<>>
    PROVE  Orderly(api, Tail(L))
<1>1. Piece(api, L[1], <<>>, Null)
  BY EmptyPiece
<1>2. Grafts(api, L, <<>>)
  <2>1. \A i \in 1 .. Len(<<>>) : FALSE
    OBVIOUS
  <2> QED
    BY <1>1, <2>1, PieceGrafts
<1>3. <<>> \o Tail(L) = Tail(L)
  BY DEF Orderly
<1> QED
  BY <1>2, <1>3, GraftOrderly

\* The steps that a thread which has got a lock begins with.
LEMMA LockGrafts ==
    ASSUME NEW L, L # <<>>, NEW k \in Key, L[1].op = "lock", L[1].key = k,
           \A j \in 2 .. Len(L) : ~Releases(L[j], k)
    PROVE  /\ Grafts(Api, L, <<DoKey("unlock", k)>>)
           /\ Grafts(Api, L, (Body(k) \o <<DoKey("done", k)>>) \o <<DoKey("unlock", k)>>)
           /\ \E x : /\ Opens(Api, x)
                     /\ ((Body(k) \o <<DoKey("done", k)>>) \o <<DoKey("unlock", k)>>)[1] = x
<1> DEFINE d == DoKey("done", k)
           u == DoKey("unlock", k)
           s == (Body(k) \o <<d>>) \o <<u>>
<1>1. /\ d \in Steps /\ d.op = "done" /\ d.key = k
      /\ u \in Steps /\ u.op = "unlock" /\ u.key = k
  BY DEF Steps, DoKey
<1> HIDE DEF d, u
<1>2. Stands(Api, L[1], u)
  BY <1>1 DEF Stands, Final, Before, Asks, Guarded, Awaits, Loads, Yields, Fills
<1>3. (\A p \in Key : ~PartOf(u, p) /\ ~PartOf(d, p)) /\ ~Ends(u) /\ ~Ends(d)
  BY <1>1 DEF PartOf, Fills, Ends
<1>4. Grafts(Api, L, <<u>>)
  BY <1>1, <1>2, <1>3 DEF Grafts, InOrder
<1>5. PICK y, z : /\ Block(Api, Inner(k[2], {k}), Body(k), y, z)
                  /\ Opens(Api, y) /\ Before(Api, z, d)
  BY BodyBlock DEF d
<1> DEFINE b == Body(k)
<1> HIDE DEF b
<1>6. b \in Seq(Inner(k[2], {k})) /\ b # <<>> /\ Len(b) \in Nat
  BY <1>5 DEF Block, b
<1>7. \A i \in 1 .. Len(b) : /\ b[i] \in Steps /\ b[i].op # "unlock" /\ ~Ends(b[i])
                             /\ \A p \in Key : PartOf(b[i], p) => p = k
  BY <1>6 DEF Inner
<1>8. Block(Api, Steps, b, y, z)
  BY <1>5, <1>6, <1>7 DEF Block, b
<1>9. Block(Api, Steps, <<d>>, d, d) /\ Block(Api, Steps, <<u>>, u, u)
  BY <1>1, BlockOne
<1>10. Before(Api, d, u)
  BY <1>1 DEF Before, Asks, Guarded, Awaits, Loads, Yields, Fills
<1>11. Block(Api, Steps, b \o <<d>>, y, d)
  BY <1>5, <1>8, <1>9, BlockJoin
<1>12. Block(Api, Steps, s, y, u)
  BY <1>9, <1>10, <1>11, BlockJoin DEF b
<1>13. /\ s = (b \o <<d>>) \o <<u>> /\ Len(s) = Len(b) + 2
       /\ \A i \in 1 .. Len(b) : s[i] = b[i]
       /\ s[Len(b) + 1] = d /\ s[Len(b) + 2] = u
  BY <1>1, <1>6 DEF b
<1> HIDE DEF s
<1>14. s \in Seq(Steps) /\ InOrder(Api, s) /\ Stands(Api, L[1], s[Len(s)]) /\ s[1] = y
  BY <1>2, <1>12 DEF Block
<1>15. ASSUME NEW i \in 1 .. Len(s)
       PROVE  /\ \A p \in Key : PartOf(s[i], p) =>
                   PartOf(L[1], p) \/ \E j \in i + 1 .. Len(s) : Finishes(s[j], p)
              /\ s[i].op = "unlock" =>
                   i = Len(s) /\ \A j \in 2 .. Len(L) : ~Releases(L[j], s[i].key)
              /\ ~Ends(s[i])
  <2>1. CASE i \in 1 .. Len(b)
    <3>1. s[i].op # "unlock" /\ ~Ends(s[i]) /\ \A p \in Key : PartOf(s[i], p) => p = k
      BY <1>7, <1>13, <2>1
    <3>2. Finishes(s[Len(b) + 1], k) /\ Len(b) + 1 \in i + 1 .. Len(s)
      BY <1>1, <1>6, <1>13, <2>1 DEF Finishes
    <3> QED
      BY <3>1, <3>2
  <2>2. CASE i = Len(b) + 1
    BY <1>1, <1>3, <1>13, <2>2
  <2>3. CASE i = Len(b) + 2
    <3>1. s[i] = u /\ i = Len(s) /\ s[i].key = k
      BY <1>1, <1>13, <2>3
    <3> QED
      BY <1>3, <3>1
  <2>4. i \in 1 .. Len(b) \/ i = Len(b) + 1 \/ i = Len(b) + 2
    BY <1>6, <1>13
  <2> QED
    BY <2>1, <2>2, <2>3, <2>4
<1>16. Grafts(Api, L, s)
  BY <1>14, <1>15 DEF Grafts
<1> QED
  BY <1>4, <1>5, <1>14, <1>16 DEF s, d, u

\* The steps of a call that closes nothing.
LEMMA CallOrderly ==
    ASSUME NEW api, NEW h, NEW L, NEW x, NEW y,
           Block(api, Inner(h, {}), L, x, y), Final(y)
    PROVE  Orderly(api, L)
<1>1. /\ L \in Seq(Inner(h, {})) /\ Len(L) \in Nat /\ L # <<>>
      /\ L[Len(L)] = y /\ InOrder(api, L)
  BY DEF Block
<1>2. \A i \in 1 .. Len(L) : /\ L[i] \in Steps /\ L[i].op # "unlock" /\ ~Ends(L[i])
                             /\ \A p \in Key : ~PartOf(L[i], p)
  BY <1>1 DEF Inner
<1>3. L \in Seq(Steps)
  BY <1>1, <1>2
<1> QED
  BY <1>1, <1>2, <1>3 DEF Orderly, PartsFinish, ReleasesOnce, Releases, EndsLast

LEMMA CloseOrderly ==
    ASSUME NEW api, NEW k \in Table, NEW lib \in AnyLib
    PROVE  Orderly(api, <<DoKey("close", k), DoLib("drop", lib)>>)
<1> DEFINE c == DoKey("close", k)
           d == DoLib("drop", lib)
<1>1. c \in Steps /\ c.op = "close" /\ c.key = k /\ d \in Steps /\ d.op = "drop"
  BY DEF Steps, DoKey, DoLib
<1> HIDE DEF c, d
<1>2. Before(api, c, d)
  BY <1>1 DEF Before, Asks, Guarded, Awaits, Loads, Yields, Fills
<1>3. ~OnKey(d) /\ Final(d) /\ ~Ends(d) /\ \A p \in Key : ~PartOf(c, p) /\ ~PartOf(d, p)
  BY <1>1 DEF OnKey, Asks, Fills, Final, PartOf, Ends
<1>4. Block(api, Steps, <<c, d>>, c, d)
  BY <1>1, <1>2, BlockTwo
<1> DEFINE L == <<c, d>>
<1>5. Len(L) = 2 /\ L[1] = c /\ L[2] = d
  OBVIOUS
<1> HIDE DEF L
<1>6. L \in Seq(Steps) /\ InOrder(api, L)
  BY <1>4 DEF Block, L
<1>7. \A i \in 1 .. 2 : i = 1 \/ i = 2
  OBVIOUS
<1>8. Orderly(api, L)
  BY <1>1, <1>3, <1>5, <1>6, <1>7 DEF Orderly, PartsFinish, ReleasesOnce, Releases, EndsLast, On
<1> QED
  BY <1>8 DEF L, c, d

-----------------------------------------------------------------------------
(***************************************************************************)
(* The inductive invariant.                                                *)
(***************************************************************************)
Live == {h \in Handle : handle[h] # Unused}

DataTypes ==
    /\ ret \in [Thread -> Handle \cup {Null, LinkerHandle}]
    /\ owner \in [Lock -> Thread \cup {Nobody}]
    /\ inited \subseteq Key
    /\ table \in [Table -> {"unloaded", "reading", "whole", "missing"}]
    /\ handle \in [Handle -> [lib : AnyLib, held : BOOLEAN] \cup {Unused}]
    /\ given \subseteq Handle
    /\ cache \in [Thread -> SUBSET Handle]
    /\ mutexSym \in BOOLEAN

TypeInv == todo \in [Thread -> Seq(Steps)] /\ DataTypes

ListInv == \A t \in Thread : Orderly(Api, todo[t])

\* A lock is held by the thread that has yet to release it, and nothing is
\* there before its loading is done.
LockInv == \A t \in Thread, k \in Key :
    /\ owner[k] = t <=> \E i \in 1 .. Len(todo[t]) : Releases(todo[t][i], k)
    /\ (\E i \in 1 .. Len(todo[t]) : Finishes(todo[t][i], k)) => k \notin inited

Settled(k) == table[k] \in {"whole", "missing"}

TableInv == \A k \in Table : k \in inited => Settled(k)

\* What a step may rely on when it is the next one.
AwaitsFile(api, x) == Awaits(x) \/ (x.op = "unlockLinker" /\ api \notin {24, 25})
AwaitsLinker(api, x) == x.op = "forced" \/ (x.op = "unlockLinker" /\ api \in {24, 25})
InLinker(api, x) == Guarded(api, x) \/ x.op = "unlockLinker"

Ready(t, x) ==
    /\ x.op = "lockLinker" => Symbols \in inited
    /\ InLinker(Api, x) => Symbols \in inited /\ (mutexSym => owner[GDl] = t)
    /\ x.op \in {"unlock", "take"} => x.key \in inited
    /\ x.op = "done" /\ x.key \in Table => Settled(x.key)
    /\ AwaitsFile(Api, x) => ret[t] \in Handle \cup {Null}
    /\ AwaitsLinker(Api, x) => ret[t] \in {Null, LinkerHandle}

NextInv == \A t \in Thread : todo[t] # <<>> => Ready(t, todo[t][1])

\* Whoever has locked the linker is about to use or to unlock it.
LinkerInv == \A t \in Thread :
    owner[GDl] = t => mutexSym /\ todo[t] # <<>> /\ InLinker(Api, todo[t][1])

\* The handles of a thread: one that it has found and nobody has taken yet,
\* those that it is going to close, and those in its cache.
Pending(t) == {h \in Handle : todo[t] # <<>> /\ AwaitsFile(Api, todo[t][1]) /\ ret[t] = h}
Closing(t) == {h \in Handle : \E i \in 1 .. Len(todo[t]) : Ends(todo[t][i]) /\ On(todo[t][i], h)}
Own(t) == Pending(t) \cup Closing(t) \cup cache[t]
UsedBy(t) == {h \in Handle : \E i \in 1 .. Len(todo[t]) : On(todo[t][i], h)}

OwnInv ==
    /\ given \subseteq Live
    /\ \A t \in Thread : Own(t) \subseteq Live /\ Own(t) \cap given = {}
    /\ \A t, u \in Thread : t # u => Own(t) \cap Own(u) = {}
    /\ \A t \in Thread : /\ Pending(t) \cap Closing(t) = {} /\ Pending(t) \cap cache[t] = {}
                         /\ Closing(t) \cap cache[t] = {}

UseInv == \A t \in Thread : UsedBy(t) \subseteq given \cup cache[t] \cup Closing(t)

IInv == TypeInv /\ ListInv /\ LockInv /\ TableInv /\ NextInv /\ LinkerInv /\ OwnInv /\ UseInv

-----------------------------------------------------------------------------
(***************************************************************************)
(* A thread t takes a step: its next step is replaced by the list s.       *)
(***************************************************************************)
Replaces(t, s) ==
    /\ t \in Thread /\ todo[t] # <<>>
    /\ todo' = [todo EXCEPT ![t] = s \o Tail(todo[t])]
    /\ Grafts(Api, todo[t], s)
    /\ UNCHANGED device

Moves(t, s, h) ==
    /\ Replaces(t, s)
    /\ Piece(Api, todo[t][1], s, h)

LEMMA MoveSeq ==
    ASSUME TypeInv, NEW t, NEW s, Replaces(t, s)
    PROVE  /\ todo[t] \in Seq(Steps) /\ s \in Seq(Steps)
           /\ Len(todo[t]) \in Nat \ {0} /\ Len(s) \in Nat
           /\ todo'[t] \in Seq(Steps) /\ todo'[t] = s \o Tail(todo[t])
           /\ Len(todo'[t]) = Len(s) + Len(todo[t]) - 1
           /\ \A u \in Thread \ {t} : todo'[u] = todo[u]
           /\ todo' \in [Thread -> Seq(Steps)]
           /\ \A i \in 1 .. Len(s) : i \in 1 .. Len(todo'[t]) /\ todo'[t][i] = s[i]
           /\ \A j \in 2 .. Len(todo[t]) : /\ j + Len(s) - 1 \in 1 .. Len(todo'[t])
                                           /\ todo'[t][j + Len(s) - 1] = todo[t][j]
           /\ \A i \in 1 .. Len(todo'[t]) : \/ i \in 1 .. Len(s)
                                            \/ \E j \in 2 .. Len(todo[t]) : i = j + Len(s) - 1
<1>1. todo[t] \in Seq(Steps) /\ s \in Seq(Steps) /\ todo[t] # <<>> /\ t \in Thread
  BY DEF TypeInv, DataTypes, Replaces, Grafts
<1>2. todo'[t] = s \o Tail(todo[t]) /\ \A u \in Thread \ {t} : todo'[u] = todo[u]
  BY <1>1 DEF TypeInv, DataTypes, Replaces
<1> DEFINE L == todo[t]
           w == todo'[t]
<1>3. L \in Seq(Steps) /\ L # <<>> /\ w = s \o Tail(L)
  BY <1>1, <1>2
<1> HIDE DEF L, w
<1>4. Len(L) \in Nat \ {0} /\ Len(s) \in Nat
  BY <1>1, <1>3
<1>5. w \in Seq(Steps) /\ Len(w) = Len(s) + Len(L) - 1
  BY <1>1, <1>3
<1>6. /\ \A i \in 1 .. Len(s) : i \in 1 .. Len(w) /\ w[i] = s[i]
      /\ \A j \in 2 .. Len(L) : /\ j + Len(s) - 1 \in 1 .. Len(w)
                                /\ w[j + Len(s) - 1] = L[j]
  BY <1>1, <1>3, <1>4, <1>5
<1>7. ASSUME NEW i \in 1 .. Len(w), i \notin 1 .. Len(s)
      PROVE  \E j \in 2 .. Len(L) : i = j + Len(s) - 1
  <2>1. i - Len(s) + 1 \in 2 .. Len(L) /\ i = (i - Len(s) + 1) + Len(s) - 1
    BY <1>4, <1>5, <1>7
  <2> QED
    BY <2>1
<1>8. todo' \in [Thread -> Seq(Steps)]
  BY <1>1, <1>2, <1>5 DEF TypeInv, DataTypes, Replaces, w
<1> QED
  BY <1>2, <1>3, <1>4, <1>5, <1>6, <1>7, <1>8, <1>1 DEF L, w

LEMMA MoveList ==
    ASSUME IInv, NEW t, NEW s, Replaces(t, s)
    PROVE  ListInv'
<1> SUFFICES ASSUME NEW u \in Thread PROVE Orderly(Api', todo'[u])
  BY DEF ListInv
<1>1. Api' = Api
  BY DEF Replaces, Api
<1>2. CASE u = t
  <2>1. Orderly(Api, todo[t]) /\ todo[t] # <<>> /\ Grafts(Api, todo[t], s)
    BY <1>2 DEF IInv, ListInv, Replaces
  <2>2. Orderly(Api, s \o Tail(todo[t]))
    BY <2>1, GraftOrderly
  <2>3. todo'[t] = s \o Tail(todo[t])
    BY MoveSeq DEF IInv
  <2> QED
    BY <1>1, <1>2, <2>2, <2>3
<1>3. CASE u # t
  BY <1>1, <1>3, MoveSeq DEF IInv, ListInv
<1> QED
  BY <1>2, <1>3

\* The end of a loading is followed by the release of its lock.
LEMMA DoneThenUnlock ==
    ASSUME NEW api, NEW L, Orderly(api, L), NEW k, NEW i \in 1 .. Len(L), Finishes(L[i], k)
    PROVE  i + 1 \in 1 .. Len(L) /\ Releases(L[i + 1], k)
<1>1. L \in Seq(Steps) /\ Len(L) \in Nat /\ L # <<>>
  BY DEF Orderly
<1>2. i # Len(L)
  BY <1>1 DEF Orderly, Final, Finishes
<1>3. i \in 1 .. Len(L) - 1
  BY <1>1, <1>2
<1>4. Before(api, L[i], L[i + 1])
  BY <1>3 DEF Orderly, InOrder
<1> QED
  BY <1>1, <1>3, <1>4 DEF Before, Finishes, Releases

\* What a step is a part of is being loaded.
LEMMA PartIsLoading ==
    ASSUME IInv, NEW t \in Thread, todo[t] # <<>>, NEW k \in Key, PartOf(todo[t][1], k)
    PROVE  k \notin inited /\ owner[k] = t
<1>1. Orderly(Api, todo[t]) /\ Len(todo[t]) \in Nat \ {0}
  BY DEF IInv, ListInv, Orderly
<1>2. 1 \in 1 .. Len(todo[t])
  BY <1>1
<1>3. PICK j \in 2 .. Len(todo[t]) : Finishes(todo[t][j], k)
  BY <1>1, <1>2 DEF Orderly, PartsFinish
<1>4. j \in 1 .. Len(todo[t])
  BY <1>3
<1>5. j + 1 \in 1 .. Len(todo[t]) /\ Releases(todo[t][j + 1], k)
  BY <1>1, <1>3, <1>4, DoneThenUnlock
<1> QED
  BY <1>3, <1>4, <1>5 DEF IInv, LockInv

LEMMA MoveLock ==
    ASSUME IInv, NEW t, NEW s, NEW h, Moves(t, s, h), todo[t][1].op # "unlock",
           \A k \in Key : owner'[k] = owner[k], inited' \subseteq inited
    PROVE  LockInv'
<1> SUFFICES ASSUME NEW u \in Thread, NEW k \in Key
             PROVE  /\ owner'[k] = u <=> \E i \in 1 .. Len(todo'[u]) : Releases(todo'[u][i], k)
                    /\ (\E i \in 1 .. Len(todo'[u]) : Finishes(todo'[u][i], k)) => k \notin inited'
  BY DEF LockInv
<1>1. TypeInv /\ Replaces(t, s)
  BY DEF IInv, Moves
<1>2. CASE u # t
  <2>1. todo'[u] = todo[u] /\ owner'[k] = owner[k]
    BY <1>1, <1>2, MoveSeq
  <2>2. /\ owner[k] = u <=> \E i \in 1 .. Len(todo[u]) : Releases(todo[u][i], k)
        /\ (\E i \in 1 .. Len(todo[u]) : Finishes(todo[u][i], k)) => k \notin inited
    BY DEF IInv, LockInv
  <2> QED
    BY <2>1, <2>2
<1>3. CASE u = t
  <2>1. \A i \in 1 .. Len(s) : ~Releases(s[i], k) /\ ~Finishes(s[i], k)
    BY DEF Moves, Piece, Releases, Finishes
  <2>2. ~Releases(todo[t][1], k)
    BY DEF Releases
  <2>3. ASSUME NEW i \in 1 .. Len(todo'[t]), Releases(todo'[t][i], k) \/ Finishes(todo'[t][i], k)
        PROVE  \E j \in 2 .. Len(todo[t]) : todo'[t][i] = todo[t][j]
    <3>1. \A a \in 1 .. Len(s) : todo'[t][a] = s[a]
      BY <1>1, MoveSeq
    <3>2. i \notin 1 .. Len(s)
      BY <2>1, <2>3, <3>1
    <3>3. PICK j \in 2 .. Len(todo[t]) : i = j + Len(s) - 1
      BY <1>1, <3>2, MoveSeq
    <3>4. todo'[t][j + Len(s) - 1] = todo[t][j]
      BY <1>1, MoveSeq
    <3> QED
      BY <3>3, <3>4
  <2>4. \A j \in 2 .. Len(todo[t]) : j \in 1 .. Len(todo[t])
    OBVIOUS
  <2>5. ASSUME NEW j \in 1 .. Len(todo[t]), Releases(todo[t][j], k)
        PROVE  \E i \in 1 .. Len(todo'[t]) : Releases(todo'[t][i], k)
    <3>1. j # 1
      BY <2>2, <2>5
    <3>2. j \in 2 .. Len(todo[t])
      BY <1>1, <3>1, MoveSeq
    <3> QED
      BY <1>1, <2>5, <3>2, MoveSeq
  <2>6. owner[k] = t <=> \E i \in 1 .. Len(todo'[t]) : Releases(todo'[t][i], k)
    <3>1. owner[k] = t <=> \E j \in 1 .. Len(todo[t]) : Releases(todo[t][j], k)
      BY <1>3 DEF IInv, LockInv
    <3>2. (\E i \in 1 .. Len(todo'[t]) : Releases(todo'[t][i], k))
            => \E j \in 1 .. Len(todo[t]) : Releases(todo[t][j], k)
      BY <2>3, <2>4
    <3> QED
      BY <2>5, <3>1, <3>2
  <2>7. ASSUME NEW i \in 1 .. Len(todo'[t]), Finishes(todo'[t][i], k)
        PROVE  k \notin inited
    <3>1. PICK j \in 2 .. Len(todo[t]) : todo'[t][i] = todo[t][j]
      BY <2>3, <2>7
    <3> QED
      BY <1>3, <2>4, <2>7, <3>1 DEF IInv, LockInv
  <2> QED
    BY <1>3, <2>6, <2>7
<1> QED
  BY <1>2, <1>3

\* What t leaves alone, as far as the others can tell.
Keeps(t) ==
    /\ \A u \in Thread \ {t} : /\ ret'[u] = ret[u] /\ cache'[u] = cache[u]
                               /\ owner'[GDl] = u <=> owner[GDl] = u
    /\ Symbols \in inited => Symbols \in inited' /\ (mutexSym' => mutexSym)
    /\ mutexSym => mutexSym'
    /\ \A k \in inited \ inited' : k \in Table /\ k[2] \notin Live
    /\ \A k \in Table : Settled(k) /\ k[2] \in Live /\ owner[k] # t => Settled(k)'

LEMMA UsesAreLive ==
    ASSUME IInv, NEW u \in Thread, NEW i \in 1 .. Len(todo[u]), NEW k \in Table,
           OnKey(todo[u][i]), todo[u][i].key = k
    PROVE  k[2] \in Live
<1>1. k[2] \in Handle
  BY DEF Table
<1>2. k[2] \in UsedBy(u)
  BY <1>1 DEF UsedBy, On
<1> QED
  BY <1>2 DEF IInv, UseInv, OwnInv, Own

LEMMA OthersReady ==
    ASSUME IInv, NEW t \in Thread, Keeps(t), UNCHANGED device,
           NEW u \in Thread \ {t}, todo[u] # <<>>, NEW y, y = todo[u][1]
    PROVE  Ready(u, y)'
<1>1. Api' = Api
  BY DEF Api
<1>2. Ready(u, y)
  BY DEF IInv, NextInv
<1>3. Len(todo[u]) \in Nat \ {0} /\ y \in Steps /\ 1 \in 1 .. Len(todo[u])
  BY DEF IInv, TypeInv, DataTypes
<1>4. ret'[u] = ret[u] /\ (owner'[GDl] = u <=> owner[GDl] = u)
  BY DEF Keeps
<1>5. ASSUME OnKey(y), y.key \in inited
      PROVE  y.key \in inited'
  BY <1>3, <1>5, UsesAreLive DEF Keeps
<1>6. ASSUME y.op = "done", y.key \in Table
      PROVE  Settled(y.key)'
  <2>1. OnKey(y) /\ Finishes(y, y.key) /\ Settled(y.key)
    BY <1>2, <1>6 DEF OnKey, Finishes, Ready
  <2>2. y.key[2] \in Live
    BY <1>3, <1>6, <2>1, UsesAreLive
  <2>3. Orderly(Api, todo[u])
    BY DEF IInv, ListInv
  <2>4. 1 + 1 \in 1 .. Len(todo[u]) /\ Releases(todo[u][1 + 1], y.key)
    BY <1>3, <2>1, <2>3, DoneThenUnlock
  <2>5. owner[y.key] = u
    BY <1>6, <2>4 DEF IInv, LockInv, Key
  <2> QED
    BY <1>6, <2>1, <2>2, <2>5 DEF Keeps
<1>7. y.op \in {"unlock", "take"} => y.key \in inited'
  BY <1>2, <1>5 DEF Ready, OnKey, Asks
<1>8. Symbols \in inited => Symbols \in inited' /\ (mutexSym' => mutexSym)
  BY DEF Keeps
<1> QED
  BY <1>1, <1>2, <1>4, <1>6, <1>7, <1>8 DEF Ready

LEMMA OpensReady ==
    ASSUME NEW t, NEW y, Opens(Api, y)
    PROVE  Ready(t, y)
BY DEF Opens, Ready, InLinker, AwaitsFile, AwaitsLinker, Awaits, Guarded

\* What is next for t, if its step puts nothing before it.
LEMMA MoveSecond ==
    ASSUME IInv, NEW t, Replaces(t, <<>>), todo'[t] # <<>>
    PROVE  todo'[t][1] \in Steps /\ Before(Api, todo[t][1], todo'[t][1])
<1>1. TypeInv /\ Orderly(Api, todo[t])
  BY DEF IInv, ListInv, Replaces
<1>2. todo'[t] = Tail(todo[t]) /\ todo[t] \in Seq(Steps) /\ todo[t] # <<>>
  <2>1. todo'[t] = <<>> \o Tail(todo[t]) /\ todo[t] \in Seq(Steps) /\ todo[t] # <<>>
    BY <1>1, MoveSeq DEF Replaces
  <2> QED
    BY <2>1
<1>3. 1 \in 1 .. Len(todo[t]) - 1 /\ todo'[t][1] = todo[t][1 + 1]
  BY <1>2
<1>4. todo[t][1 + 1] \in Steps
  BY <1>2, <1>3
<1> QED
  BY <1>1, <1>3, <1>4 DEF Orderly, InOrder

LEMMA MoveNext ==
    ASSUME IInv, NEW t, NEW s, Replaces(t, s), Keeps(t),
           s # <<>> => Ready(t, s[1])',
           s = <<>> => \A y \in Steps : Before(Api, todo[t][1], y) => Ready(t, y)'
    PROVE  NextInv'
<1> SUFFICES ASSUME NEW u \in Thread, todo'[u] # <<>> PROVE Ready(u, todo[u][1])'
  BY DEF NextInv
<1>1. CASE u = t
  <2>1. CASE s = <<>>
    <3>1. todo'[t][1] \in Steps /\ Before(Api, todo[t][1], todo'[t][1])
      BY <1>1, <2>1, MoveSecond
    <3> QED
      BY <1>1, <2>1, <3>1 DEF Ready
  <2>2. CASE s # <<>>
    <3>1. 1 \in 1 .. Len(s)
      BY <2>2, MoveSeq DEF IInv
    <3>2. todo'[t][1] = s[1]
      BY <3>1, MoveSeq DEF IInv
    <3> QED
      BY <1>1, <2>2, <3>2 DEF Ready
  <2> QED
    BY <2>1, <2>2
<1>2. CASE u # t
  <2>1. todo'[u] = todo[u]
    BY <1>2, MoveSeq DEF IInv
  <2>2. PICK y : y = todo[u][1]
    OBVIOUS
  <2>3. t \in Thread /\ u \in Thread \ {t} /\ todo[u] # <<>> /\ UNCHANGED device
    BY <1>2, <2>1 DEF Replaces
  <2>4. Ready(u, y)'
    BY <2>2, <2>3, OthersReady
  <2> QED
    BY <2>1, <2>2, <2>4 DEF Ready
<1> QED
  BY <1>1, <1>2

LEMMA MoveLinker ==
    ASSUME IInv, NEW t, NEW s, Replaces(t, s), Keeps(t),
           owner'[GDl] = t => mutexSym' /\ todo'[t] # <<>> /\ InLinker(Api, todo'[t][1])
    PROVE  LinkerInv'
<1> SUFFICES ASSUME NEW u \in Thread, owner'[GDl] = u
             PROVE  mutexSym' /\ todo'[u] # <<>> /\ InLinker(Api', todo'[u][1])
  BY DEF LinkerInv
<1>1. Api' = Api
  BY DEF Replaces, Api
<1>2. CASE u # t
  <2>1. todo'[u] = todo[u] /\ owner[GDl] = u
    BY <1>2, MoveSeq DEF Keeps, IInv
  <2>2. mutexSym /\ todo[u] # <<>> /\ InLinker(Api, todo[u][1])
    BY <2>1 DEF IInv, LinkerInv
  <2> QED
    BY <1>1, <2>1, <2>2 DEF Keeps
<1> QED
  BY <1>1, <1>2

\* A thread that is not about to use or unlock the linker has not locked it.
LEMMA MoveLinkerIdle ==
    ASSUME IInv, NEW t, NEW s, Replaces(t, s), Keeps(t),
           ~InLinker(Api, todo[t][1]), owner'[GDl] = owner[GDl]
    PROVE  LinkerInv'
<1>1. owner[GDl] # t
  BY DEF IInv, LinkerInv, Replaces
<1> QED
  BY <1>1, MoveLinker

\* The handles move between the clients, t and those that are not allocated,
\* and other threads keep what they use.
LEMMA OwnKept ==
    ASSUME IInv, NEW t \in Thread, UNCHANGED device,
           \A u \in Thread \ {t} : todo'[u] = todo[u] /\ ret'[u] = ret[u] /\ cache'[u] = cache[u],
           Own(t)' \cup given' \subseteq Own(t) \cup given \cup (Handle \ Live),
           Own(t)' \cap given' = {},
           Pending(t)' \cap Closing(t)' = {}, Pending(t)' \cap cache'[t] = {},
           Closing(t)' \cap cache'[t] = {},
           Own(t)' \cup given' \subseteq Live',
           Live \ Live' \subseteq Own(t),
           UsedBy(t)' \subseteq given' \cup cache'[t] \cup Closing(t)',
           \A u \in Thread \ {t} : UsedBy(u) \cap given \subseteq given'
    PROVE  OwnInv' /\ UseInv'
<1>1. ASSUME NEW u \in Thread \ {t}
      PROVE  /\ Pending(u)' = Pending(u) /\ Closing(u)' = Closing(u)
             /\ UsedBy(u)' = UsedBy(u) /\ cache'[u] = cache[u]
  <2>1. Api' = Api
    BY DEF Api
  <2>2. todo'[u] = todo[u] /\ ret'[u] = ret[u]
    OBVIOUS
  <2>3. Pending(u)' = Pending(u)
    BY <2>1, <2>2 DEF Pending
  <2>4. Closing(u)' = Closing(u)
    BY <2>2 DEF Closing
  <2>5. UsedBy(u)' = UsedBy(u)
    BY <2>2 DEF UsedBy
  <2> QED
    BY <2>3, <2>4, <2>5
<1>2. ASSUME NEW u \in Thread \ {t} PROVE Own(u)' = Own(u)
  BY <1>1 DEF Own
<1> DEFINE o(u) == Own(u)
<1>3. ASSUME NEW u \in Thread \ {t}
      PROVE  /\ Own(u) \subseteq Live /\ Own(u) \cap given = {} /\ Own(u) \cap Own(t) = {}
             /\ Own(u) \subseteq Handle
  BY DEF IInv, OwnInv, Live
<1>4. ASSUME NEW u \in Thread \ {t}
      PROVE  Own(u)' \subseteq Live' /\ Own(u)' \cap given' = {} /\ Own(u)' \cap Own(t)' = {}
  <2>1. Own(u)' = Own(u)
    BY <1>2
  <2>2. Own(u) \cap (Own(t) \cup given \cup (Handle \ Live)) = {}
    BY <1>3
  <2> QED
    BY <1>3, <2>1, <2>2
<1>5. ASSUME NEW u \in Thread \ {t}, NEW v \in Thread \ {t}, u # v
      PROVE  Own(u)' \cap Own(v)' = {}
  BY <1>2, <1>5 DEF IInv, OwnInv
<1>6. OwnInv'
  <2>1. given' \subseteq Live'
    OBVIOUS
  <2>2. \A u \in Thread : Own(u)' \subseteq Live' /\ Own(u)' \cap given' = {}
    BY <1>4
  <2>3. \A u, v \in Thread : u # v => Own(u)' \cap Own(v)' = {}
    BY <1>4, <1>5
  <2>4. ASSUME NEW u \in Thread
        PROVE  /\ Pending(u)' \cap Closing(u)' = {} /\ Pending(u)' \cap cache'[u] = {}
               /\ Closing(u)' \cap cache'[u] = {}
    <3>1. CASE u = t
      BY <3>1
    <3>2. CASE u # t
      BY <1>1, <3>2 DEF IInv, OwnInv
    <3> QED
      BY <3>1, <3>2
  <2> QED
    BY <2>1, <2>2, <2>3, <2>4 DEF OwnInv
<1>7. ASSUME NEW u \in Thread
      PROVE  UsedBy(u)' \subseteq given' \cup cache'[u] \cup Closing(u)'
  <2>1. CASE u = t
    BY <2>1
  <2>2. CASE u # t
    <3>1. UsedBy(u) \subseteq given \cup cache[u] \cup Closing(u)
      BY DEF IInv, UseInv
    <3>2. UsedBy(u) \cap given \subseteq given'
      BY <2>2
    <3>3. /\ UsedBy(u)' = UsedBy(u) /\ cache'[u] = cache[u] /\ Closing(u)' = Closing(u)
      BY <1>1, <2>2
    <3> QED
      BY <3>1, <3>2, <3>3
  <2> QED
    BY <2>1, <2>2
<1> QED
  BY <1>6, <1>7 DEF UseInv

\* The same of the steps after the next one.
LaterUses(t) == {g \in Handle : \E j \in 2 .. Len(todo[t]) : On(todo[t][j], g)}
LaterCloses(t) ==
    {g \in Handle : \E j \in 2 .. Len(todo[t]) : Ends(todo[t][j]) /\ On(todo[t][j], g)}

LEMMA OneHandle ==
    ASSUME NEW x \in Steps, NEW g \in Handle, On(x, g)
    PROVE  x.key \in Table
<1>1. x.key \in Key /\ x.key[2] = g
  BY StepFacts DEF On
<1>2. g # 0
  BY DEF Handle
<1> QED
  BY <1>1, <1>2 DEF Key, Once

\* Steps that are on the tables of h alone.
Local(s, h) == \A i \in 1 .. Len(s) : OnKey(s[i]) /\ s[i].key \in Table => s[i].key[2] = h

LEMMA GraftSets ==
    ASSUME IInv, NEW t, NEW s, NEW h, Replaces(t, s), Local(s, h)
    PROVE  /\ UsedBy(t)' \subseteq LaterUses(t) \cup (IF s = <<>> THEN {} ELSE {h} \cap Handle)
           /\ Closing(t)' \subseteq LaterCloses(t) \cup
                (IF \E i \in 1 .. Len(s) : Ends(s[i]) THEN {h} \cap Handle ELSE {})
           /\ LaterCloses(t) \subseteq Closing(t)'
           /\ (\E i \in 1 .. Len(s) : Ends(s[i])) /\ h \in Handle => h \in Closing(t)'
           /\ UsedBy(t) = LaterUses(t) \cup {g \in Handle : On(todo[t][1], g)}
           /\ Closing(t) = LaterCloses(t) \cup
                {g \in Handle : Ends(todo[t][1]) /\ On(todo[t][1], g)}
           /\ \A g \in Handle : Ends(todo[t][1]) /\ On(todo[t][1], g) => g \notin LaterUses(t)
           /\ LaterCloses(t) \subseteq LaterUses(t)
<1>1. TypeInv /\ Replaces(t, s) /\ Orderly(Api, todo[t])
  BY DEF IInv, ListInv, Replaces
<1>17. \A i \in 1 .. Len(todo'[t]) : \/ i \in 1 .. Len(s)
                                     \/ \E j \in 2 .. Len(todo[t]) : i = j + Len(s) - 1
  BY <1>1, MoveSeq
<1>18. /\ \A i \in 1 .. Len(todo'[t]) : i \notin 1 .. Len(s) =>
           \E j \in 2 .. Len(todo[t]) : i = j + Len(s) - 1
      /\ \A j \in 2 .. Len(todo[t]) : /\ j + Len(s) - 1 \in 1 .. Len(todo'[t])
                                      /\ todo'[t][j + Len(s) - 1] = todo[t][j]
  BY <1>1, <1>17, MoveSeq
<1>2. ASSUME NEW i \in 1 .. Len(s), NEW g \in Handle, On(s[i], g)
      PROVE  g = h
  <2>1. s[i] \in Steps
    BY <1>1, MoveSeq
  <2>2. s[i].key \in Table
    BY <1>2, <2>1, OneHandle
  <2> QED
    BY <1>2, <2>2 DEF Local, On
<1>3. ASSUME NEW i \in 1 .. Len(s), Ends(s[i])
      PROVE  On(s[i], h)
  <2>1. s[i] \in Steps /\ OnKey(s[i])
    BY <1>1, <1>3, MoveSeq DEF Ends, OnKey
  <2>2. s[i].key \in Table
    BY <1>3, <2>1, StepFacts DEF Ends
  <2> QED
    BY <2>1, <2>2 DEF Local, On
<1>4. ASSUME NEW i \in 1 .. Len(todo'[t])
      PROVE  \/ i \in 1 .. Len(s) /\ todo'[t][i] = s[i]
             \/ \E j \in 2 .. Len(todo[t]) : todo'[t][i] = todo[t][j]
  <2>1. CASE i \in 1 .. Len(s)
    BY <1>1, <2>1, MoveSeq
  <2>2. CASE i \notin 1 .. Len(s)
    <3>1. PICK j \in 2 .. Len(todo[t]) : i = j + Len(s) - 1
      BY <1>18, <2>2
    <3>2. todo'[t][j + Len(s) - 1] = todo[t][j]
      BY <1>18
    <3> QED
      BY <3>1, <3>2
  <2> QED
    BY <2>1, <2>2
<1>5. ASSUME NEW j \in 2 .. Len(todo[t])
      PROVE  \E i \in 1 .. Len(todo'[t]) : todo'[t][i] = todo[t][j]
  BY <1>18
<1>6. ASSUME NEW i \in 1 .. Len(s)
      PROVE  i \in 1 .. Len(todo'[t]) /\ todo'[t][i] = s[i] /\ s # <<>>
  BY <1>1, MoveSeq
<1>7. /\ 1 \in 1 .. Len(todo[t])
      /\ \A j \in 2 .. Len(todo[t]) : j \in 1 .. Len(todo[t]) /\ 1 < j
      /\ \A j \in 1 .. Len(todo[t]) : j = 1 \/ j \in 2 .. Len(todo[t])
  <2>1. Len(todo[t]) \in Nat \ {0}
    BY <1>1, MoveSeq
  <2> QED
    BY <2>1
<1>8. UsedBy(t)' \subseteq LaterUses(t) \cup (IF s = <<>> THEN {} ELSE {h} \cap Handle)
  BY <1>2, <1>4, <1>6 DEF UsedBy, LaterUses
<1>9. Closing(t)' \subseteq LaterCloses(t) \cup
                (IF \E i \in 1 .. Len(s) : Ends(s[i]) THEN {h} \cap Handle ELSE {})
  BY <1>2, <1>4 DEF Closing, LaterCloses
<1>10. LaterCloses(t) \subseteq Closing(t)'
  BY <1>5 DEF Closing, LaterCloses
<1>11. ASSUME NEW i \in 1 .. Len(s), Ends(s[i]), h \in Handle PROVE h \in Closing(t)'
  <2>1. i \in 1 .. Len(todo'[t]) /\ Ends(todo'[t][i]) /\ On(todo'[t][i], h)
    BY <1>3, <1>6, <1>11
  <2> QED
    BY <1>11, <2>1 DEF Closing
<1>12. UsedBy(t) = LaterUses(t) \cup {g \in Handle : On(todo[t][1], g)}
  BY <1>7 DEF UsedBy, LaterUses
<1>13. Closing(t) = LaterCloses(t) \cup {g \in Handle : Ends(todo[t][1]) /\ On(todo[t][1], g)}
  BY <1>7 DEF Closing, LaterCloses
<1>14. ASSUME NEW g \in Handle, Ends(todo[t][1]), On(todo[t][1], g), NEW j \in 2 .. Len(todo[t])
       PROVE  ~On(todo[t][j], g)
  BY <1>1, <1>7, <1>14 DEF Orderly, EndsLast, On
<1>15. \A g \in Handle : Ends(todo[t][1]) /\ On(todo[t][1], g) => g \notin LaterUses(t)
  BY <1>14 DEF LaterUses
<1>16. LaterCloses(t) \subseteq LaterUses(t)
  BY DEF LaterCloses, LaterUses
<1> QED
  BY <1>8, <1>9, <1>10, <1>11, <1>12, <1>13, <1>15, <1>16

LEMMA MoveSets ==
    ASSUME IInv, NEW t, NEW s, NEW h, Moves(t, s, h)
    PROVE  /\ UsedBy(t)' \subseteq LaterUses(t) \cup (IF s = <<>> THEN {} ELSE {h} \cap Handle)
           /\ Closing(t)' \subseteq LaterCloses(t) \cup
                (IF \E i \in 1 .. Len(s) : Ends(s[i]) THEN {h} \cap Handle ELSE {})
           /\ LaterCloses(t) \subseteq Closing(t)'
           /\ (\E i \in 1 .. Len(s) : Ends(s[i])) /\ h \in Handle => h \in Closing(t)'
           /\ UsedBy(t) = LaterUses(t) \cup {g \in Handle : On(todo[t][1], g)}
           /\ Closing(t) = LaterCloses(t) \cup
                {g \in Handle : Ends(todo[t][1]) /\ On(todo[t][1], g)}
           /\ \A g \in Handle : Ends(todo[t][1]) /\ On(todo[t][1], g) => g \notin LaterUses(t)
           /\ LaterCloses(t) \subseteq LaterUses(t)
<1>1. Replaces(t, s) /\ Local(s, h)
  BY DEF Moves, Piece, Local
<1> QED
  BY <1>1, GraftSets

LEMMA PendingSecond ==
    ASSUME IInv, NEW t, Replaces(t, <<>>), NEW P,
           \A y \in Steps : Before(Api, todo[t][1], y) /\ AwaitsFile(Api, y) /\ ret'[t] \in Handle
                              => ret'[t] \in P
    PROVE  Pending(t)' \subseteq P
<1>1. Api' = Api
  BY DEF Replaces, Api
<1>2. ASSUME NEW g \in Handle, todo'[t] # <<>>, AwaitsFile(Api, todo'[t][1]), ret'[t] = g
      PROVE  g \in P
  BY <1>2, MoveSecond
<1> QED
  BY <1>1, <1>2 DEF Pending

LEMMA PendingNone ==
    ASSUME IInv, NEW t, NEW s, Replaces(t, s), s # <<>>, ~AwaitsFile(Api, s[1])
    PROVE  Pending(t)' = {}
<1>1. Api' = Api
  BY DEF Replaces, Api
<1>2. todo'[t][1] = s[1]
  <2>1. 1 \in 1 .. Len(s)
    BY MoveSeq DEF IInv
  <2> QED
    BY <2>1, MoveSeq DEF IInv
<1> QED
  BY <1>1, <1>2 DEF Pending

\* Neither the clients' handles nor those to close change, and t is waiting
\* for no handle but a new one.
LEMMA GraftOwn ==
    ASSUME IInv, NEW t, NEW s, NEW h, Replaces(t, s), Local(s, h), Keeps(t),
           given' = given, cache' = cache, Live \subseteq Live',
           s # <<>> /\ h \in Handle => On(todo[t][1], h),
           Ends(todo[t][1]) <=> \E i \in 1 .. Len(s) : Ends(s[i]),
           Pending(t)' \subseteq Pending(t) \cup (Live' \ Live)
    PROVE  OwnInv' /\ UseInv'
<1>1. TypeInv /\ Replaces(t, s) /\ t \in Thread /\ UNCHANGED device /\ todo[t] # <<>>
  BY DEF IInv, Replaces
<1>2. todo[t][1] \in Steps /\ Len(s) \in Nat
  BY <1>1, MoveSeq
<1>3. (\E i \in 1 .. Len(s) : Ends(s[i])) => s # <<>>
  BY <1>1, MoveSeq
<1>4. Ends(todo[t][1]) => \E g \in Handle : On(todo[t][1], g)
  <2>1. ASSUME Ends(todo[t][1]) PROVE todo[t][1].key \in Table /\ OnKey(todo[t][1])
    BY <1>2, <2>1, StepFacts DEF Ends, OnKey
  <2> QED
    BY <2>1 DEF On, Table
<1> DEFINE U == LaterUses(t)
           C == LaterCloses(t)
           E == \E i \in 1 .. Len(s) : Ends(s[i])
<1>5. /\ UsedBy(t)' \subseteq U \cup (IF s = <<>> THEN {} ELSE {h} \cap Handle)
      /\ Closing(t)' \subseteq C \cup (IF E THEN {h} \cap Handle ELSE {})
      /\ C \subseteq Closing(t)'
      /\ E /\ h \in Handle => h \in Closing(t)'
      /\ UsedBy(t) = U \cup {g \in Handle : On(todo[t][1], g)}
      /\ Closing(t) = C \cup {g \in Handle : Ends(todo[t][1]) /\ On(todo[t][1], g)}
  BY GraftSets
<1>6. \A g, k \in Handle : On(todo[t][1], g) /\ On(todo[t][1], k) => g = k
  BY DEF On
<1>7. Closing(t)' = Closing(t)
  <2>1. CASE E
    <3>1. PICK g \in Handle : On(todo[t][1], g)
      BY <1>4, <2>1
    <3>2. PICK i \in 1 .. Len(s) : Ends(s[i])
      BY <2>1
    <3>3. s[i] \in Steps
      BY <1>1, <3>2, MoveSeq
    <3>4. s[i].key \in Table /\ OnKey(s[i])
      BY <3>2, <3>3, StepFacts DEF Ends, OnKey
    <3>5. h \in Handle
      BY <3>4 DEF Local, Table
    <3>6. On(todo[t][1], h)
      BY <1>3, <2>1, <3>5
    <3>7. Closing(t) = C \cup {h} /\ Closing(t)' = C \cup {h}
      BY <1>5, <1>6, <2>1, <3>5, <3>6
    <3> QED
      BY <3>7
  <2>2. CASE ~E
    <3>1. Closing(t) = C /\ Closing(t)' = C
      BY <1>5, <2>2
    <3> QED
      BY <3>1
  <2> QED
    BY <2>1, <2>2
<1>8. UsedBy(t)' \subseteq UsedBy(t)
  BY <1>5
<1>9. /\ Own(t) \subseteq Live /\ given \subseteq Live /\ Own(t) \cap given = {}
      /\ Pending(t) \cap Closing(t) = {} /\ Pending(t) \cap cache[t] = {}
      /\ Closing(t) \cap cache[t] = {}
      /\ Own(t) = Pending(t) \cup Closing(t) \cup cache[t]
      /\ UsedBy(t) \subseteq given \cup cache[t] \cup Closing(t)
  BY <1>1 DEF IInv, OwnInv, UseInv, Own
<1>10. Own(t)' = Pending(t)' \cup Closing(t) \cup cache[t]
  BY <1>7 DEF Own
<1>11. Live' \subseteq Handle
  BY DEF Live
<1>12. /\ \A u \in Thread \ {t} : todo'[u] = todo[u] /\ ret'[u] = ret[u] /\ cache'[u] = cache[u]
       /\ Own(t)' \cup given' \subseteq Own(t) \cup given \cup (Handle \ Live)
       /\ Own(t)' \cap given' = {}
       /\ Pending(t)' \cap Closing(t)' = {} /\ Pending(t)' \cap cache'[t] = {}
       /\ Closing(t)' \cap cache'[t] = {}
       /\ Own(t)' \cup given' \subseteq Live'
       /\ Live \ Live' \subseteq Own(t)
       /\ UsedBy(t)' \subseteq given' \cup cache'[t] \cup Closing(t)'
       /\ \A u \in Thread \ {t} : UsedBy(u) \cap given \subseteq given'
  <2>1. \A u \in Thread \ {t} : todo'[u] = todo[u] /\ ret'[u] = ret[u] /\ cache'[u] = cache[u]
    BY <1>1, MoveSeq DEF Keeps
  <2>2. /\ Own(t)' \cup given' \subseteq Own(t) \cup given \cup (Handle \ Live)
        /\ Own(t)' \cap given' = {}
    BY <1>9, <1>10, <1>11
  <2>3. /\ Pending(t)' \cap Closing(t)' = {} /\ Pending(t)' \cap cache'[t] = {}
        /\ Closing(t)' \cap cache'[t] = {}
    BY <1>7, <1>9
  <2>4. Own(t)' \cup given' \subseteq Live' /\ Live \ Live' \subseteq Own(t)
    BY <1>9, <1>10
  <2>5. UsedBy(t)' \subseteq given' \cup cache'[t] \cup Closing(t)'
    BY <1>7, <1>8, <1>9
  <2> QED
    BY <2>1, <2>2, <2>3, <2>4, <2>5
<1> QED
  BY <1>1, <1>12, OwnKept

LEMMA MoveOwn ==
    ASSUME IInv, NEW t, NEW s, NEW h, Moves(t, s, h), Keeps(t),
           given' = given, cache' = cache, Live \subseteq Live',
           s # <<>> /\ h \in Handle => On(todo[t][1], h),
           Ends(todo[t][1]) <=> \E i \in 1 .. Len(s) : Ends(s[i]),
           Pending(t)' \subseteq Pending(t) \cup (Live' \ Live)
    PROVE  OwnInv' /\ UseInv'
<1>1. Replaces(t, s) /\ Local(s, h)
  BY DEF Moves, Piece, Local
<1> QED
  BY <1>1, GraftOwn

LEMMA ClosingLater ==
    ASSUME IInv, NEW t, NEW s, NEW h, Moves(t, s, h), ~Ends(todo[t][1])
    PROVE  Closing(t) = LaterCloses(t)
<1>1. Closing(t) = LaterCloses(t) \cup
                {g \in Handle : Ends(todo[t][1]) /\ On(todo[t][1], g)}
  BY MoveSets
<1> QED
  BY <1>1

LEMMA PendingNever ==
    ASSUME IInv, NEW t, NEW s, Replaces(t, s), s = <<>>, ~Yields(Api, todo[t][1]),
           todo[t][1].op # "iterate"
    PROVE  Pending(t)' = {}
<1>1. ASSUME NEW y \in Steps, Before(Api, todo[t][1], y), AwaitsFile(Api, y) PROVE FALSE
  BY <1>1 DEF AwaitsFile, Before, Guarded
<1>2. Replaces(t, <<>>)
  OBVIOUS
<1>3. ASSUME NEW P PROVE Pending(t)' \subseteq P
  BY <1>1, <1>2, PendingSecond
<1>4. Pending(t)' \subseteq {}
  BY <1>3
<1> QED
  BY <1>4

-----------------------------------------------------------------------------
(***************************************************************************)
(* What a step leaves to the one after it.                                 *)
(***************************************************************************)
Leaves(t, x) ==
    /\ Asks(x) \/ x.op = "done" => x.key \in inited
    /\ x.op = "lockLinker" \/ Guarded(Api, x) =>
         Symbols \in inited /\ (mutexSym => owner[GDl] = t)
    /\ Fills(x) /\ (x.op = "read" => x.key[1] # "dynsym") => Settled(x.key)
    /\ Yields(Api, x) \/ x.op = "iterate" => ret[t] \in Handle \cup {Null}
    /\ Loads(Api, x) \/ x.op = "dlopen" => ret[t] \in {Null, LinkerHandle}

LEMMA LeavesReady ==
    ASSUME NEW t, NEW x, NEW y \in Steps, Before(Api, x, y), UNCHANGED device, Leaves(t, x)'
    PROVE  Ready(t, y)'
<1>1. Api' = Api
  BY DEF Api
<1>2. y.op = "lockLinker" => Symbols \in inited'
  BY DEF Before, Leaves
<1>3. InLinker(Api, y) => Symbols \in inited' /\ (mutexSym' => owner'[GDl] = t)
  BY <1>1 DEF Before, Leaves, InLinker
<1>4. y.op \in {"unlock", "take"} => y.key \in inited'
  BY DEF Before, Leaves
<1>5. y.op = "done" /\ y.key \in Table => Settled(y.key)'
  <2>1. ASSUME y.op = "done", y.key \in Table
        PROVE  Fills(x) /\ x.key = y.key /\ (x.op = "read" => x.key[1] # "dynsym")
    BY <2>1 DEF Before
  <2>2. ASSUME y.op = "done", y.key \in Table
        PROVE  Settled(x.key)'
    BY <2>1, <2>2 DEF Leaves
  <2>3. ASSUME NEW k, k = x.key, k = y.key, Settled(x.key)'
        PROVE  Settled(y.key)'
    BY <2>3 DEF Settled
  <2> QED
    BY <2>1, <2>2, <2>3
<1>6. AwaitsFile(Api, y) => ret'[t] \in Handle \cup {Null}
  BY <1>1 DEF AwaitsFile, Before, Leaves, Guarded
<1>7. AwaitsLinker(Api, y) => ret'[t] \in {Null, LinkerHandle}
  BY <1>1 DEF AwaitsLinker, Before, Leaves, Guarded
<1> QED
  BY <1>1, <1>2, <1>3, <1>4, <1>5, <1>6, <1>7 DEF Ready

\* The first step of a list that is put before the others relies on nothing.
LEMMA OpensLater ==
    ASSUME NEW t, NEW y, Opens(Api, y), UNCHANGED device
    PROVE  Ready(t, y)' /\ ~AwaitsFile(Api, y)
<1>1. Api' = Api
  BY DEF Api
<1> QED
  BY <1>1 DEF Opens, Ready, InLinker, AwaitsFile, AwaitsLinker, Awaits, Guarded

\* The next step of a thread.
LEMMA Begin ==
    ASSUME IInv, NEW t \in Thread, NEW op, At(t, op)
    PROVE  /\ todo[t] # <<>> /\ todo[t] \in Seq(Steps) /\ todo[t][1] = Now(t)
           /\ Now(t) \in Steps /\ Now(t).op = op /\ Ready(t, Now(t))
<1>1. todo[t] \in Seq(Steps) /\ todo[t] # <<>>
  BY DEF IInv, TypeInv, At
<1>2. todo[t][1] = Now(t) /\ todo[t][1] \in Steps
  BY <1>1 DEF Now
<1> QED
  BY <1>1, <1>2 DEF IInv, NextInv, At, Now

\* A handle that a step closes in the end is no other step's.
LEMMA MakeMove ==
    ASSUME IInv, NEW t \in Thread, NEW x, todo[t] # <<>>, x = todo[t][1],
           NEW s, NEW h, Piece(Api, x, s, h), Goes(t, s), UNCHANGED device,
           (\E i \in 1 .. Len(s) : Ends(s[i])) =>
               h \in Handle /\ ((Ends(x) /\ On(x, h)) \/ h \in Pending(t))
    PROVE  Moves(t, s, h)
<1>1. Orderly(Api, todo[t]) /\ Len(todo[t]) \in Nat \ {0}
  BY DEF IInv, ListInv, Orderly
<1>2. ASSUME \E i \in 1 .. Len(s) : Ends(s[i]), NEW j \in 2 .. Len(todo[t]), On(todo[t][j], h)
      PROVE  FALSE
  <2>1. 1 \in 1 .. Len(todo[t]) /\ j \in 1 .. Len(todo[t]) /\ 1 < j
    BY <1>1
  <2>2. CASE Ends(x) /\ On(x, h)
    BY <1>1, <1>2, <2>1, <2>2 DEF Orderly, EndsLast, On
  <2>3. CASE h \in Pending(t)
    <3>1. h \in UsedBy(t)
      BY <1>2, <2>1 DEF UsedBy
    <3> QED
      BY <2>3, <3>1 DEF IInv, UseInv, OwnInv, Own
  <2> QED
    BY <1>2, <2>2, <2>3
<1>3. Grafts(Api, todo[t], s)
  BY <1>2, PieceGrafts
<1> QED
  BY <1>3 DEF Moves, Replaces, Goes

LEMMA MoveLinkerSame ==
    ASSUME IInv, NEW t, NEW s, Replaces(t, s), Keeps(t), owner'[GDl] = owner[GDl],
           todo[t][1].op # "unlockLinker", Guarded(Api, todo[t][1]) => s = <<>>
    PROVE  LinkerInv'
<1>1. CASE ~InLinker(Api, todo[t][1])
  BY <1>1, MoveLinkerIdle
<1>2. CASE InLinker(Api, todo[t][1])
  <2>1. Guarded(Api, todo[t][1]) /\ s = <<>>
    BY <1>2 DEF InLinker
  <2>2. todo'[t] # <<>>
    <3>1. Orderly(Api, todo[t]) /\ todo[t] # <<>> /\ todo[t] \in Seq(Steps)
      BY DEF IInv, ListInv, Replaces, Orderly
    <3>2. ~Final(todo[t][1])
      BY <2>1 DEF Final, Guarded
    <3>3. Len(todo[t]) # 1
      BY <3>1, <3>2 DEF Orderly
    <3>4. Len(s) = 0 /\ Len(<<>>) = 0
      BY <2>1
    <3>5. Len(todo'[t]) = Len(s) + Len(todo[t]) - 1 /\ Len(todo[t]) \in Nat \ {0}
      BY MoveSeq DEF IInv
    <3>6. Len(todo'[t]) # 0
      BY <3>3, <3>4, <3>5
    <3> QED
      BY <3>4, <3>6
  <2>3. InLinker(Api, todo'[t][1])
    <3>1. Before(Api, todo[t][1], todo'[t][1])
      BY <2>1, <2>2, MoveSecond
    <3> QED
      BY <2>1, <3>1 DEF Before, InLinker
  <2>4. owner'[GDl] = t => mutexSym'
    BY DEF IInv, LinkerInv, Keeps, Replaces
  <2> QED
    BY <2>2, <2>3, <2>4, MoveLinker
<1> QED
  BY <1>1, <1>2

\* What is left to show of a step.
LEMMA PieceMove ==
    ASSUME IInv, NEW t, NEW x, x = todo[t][1], NEW s, NEW h, Moves(t, s, h), Keeps(t),
           DataTypes', \A k \in Key : owner'[k] = owner[k], inited' \subseteq inited,
           x.op # "unlock", TableInv', LinkerInv', s = <<>> => Leaves(t, x)',
           OwnInv' /\ UseInv'
    PROVE  IInv'
<1>1. Replaces(t, s) /\ UNCHANGED device
  BY DEF Moves, Replaces
<1>2. TypeInv' /\ ListInv'
  <2>1. todo' \in [Thread -> Seq(Steps)]
    BY <1>1, MoveSeq DEF IInv
  <2> QED
    BY <1>1, <2>1, MoveList DEF TypeInv
<1>3. LockInv'
  BY MoveLock
<1>4. s # <<>> => Ready(t, s[1])'
  <2>1. ASSUME s # <<>> PROVE Opens(Api, s[1])
    BY <2>1 DEF Moves, Piece
  <2> QED
    BY <1>1, <2>1, OpensLater
<1>5. s = <<>> => \A y \in Steps : Before(Api, x, y) => Ready(t, y)'
  BY <1>1, LeavesReady
<1>6. NextInv'
  BY <1>1, <1>4, <1>5, MoveNext
<1> QED
  BY <1>2, <1>3, <1>6 DEF IInv

\* A step that changes neither locks nor tables nor handles.
LEMMA CalmMove ==
    ASSUME IInv, NEW t \in Thread, NEW x, todo[t] # <<>>, x = todo[t][1],
           NEW s, NEW h, Piece(Api, x, s, h), Goes(t, s),
           UNCHANGED <<device, owner, inited, table, handle, given, cache, mutexSym>>,
           ret' \in [Thread -> Handle \cup {Null, LinkerHandle}],
           \A u \in Thread \ {t} : ret'[u] = ret[u],
           x.op \notin {"unlock", "unlockLinker"}, Guarded(Api, x) => s = <<>>,
           s # <<>> /\ h \in Handle => On(x, h),
           Ends(x) <=> \E i \in 1 .. Len(s) : Ends(s[i]),
           s = <<>> => Leaves(t, x)',
           s = <<>> /\ (Yields(Api, x) \/ x.op = "iterate") =>
               ret'[t] = Null \/ (ret'[t] = ret[t] /\ AwaitsFile(Api, x))
    PROVE  IInv'
<1>1. (\E i \in 1 .. Len(s) : Ends(s[i])) => h \in Handle /\ Ends(x) /\ On(x, h)
  <2>1. ASSUME NEW i \in 1 .. Len(s), Ends(s[i])
        PROVE  h \in Handle /\ s # <<>>
    <3>1. s \in Seq(Steps)
      BY DEF Piece
    <3>2. s[i] \in Steps /\ s # <<>>
      BY <3>1
    <3>3. OnKey(s[i]) /\ s[i].key \in Table
      BY <2>1, <3>2, StepFacts DEF Ends, OnKey
    <3> QED
      BY <3>2, <3>3 DEF Piece, Table
  <2> QED
    BY <2>1
<1>2. Moves(t, s, h)
  BY <1>1, MakeMove
<1>3. Replaces(t, s)
  BY <1>2 DEF Moves
<1>4. DataTypes /\ TableInv
  BY DEF IInv, TypeInv
<1>5. Keeps(t)
  BY DEF Keeps, Settled
<1>6. DataTypes'
  BY <1>4 DEF DataTypes
<1>7. TableInv'
  BY <1>4 DEF TableInv, Settled
<1>8. LinkerInv'
  BY <1>3, <1>5, MoveLinkerSame
<1>9. Pending(t)' \subseteq Pending(t)
  <2>1. CASE s = <<>>
    <3>1. ASSUME NEW y \in Steps, Before(Api, x, y), AwaitsFile(Api, y), ret'[t] \in Handle
          PROVE  ret'[t] \in Pending(t)
      <4>1. Yields(Api, x) \/ x.op = "iterate"
        BY <3>1 DEF AwaitsFile, Before, Guarded
      <4>2. ret'[t] = ret[t] /\ AwaitsFile(Api, x)
        BY <2>1, <3>1, <4>1 DEF Handle, Null
      <4> QED
        BY <3>1, <4>2 DEF Pending
    <3> QED
      BY <1>3, <2>1, <3>1, PendingSecond
  <2>2. CASE s # <<>>
    <3>1. Opens(Api, s[1])
      BY <2>2 DEF Piece
    <3>2. ~AwaitsFile(Api, s[1])
      BY <3>1, OpensLater
    <3> QED
      BY <1>3, <2>2, <3>2, PendingNone
  <2> QED
    BY <2>1, <2>2
<1>10. Live' = Live
  BY DEF Live
<1>11. OwnInv' /\ UseInv'
  BY <1>2, <1>5, <1>9, <1>10, MoveOwn
<1> QED
  BY <1>2, <1>5, <1>6, <1>7, <1>8, <1>11, PieceMove

LEMMA NoEnds ==
    ASSUME NEW x, NEW s, NEW h, Piece(Api, x, s, h), h \notin Handle
    PROVE  \A i \in 1 .. Len(s) : ~Ends(s[i])
<1> SUFFICES ASSUME NEW i \in 1 .. Len(s), Ends(s[i]) PROVE FALSE
  OBVIOUS
<1>1. s[i] \in Steps
  BY DEF Piece
<1>2. OnKey(s[i]) /\ s[i].key \in Table
  BY <1>1, StepFacts DEF Ends, OnKey
<1> QED
  BY <1>2 DEF Piece, Table

\* A calm step that is on no handle.
LEMMA CalmLoading ==
    ASSUME IInv, NEW t \in Thread, NEW op, At(t, op), NEW s, Piece(Api, Now(t), s, Null), Goes(t, s),
           UNCHANGED <<device, owner, inited, table, handle, given, cache, mutexSym>>,
           ret' \in [Thread -> Handle \cup {Null, LinkerHandle}],
           \A u \in Thread \ {t} : ret'[u] = ret[u],
           op \in {"tryForce", "forceAs", "forced", "scanCallers", "dlopen", "drop",
                   "linkerFound", "lzmaFound"},
           op \in {"dlopen", "scanCallers", "drop"} => s = <<>>,
           op = "tryForce" /\ s = <<>> => ret'[t] = ret[t],
           op = "forced" /\ s = <<>> => ret'[t] = Null,
           op \in {"forceAs", "dlopen"} /\ s = <<>> => ret'[t] \in {Null, LinkerHandle}
    PROVE  IInv'
<1>1. PICK x : x = Now(t)
  OBVIOUS
<1>2. todo[t] # <<>> /\ x = todo[t][1] /\ x \in Steps /\ x.op = op /\ Ready(t, x)
  BY <1>1, Begin
<1>3. Piece(Api, x, s, Null) /\ Null \notin Handle /\ Api' = Api
  BY <1>1 DEF Null, Handle, Api
<1>4. ~Ends(x) /\ \A i \in 1 .. Len(s) : ~Ends(s[i])
  BY <1>2, <1>3, NoEnds DEF Ends
<1>5. ASSUME s = <<>> PROVE Leaves(t, x)'
  <2>1. ~Asks(x) /\ x.op # "done" /\ ~Fills(x) /\ x.op # "lockLinker" /\ x.op # "iterate"
    BY <1>2 DEF Asks, Fills
  <2>2. Guarded(Api, x) => Symbols \in inited' /\ (mutexSym' => owner'[GDl] = t)
    BY <1>2 DEF Ready, InLinker
  <2>3. Yields(Api, x) => ret'[t] \in Handle \cup {Null}
    BY <1>2, <1>5 DEF Yields, Ready, AwaitsFile, Awaits
  <2>4. Loads(Api, x) \/ x.op = "dlopen" => ret'[t] \in {Null, LinkerHandle}
    BY <1>2, <1>5 DEF Loads
  <2> QED
    BY <1>3, <2>1, <2>2, <2>3, <2>4 DEF Leaves
<1>6. Guarded(Api, x) => s = <<>>
  BY <1>2 DEF Guarded
<1>7. s = <<>> /\ (Yields(Api, x) \/ x.op = "iterate") =>
               ret'[t] = Null \/ (ret'[t] = ret[t] /\ AwaitsFile(Api, x))
  BY <1>2 DEF Yields, AwaitsFile, Awaits
<1>8. x.op \notin {"unlock", "unlockLinker"}
  BY <1>2
<1> QED
  BY <1>2, <1>3, <1>4, <1>5, <1>6, <1>7, <1>8, CalmMove

LEMMA EnsureStep ==
    ASSUME IInv, NEW t \in Thread, Ensure(t)
    PROVE  IInv'
<1>1. PICK x : x = Now(t)
  OBVIOUS
<1>2. /\ todo[t] # <<>> /\ x = todo[t][1] /\ x \in Steps /\ x.op = "ensure"
      /\ OnKey(x) /\ x.key \in Key /\ ~Ends(x) /\ ~Guarded(Api, x)
      /\ ~Yields(Api, x) /\ ~Loads(Api, x) /\ ~Fills(x)
  <2>1. todo[t] # <<>> /\ x = todo[t][1] /\ x \in Steps /\ x.op = "ensure"
    BY <1>1, Begin DEF Ensure
  <2> QED
    BY <2>1, StepFacts DEF OnKey, Asks, Ends, Guarded, Yields, Loads, Fills
<1>3. Api' = Api /\ ret \in [Thread -> Handle \cup {Null, LinkerHandle}] /\ ret' = ret
  BY DEF Ensure, Api, IInv, TypeInv, DataTypes
<1>4. UNCHANGED <<device, owner, inited, table, handle, given, cache, mutexSym>>
  BY DEF Ensure, objects, lists, pointers
<1>5. CASE x.key \in inited
  <2>1. Goes(t, <<>>) /\ Piece(Api, x, <<>>, Null)
    BY <1>1, <1>5, EmptyPiece DEF Ensure
  <2>2. Leaves(t, x)'
    BY <1>2, <1>3, <1>4, <1>5 DEF Leaves
  <2>3. \A i \in 1 .. Len(<<>>) : FALSE
    OBVIOUS
  <2> QED
    BY <1>2, <1>3, <1>4, <2>1, <2>2, <2>3, CalmMove
<1>6. CASE x.key \notin inited
  <2> DEFINE l == DoKey("lock", x.key)
  <2>1. Goes(t, <<l>>) /\ Piece(Api, x, <<l>>, x.key[2])
    BY <1>1, <1>2, <1>6, EnsurePiece DEF Ensure
  <2>2. On(x, x.key[2]) /\ ~Ends(l)
    BY <1>2 DEF On, Ends, DoKey
  <2> HIDE DEF l
  <2>3. \A i \in 1 .. Len(<<l>>) : ~Ends(<<l>>[i])
    BY <2>2
  <2>4. <<l>> # <<>>
    OBVIOUS
  <2> QED
    BY <1>2, <1>3, <1>4, <2>1, <2>2, <2>3, <2>4, CalmMove
<1> QED
  BY <1>5, <1>6

LEMMA TryForceStep ==
    ASSUME IInv, NEW t \in Thread, TryForce(t)
    PROVE  IInv'
<1>1. Now(t) \in Steps /\ Now(t).op = "tryForce"
  BY Begin DEF TryForce
<1>2. Now(t).lib \in AnyLib
  BY <1>1 DEF Steps, Do, DoLib, DoKey, Take
<1>3. PICK s : /\ Goes(t, s) /\ Piece(Api, Now(t), s, Null)
  <2>1. Piece(Api, Now(t), OpenAlways(Now(t).lib), Null)
    BY <1>1, <1>2, TryForcePiece
  <2>2. Piece(Api, Now(t), <<>>, Null)
    BY EmptyPiece
  <2> QED
    BY <2>1, <2>2 DEF TryForce
<1>4. /\ UNCHANGED <<device, owner, inited, table, handle, given, cache, mutexSym>>
      /\ ret' = ret /\ ret \in [Thread -> Handle \cup {Null, LinkerHandle}]
      /\ At(t, "tryForce")
  BY DEF TryForce, objects, lists, pointers, IInv, TypeInv, DataTypes
<1> QED
  BY <1>3, <1>4, CalmLoading

LEMMA ForceAsStep ==
    ASSUME IInv, NEW t \in Thread, ForceAs(t)
    PROVE  IInv'
<1>1. Now(t) \in Steps /\ Now(t).op = "forceAs"
  BY Begin DEF ForceAs
<1>2. Now(t).lib \in AnyLib
  BY <1>1 DEF Steps, Do, DoLib, DoKey, Take
<1>3. /\ UNCHANGED <<device, owner, inited, table, handle, given, cache, mutexSym>>
      /\ ret \in [Thread -> Handle \cup {Null, LinkerHandle}]
      /\ At(t, "forceAs")
  BY DEF ForceAs, objects, lists, pointers, IInv, TypeInv, DataTypes
<1>4. CASE ~dlopenSym
  <2>1. Goes(t, <<>>) /\ Piece(Api, Now(t), <<>>, Null)
    BY <1>4, EmptyPiece DEF ForceAs
  <2>2. ret' = [ret EXCEPT ![t] = Null]
    BY <1>4 DEF ForceAs, Returns
  <2>3. ret' \in [Thread -> Handle \cup {Null, LinkerHandle}] /\ ret'[t] = Null
        /\ \A u \in Thread \ {t} : ret'[u] = ret[u]
    BY <1>3, <2>2
  <2> QED
    BY <1>3, <2>1, <2>3, CalmLoading
<1>5. CASE dlopenSym
  <2> DEFINE s == <<DoKey("ensure", Callers)>> \o
                       IF Nougat THEN WithLinkerLock(<<DoLib("dlopen", Now(t).lib)>>)
                                 ELSE <<DoLib("dlopen", Now(t).lib)>>
  <2>1. Goes(t, s) /\ ret' = ret
    BY <1>5 DEF ForceAs
  <2>2. Piece(Api, Now(t), s, Null)
    BY <1>1, <1>2, ForceAsPiece
  <2>3. s # <<>>
    <3>1. Len(<<DoKey("ensure", Callers)>>) = 1
      OBVIOUS
    <3>2. (IF Nougat THEN WithLinkerLock(<<DoLib("dlopen", Now(t).lib)>>)
                     ELSE <<DoLib("dlopen", Now(t).lib)>>) \in Seq(Steps)
      <4>1. Now(t).lib \in AnyLib /\ Symbols \in Key
        BY <1>2 DEF Key, Once, Symbols
      <4>2. /\ DoLib("dlopen", Now(t).lib) \in Steps /\ Do("lockLinker") \in Steps
            /\ Do("unlockLinker") \in Steps /\ DoKey("ensure", Symbols) \in Steps
        BY <4>1 DEF Steps
      <4> QED
        BY <4>2 DEF WithLinkerLock
    <3>3. <<DoKey("ensure", Callers)>> \in Seq(Steps)
      BY DEF Steps, Key, Once, Callers
    <3> HIDE DEF s
    <3>4. \A a, b \in Seq(Steps) : Len(a) = 1 => a \o b # <<>>
      OBVIOUS
    <3> QED
      BY <3>1, <3>2, <3>3, <3>4 DEF s
  <2> HIDE DEF s
  <2>4. PICK z : z = s
    OBVIOUS
  <2> QED
    BY <1>3, <2>1, <2>2, <2>3, <2>4, CalmLoading
<1> QED
  BY <1>4, <1>5

LEMMA ForcedStep ==
    ASSUME IInv, NEW t \in Thread, Forced(t)
    PROVE  IInv'
<1>1. Now(t) \in Steps /\ Now(t).op = "forced"
  BY Begin DEF Forced
<1>2. Now(t).lib \in AnyLib
  BY <1>1 DEF Steps, Do, DoLib, DoKey, Take
<1>3. /\ UNCHANGED <<device, owner, inited, table, handle, given, cache, mutexSym>>
      /\ ret \in [Thread -> Handle \cup {Null, LinkerHandle}] /\ ret' = ret
      /\ At(t, "forced")
  BY DEF Forced, objects, lists, pointers, IInv, TypeInv, DataTypes
<1>4. CASE ret[t] = Null
  <2>1. Goes(t, <<>>) /\ Piece(Api, Now(t), <<>>, Null)
    BY <1>4, EmptyPiece DEF Forced
  <2> QED
    BY <1>3, <1>4, <2>1, CalmLoading
<1>5. CASE ret[t] # Null
  <2> DEFINE s == Find(Now(t).lib) \o <<DoLib("hold", Now(t).lib)>>
  <2>1. Goes(t, s) /\ Piece(Api, Now(t), s, Null)
    BY <1>1, <1>2, <1>5, ForcedPiece DEF Forced
  <2> HIDE DEF s
  <2>2. PICK z : z = s
    OBVIOUS
  <2>3. z # <<>>
    <3>1. DoLib("hold", Now(t).lib) \in Steps
      BY <1>2 DEF Steps
    <3>2. Find(Now(t).lib) \in Seq(Steps)
      <4>1. /\ Do("auxv") \in Steps /\ DoLib("iterate", Now(t).lib) \in Steps
            /\ Do("lockLinker") \in Steps
            /\ Do("unlockLinker") \in Steps /\ DoKey("ensure", Symbols) \in Steps
        BY <1>2 DEF Steps, Key, Once, Symbols
      <4> QED
        BY <4>1 DEF Find, Iterating, WithLinkerLock
    <3>3. \A a \in Seq(Steps), b \in Steps : a \o <<b>> # <<>>
      OBVIOUS
    <3> QED
      BY <2>2, <3>1, <3>2, <3>3 DEF s
  <2> QED
    BY <1>3, <2>1, <2>2, <2>3, CalmLoading
<1> QED
  BY <1>4, <1>5

LEMMA ScanCallersStep ==
    ASSUME IInv, NEW t \in Thread, ScanCallers(t)
    PROVE  IInv'
<1>1. /\ UNCHANGED <<device, owner, inited, table, handle, given, cache, mutexSym>>
      /\ ret \in [Thread -> Handle \cup {Null, LinkerHandle}] /\ ret' = ret
      /\ At(t, "scanCallers") /\ Goes(t, <<>>)
  BY DEF ScanCallers, objects, lists, pointers, IInv, TypeInv, DataTypes
<1>2. Piece(Api, Now(t), <<>>, Null)
  BY EmptyPiece
<1> QED
  BY <1>1, <1>2, CalmLoading

LEMMA DropStep ==
    ASSUME IInv, NEW t \in Thread, Drop(t)
    PROVE  IInv'
<1>1. /\ UNCHANGED <<device, owner, inited, table, handle, given, cache, mutexSym>>
      /\ ret \in [Thread -> Handle \cup {Null, LinkerHandle}] /\ ret' = ret
      /\ At(t, "drop") /\ Goes(t, <<>>)
  BY DEF Drop, objects, lists, pointers, IInv, TypeInv, DataTypes
<1>2. Piece(Api, Now(t), <<>>, Null)
  BY EmptyPiece
<1> QED
  BY <1>1, <1>2, CalmLoading

LEMMA DlopenStep ==
    ASSUME IInv, NEW t \in Thread, Dlopen(t)
    PROVE  IInv'
<1>1. /\ UNCHANGED <<device, owner, inited, table, handle, given, cache, mutexSym>>
      /\ ret \in [Thread -> Handle \cup {Null, LinkerHandle}]
      /\ At(t, "dlopen") /\ Goes(t, <<>>)
  BY DEF Dlopen, objects, lists, pointers, IInv, TypeInv, DataTypes
<1>2. Piece(Api, Now(t), <<>>, Null)
  BY EmptyPiece
<1>3. PICK r \in {Null, LinkerHandle} : ret' = [ret EXCEPT ![t] = r]
  BY DEF Dlopen, Returns
<1>4. /\ ret' \in [Thread -> Handle \cup {Null, LinkerHandle}] /\ ret'[t] = r
      /\ \A u \in Thread \ {t} : ret'[u] = ret[u]
  BY <1>1, <1>3
<1> QED
  BY <1>1, <1>2, <1>4, CalmLoading

LEMMA NoExtStep ==
    ASSUME IInv, NEW t \in Thread, NoExt(t)
    PROVE  IInv'
<1>1. PICK x : x = Now(t)
  OBVIOUS
<1>2. /\ todo[t] # <<>> /\ x = todo[t][1] /\ x \in Steps /\ x.op = "noExt"
      /\ OnKey(x) /\ x.key \in Table /\ Ends(x) /\ ~Guarded(Api, x)
  <2>1. todo[t] # <<>> /\ x = todo[t][1] /\ x \in Steps /\ x.op = "noExt"
    BY <1>1, Begin DEF NoExt
  <2> QED
    BY <2>1, StepFacts DEF OnKey, Ends, Guarded
<1>3. ret \in [Thread -> Handle \cup {Null, LinkerHandle}] /\ ret' = ret
  BY DEF NoExt, IInv, TypeInv, DataTypes
<1>4. UNCHANGED <<device, owner, inited, table, handle, given, cache, mutexSym>>
  BY DEF NoExt, objects, lists, pointers
<1> DEFINE c == DoKey("close", x.key)
           q == IF dlopenSym THEN <<>> ELSE Search(x.key, "dlopen") \o Search(x.key, "mutex")
<1>5. Piece(Api, x, q \o <<c>>, x.key[2]) /\ Goes(t, q \o <<c>>)
  BY <1>1, <1>2, NoExtPiece DEF NoExt
<1>6. c \in Steps /\ Ends(c)
  BY <1>2 DEF c, Steps, Ends, DoKey
<1>7. q \in Seq(Steps)
  <2>1. /\ DoKey("ensure", x.key) \in Steps /\ Take(x.key, "dlopen") \in Steps
        /\ Take(x.key, "mutex") \in Steps
    BY <1>2 DEF Steps, Key
  <2> QED
    BY <2>1 DEF Search
<1> HIDE DEF c, q
<1>8. PICK s : s = q \o <<c>>
  OBVIOUS
<1>9. s # <<>> /\ Len(s) \in 1 .. Len(s) /\ s[Len(s)] = c
  BY <1>6, <1>7, <1>8
<1>10. \E i \in 1 .. Len(s) : Ends(s[i])
  BY <1>6, <1>9
<1>11. On(x, x.key[2]) /\ x.op \notin {"unlock", "unlockLinker"}
  BY <1>2 DEF On
<1> QED
  BY <1>2, <1>3, <1>4, <1>5, <1>8, <1>9, <1>10, <1>11, CalmMove

\* The handle that has been found becomes one to close.
LEMMA FoundMove ==
    ASSUME IInv, NEW t \in Thread, NEW x, todo[t] # <<>>, x = todo[t][1],
           x.op \in {"linkerFound", "lzmaFound"},
           NEW h \in Handle, ret[t] = h,
           NEW s, Piece(Api, x, s, h), Goes(t, s), \E i \in 1 .. Len(s) : Ends(s[i]),
           UNCHANGED <<device, ret, owner, inited, table, handle, given, cache, mutexSym>>
    PROVE  IInv'
<1>1. h \in Pending(t)
  BY DEF Pending, AwaitsFile, Awaits
<1>2. Moves(t, s, h)
  BY <1>1, MakeMove
<1>3. Replaces(t, s) /\ DataTypes /\ TableInv
  BY <1>2 DEF Moves, IInv, TypeInv
<1>4. s # <<>>
  BY <1>3, MoveSeq DEF IInv
<1>5. Keeps(t)
  BY DEF Keeps, Settled
<1>6. DataTypes' /\ TableInv'
  BY <1>3 DEF DataTypes, TableInv, Settled
<1>7. LinkerInv'
  <2>1. ~InLinker(Api, x)
    BY DEF InLinker, Guarded
  <2> QED
    BY <1>3, <1>5, <2>1, MoveLinkerIdle
<1>8. OwnInv' /\ UseInv'
  <2>1. Pending(t)' = {}
    <3>1. Opens(Api, s[1])
      BY <1>4 DEF Piece
    <3>2. UNCHANGED device
      OBVIOUS
    <3>3. ~AwaitsFile(Api, s[1])
      BY <3>1, <3>2, OpensLater
    <3> QED
      BY <1>3, <1>4, <3>3, PendingNone
  <2> DEFINE U == LaterUses(t)
             C == LaterCloses(t)
  <2>2. /\ UsedBy(t)' \subseteq U \cup {h} /\ Closing(t)' \subseteq C \cup {h}
        /\ h \in Closing(t)' /\ C \subseteq Closing(t)'
        /\ U \subseteq UsedBy(t) /\ C \subseteq Closing(t) /\ C \subseteq U
    BY <1>2, <1>4, MoveSets
  <2>3. Closing(t) = C
    <3>1. ~Ends(todo[t][1])
      BY DEF Ends
    <3> QED
      BY <1>2, <3>1, ClosingLater
  <2>4. /\ Own(t) \subseteq Live /\ given \subseteq Live /\ Own(t) \cap given = {}
        /\ Pending(t) \cap Closing(t) = {} /\ Pending(t) \cap cache[t] = {}
        /\ Closing(t) \cap cache[t] = {}
        /\ Own(t) = Pending(t) \cup Closing(t) \cup cache[t]
        /\ UsedBy(t) \subseteq given \cup cache[t] \cup Closing(t)
    BY DEF IInv, OwnInv, UseInv, Own
  <2>5. /\ Own(t)' = Pending(t)' \cup Closing(t)' \cup cache'[t]
        /\ given' = given /\ cache'[t] = cache[t] /\ Live' = Live /\ Live \subseteq Handle
    BY DEF Own, Live
  <2> HIDE DEF U, C
  <2>6. Closing(t)' = C \cup {h}
    BY <2>2
  <2>7. \A u \in Thread \ {t} : todo'[u] = todo[u] /\ ret'[u] = ret[u] /\ cache'[u] = cache[u]
    BY <1>3, MoveSeq DEF IInv
  <2>8. /\ Own(t)' \cup given' \subseteq Own(t) \cup given \cup (Handle \ Live)
        /\ Own(t)' \cap given' = {}
        /\ Own(t)' \cup given' \subseteq Live'
        /\ Live \ Live' \subseteq Own(t)
    BY <1>1, <2>1, <2>3, <2>4, <2>5, <2>6
  <2>9. /\ Pending(t)' \cap Closing(t)' = {} /\ Pending(t)' \cap cache'[t] = {}
        /\ Closing(t)' \cap cache'[t] = {}
    BY <1>1, <2>1, <2>3, <2>4, <2>5, <2>6
  <2>10. UsedBy(t)' \subseteq given' \cup cache'[t] \cup Closing(t)'
    BY <2>2, <2>3, <2>4, <2>5, <2>6
  <2>11. \A u \in Thread \ {t} : UsedBy(u) \cap given \subseteq given'
    BY <2>5
  <2>12. UNCHANGED device
    OBVIOUS
  <2> QED
    BY <2>7, <2>8, <2>9, <2>10, <2>11, <2>12, OwnKept
<1>9. x.op # "unlock"
  OBVIOUS
<1> QED
  BY <1>2, <1>4, <1>5, <1>6, <1>7, <1>8, <1>9, PieceMove

LEMMA LzmaFoundStep ==
    ASSUME IInv, NEW t \in Thread, LzmaFound(t)
    PROVE  IInv'
<1>1. PICK x : x = Now(t)
  OBVIOUS
<1>2. /\ todo[t] # <<>> /\ x = todo[t][1] /\ x.op = "lzmaFound" /\ Ready(t, x)
  BY <1>1, Begin DEF LzmaFound
<1>3. /\ UNCHANGED <<device, ret, owner, inited, table, handle, given, cache, mutexSym>>
      /\ ret \in [Thread -> Handle \cup {Null, LinkerHandle}]
      /\ At(t, "lzmaFound")
  BY DEF LzmaFound, objects, lists, pointers, IInv, TypeInv, DataTypes
<1>4. CASE ret[t] = Null
  <2>1. Goes(t, <<>>) /\ Piece(Api, Now(t), <<>>, Null)
    BY <1>4, EmptyPiece DEF LzmaFound
  <2> QED
    BY <1>3, <2>1, CalmLoading
<1>5. CASE ret[t] # Null
  <2>1. PICK h \in Handle : ret[t] = h
    BY <1>2, <1>5 DEF Ready, AwaitsFile, Awaits
  <2> DEFINE k == <<"dynsym", h>>
             c == DoKey("close", k)
             q == Search(k, "code")
  <2>2. Goes(t, q \o <<c>>)
    BY <1>5, <2>1 DEF LzmaFound
  <2>3. Piece(Api, x, q \o <<c>>, h)
    BY <1>2, LzmaFoundPiece
  <2>4. k \in Table
    BY DEF Table
  <2> HIDE DEF k
  <2>5. Ends(c) /\ q \in Seq(Steps) /\ c \in Steps
    <3>1. DoKey("ensure", k) \in Steps /\ Take(k, "code") \in Steps /\ c \in Steps
      BY <2>4 DEF Steps, Key
    <3> QED
      BY <3>1 DEF Search, Ends, DoKey
  <2> HIDE DEF c, q
  <2>6. PICK s : s = q \o <<c>>
    OBVIOUS
  <2>7. Len(s) \in 1 .. Len(s) /\ s[Len(s)] = c
    BY <2>5, <2>6
  <2>8. \E i \in 1 .. Len(s) : Ends(s[i])
    BY <2>5, <2>7
  <2> QED
    BY <1>2, <1>3, <2>1, <2>2, <2>3, <2>6, <2>8, FoundMove
<1> QED
  BY <1>4, <1>5

LEMMA LinkerFoundStep ==
    ASSUME IInv, NEW t \in Thread, LinkerFound(t)
    PROVE  IInv'
<1>1. PICK x : x = Now(t)
  OBVIOUS
<1>2. /\ todo[t] # <<>> /\ x = todo[t][1] /\ x.op = "linkerFound" /\ Ready(t, x)
  BY <1>1, Begin DEF LinkerFound
<1>3. /\ UNCHANGED <<device, ret, owner, inited, table, handle, given, cache, mutexSym>>
      /\ ret \in [Thread -> Handle \cup {Null, LinkerHandle}]
      /\ At(t, "linkerFound")
  BY DEF LinkerFound, objects, lists, pointers, IInv, TypeInv, DataTypes
<1>4. CASE ret[t] = Null
  <2>1. Goes(t, <<>>) /\ Piece(Api, Now(t), <<>>, Null)
    BY <1>4, EmptyPiece DEF LinkerFound
  <2> QED
    BY <1>3, <2>1, CalmLoading
<1>5. CASE ret[t] # Null
  <2>1. PICK h \in Handle : ret[t] = h
    BY <1>2, <1>5 DEF Ready, AwaitsFile, Awaits
  <2> DEFINE k == <<"symtab", h>>
             d == <<"dynsym", h>>
             all == CASE Lollipop        -> Search(k, "mutex") \o <<DoKey("close", k)>>
                      [] Nougat          -> Search(k, "dlopen_ext") \o <<DoKey("noExt", k)>>
                      [] Api \in {26,27} -> Search(k, "dlopen") \o <<DoKey("close", k)>>
                      [] Api >= 28       -> Search(d, "dlopen") \o <<DoKey("close", k)>>
                      [] OTHER           -> <<DoKey("close", k)>>
  <2>2. Goes(t, all)
    BY <1>5, <2>1 DEF LinkerFound
  <2>3. Piece(Api, x, all, h)
    BY <1>2, LinkerFoundPiece
  <2>4. k \in Table /\ d \in Table
    BY DEF Table
  <2> HIDE DEF k, d
  <2>5. \E a \in Seq(Steps), c \in Steps : Ends(c) /\ all = a \o <<c>>
    <3> DEFINE c == DoKey("close", k)
               e == DoKey("noExt", k)
    <3>1. c \in Steps /\ e \in Steps /\ Ends(c) /\ Ends(e)
      BY <2>4 DEF Steps, Ends, DoKey
    <3>2. /\ Search(k, "mutex") \in Seq(Steps) /\ Search(k, "dlopen_ext") \in Seq(Steps)
          /\ Search(k, "dlopen") \in Seq(Steps) /\ Search(d, "dlopen") \in Seq(Steps)
      <4>1. \A p \in {k, d}, i \in {"mutex", "dlopen", "dlopen_ext"} :
              DoKey("ensure", p) \in Steps /\ Take(p, i) \in Steps
        BY <2>4 DEF Steps, Key
      <4> QED
        BY <4>1 DEF Search
    <3> HIDE DEF c, e
    <3>3. <<>> \in Seq(Steps) /\ <<c>> = <<>> \o <<c>>
      OBVIOUS
    <3>4. \/ all = Search(k, "mutex") \o <<c>> \/ all = Search(k, "dlopen_ext") \o <<e>>
          \/ all = Search(k, "dlopen") \o <<c>> \/ all = Search(d, "dlopen") \o <<c>>
          \/ all = <<c>>
      BY SMTT(30) DEF c, e
    <3> QED
      BY <3>1, <3>2, <3>3, <3>4
  <2> HIDE DEF all
  <2>6. PICK s : s = all
    OBVIOUS
  <2>7. \E i \in 1 .. Len(s) : Ends(s[i])
    <3>1. PICK a \in Seq(Steps), c \in Steps : Ends(c) /\ s = a \o <<c>>
      BY <2>5, <2>6
    <3>2. Len(s) \in 1 .. Len(s) /\ s[Len(s)] = c
      BY <3>1
    <3> QED
      BY <3>1, <3>2
  <2> QED
    BY <1>2, <1>3, <2>1, <2>2, <2>3, <2>6, <2>7, FoundMove
<1> QED
  BY <1>4, <1>5

-----------------------------------------------------------------------------
(***************************************************************************)
(* Finding a loaded file: a handle is allocated, or none.                  *)
(***************************************************************************)
LEMMA NotFound ==
    ASSUME IInv, NEW t \in Thread, NEW op \in {"auxv", "again", "iterate"}, At(t, op),
           NEW s, s = <<>> \/ (s = <<Do("again")>> /\ op = "auxv"), Goes(t, s),
           ret' = [ret EXCEPT ![t] = Null],
           UNCHANGED <<device, owner, inited, table, handle, given, cache, mutexSym>>
    PROVE  IInv'
<1>1. PICK x : x = Now(t)
  OBVIOUS
<1>2. todo[t] # <<>> /\ x = todo[t][1] /\ x.op = op /\ Ready(t, x)
  BY <1>1, Begin
<1>3. Piece(Api, x, s, Null) /\ Null \notin Handle
  BY <1>2, EmptyPiece, AuxvPiece DEF Null, Handle
<1>4. ~Ends(x) /\ \A i \in 1 .. Len(s) : ~Ends(s[i])
  BY <1>2, <1>3, NoEnds DEF Ends
<1>5. ret \in [Thread -> Handle \cup {Null, LinkerHandle}]
  BY DEF IInv, TypeInv, DataTypes
<1>6. /\ ret' \in [Thread -> Handle \cup {Null, LinkerHandle}] /\ ret'[t] = Null
      /\ \A u \in Thread \ {t} : ret'[u] = ret[u]
  BY <1>5
<1>7. Leaves(t, x)'
  <2>1. Api' = Api /\ ~Asks(x) /\ ~Fills(x) /\ ~Loads(Api, x)
        /\ x.op \notin {"done", "lockLinker", "dlopen"}
    BY <1>2 DEF Api, Asks, Fills, Loads
  <2>2. Guarded(Api, x) => Symbols \in inited' /\ (mutexSym' => owner'[GDl] = t)
    BY <1>2 DEF Ready, InLinker
  <2> QED
    BY <1>6, <2>1, <2>2 DEF Leaves
<1>8. Guarded(Api, x) => s = <<>>
  BY <1>2 DEF Guarded
<1>9. x.op \notin {"unlock", "unlockLinker"}
  BY <1>2
<1> QED
  BY <1>2, <1>3, <1>4, <1>6, <1>7, <1>8, <1>9, CalmMove

LEMMA Allocated ==
    ASSUME IInv, NEW t \in Thread, NEW op \in {"auxv", "again", "iterate"}, At(t, op),
           Goes(t, <<>>), NEW lib \in AnyLib, NEW h \in FreeHandles,
           handle' = [handle EXCEPT ![h] = [lib |-> lib, held |-> FALSE]],
           table' = [k \in Table |-> IF k[2] = h THEN "unloaded" ELSE table[k]],
           inited' = inited \ ({"dynsym", "symtab"} \X {h}),
           ret' = [ret EXCEPT ![t] = h],
           UNCHANGED <<device, owner, given, cache, mutexSym>>
    PROVE  IInv'
<1>1. PICK x : x = Now(t)
  OBVIOUS
<1>2. /\ todo[t] # <<>> /\ x = todo[t][1] /\ x.op = op /\ Ready(t, x)
      /\ ~Ends(x) /\ x.op \notin {"unlock", "unlockLinker"}
  <2>1. todo[t] # <<>> /\ x = todo[t][1] /\ x.op = op /\ Ready(t, x)
    BY <1>1, Begin
  <2> QED
    BY <2>1 DEF Ends
<1>3. DataTypes /\ TableInv /\ h \in Handle /\ h \notin Live
  BY DEF IInv, TypeInv, FreeHandles, Live
<1>4. Live' = Live \cup {h}
  <2>1. lib # ""
    BY LibAssumption DEF AnyLib, Linker
  <2>2. [lib |-> lib, held |-> FALSE] # Unused
    BY <2>1 DEF Unused
  <2>3. /\ handle'[h] = [lib |-> lib, held |-> FALSE]
        /\ \A g \in Handle \ {h} : handle'[g] = handle[g]
    BY <1>3 DEF DataTypes
  <2> QED
    BY <1>3, <2>2, <2>3 DEF Live
<1>5. \A k \in Table : /\ k[2] # h => table'[k] = table[k] /\ (k \in inited <=> k \in inited')
                       /\ k[2] = h => k \notin inited'
  <2>1. \A k \in Table : k \in ({"dynsym", "symtab"} \X {h}) <=> k[2] = h
    BY DEF Table
  <2> QED
    BY <2>1
<1>6. \A k \in Key : k \notin Table => (k \in inited <=> k \in inited')
  <2>1. ({"dynsym", "symtab"} \X {h}) \subseteq Table
    BY <1>3 DEF Table
  <2> QED
    BY <2>1
<1>7. Keeps(t)
  <2>1. \A u \in Thread \ {t} : ret'[u] = ret[u]
    BY <1>3 DEF DataTypes
  <2>2. Symbols \in Key /\ Symbols \notin Table
    BY DEF Symbols, Key, Once, Table
  <2>3. \A k \in inited \ inited' : k \in Table /\ k[2] \notin Live
    BY <1>3, <1>5, <1>6 DEF DataTypes
  <2>4. \A k \in Table : Settled(k) /\ k[2] \in Live => Settled(k)'
    BY <1>3, <1>5 DEF Settled
  <2> QED
    BY <1>6, <2>1, <2>2, <2>3, <2>4 DEF Keeps
<1>8. DataTypes'
  <2>1. handle' \in [Handle -> [lib : AnyLib, held : BOOLEAN] \cup {Unused}]
    BY <1>3 DEF DataTypes
  <2>2. table' \in [Table -> {"unloaded", "reading", "whole", "missing"}]
    BY <1>3 DEF DataTypes
  <2>3. inited' \subseteq Key /\ ret' \in [Thread -> Handle \cup {Null, LinkerHandle}]
    BY <1>3 DEF DataTypes
  <2> QED
    BY <1>3, <2>1, <2>2, <2>3 DEF DataTypes
<1>9. TableInv'
  <2>1. ASSUME NEW k \in Table, k \in inited' PROVE table'[k] \in {"whole", "missing"}
    BY <1>3, <1>5, <2>1 DEF TableInv, Settled
  <2> QED
    BY <2>1 DEF TableInv, Settled
<1>10. Piece(Api, x, <<>>, Null) /\ \A i \in 1 .. Len(<<>>) : FALSE
  BY EmptyPiece
<1>11. Moves(t, <<>>, Null)
  BY <1>2, <1>10, MakeMove
<1>12. Replaces(t, <<>>)
  BY <1>11 DEF Moves
<1>13. LinkerInv'
  BY <1>2, <1>7, <1>12, MoveLinkerSame
<1>14. ret'[t] = h
  BY <1>3 DEF DataTypes
<1>15. Leaves(t, x)'
  <2>1. Api' = Api /\ ~Asks(x) /\ ~Fills(x) /\ ~Loads(Api, x)
        /\ x.op \notin {"done", "lockLinker", "dlopen"}
    BY <1>2 DEF Api, Asks, Fills, Loads
  <2>2. Guarded(Api, x) => Symbols \in inited' /\ (mutexSym' => owner'[GDl] = t)
    BY <1>2, <1>7 DEF Ready, InLinker, Keeps
  <2> QED
    BY <1>3, <1>14, <2>1, <2>2 DEF Leaves
<1>16. Pending(t)' \subseteq {h}
  BY <1>12, <1>14, PendingSecond
<1>17. OwnInv' /\ UseInv'
  <2>1. Pending(t)' \subseteq Pending(t) \cup (Live' \ Live) /\ Live \subseteq Live'
    BY <1>3, <1>4, <1>16
  <2>2. UNCHANGED <<given, cache>>
    OBVIOUS
  <2> QED
    BY <1>2, <1>7, <1>10, <1>11, <2>1, <2>2, MoveOwn
<1>18. inited' \subseteq inited /\ \A k \in Key : owner'[k] = owner[k]
  OBVIOUS
<1> QED
  BY <1>2, <1>7, <1>8, <1>9, <1>11, <1>13, <1>15, <1>17, <1>18, PieceMove

LEMMA LeastFree ==
    ASSUME FreeHandles # {}
    PROVE  (CHOOSE h \in FreeHandles : \A g \in FreeHandles : h <= g) \in FreeHandles
<1>1. FreeHandles \subseteq Nat
  BY BoundAssumption DEF FreeHandles, Handle
<1>2. \E h \in FreeHandles : \A g \in FreeHandles : h <= g
  BY <1>1, MinExists
<1> QED
  BY <1>2

LEMMA AllocStep ==
    ASSUME IInv, NEW t \in Thread, NEW op \in {"auxv", "again", "iterate"}, At(t, op),
           NEW lib \in AnyLib, Alloc(t, lib),
           Goes(t, IF op = "auxv" /\ FreeHandles = {} THEN <<Do("again")>> ELSE <<>>),
           UNCHANGED <<device, owner, given, cache, mutexSym>>
    PROVE  IInv'
<1>1. CASE FreeHandles = {}
  <2>1. ret' = [ret EXCEPT ![t] = Null] /\ UNCHANGED <<handle, table, inited>>
    BY <1>1 DEF Alloc, Returns
  <2>2. PICK s : s = IF op = "auxv" /\ FreeHandles = {} THEN <<Do("again")>> ELSE <<>>
    OBVIOUS
  <2> QED
    BY <1>1, <2>1, <2>2, NotFound
<1>2. CASE FreeHandles # {}
  <2>1. PICK h \in FreeHandles : h = CHOOSE i \in FreeHandles : \A g \in FreeHandles : i <= g
    BY <1>2, LeastFree
  <2>2. /\ handle' = [handle EXCEPT ![h] = [lib |-> lib, held |-> FALSE]]
        /\ table' = [k \in Table |-> IF k[2] = h THEN "unloaded" ELSE table[k]]
        /\ inited' = inited \ ({"dynsym", "symtab"} \X {h})
        /\ ret' = [ret EXCEPT ![t] = h]
    BY <1>2, <2>1 DEF Alloc, Returns
  <2>3. Goes(t, <<>>)
    BY <1>2
  <2> QED
    BY <2>1, <2>2, <2>3, Allocated
<1> QED
  BY <1>1, <1>2

LEMMA FromAuxvStep ==
    ASSUME IInv, NEW t \in Thread, FromAuxv(t)
    PROVE  IInv'
BY AllocStep DEF FromAuxv, lists, pointers, AnyLib

LEMMA AgainStep ==
    ASSUME IInv, NEW t \in Thread, Again(t)
    PROVE  IInv'
BY AllocStep DEF Again, lists, pointers, AnyLib

LEMMA IterateStep ==
    ASSUME IInv, NEW t \in Thread, Iterate(t)
    PROVE  IInv'
<1>1. /\ At(t, "iterate") /\ Goes(t, <<>>)
      /\ UNCHANGED <<device, owner, given, cache, mutexSym>>
  BY DEF Iterate, lists, pointers
<1>2. Now(t) \in Steps /\ Now(t).op = "iterate"
  BY <1>1, Begin
<1>3. Now(t).lib \in AnyLib
  BY <1>2 DEF Steps, Do, DoLib, DoKey, Take
<1>4. CASE Listed(Now(t).lib)
  BY <1>1, <1>3, <1>4, AllocStep DEF Iterate
<1>5. CASE ~Listed(Now(t).lib)
  <2>1. ret' = [ret EXCEPT ![t] = Null] /\ UNCHANGED <<handle, table, inited>>
    BY <1>5 DEF Iterate, Returns
  <2> QED
    BY <1>1, <2>1, NotFound
<1> QED
  BY <1>4, <1>5

-----------------------------------------------------------------------------
(***************************************************************************)
(* Steps that are only taken off the list.                                 *)
(***************************************************************************)
LEMMA PopMoves ==
    ASSUME IInv, NEW t \in Thread, NEW x, todo[t] # <<>>, x = todo[t][1],
           Goes(t, <<>>), UNCHANGED device
    PROVE  /\ Moves(t, <<>>, Null) /\ Replaces(t, <<>>)
           /\ ~Final(x) => todo'[t] # <<>>
<1>1. Piece(Api, x, <<>>, Null) /\ \A i \in 1 .. Len(<<>>) : FALSE
  BY EmptyPiece
<1>2. Moves(t, <<>>, Null)
  BY <1>1, MakeMove
<1>3. Replaces(t, <<>>)
  BY <1>2 DEF Moves
<1>4. ASSUME ~Final(x) PROVE todo'[t] # <<>>
  <2>1. Orderly(Api, todo[t]) /\ todo[t] \in Seq(Steps)
    BY DEF IInv, ListInv, Orderly
  <2>2. Len(todo[t]) # 1
    BY <1>4, <2>1 DEF Orderly
  <2>3. Len(todo'[t]) = Len(<<>>) + Len(todo[t]) - 1 /\ Len(todo[t]) \in Nat \ {0}
    BY <1>3, MoveSeq DEF IInv
  <2>4. Len(<<>>) = 0
    OBVIOUS
  <2>5. Len(todo'[t]) # 0
    BY <2>2, <2>3, <2>4
  <2> QED
    BY <2>4, <2>5
<1> QED
  BY <1>2, <1>3, <1>4

LEMMA PopOwn ==
    ASSUME IInv, NEW t \in Thread, NEW x, todo[t] # <<>>, x = todo[t][1],
           Goes(t, <<>>), UNCHANGED <<device, given, cache>>, Keeps(t), Live' = Live,
           ~Ends(x),
           Yields(Api, x) \/ x.op = "iterate" =>
               ret'[t] = Null \/ (ret'[t] = ret[t] /\ AwaitsFile(Api, x))
    PROVE  OwnInv' /\ UseInv'
<1>1. Moves(t, <<>>, Null) /\ Replaces(t, <<>>)
  BY PopMoves
<1>2. ASSUME NEW y \in Steps, Before(Api, x, y), AwaitsFile(Api, y), ret'[t] \in Handle
      PROVE  ret'[t] \in Pending(t)
  <2>1. Yields(Api, x) \/ x.op = "iterate"
    BY <1>2 DEF AwaitsFile, Before, Guarded
  <2>2. ret'[t] = ret[t] /\ AwaitsFile(Api, x)
    BY <1>2, <2>1 DEF Handle, Null
  <2> QED
    BY <1>2, <2>2 DEF Pending
<1>3. Pending(t)' \subseteq Pending(t)
  BY <1>1, <1>2, PendingSecond
<1>4. \A i \in 1 .. Len(<<>>) : FALSE
  OBVIOUS
<1> QED
  BY <1>1, <1>3, <1>4, MoveOwn

LEMMA LinkerLockAlone ==
    ASSUME NEW k \in Key
    PROVE  k # GDl
BY DEF Key, Table, Once, GDl

LEMMA LockLinkerStep ==
    ASSUME IInv, NEW t \in Thread, LockLinker(t)
    PROVE  IInv'
<1>1. PICK x : x = Now(t)
  OBVIOUS
<1>2. /\ todo[t] # <<>> /\ x = todo[t][1] /\ x.op = "lockLinker" /\ Ready(t, x)
      /\ Goes(t, <<>>)
      /\ UNCHANGED <<device, ret, inited, table, handle, given, cache, mutexSym>>
  BY <1>1, Begin DEF LockLinker, objects, lists, pointers
<1>3. DataTypes /\ TableInv
  BY DEF IInv, TypeInv
<1>4. Moves(t, <<>>, Null) /\ Replaces(t, <<>>) /\ todo'[t] # <<>>
  BY <1>2, PopMoves DEF Final
<1>5. /\ GDl \in Lock
      /\ mutexSym => owner[GDl] = Nobody /\ owner' = [owner EXCEPT ![GDl] = t]
      /\ ~mutexSym => owner' = owner
  BY DEF LockLinker, Lock
<1>6. /\ mutexSym => owner[GDl] = Nobody /\ owner'[GDl] = t
      /\ \A k \in Key : owner'[k] = owner[k]
      /\ owner' \in [Lock -> Thread \cup {Nobody}]
      /\ ~mutexSym => owner'[GDl] = owner[GDl]
  BY <1>3, <1>5, LinkerLockAlone DEF DataTypes, Lock, Key
<1>7. Keeps(t)
  BY <1>2, <1>6, ThreadAssumption DEF Keeps, Settled
<1>8. DataTypes' /\ TableInv'
  BY <1>2, <1>3, <1>6 DEF DataTypes, TableInv, Settled
<1>9. LinkerInv'
  <2>1. owner'[GDl] = t => mutexSym'
    BY <1>2, <1>6 DEF IInv, LinkerInv
  <2>2. InLinker(Api, todo'[t][1])
    <3>1. Before(Api, x, todo'[t][1])
      BY <1>2, <1>4, MoveSecond
    <3> QED
      BY <1>2, <3>1 DEF Before, InLinker
  <2> QED
    BY <1>4, <1>7, <2>1, <2>2, MoveLinker
<1>10. Leaves(t, x)'
  <2>1. /\ ~Asks(x) /\ ~Fills(x) /\ x.op \notin {"done", "iterate", "dlopen"}
        /\ Api' = Api /\ ~Loads(Api, x) /\ ~Yields(Api, x)
    BY <1>2 DEF Asks, Fills, Loads, Yields, Api
  <2>2. Symbols \in inited' /\ (mutexSym' => owner'[GDl] = t)
    BY <1>2, <1>6 DEF Ready
  <2> QED
    BY <2>1, <2>2 DEF Leaves
<1>11. OwnInv' /\ UseInv'
  <2>1. Live' = Live /\ ~Ends(x) /\ ~Yields(Api, x) /\ x.op # "iterate"
    BY <1>2 DEF Live, Ends, Yields
  <2> QED
    BY <1>2, <1>7, <2>1, PopOwn
<1> QED
  BY <1>2, <1>4, <1>6, <1>7, <1>8, <1>9, <1>10, <1>11, PieceMove

LEMMA UnlockLinkerStep ==
    ASSUME IInv, NEW t \in Thread, UnlockLinker(t)
    PROVE  IInv'
<1>1. PICK x : x = Now(t)
  OBVIOUS
<1>2. /\ todo[t] # <<>> /\ x = todo[t][1] /\ x.op = "unlockLinker" /\ Ready(t, x)
      /\ Goes(t, <<>>)
      /\ UNCHANGED <<device, ret, inited, table, handle, given, cache, mutexSym>>
  BY <1>1, Begin DEF UnlockLinker, objects, lists, pointers
<1>3. DataTypes /\ TableInv
  BY DEF IInv, TypeInv
<1>4. Moves(t, <<>>, Null) /\ Replaces(t, <<>>)
  BY <1>2, PopMoves
<1>5. /\ GDl \in Lock
      /\ mutexSym => owner[GDl] = t /\ owner' = [owner EXCEPT ![GDl] = Nobody]
      /\ ~mutexSym => owner' = owner
  BY <1>2 DEF UnlockLinker, Lock, Ready, InLinker
<1>6. /\ mutexSym => owner[GDl] = t /\ owner'[GDl] = Nobody
      /\ \A k \in Key : owner'[k] = owner[k]
      /\ owner' \in [Lock -> Thread \cup {Nobody}]
      /\ ~mutexSym => owner'[GDl] = owner[GDl]
  BY <1>3, <1>5, LinkerLockAlone DEF DataTypes, Lock, Key
<1>7. Keeps(t)
  BY <1>2, <1>6, ThreadAssumption DEF Keeps, Settled
<1>8. DataTypes' /\ TableInv'
  BY <1>2, <1>3, <1>6 DEF DataTypes, TableInv, Settled
<1>9. LinkerInv'
  <2>1. owner'[GDl] # t
    BY <1>6, ThreadAssumption DEF IInv, LinkerInv
  <2> QED
    BY <1>4, <1>7, <2>1, MoveLinker
<1>10. Leaves(t, x)'
  <2>1. /\ ~Asks(x) /\ ~Fills(x) /\ ~Guarded(Api, x)
        /\ x.op \notin {"done", "iterate", "dlopen", "lockLinker"} /\ Api' = Api
    BY <1>2 DEF Asks, Fills, Api, Guarded
  <2>2. Yields(Api, x) => ret'[t] \in Handle \cup {Null}
    BY <1>2 DEF Ready, AwaitsFile, Yields
  <2>3. Loads(Api, x) => ret'[t] \in {Null, LinkerHandle}
    BY <1>2 DEF Ready, AwaitsLinker, Loads
  <2> QED
    BY <2>1, <2>2, <2>3 DEF Leaves
<1>11. OwnInv' /\ UseInv'
  <2>1. Live' = Live /\ ~Ends(x) /\ x.op # "iterate"
    BY <1>2 DEF Live, Ends
  <2>2. Yields(Api, x) => ret'[t] = ret[t] /\ AwaitsFile(Api, x)
    BY <1>2 DEF Yields, AwaitsFile
  <2> QED
    BY <1>2, <1>7, <2>1, <2>2, PopOwn
<1> QED
  BY <1>2, <1>4, <1>6, <1>7, <1>8, <1>9, <1>10, <1>11, PieceMove

LEMMA TakeItStep ==
    ASSUME IInv, NEW t \in Thread, TakeIt(t)
    PROVE  IInv'
<1>1. PICK x : x = Now(t)
  OBVIOUS
<1>2. /\ todo[t] # <<>> /\ x = todo[t][1] /\ x.op = "take"
      /\ Goes(t, <<>>)
      /\ UNCHANGED <<device, ret, owner, inited, table, handle, given, cache>>
  BY <1>1, Begin DEF TakeIt, objects, lists
<1>3. DataTypes /\ TableInv
  BY DEF IInv, TypeInv
<1>4. Moves(t, <<>>, Null) /\ Replaces(t, <<>>)
  BY <1>2, PopMoves
<1>5. mutexSym' \in BOOLEAN /\ (mutexSym => mutexSym')
  BY DEF TakeIt
<1>6. ASSUME mutexSym' # mutexSym PROVE Symbols \notin inited
  <2>1. x.into = "mutex"
    BY <1>1, <1>3, <1>6 DEF TakeIt, DataTypes
  <2>2. PartOf(x, Symbols) /\ Symbols \in Key
    BY <1>2, <2>1 DEF PartOf, Symbols, Key, Once
  <2> QED
    BY <1>2, <2>2, PartIsLoading
<1>7. Keeps(t)
  BY <1>2, <1>5, <1>6 DEF Keeps, Settled
<1>8. DataTypes' /\ TableInv'
  BY <1>2, <1>3, <1>5 DEF DataTypes, TableInv, Settled
<1>9. LinkerInv'
  BY <1>2, <1>4, <1>7, MoveLinkerSame DEF Guarded
<1>10. Leaves(t, x)'
  <2>1. /\ ~Asks(x) /\ ~Fills(x) /\ ~Guarded(Api, x)
        /\ x.op \notin {"done", "iterate", "dlopen", "lockLinker"} /\ Api' = Api
        /\ ~Yields(Api, x) /\ ~Loads(Api, x)
    BY <1>2 DEF Asks, Fills, Api, Guarded, Yields, Loads
  <2> QED
    BY <2>1 DEF Leaves
<1>11. OwnInv' /\ UseInv'
  <2>1. Live' = Live /\ ~Ends(x) /\ ~Yields(Api, x) /\ x.op # "iterate"
    BY <1>2 DEF Live, Ends, Yields
  <2> QED
    BY <1>2, <1>7, <2>1, PopOwn
<1> QED
  BY <1>2, <1>4, <1>7, <1>8, <1>9, <1>10, <1>11, PieceMove

\* A table is written to by the thread that is loading it.
LEMMA FillMove ==
    ASSUME IInv, NEW t \in Thread, NEW x, todo[t] # <<>>, x = todo[t][1], x \in Steps, Fills(x),
           NEW s, Piece(Api, x, s, x.key[2]), \A i \in 1 .. Len(s) : ~Ends(s[i]), Goes(t, s),
           NEW v \in {"reading", "whole", "missing"}, table' = [table EXCEPT ![x.key] = v],
           s = <<>> /\ (x.op = "read" => x.key[1] # "dynsym") => v \in {"whole", "missing"},
           UNCHANGED <<device, ret, owner, inited, handle, given, cache, mutexSym>>
    PROVE  IInv'
<1>1. /\ x.key \in Table /\ OnKey(x) /\ ~Ends(x) /\ On(x, x.key[2])
      /\ x.op \notin {"unlock", "unlockLinker", "done", "iterate", "dlopen", "lockLinker"}
      /\ ~Guarded(Api, x) /\ ~Yields(Api, x) /\ ~Loads(Api, x) /\ ~Asks(x)
  BY StepFacts DEF Fills, OnKey, Ends, On, Guarded, Yields, Loads, Asks
<1>2. x.key \notin inited /\ owner[x.key] = t
  <2>1. PartOf(x, x.key) /\ x.key \in Key
    BY <1>1 DEF PartOf, Key
  <2> QED
    BY <2>1, PartIsLoading
<1>3. DataTypes /\ TableInv
  BY DEF IInv, TypeInv
<1>4. table'[x.key] = v /\ \A k \in Table \ {x.key} : table'[k] = table[k]
  BY <1>1, <1>3 DEF DataTypes
<1>5. Moves(t, s, x.key[2])
  BY MakeMove
<1>6. Replaces(t, s)
  BY <1>5 DEF Moves
<1>7. Keeps(t)
  <2>1. \A k \in Table : Settled(k) /\ owner[k] # t => Settled(k)'
    BY <1>2, <1>4 DEF Settled
  <2> QED
    BY <2>1 DEF Keeps
<1>8. DataTypes'
  <2>1. table' \in [Table -> {"unloaded", "reading", "whole", "missing"}]
    BY <1>1, <1>3 DEF DataTypes
  <2> QED
    BY <1>3, <2>1 DEF DataTypes
<1>9. TableInv'
  <2>1. ASSUME NEW k \in Table, k \in inited' PROVE table'[k] \in {"whole", "missing"}
    BY <1>2, <1>3, <1>4, <2>1 DEF TableInv, Settled
  <2> QED
    BY <2>1 DEF TableInv, Settled
<1>10. LinkerInv'
  BY <1>1, <1>6, <1>7, MoveLinkerSame
<1>11. ASSUME s = <<>> PROVE Leaves(t, x)'
  <2>1. (x.op = "read" => x.key[1] # "dynsym") => Settled(x.key)'
    BY <1>4, <1>11 DEF Settled
  <2>2. Api' = Api
    BY DEF Api
  <2> QED
    BY <1>1, <2>1, <2>2 DEF Leaves
<1>12. Pending(t)' = {}
  <2>1. CASE s = <<>>
    <3>1. ASSUME NEW y \in Steps, Before(Api, x, y), AwaitsFile(Api, y) PROVE FALSE
      BY <1>1, <3>1 DEF AwaitsFile, Before
    <3>2. Pending(t)' \subseteq {}
      BY <1>6, <2>1, <3>1, PendingSecond
    <3> QED
      BY <3>2
  <2>2. CASE s # <<>>
    <3>1. Opens(Api, s[1]) /\ UNCHANGED device
      BY <2>2 DEF Piece
    <3> QED
      BY <1>6, <2>2, <3>1, OpensLater, PendingNone
  <2> QED
    BY <2>1, <2>2
<1>13. OwnInv' /\ UseInv'
  <2>1. Pending(t)' \subseteq Pending(t) \cup (Live' \ Live) /\ Live \subseteq Live'
    BY <1>12 DEF Live
  <2> QED
    BY <1>1, <1>5, <1>7, <2>1, MoveOwn
<1> QED
  BY <1>1, <1>5, <1>7, <1>8, <1>9, <1>10, <1>11, <1>13, PieceMove

LEMMA FillSteps ==
    ASSUME IInv, NEW t \in Thread, NEW op \in {"read", "whole", "unpack"}, At(t, op),
           NEW x, x = Now(t)
    PROVE  /\ todo[t] # <<>> /\ x = todo[t][1] /\ x \in Steps /\ Fills(x) /\ x.op = op
           /\ x.key \in Table
           /\ Piece(Api, x, <<>>, x.key[2]) /\ \A i \in 1 .. Len(<<>>) : ~Ends(<<>>[i])
<1>1. todo[t] # <<>> /\ x = todo[t][1] /\ x \in Steps /\ x.op = op
  BY Begin
<1>2. Fills(x)
  BY <1>1 DEF Fills
<1>3. Piece(Api, x, <<>>, x.key[2]) /\ \A i \in 1 .. Len(<<>>) : FALSE
  BY EmptyPiece
<1> QED
  BY <1>1, <1>2, <1>3, StepFacts

LEMMA WholeStep ==
    ASSUME IInv, NEW t \in Thread, Whole(t)
    PROVE  IInv'
<1>1. PICK x : x = Now(t)
  OBVIOUS
<1>2. /\ Goes(t, <<>>) /\ table' = [table EXCEPT ![x.key] = "whole"]
      /\ UNCHANGED <<device, ret, owner, inited, handle, given, cache, mutexSym>>
  BY <1>1 DEF Whole, lists, pointers
<1>3. At(t, "whole")
  BY DEF Whole
<1> QED
  BY <1>1, <1>2, <1>3, FillSteps, FillMove

LEMMA UnpackStep ==
    ASSUME IInv, NEW t \in Thread, Unpack(t)
    PROVE  IInv'
<1>1. PICK x : x = Now(t)
  OBVIOUS
<1>2. /\ Goes(t, <<>>)
      /\ UNCHANGED <<device, ret, owner, inited, handle, given, cache, mutexSym>>
  BY DEF Unpack, lists, pointers
<1>3. PICK v \in {"whole", "missing"} : table' = [table EXCEPT ![x.key] = v]
  BY <1>1 DEF Unpack, Unpacked
<1>4. At(t, "unpack")
  BY DEF Unpack
<1> QED
  BY <1>1, <1>2, <1>3, <1>4, FillSteps, FillMove

LEMMA ReadStep ==
    ASSUME IInv, NEW t \in Thread, Read(t)
    PROVE  IInv'
<1>1. PICK x : x = Now(t)
  OBVIOUS
<1>2. /\ UNCHANGED <<device, ret, owner, inited, handle, given, cache, mutexSym>>
      /\ At(t, "read")
  BY DEF Read, lists, pointers
<1>3. /\ todo[t] # <<>> /\ x = todo[t][1] /\ x \in Steps /\ Fills(x) /\ x.op = "read"
      /\ x.key \in Table
      /\ Piece(Api, x, <<>>, x.key[2]) /\ \A i \in 1 .. Len(<<>>) : ~Ends(<<>>[i])
  BY <1>1, <1>2, FillSteps
<1> DEFINE where == device.symtab[handle[x.key[2]].lib]
<1>4. CASE x.key[1] = "symtab" /\ where = "none"
  <2>1. table' = [table EXCEPT ![x.key] = "missing"] /\ Goes(t, <<>>)
    BY <1>1, <1>4 DEF Read
  <2> QED
    BY <1>2, <1>3, <2>1, FillMove
<1>5. CASE ~(x.key[1] = "symtab" /\ where = "none")
  <2>1. table' = [table EXCEPT ![x.key] = "reading"]
    BY <1>1, <1>5 DEF Read
  <2>2. CASE x.key[1] = "dynsym"
    <3>1. Goes(t, <<>>)
      BY <1>1, <1>5, <2>2 DEF Read
    <3> QED
      BY <1>2, <1>3, <2>1, <2>2, <3>1, FillMove
  <2>3. CASE x.key[1] = "symtab"
    <3> DEFINE e == DoKey("ensure", Unpacker)
               u == DoKey("unpack", x.key)
               w == DoKey("whole", x.key)
    <3>1. Goes(t, <<e, u>>) \/ Goes(t, <<w>>)
      BY <1>1, <1>5, <2>3 DEF Read
    <3>2. Piece(Api, x, <<e, u>>, x.key[2]) /\ Piece(Api, x, <<w>>, x.key[2])
      BY <1>3, <2>3, ReadPiece
    <3>3. ~Ends(e) /\ ~Ends(u) /\ ~Ends(w)
      BY DEF Ends, DoKey
    <3> HIDE DEF e, u, w
    <3>4. /\ \A i \in 1 .. Len(<<e, u>>) : ~Ends(<<e, u>>[i])
          /\ \A i \in 1 .. Len(<<w>>) : ~Ends(<<w>>[i])
          /\ <<e, u>> # <<>> /\ <<w>> # <<>>
      BY <3>3
    <3>5. PICK s : /\ Goes(t, s) /\ Piece(Api, x, s, x.key[2]) /\ s # <<>>
                   /\ \A i \in 1 .. Len(s) : ~Ends(s[i])
      BY <3>1, <3>2, <3>4
    <3> QED
      BY <1>2, <1>3, <2>1, <3>5, FillMove
  <2>4. x.key[1] \in {"dynsym", "symtab"}
    BY <1>3 DEF Table
  <2> QED
    BY <2>2, <2>3, <2>4
<1> QED
  BY <1>4, <1>5

LEMMA HoldStep ==
    ASSUME IInv, NEW t \in Thread, Hold(t)
    PROVE  IInv'
<1>1. PICK x : x = Now(t)
  OBVIOUS
<1>2. /\ todo[t] # <<>> /\ x = todo[t][1] /\ x.op = "hold" /\ Ready(t, x)
      /\ Goes(t, <<>>)
      /\ UNCHANGED <<device, ret, owner, inited, table, given, cache, mutexSym>>
  BY <1>1, Begin DEF Hold, lists, pointers
<1>3. DataTypes /\ TableInv
  BY DEF IInv, TypeInv
<1>4. Moves(t, <<>>, Null) /\ Replaces(t, <<>>)
  BY <1>2, PopMoves
<1>5. AwaitsFile(Api, x) /\ ret[t] \in Handle \cup {Null}
  BY <1>2 DEF Ready, AwaitsFile, Awaits
<1>6. Live' = Live /\ handle' \in [Handle -> [lib : AnyLib, held : BOOLEAN] \cup {Unused}]
  <2>1. CASE ret[t] = Null
    BY <1>3, <2>1 DEF Hold, Live, DataTypes
  <2>2. CASE ret[t] # Null
    <3>1. PICK h \in Handle : ret[t] = h
      BY <1>5, <2>2
    <3>2. h \in Pending(t)
      BY <1>2, <1>5, <3>1 DEF Pending
    <3>3. h \in Live
      BY <3>2 DEF IInv, OwnInv, Own
    <3>4. handle[h] \in [lib : AnyLib, held : BOOLEAN]
      BY <1>3, <3>1, <3>3 DEF DataTypes, Live
    <3>5. handle' = [handle EXCEPT ![h] = [@ EXCEPT !.held = TRUE]]
      BY <2>2, <3>1 DEF Hold
    <3>6. /\ handle'[h] = [handle[h] EXCEPT !.held = TRUE]
          /\ \A g \in Handle \ {h} : handle'[g] = handle[g]
          /\ [handle[h] EXCEPT !.held = TRUE] \in [lib : AnyLib, held : BOOLEAN]
      BY <1>3, <3>1, <3>4, <3>5 DEF DataTypes
    <3>7. Unused \notin [lib : AnyLib, held : BOOLEAN]
      BY LibAssumption DEF Unused, AnyLib, Linker
    <3>8. Live' = Live
      BY <3>3, <3>6, <3>7 DEF Live
    <3>9. handle' \in [Handle -> [lib : AnyLib, held : BOOLEAN] \cup {Unused}]
      BY <1>3, <3>1, <3>5, <3>6 DEF DataTypes
    <3> QED
      BY <3>8, <3>9
  <2> QED
    BY <2>1, <2>2
<1>7. Keeps(t)
  BY <1>2 DEF Keeps, Settled
<1>8. DataTypes' /\ TableInv'
  BY <1>2, <1>3, <1>6 DEF DataTypes, TableInv, Settled
<1>9. LinkerInv'
  BY <1>2, <1>4, <1>7, MoveLinkerSame DEF Guarded
<1>10. Leaves(t, x)'
  <2>1. /\ ~Asks(x) /\ ~Fills(x) /\ ~Guarded(Api, x)
        /\ x.op \notin {"done", "iterate", "dlopen", "lockLinker"} /\ Api' = Api
        /\ ~Loads(Api, x)
    BY <1>2 DEF Asks, Fills, Api, Guarded, Loads
  <2> QED
    BY <1>2, <1>5, <2>1 DEF Leaves
<1>11. OwnInv' /\ UseInv'
  <2>1. ~Ends(x)
    BY <1>2 DEF Ends
  <2> QED
    BY <1>2, <1>5, <1>6, <1>7, <2>1, PopOwn
<1> QED
  BY <1>2, <1>4, <1>7, <1>8, <1>9, <1>10, <1>11, PieceMove

-----------------------------------------------------------------------------
(***************************************************************************)
(* Steps that pass a handle on.                                            *)
(***************************************************************************)
LEMMA CloseStep ==
    ASSUME IInv, NEW t \in Thread, Close(t)
    PROVE  IInv'
<1>1. PICK x : x = Now(t)
  OBVIOUS
<1>2. /\ todo[t] # <<>> /\ x = todo[t][1] /\ x.op = "close" /\ x \in Steps
      /\ Goes(t, <<>>)
      /\ UNCHANGED <<device, owner, inited, table, given, cache, mutexSym>>
  BY <1>1, Begin DEF Close, lists, pointers
<1>3. PICK h \in Handle : x.key[2] = h /\ x.key \in Table /\ OnKey(x)
  <2>1. x.key \in Table
    BY <1>2, StepFacts
  <2> QED
    BY <1>2, <2>1 DEF Table, OnKey
<1>4. DataTypes /\ TableInv
  BY DEF IInv, TypeInv
<1>5. Moves(t, <<>>, Null) /\ Replaces(t, <<>>)
  BY <1>2, PopMoves
<1>6. /\ handle' = [handle EXCEPT ![h] = Unused]
      /\ \E r \in {Null, LinkerHandle} : ret' = [ret EXCEPT ![t] = r]
  BY <1>1, <1>3 DEF Close, Returns
<1>7. /\ Live' = Live \ {h} /\ Live \subseteq Handle
      /\ handle' \in [Handle -> [lib : AnyLib, held : BOOLEAN] \cup {Unused}]
      /\ ret' \in [Thread -> Handle \cup {Null, LinkerHandle}]
      /\ \A u \in Thread \ {t} : ret'[u] = ret[u]
  BY <1>4, <1>6 DEF DataTypes, Live
<1>8. Keeps(t)
  BY <1>2, <1>7 DEF Keeps, Settled
<1>9. DataTypes' /\ TableInv'
  BY <1>2, <1>4, <1>7 DEF DataTypes, TableInv, Settled
<1>10. LinkerInv'
  BY <1>2, <1>5, <1>8, MoveLinkerSame DEF Guarded
<1>11. /\ ~Asks(x) /\ ~Fills(x) /\ ~Guarded(Api, x)
       /\ x.op \notin {"done", "iterate", "dlopen", "lockLinker"}
       /\ ~Loads(Api, x) /\ ~Yields(Api, x)
  BY <1>2 DEF Asks, Fills, Guarded, Loads, Yields
<1>12. Leaves(t, x)'
  <2>1. Api' = Api
    BY <1>2 DEF Api
  <2> QED
    BY <1>11, <2>1 DEF Leaves
<1>13. Pending(t)' = {}
  <2>1. ASSUME NEW y \in Steps, Before(Api, x, y), AwaitsFile(Api, y) PROVE FALSE
    BY <1>11, <2>1 DEF AwaitsFile, Before
  <2>2. Pending(t)' \subseteq {}
    BY <1>2, <1>5, <2>1, PendingSecond
  <2> QED
    BY <2>2
<1>14. OwnInv' /\ UseInv'
  <2> DEFINE U == LaterUses(t)
             C == LaterCloses(t)
  <2>1. \A i \in 1 .. Len(<<>>) : FALSE
    OBVIOUS
  <2>2. /\ UsedBy(t)' \subseteq U /\ Closing(t)' \subseteq C
        /\ C \subseteq Closing(t)' /\ U \subseteq UsedBy(t)
        /\ C \subseteq U
    BY <1>5, <2>1, MoveSets
  <2>3. Ends(x) /\ On(x, h) /\ \A g \in Handle : On(x, g) => g = h
    BY <1>2, <1>3 DEF Ends, On
  <2>4. Closing(t) = C \cup {h} /\ h \notin U
    BY <1>2, <1>5, <2>3, MoveSets
  <2>5. /\ Own(t) \subseteq Live /\ given \subseteq Live /\ Own(t) \cap given = {}
        /\ Closing(t) \cap cache[t] = {}
        /\ Own(t) = Pending(t) \cup Closing(t) \cup cache[t]
        /\ UsedBy(t) \subseteq given \cup cache[t] \cup Closing(t)
    BY DEF IInv, OwnInv, UseInv, Own
  <2>6. /\ Own(t)' = Pending(t)' \cup Closing(t)' \cup cache'[t]
        /\ given' = given /\ cache'[t] = cache[t]
    BY <1>2 DEF Own
  <2> HIDE DEF U, C
  <2>7. Closing(t)' = C
    BY <2>2
  <2>8. /\ Own(t)' \cup given' \subseteq Own(t) \cup given \cup (Handle \ Live)
        /\ Own(t)' \cap given' = {}
        /\ Own(t)' \cup given' \subseteq Live'
        /\ Live \ Live' \subseteq Own(t)
    BY <1>7, <1>13, <2>2, <2>4, <2>5, <2>6, <2>7
  <2>9. /\ Pending(t)' \cap Closing(t)' = {} /\ Pending(t)' \cap cache'[t] = {}
        /\ Closing(t)' \cap cache'[t] = {}
    BY <1>13, <2>4, <2>5, <2>6, <2>7
  <2>10. UsedBy(t)' \subseteq given' \cup cache'[t] \cup Closing(t)'
    BY <2>2, <2>4, <2>5, <2>6, <2>7
  <2>11. \A u \in Thread \ {t} : todo'[u] = todo[u] /\ ret'[u] = ret[u] /\ cache'[u] = cache[u]
    BY <1>2, <1>5, <1>7, MoveSeq DEF IInv
  <2>12. (\A u \in Thread \ {t} : UsedBy(u) \cap given \subseteq given') /\ UNCHANGED device
    BY <1>2
  <2> QED
    BY <2>8, <2>9, <2>10, <2>11, <2>12, OwnKept
<1> QED
  BY <1>2, <1>5, <1>8, <1>9, <1>10, <1>12, <1>14, PieceMove

\* The handle that a thread has found goes to the clients or into its cache.
Takes(t) ==
    \/ given' = given \cup Pending(t) /\ cache' = cache
    \/ given' = given /\ cache' = [cache EXCEPT ![t] = @ \cup Pending(t)]

LEMMA HandOver ==
    ASSUME IInv, NEW t \in Thread, NEW op \in {"give", "cache"}, At(t, op),
           NEW s, NEW h, Piece(Api, Now(t), s, h), \A i \in 1 .. Len(s) : ~Ends(s[i]), Goes(t, s),
           Takes(t), s # <<>> => h \in cache'[t],
           UNCHANGED <<device, ret, owner, inited, table, handle, mutexSym>>
    PROVE  IInv'
<1>1. PICK x : x = Now(t)
  OBVIOUS
<1>2. /\ todo[t] # <<>> /\ x = todo[t][1] /\ x.op \in {"give", "cache"}
      /\ Piece(Api, x, s, h)
  BY <1>1, Begin
<1>3. DataTypes /\ TableInv
  BY DEF IInv, TypeInv
<1>4. Moves(t, s, h)
  BY <1>2, MakeMove
<1>5. Replaces(t, s)
  BY <1>4 DEF Moves
<1>6. /\ given' \cup cache'[t] = given \cup cache[t] \cup Pending(t)
      /\ given \subseteq given' /\ cache[t] \subseteq cache'[t]
      /\ given' \cap cache'[t] \subseteq (given \cap cache[t]) \cup
           (Pending(t) \cap (given \cup cache[t]))
      /\ given' \subseteq Handle /\ cache' \in [Thread -> SUBSET Handle]
      /\ \A u \in Thread \ {t} : cache'[u] = cache[u]
  <2>1. Pending(t) \subseteq Handle /\ given \subseteq Handle /\ cache \in [Thread -> SUBSET Handle]
    BY <1>3 DEF Pending, DataTypes
  <2> QED
    BY <2>1 DEF Takes
<1>7. Keeps(t)
  BY <1>6 DEF Keeps, Settled
<1>8. DataTypes' /\ TableInv'
  BY <1>3, <1>6 DEF DataTypes, TableInv, Settled
<1>9. /\ ~Asks(x) /\ ~Fills(x) /\ ~Guarded(Api, x) /\ ~Ends(x)
      /\ x.op \notin {"done", "iterate", "dlopen", "lockLinker", "unlock", "unlockLinker"}
      /\ ~Loads(Api, x) /\ ~Yields(Api, x) /\ ~OnKey(x)
  BY <1>2 DEF Asks, Fills, Guarded, Loads, Yields, OnKey, Ends
<1>10. LinkerInv'
  BY <1>2, <1>5, <1>7, <1>9, MoveLinkerSame
<1>11. Leaves(t, x)'
  <2>1. Api' = Api
    BY DEF Api
  <2> QED
    BY <1>9, <2>1 DEF Leaves
<1>12. Pending(t)' = {}
  <2>1. CASE s = <<>>
    BY <1>2, <1>5, <1>9, <2>1, PendingNever
  <2>2. CASE s # <<>>
    <3>1. Opens(Api, s[1]) /\ UNCHANGED device
      BY <1>2, <2>2 DEF Piece
    <3> QED
      BY <1>5, <2>2, <3>1, OpensLater, PendingNone
  <2> QED
    BY <2>1, <2>2
<1>13. OwnInv' /\ UseInv'
  <2> DEFINE U == LaterUses(t)
             C == LaterCloses(t)
             S == IF s = <<>> THEN {} ELSE {h} \cap Handle
  <2>1. /\ UsedBy(t)' \subseteq U \cup S /\ Closing(t)' \subseteq C
        /\ C \subseteq Closing(t)' /\ U \subseteq UsedBy(t)
    BY <1>4, MoveSets
  <2>2. ~Ends(todo[t][1])
    BY <1>2, <1>9
  <2>3. Closing(t) = C
    BY <1>4, <2>2, ClosingLater
  <2>4. S \subseteq cache'[t]
    OBVIOUS
  <2>5. /\ Own(t) \subseteq Live /\ given \subseteq Live /\ Own(t) \cap given = {}
        /\ Closing(t) \cap cache[t] = {}
        /\ Pending(t) \cap Closing(t) = {} /\ Pending(t) \cap cache[t] = {}
        /\ Own(t) = Pending(t) \cup Closing(t) \cup cache[t]
        /\ UsedBy(t) \subseteq given \cup cache[t] \cup Closing(t)
    BY DEF IInv, OwnInv, UseInv, Own
  <2>6. Own(t)' = Pending(t)' \cup Closing(t)' \cup cache'[t]
    BY DEF Own
  <2>7. Live' = Live
    BY DEF Live
  <2> HIDE DEF U, C, S
  <2>8. Closing(t)' = C
    BY <2>1
  <2>9. given' \cap cache'[t] = {}
    BY <1>6, <2>5
  <2>10. /\ Own(t)' \cup given' \subseteq Own(t) \cup given \cup (Handle \ Live)
         /\ Own(t)' \cup given' \subseteq Live'
         /\ Live \ Live' \subseteq Own(t)
    BY <1>6, <1>12, <2>3, <2>5, <2>6, <2>7, <2>8
  <2>11. /\ Own(t)' \cap given' = {}
         /\ Pending(t)' \cap Closing(t)' = {} /\ Pending(t)' \cap cache'[t] = {}
         /\ Closing(t)' \cap cache'[t] = {}
    BY <1>6, <1>12, <2>3, <2>5, <2>6, <2>8, <2>9
  <2>12. UsedBy(t)' \subseteq given' \cup cache'[t] \cup Closing(t)'
    BY <1>6, <2>1, <2>3, <2>4, <2>5, <2>8
  <2>13. \A u \in Thread \ {t} : todo'[u] = todo[u] /\ ret'[u] = ret[u] /\ cache'[u] = cache[u]
    BY <1>5, <1>6, MoveSeq DEF IInv
  <2>14. (\A u \in Thread \ {t} : UsedBy(u) \cap given \subseteq given') /\ UNCHANGED device
    BY <1>6
  <2> QED
    BY <2>10, <2>11, <2>12, <2>13, <2>14, OwnKept
<1> QED
  BY <1>2, <1>4, <1>7, <1>8, <1>9, <1>10, <1>11, <1>13, PieceMove

LEMMA WhatIsPending ==
    ASSUME IInv, NEW t \in Thread, NEW op \in {"give", "cache"}, At(t, op)
    PROVE  Pending(t) = {ret[t]} \ {Null} /\ ret[t] \in Handle \cup {Null}
<1>1. todo[t] # <<>> /\ todo[t][1].op = op /\ Ready(t, todo[t][1])
  BY Begin DEF IInv, NextInv
<1>2. AwaitsFile(Api, todo[t][1])
  BY <1>1 DEF AwaitsFile, Awaits
<1>3. ret[t] \in Handle \cup {Null} /\ Null \notin Handle
  BY <1>1, <1>2 DEF Ready, Null, Handle
<1> QED
  BY <1>1, <1>2, <1>3 DEF Pending

LEMMA GiveStep ==
    ASSUME IInv, NEW t \in Thread, Give(t)
    PROVE  IInv'
<1>1. /\ At(t, "give") /\ Goes(t, <<>>) /\ given' = given \cup Pending(t) /\ cache' = cache
      /\ UNCHANGED <<device, ret, owner, inited, table, handle, mutexSym>>
  BY WhatIsPending DEF Give, objects, pointers
<1>2. Piece(Api, Now(t), <<>>, Null) /\ \A i \in 1 .. Len(<<>>) : FALSE
  BY EmptyPiece
<1> QED
  BY <1>1, <1>2, HandOver DEF Takes

LEMMA CacheStep ==
    ASSUME IInv, NEW t \in Thread, Cache(t)
    PROVE  IInv'
<1>1. /\ At(t, "cache") /\ given' = given
      /\ UNCHANGED <<device, ret, owner, inited, table, handle, mutexSym>>
  BY DEF Cache, objects, pointers
<1>2. Pending(t) = {ret[t]} \ {Null} /\ ret[t] \in Handle \cup {Null}
  BY <1>1, WhatIsPending
<1>3. cache \in [Thread -> SUBSET Handle]
  BY DEF IInv, TypeInv, DataTypes
<1>4. CASE ret[t] = Null
  <2>1. Goes(t, <<>>) /\ cache' = [cache EXCEPT ![t] = @ \cup Pending(t)]
    BY <1>2, <1>3, <1>4 DEF Cache
  <2>2. Piece(Api, Now(t), <<>>, Null) /\ \A i \in 1 .. Len(<<>>) : FALSE
    BY EmptyPiece
  <2> QED
    BY <1>1, <2>1, <2>2, HandOver DEF Takes
<1>5. CASE ret[t] # Null
  <2>1. PICK h \in Handle : ret[t] = h
    BY <1>2, <1>5
  <2>2. PICK s \in Named(h) : Goes(t, s)
    BY <1>5, <2>1 DEF Cache
  <2>3. cache' = [cache EXCEPT ![t] = @ \cup Pending(t)] /\ h \in cache'[t]
    BY <1>2, <1>3, <1>5, <2>1 DEF Cache
  <2>4. Piece(Api, Now(t), s, h)
    BY <1>1, Begin, NamedPiece
  <2>5. \A i \in 1 .. Len(s) : ~Ends(s[i])
    <3>1. CASE s = <<>>
      BY <3>1
    <3>2. CASE s # <<>>
      <4>1. PICK y, z : Block(Api, Inner(h, {}), s, y, z)
        BY <3>2, NamedBlock
      <4> QED
        BY <4>1 DEF Block, Inner
    <3> QED
      BY <3>1, <3>2
  <2> QED
    BY <1>1, <2>2, <2>3, <2>4, <2>5, HandOver DEF Takes
<1> QED
  BY <1>4, <1>5

-----------------------------------------------------------------------------
(***************************************************************************)
(* The locks.                                                              *)
(***************************************************************************)
LEMMA Rest ==
    ASSUME IInv, NEW t, NEW s, Replaces(t, s)
    PROVE  /\ \A i \in 1 .. Len(todo'[t]) :
                \/ \E a \in 1 .. Len(s) : todo'[t][i] = s[a]
                \/ \E j \in 2 .. Len(todo[t]) : todo'[t][i] = todo[t][j]
           /\ \A a \in 1 .. Len(s) : \E i \in 1 .. Len(todo'[t]) : todo'[t][i] = s[a]
           /\ \A j \in 2 .. Len(todo[t]) : \E i \in 1 .. Len(todo'[t]) : todo'[t][i] = todo[t][j]
           /\ 1 \in 1 .. Len(todo[t])
           /\ \A j \in 2 .. Len(todo[t]) : j \in 1 .. Len(todo[t]) /\ j # 1
           /\ \A j \in 1 .. Len(todo[t]) : j = 1 \/ j \in 2 .. Len(todo[t])
<1>1. /\ \A i \in 1 .. Len(s) : i \in 1 .. Len(todo'[t]) /\ todo'[t][i] = s[i]
      /\ \A j \in 2 .. Len(todo[t]) : /\ j + Len(s) - 1 \in 1 .. Len(todo'[t])
                                      /\ todo'[t][j + Len(s) - 1] = todo[t][j]
      /\ \A i \in 1 .. Len(todo'[t]) : \/ i \in 1 .. Len(s)
                                       \/ \E j \in 2 .. Len(todo[t]) : i = j + Len(s) - 1
      /\ Len(todo[t]) \in Nat \ {0}
  BY MoveSeq DEF IInv
<1>2. ASSUME NEW i \in 1 .. Len(todo'[t]), i \notin 1 .. Len(s)
      PROVE  \E j \in 2 .. Len(todo[t]) : todo'[t][i] = todo[t][j]
  <2>1. PICK j \in 2 .. Len(todo[t]) : i = j + Len(s) - 1
    BY <1>1, <1>2
  <2>2. todo'[t][j + Len(s) - 1] = todo[t][j]
    BY <1>1
  <2> QED
    BY <2>1, <2>2
<1>3. /\ 1 \in 1 .. Len(todo[t])
      /\ \A j \in 2 .. Len(todo[t]) : j \in 1 .. Len(todo[t]) /\ j # 1
      /\ \A j \in 1 .. Len(todo[t]) : j = 1 \/ j \in 2 .. Len(todo[t])
  BY <1>1
<1>4. \A i \in 1 .. Len(todo'[t]) :
        \/ \E a \in 1 .. Len(s) : todo'[t][i] = s[a]
        \/ \E j \in 2 .. Len(todo[t]) : todo'[t][i] = todo[t][j]
  BY <1>1, <1>2
<1>5. /\ \A a \in 1 .. Len(s) : \E i \in 1 .. Len(todo'[t]) : todo'[t][i] = s[a]
      /\ \A j \in 2 .. Len(todo[t]) : \E i \in 1 .. Len(todo'[t]) : todo'[t][i] = todo[t][j]
  BY <1>1
<1> QED
  BY <1>3, <1>4, <1>5

LEMMA PopRest ==
    ASSUME IInv, NEW t, Replaces(t, <<>>)
    PROVE  /\ \A i \in 1 .. Len(todo'[t]) : \E j \in 2 .. Len(todo[t]) : todo'[t][i] = todo[t][j]
           /\ \A j \in 2 .. Len(todo[t]) : \E i \in 1 .. Len(todo'[t]) : todo'[t][i] = todo[t][j]
           /\ 1 \in 1 .. Len(todo[t])
           /\ \A j \in 2 .. Len(todo[t]) : j \in 1 .. Len(todo[t]) /\ j # 1
           /\ \A j \in 1 .. Len(todo[t]) : j = 1 \/ j \in 2 .. Len(todo[t])
<1>1. PICK s : s = <<>>
  OBVIOUS
<1>2. Replaces(t, s) /\ \A a \in 1 .. Len(s) : FALSE
  BY <1>1
<1>3. \A i \in 1 .. Len(todo'[t]) :
        \/ \E a \in 1 .. Len(s) : todo'[t][i] = s[a]
        \/ \E j \in 2 .. Len(todo[t]) : todo'[t][i] = todo[t][j]
  BY <1>2, Rest
<1>4. \A i \in 1 .. Len(todo'[t]) : \E j \in 2 .. Len(todo[t]) : todo'[t][i] = todo[t][j]
  BY <1>2, <1>3
<1> QED
  BY <1>2, <1>4, Rest

\* What is left to show when the locks change.
LEMMA GraftMove ==
    ASSUME IInv, NEW t, NEW x, x = todo[t][1], NEW s, Replaces(t, s), Keeps(t),
           DataTypes', LockInv', TableInv', x.op # "unlockLinker", ~Guarded(Api, x),
           owner'[GDl] = owner[GDl],
           s # <<>> => Ready(t, s[1])', s = <<>> => Leaves(t, x)',
           OwnInv' /\ UseInv'
    PROVE  IInv'
<1>1. TypeInv' /\ ListInv'
  <2>1. todo' \in [Thread -> Seq(Steps)]
    BY MoveSeq DEF IInv
  <2> QED
    BY <2>1, MoveList DEF TypeInv
<1>2. s = <<>> => \A y \in Steps : Before(Api, x, y) => Ready(t, y)'
  BY LeavesReady DEF Replaces
<1>3. NextInv'
  BY <1>2, MoveNext
<1>4. LinkerInv'
  BY MoveLinkerSame
<1> QED
  BY <1>1, <1>3, <1>4 DEF IInv

LEMMA DoneStep ==
    ASSUME IInv, NEW t \in Thread, Done(t)
    PROVE  IInv'
<1>1. PICK x : x = Now(t)
  OBVIOUS
<1>2. /\ todo[t] # <<>> /\ x = todo[t][1] /\ x.op = "done" /\ x \in Steps /\ Ready(t, x)
      /\ Goes(t, <<>>) /\ inited' = inited \cup {x.key}
      /\ UNCHANGED <<device, ret, owner, table, handle, given, cache, mutexSym>>
  BY <1>1, Begin DEF Done, objects, lists, pointers
<1>3. PICK k \in Key : k = x.key
  BY <1>2, StepFacts DEF OnKey
<1>4. DataTypes /\ TableInv /\ \A u \in Thread : Orderly(Api, todo[u])
  BY DEF IInv, TypeInv, ListInv
<1>5. Replaces(t, <<>>)
  BY <1>2, PopMoves
<1>6. Keeps(t)
  BY <1>2 DEF Keeps, Settled
<1>7. DataTypes' /\ TableInv'
  <2>1. inited' \subseteq Key
    BY <1>2, <1>3, <1>4 DEF DataTypes
  <2>2. k \in Table => table[k] \in {"whole", "missing"}
    BY <1>2, <1>3 DEF Ready, Settled
  <2>3. ASSUME NEW p \in Table, p \in inited' PROVE table'[p] \in {"whole", "missing"}
    BY <1>2, <1>3, <1>4, <2>2, <2>3 DEF TableInv, Settled
  <2> QED
    BY <1>2, <1>4, <2>1, <2>3 DEF DataTypes, TableInv, Settled
<1>8. /\ ~Asks(x) /\ ~Fills(x) /\ ~Guarded(Api, x) /\ ~Ends(x)
      /\ x.op \notin {"iterate", "dlopen", "lockLinker", "unlock", "unlockLinker"}
      /\ ~Loads(Api, x) /\ ~Yields(Api, x)
  BY <1>2 DEF Asks, Fills, Guarded, Loads, Yields, Ends
<1>9. Leaves(t, x)'
  <2>1. Api' = Api
    BY <1>2 DEF Api
  <2> QED
    BY <1>2, <1>8, <2>1 DEF Leaves
<1>10. /\ \A i \in 1 .. Len(todo'[t]) : \E j \in 2 .. Len(todo[t]) : todo'[t][i] = todo[t][j]
       /\ \A j \in 2 .. Len(todo[t]) : \E i \in 1 .. Len(todo'[t]) : todo'[t][i] = todo[t][j]
       /\ 1 \in 1 .. Len(todo[t])
       /\ \A j \in 2 .. Len(todo[t]) : j \in 1 .. Len(todo[t]) /\ j # 1
       /\ \A j \in 1 .. Len(todo[t]) : j = 1 \/ j \in 2 .. Len(todo[t])
  BY <1>5, PopRest
<1>11. Finishes(todo[t][1], k)
  BY <1>2, <1>3 DEF Finishes
<1>12. 1 + 1 \in 1 .. Len(todo[t]) /\ Releases(todo[t][1 + 1], k)
  BY <1>4, <1>10, <1>11, DoneThenUnlock
<1>13. owner[k] = t
  BY <1>12 DEF IInv, LockInv
<1>14. LockInv'
  <2> SUFFICES ASSUME NEW u \in Thread, NEW p \in Key
               PROVE  /\ owner'[p] = u <=> \E i \in 1 .. Len(todo'[u]) : Releases(todo'[u][i], p)
                      /\ (\E i \in 1 .. Len(todo'[u]) : Finishes(todo'[u][i], p)) => p \notin inited'
    BY DEF LockInv
  <2>1. /\ owner[p] = u <=> \E i \in 1 .. Len(todo[u]) : Releases(todo[u][i], p)
        /\ (\E i \in 1 .. Len(todo[u]) : Finishes(todo[u][i], p)) => p \notin inited
    BY DEF IInv, LockInv
  <2>2. ASSUME NEW i \in 1 .. Len(todo[u]), Finishes(todo[u][i], k)
        PROVE  u = t /\ i = 1
    <3>1. i + 1 \in 1 .. Len(todo[u]) /\ Releases(todo[u][i + 1], k)
      BY <1>4, <2>2, DoneThenUnlock
    <3>2. u = t
      BY <1>13, <3>1 DEF IInv, LockInv
    <3>3. i + 1 = 1 + 1
      BY <1>4, <1>12, <3>1, <3>2 DEF Orderly, ReleasesOnce
    <3>4. i = 1
      BY <3>3
    <3> QED
      BY <3>2, <3>4
  <2>3. CASE u # t
    <3>1. todo'[u] = todo[u] /\ owner' = owner
      BY <1>2, <1>5, <2>3, MoveSeq DEF IInv
    <3>2. (\E i \in 1 .. Len(todo[u]) : Finishes(todo[u][i], p)) => p # k
      BY <2>2, <2>3
    <3> QED
      BY <1>2, <1>3, <2>1, <3>1, <3>2
  <2>4. CASE u = t
    <3>1. ~Releases(todo[t][1], p)
      BY <1>2 DEF Releases
    <3>2. owner'[p] = t <=> \E i \in 1 .. Len(todo'[t]) : Releases(todo'[t][i], p)
      BY <1>2, <1>10, <2>1, <2>4, <3>1
    <3>3. ASSUME NEW i \in 1 .. Len(todo'[t]), Finishes(todo'[t][i], p)
          PROVE  p \notin inited'
      <4>1. PICK j \in 2 .. Len(todo[t]) : todo'[t][i] = todo[t][j]
        BY <1>10
      <4>2. j \in 1 .. Len(todo[t]) /\ j # 1 /\ Finishes(todo[t][j], p)
        BY <1>10, <3>3, <4>1
      <4>3. p # k /\ p \notin inited
        BY <2>1, <2>2, <2>4, <4>2
      <4> QED
        BY <1>2, <1>3, <4>3
    <3> QED
      BY <2>4, <3>2, <3>3
  <2> QED
    BY <2>3, <2>4
<1>15. OwnInv' /\ UseInv'
  <2>1. Live' = Live
    BY <1>2 DEF Live
  <2> QED
    BY <1>2, <1>6, <1>8, <2>1, PopOwn
<1>16. owner'[GDl] = owner[GDl]
  BY <1>2
<1> QED
  BY <1>2, <1>5, <1>6, <1>7, <1>8, <1>9, <1>14, <1>15, <1>16, GraftMove

LEMMA UnlockStep ==
    ASSUME IInv, NEW t \in Thread, Unlock(t)
    PROVE  IInv'
<1>1. PICK x : x = Now(t)
  OBVIOUS
<1>2. /\ todo[t] # <<>> /\ x = todo[t][1] /\ x.op = "unlock" /\ x \in Steps /\ Ready(t, x)
      /\ Goes(t, <<>>) /\ owner' = [owner EXCEPT ![x.key] = Nobody]
      /\ UNCHANGED <<device, ret, inited, table, handle, given, cache, mutexSym>>
  BY <1>1, Begin DEF Unlock, objects, lists, pointers
<1>3. PICK k \in Key : k = x.key
  BY <1>2, StepFacts DEF OnKey, Asks
<1>4. DataTypes /\ TableInv /\ Orderly(Api, todo[t])
  BY DEF IInv, TypeInv, ListInv
<1>5. Replaces(t, <<>>)
  BY <1>2, PopMoves
<1>6. /\ k \in Lock /\ owner'[k] = Nobody /\ owner'[GDl] = owner[GDl]
      /\ \A p \in Key \ {k} : owner'[p] = owner[p]
      /\ owner' \in [Lock -> Thread \cup {Nobody}]
  BY <1>2, <1>3, <1>4, LinkerLockAlone DEF DataTypes, Lock, Key
<1>7. /\ \A i \in 1 .. Len(todo'[t]) : \E j \in 2 .. Len(todo[t]) : todo'[t][i] = todo[t][j]
      /\ \A j \in 2 .. Len(todo[t]) : \E i \in 1 .. Len(todo'[t]) : todo'[t][i] = todo[t][j]
      /\ 1 \in 1 .. Len(todo[t])
      /\ \A j \in 2 .. Len(todo[t]) : j \in 1 .. Len(todo[t]) /\ j # 1
      /\ \A j \in 1 .. Len(todo[t]) : j = 1 \/ j \in 2 .. Len(todo[t])
  BY <1>5, PopRest
<1>8. Releases(todo[t][1], k) /\ owner[k] = t
  <2>1. Releases(todo[t][1], k)
    BY <1>2, <1>3 DEF Releases
  <2> QED
    BY <1>7, <2>1 DEF IInv, LockInv
<1>9. Keeps(t)
  BY <1>2, <1>6, <1>8 DEF Keeps, Settled
<1>10. DataTypes' /\ TableInv'
  BY <1>2, <1>4, <1>6 DEF DataTypes, TableInv, Settled
<1>11. LockInv'
  <2> SUFFICES ASSUME NEW u \in Thread, NEW p \in Key
               PROVE  /\ owner'[p] = u <=> \E i \in 1 .. Len(todo'[u]) : Releases(todo'[u][i], p)
                      /\ (\E i \in 1 .. Len(todo'[u]) : Finishes(todo'[u][i], p)) => p \notin inited'
    BY DEF LockInv
  <2>1. /\ owner[p] = u <=> \E i \in 1 .. Len(todo[u]) : Releases(todo[u][i], p)
        /\ (\E i \in 1 .. Len(todo[u]) : Finishes(todo[u][i], p)) => p \notin inited
    BY DEF IInv, LockInv
  <2>2. owner'[p] = u <=> owner[p] = u /\ p # k
    BY <1>6, ThreadAssumption
  <2>3. CASE u # t
    <3>1. todo'[u] = todo[u]
      BY <1>5, <2>3, MoveSeq DEF IInv
    <3> QED
      BY <1>2, <1>8, <2>1, <2>2, <2>3, <3>1
  <2>4. CASE u = t
    <3>1. ASSUME NEW j \in 2 .. Len(todo[t]), Releases(todo[t][j], p) PROVE p # k
      BY <1>4, <1>7, <1>8, <3>1 DEF Orderly, ReleasesOnce
    <3>2. Releases(todo[t][1], p) => p = k
      BY <1>8 DEF Releases
    <3>3. owner'[p] = t <=> \E i \in 1 .. Len(todo'[t]) : Releases(todo'[t][i], p)
      BY <1>7, <2>1, <2>2, <2>4, <3>1, <3>2
    <3>4. (\E i \in 1 .. Len(todo'[t]) : Finishes(todo'[t][i], p)) => p \notin inited'
      BY <1>2, <1>7, <2>1, <2>4
    <3> QED
      BY <2>4, <3>3, <3>4
  <2> QED
    BY <2>3, <2>4
<1>12. /\ ~Fills(x) /\ ~Guarded(Api, x) /\ ~Ends(x)
       /\ x.op \notin {"iterate", "dlopen", "lockLinker", "done", "unlockLinker"}
       /\ ~Loads(Api, x) /\ ~Yields(Api, x) /\ x.key \in inited
  BY <1>2 DEF Fills, Guarded, Loads, Yields, Ends, Ready
<1>13. Leaves(t, x)'
  <2>1. Api' = Api
    BY <1>2 DEF Api
  <2> QED
    BY <1>2, <1>12, <2>1 DEF Leaves
<1>14. OwnInv' /\ UseInv'
  <2>1. Live' = Live
    BY <1>2 DEF Live
  <2> QED
    BY <1>2, <1>9, <1>12, <2>1, PopOwn
<1> QED
  BY <1>2, <1>5, <1>6, <1>9, <1>10, <1>11, <1>12, <1>13, <1>14, GraftMove

\* The steps that follow when a lock has been got.
Locked(k) == (IF k \in inited THEN <<>> ELSE Body(k) \o <<DoKey("done", k)>>)
               \o <<DoKey("unlock", k)>>

LEMMA LockedList ==
    ASSUME NEW k \in Key, NEW s, s = Locked(k)
    PROVE  /\ \A a \in 1 .. Len(s) : /\ \A p \in Key : Releases(s[a], p) => p = k
                                     /\ \A p \in Key : Finishes(s[a], p) => p = k /\ k \notin inited
                                     /\ ~Ends(s[a])
           /\ \E a \in 1 .. Len(s) : Releases(s[a], k)
           /\ Local(s, k[2])
           /\ s # <<>>
           /\ (s[1] = DoKey("unlock", k) /\ k \in inited) \/ Opens(Api, s[1])
<1> DEFINE d == DoKey("done", k)
           u == DoKey("unlock", k)
<1>1. /\ d \in Steps /\ d.op = "done" /\ d.key = k
      /\ u \in Steps /\ u.op = "unlock" /\ u.key = k
  BY DEF Steps, DoKey
<1>2. PICK y, z : Block(Api, Inner(k[2], {k}), Body(k), y, z) /\ Opens(Api, y)
  BY BodyBlock
<1> DEFINE b == Body(k)
<1>3. b \in Seq(Inner(k[2], {k})) /\ b # <<>> /\ b[1] = y
  BY <1>2 DEF Block
<1>4. \A v \in Inner(k[2], {k}) :
        /\ \A p \in Key : ~Releases(v, p) /\ ~Finishes(v, p)
        /\ ~Ends(v) /\ (OnKey(v) /\ v.key \in Table => v.key[2] = k[2])
  BY DEF Inner, Releases, Finishes
<1>5. /\ \A p \in Key : (Releases(u, p) => p = k) /\ ~Finishes(u, p)
      /\ ~Ends(u) /\ u.key[2] = k[2] /\ Releases(u, k)
  BY <1>1 DEF Releases, Finishes, Ends
<1>6. /\ \A p \in Key : ~Releases(d, p) /\ (Finishes(d, p) => p = k)
      /\ ~Ends(d) /\ d.key[2] = k[2]
  BY <1>1 DEF Releases, Finishes, Ends
<1>7. s = (IF k \in inited THEN <<>> ELSE b \o <<d>>) \o <<u>>
  BY DEF Locked
<1> HIDE DEF d, u, b
<1>8. CASE k \in inited
  <2>1. s = <<u>>
    BY <1>7, <1>8
  <2>2. Len(s) = 1 /\ s[1] = u
    BY <2>1
  <2>3. \A a \in 1 .. 1 : s[a] = u
    BY <2>2
  <2>4. /\ \A a \in 1 .. Len(s) : /\ \A p \in Key : Releases(s[a], p) => p = k
                                  /\ \A p \in Key : Finishes(s[a], p) => p = k /\ k \notin inited
                                  /\ ~Ends(s[a])
        /\ \E a \in 1 .. Len(s) : Releases(s[a], k)
    BY <1>5, <2>2, <2>3
  <2>5. Local(s, k[2])
    BY <1>5, <2>2, <2>3 DEF Local
  <2>6. s # <<>>
    BY <2>1
  <2> QED
    BY <1>8, <2>2, <2>4, <2>5, <2>6 DEF u
<1>9. CASE k \notin inited
  <2>1. s = (b \o <<d>>) \o <<u>>
    BY <1>7, <1>9
  <2>2. b \in Seq(Steps)
    BY <1>3 DEF Inner
  <2>3. /\ Len(b) \in Nat \ {0} /\ Len(s) = Len(b) + 2
        /\ \A a \in 1 .. Len(b) : s[a] = b[a]
        /\ s[Len(b) + 1] = d /\ s[Len(b) + 2] = u
    BY <1>1, <1>3, <2>1, <2>2
  <2>4. \A a \in 1 .. Len(s) : s[a] \in Inner(k[2], {k}) \/ s[a] = d \/ s[a] = u
    <3> SUFFICES ASSUME NEW a \in 1 .. Len(s)
                 PROVE  s[a] \in Inner(k[2], {k}) \/ s[a] = d \/ s[a] = u
      OBVIOUS
    <3>1. a \in 1 .. Len(b) \/ a = Len(b) + 1 \/ a = Len(b) + 2
      BY <2>3
    <3>2. a \in 1 .. Len(b) => b[a] \in Inner(k[2], {k})
      BY <1>3
    <3> QED
      BY <2>3, <3>1, <3>2
  <2>5. \A a \in 1 .. Len(s) : /\ \A p \in Key : Releases(s[a], p) => p = k
                               /\ \A p \in Key : Finishes(s[a], p) => p = k /\ k \notin inited
                               /\ ~Ends(s[a])
    BY <1>4, <1>5, <1>6, <1>9, <2>4
  <2>6. \E a \in 1 .. Len(s) : Releases(s[a], k)
    <3>1. Len(b) + 2 \in 1 .. Len(s)
      BY <2>3
    <3> QED
      BY <1>5, <2>3, <3>1
  <2>7. Local(s, k[2])
    BY <1>4, <1>5, <1>6, <2>4 DEF Local
  <2>8. s # <<>> /\ s[1] = y
    <3>1. 1 \in 1 .. Len(b)
      BY <2>3
    <3>2. s[1] = b[1]
      BY <2>3, <3>1
    <3>3. s \in Seq(Steps) /\ Len(s) # 0
      BY <1>1, <2>1, <2>2, <2>3
    <3> QED
      BY <1>3, <3>2, <3>3
  <2> QED
    BY <1>2, <2>5, <2>6, <2>7, <2>8
<1> QED
  BY <1>8, <1>9

LEMMA LockAndLookStep ==
    ASSUME IInv, NEW t \in Thread, LockAndLook(t)
    PROVE  IInv'
<1>1. PICK x : x = Now(t)
  OBVIOUS
<1>2. /\ todo[t] # <<>> /\ x = todo[t][1] /\ x.op = "lock" /\ x \in Steps
      /\ Goes(t, Locked(x.key)) /\ owner' = [owner EXCEPT ![x.key] = t]
      /\ owner[x.key] = Nobody
      /\ UNCHANGED <<device, ret, inited, table, handle, given, cache, mutexSym>>
  BY <1>1, Begin DEF LockAndLook, objects, lists, pointers, Locked
<1>3. PICK k \in Key : k = x.key
  BY <1>2, StepFacts DEF OnKey, Asks
<1>4. PICK s : s = Locked(k)
  OBVIOUS
<1>5. DataTypes /\ TableInv
  BY DEF IInv, TypeInv
<1>6. \A u \in Thread : owner[k] # u /\ \A j \in 1 .. Len(todo[u]) : ~Releases(todo[u][j], k)
  BY <1>2, <1>3, ThreadAssumption DEF IInv, LockInv
<1>7. Grafts(Api, todo[t], s)
  <2>1. Len(todo[t]) \in Nat /\ \A j \in 2 .. Len(todo[t]) : ~Releases(todo[t][j], k)
    <3>1. Len(todo[t]) \in Nat
      BY DEF IInv, TypeInv
    <3>2. \A j \in 2 .. Len(todo[t]) : j \in 1 .. Len(todo[t])
      BY <3>1
    <3> QED
      BY <1>6, <3>1, <3>2
  <2>2. /\ Grafts(Api, todo[t], <<DoKey("unlock", k)>>)
        /\ Grafts(Api, todo[t], (Body(k) \o <<DoKey("done", k)>>) \o <<DoKey("unlock", k)>>)
    BY <1>2, <1>3, <2>1, LockGrafts
  <2>3. <<>> \o <<DoKey("unlock", k)>> = <<DoKey("unlock", k)>>
    OBVIOUS
  <2> QED
    BY <1>4, <2>2, <2>3 DEF Locked
<1>8. Replaces(t, s)
  BY <1>2, <1>3, <1>4, <1>7 DEF Replaces, Goes
<1>9. /\ \A a \in 1 .. Len(s) : /\ \A p \in Key : Releases(s[a], p) => p = k
                                /\ \A p \in Key : Finishes(s[a], p) => p = k /\ k \notin inited
                                /\ ~Ends(s[a])
      /\ \E a \in 1 .. Len(s) : Releases(s[a], k)
      /\ Local(s, k[2])
      /\ s # <<>>
      /\ (s[1] = DoKey("unlock", k) /\ k \in inited) \/ Opens(Api, s[1])
  BY <1>4, LockedList
<1>10. /\ k \in Lock /\ owner'[k] = t /\ owner'[GDl] = owner[GDl]
       /\ \A p \in Key \ {k} : owner'[p] = owner[p]
       /\ owner' \in [Lock -> Thread \cup {Nobody}]
  BY <1>2, <1>3, <1>5, LinkerLockAlone DEF DataTypes, Lock, Key
<1>11. Keeps(t)
  BY <1>2, <1>10 DEF Keeps, Settled
<1>12. DataTypes' /\ TableInv'
  BY <1>2, <1>5, <1>10 DEF DataTypes, TableInv, Settled
<1>13. ~Releases(todo[t][1], k) /\ \A p \in Key : ~Releases(todo[t][1], p) /\ ~Finishes(todo[t][1], p)
  BY <1>2 DEF Releases, Finishes
<1>14. LockInv'
  <2> SUFFICES ASSUME NEW u \in Thread, NEW p \in Key
               PROVE  /\ owner'[p] = u <=> \E i \in 1 .. Len(todo'[u]) : Releases(todo'[u][i], p)
                      /\ (\E i \in 1 .. Len(todo'[u]) : Finishes(todo'[u][i], p)) => p \notin inited'
    BY DEF LockInv
  <2>1. /\ owner[p] = u <=> \E i \in 1 .. Len(todo[u]) : Releases(todo[u][i], p)
        /\ (\E i \in 1 .. Len(todo[u]) : Finishes(todo[u][i], p)) => p \notin inited
    BY DEF IInv, LockInv
  <2>2. CASE u # t
    <3>1. todo'[u] = todo[u]
      BY <1>8, <2>2, MoveSeq DEF IInv
    <3>2. owner'[p] = u <=> owner[p] = u
      BY <1>6, <1>10, <2>2
    <3> QED
      BY <1>2, <2>1, <3>1, <3>2
  <2>3. CASE u = t
    <3>1. /\ \A i \in 1 .. Len(todo'[t]) :
               \/ \E a \in 1 .. Len(s) : todo'[t][i] = s[a]
               \/ \E j \in 2 .. Len(todo[t]) : todo'[t][i] = todo[t][j]
          /\ \A a \in 1 .. Len(s) : \E i \in 1 .. Len(todo'[t]) : todo'[t][i] = s[a]
          /\ \A j \in 2 .. Len(todo[t]) : \E i \in 1 .. Len(todo'[t]) : todo'[t][i] = todo[t][j]
          /\ 1 \in 1 .. Len(todo[t])
          /\ \A j \in 2 .. Len(todo[t]) : j \in 1 .. Len(todo[t]) /\ j # 1
          /\ \A j \in 1 .. Len(todo[t]) : j = 1 \/ j \in 2 .. Len(todo[t])
      BY <1>8, Rest
    <3>2. CASE p = k
      <4>1. \E i \in 1 .. Len(todo'[t]) : Releases(todo'[t][i], k)
        BY <1>9, <3>1
      <4>2. ASSUME NEW i \in 1 .. Len(todo'[t]), Finishes(todo'[t][i], k)
            PROVE  k \notin inited
        BY <1>9, <2>1, <2>3, <3>1, <3>2, <4>2
      <4> QED
        BY <1>2, <1>10, <2>3, <3>2, <4>1, <4>2
    <3>3. CASE p # k
      <4>1. owner'[p] = owner[p]
        BY <1>10, <3>3
      <4>2. (\E i \in 1 .. Len(todo'[t]) : Releases(todo'[t][i], p))
              => \E j \in 1 .. Len(todo[t]) : Releases(todo[t][j], p)
        BY <1>9, <3>1, <3>3
      <4>3. (\E j \in 1 .. Len(todo[t]) : Releases(todo[t][j], p))
              => \E i \in 1 .. Len(todo'[t]) : Releases(todo'[t][i], p)
        BY <1>13, <3>1
      <4>4. (\E i \in 1 .. Len(todo'[t]) : Finishes(todo'[t][i], p))
              => \E j \in 1 .. Len(todo[t]) : Finishes(todo[t][j], p)
        BY <1>9, <3>1, <3>3
      <4> QED
        BY <1>2, <2>1, <2>3, <4>1, <4>2, <4>3, <4>4
    <3> QED
      BY <3>2, <3>3
  <2> QED
    BY <2>2, <2>3
<1>15. Ready(t, s[1])' /\ ~AwaitsFile(Api, s[1])
  <2>1. CASE Opens(Api, s[1])
    BY <1>2, <2>1, OpensLater
  <2>2. CASE s[1] = DoKey("unlock", k) /\ k \in inited
    <3>1. s[1].op = "unlock" /\ s[1].key = k
      BY <2>2 DEF DoKey
    <3> QED
      BY <1>2, <2>2, <3>1 DEF Ready, InLinker, AwaitsFile, AwaitsLinker, Awaits, Guarded
  <2> QED
    BY <1>9, <2>1, <2>2
<1>16. OwnInv' /\ UseInv'
  <2>1. Pending(t)' = {}
    BY <1>8, <1>9, <1>15, PendingNone
  <2>2. Live \subseteq Live' /\ Pending(t)' \subseteq Pending(t) \cup (Live' \ Live)
    BY <1>2, <2>1 DEF Live
  <2>3. On(todo[t][1], k[2]) /\ ~Ends(todo[t][1])
    BY <1>2, <1>3 DEF On, OnKey, Asks, Ends
  <2>4. given' = given /\ cache' = cache
    BY <1>2
  <2>5. Ends(todo[t][1]) <=> \E a \in 1 .. Len(s) : Ends(s[a])
    BY <1>9, <2>3
  <2> QED
    BY <1>8, <1>9, <1>11, <2>2, <2>3, <2>4, <2>5, GraftOwn
<1>17. x.op # "unlockLinker" /\ ~Guarded(Api, x)
  BY <1>2 DEF Guarded
<1> QED
  BY <1>2, <1>8, <1>9, <1>10, <1>11, <1>12, <1>14, <1>15, <1>16, <1>17, GraftMove

-----------------------------------------------------------------------------
(***************************************************************************)
(* The calls of the clients.                                               *)
(***************************************************************************)
LEMMA ThenAwait ==
    ASSUME NEW steps, NEW x, NEW y, Block(Api, Loading, steps, x, y), Yields(Api, y),
           NEW z \in Loading, Awaits(z)
    PROVE  Block(Api, Loading, steps \o <<z>>, x, z)
<1>1. Before(Api, y, z)
  BY DEF Before, Yields, Awaits, Guarded, Loads, Asks, Fills
<1>2. Block(Api, Loading, <<z>>, z, z)
  BY BlockOne
<1> QED
  BY <1>1, <1>2, BlockJoin

LEMMA OpenBlock ==
    ASSUME NEW lib \in Lib, NEW steps \in {Find(lib), OpenTry(lib), OpenAlways(lib), Iterating(lib)},
           NEW op \in {"give", "cache"}
    PROVE  \E x : Block(Api, Loading, steps \o <<Do(op)>>, x, Do(op)) /\ Opens(Api, x)
<1> DEFINE z == Do(op)
           f == DoLib("tryForce", lib)
           d == DoLib("forced", lib)
<1>1. lib \in AnyLib
  BY DEF AnyLib
<1>2. z \in Loading /\ Awaits(z) /\ f \in Loading /\ Awaits(f) /\ Yields(Api, f) /\ Yields(Api, d)
  BY <1>1 DEF Loading, Steps, Do, DoLib, OnKey, Asks, Fills, Awaits, Yields
<1> HIDE DEF z, f, d
<1>3. ASSUME NEW s, \E x, y : Block(Api, Loading, s, x, y) /\ Opens(Api, x) /\ Finds(Api, y),
             NEW w \in Loading, Awaits(w)
      PROVE  \E x : Block(Api, Loading, s \o <<w>>, x, w) /\ Opens(Api, x)
  BY <1>3, ThenAwait DEF Finds
<1>4. \E x : Block(Api, Loading, Find(lib) \o <<z>>, x, z) /\ Opens(Api, x)
  BY <1>1, <1>2, <1>3, FindBlock
<1>5. \E x : Block(Api, Loading, Iterating(lib) \o <<z>>, x, z) /\ Opens(Api, x)
  BY <1>1, <1>2, <1>3, IteratingBlock
<1>6. \E x : Block(Api, Loading, OpenTry(lib) \o <<z>>, x, z) /\ Opens(Api, x)
  <2>1. PICK x : Block(Api, Loading, Find(lib) \o <<f>>, x, f) /\ Opens(Api, x)
    BY <1>1, <1>2, <1>3, FindBlock
  <2>2. OpenTry(lib) = Find(lib) \o <<f>>
    BY DEF OpenTry, f
  <2> QED
    BY <1>2, <2>1, <2>2, ThenAwait
<1>7. \E x : Block(Api, Loading, OpenAlways(lib) \o <<z>>, x, z) /\ Opens(Api, x)
  BY <1>1, <1>2, OpenAlwaysBlock, ThenAwait DEF d
<1>8. \E x : Block(Api, Loading, steps \o <<z>>, x, z) /\ Opens(Api, x)
  BY <1>4, <1>5, <1>6, <1>7
<1> QED
  BY <1>8 DEF z

\* What is left to show of a call.
LEMMA CallMove ==
    ASSUME IInv, NEW t \in Thread, todo[t] = <<>>, NEW L, todo' = [todo EXCEPT ![t] = L],
           Orderly(Api, L), L # <<>> => Opens(Api, L[1]),
           \A i \in 1 .. Len(L) : L[i].op \notin {"done", "unlock"},
           UNCHANGED <<device, ret, owner, inited, table, mutexSym>>,
           DataTypes', OwnInv' /\ UseInv'
    PROVE  IInv'
<1>1. TypeInv /\ L \in Seq(Steps)
  BY DEF IInv, Orderly
<1>2. /\ todo'[t] = L /\ todo' \in [Thread -> Seq(Steps)]
      /\ \A u \in Thread \ {t} : todo'[u] = todo[u]
  BY <1>1 DEF TypeInv
<1>3. Api' = Api
  BY DEF Api
<1>4. ListInv'
  BY <1>2, <1>3 DEF IInv, ListInv
<1>5. LockInv'
  <2> SUFFICES ASSUME NEW u \in Thread, NEW k \in Key
               PROVE  /\ owner'[k] = u <=> \E i \in 1 .. Len(todo'[u]) : Releases(todo'[u][i], k)
                      /\ (\E i \in 1 .. Len(todo'[u]) : Finishes(todo'[u][i], k)) => k \notin inited'
    BY DEF LockInv
  <2>1. /\ owner[k] = u <=> \E i \in 1 .. Len(todo[u]) : Releases(todo[u][i], k)
        /\ (\E i \in 1 .. Len(todo[u]) : Finishes(todo[u][i], k)) => k \notin inited
    BY DEF IInv, LockInv
  <2>2. CASE u = t
    <3>1. owner[k] # t
      <4>1. \A i \in 1 .. Len(<<>>) : FALSE
        OBVIOUS
      <4> QED
        BY <2>1, <2>2, <4>1
    <3>2. \A i \in 1 .. Len(L) : ~Releases(L[i], k) /\ ~Finishes(L[i], k)
      BY DEF Releases, Finishes
    <3> QED
      BY <1>2, <2>2, <3>1, <3>2
  <2>3. CASE u # t
    BY <1>2, <2>1, <2>3
  <2> QED
    BY <2>2, <2>3
<1>6. NextInv'
  <2> SUFFICES ASSUME NEW u \in Thread, todo'[u] # <<>> PROVE Ready(u, todo[u][1])'
    BY DEF NextInv
  <2>1. CASE u = t
    <3>1. \A y : Opens(Api, y) => Ready(t, y)'
      BY OpensLater
    <3> QED
      BY <1>2, <2>1, <3>1 DEF Ready
  <2>2. CASE u # t
    <3>1. Ready(u, todo[u][1])
      BY <1>2, <2>2 DEF IInv, NextInv
    <3>2. todo'[u] = todo[u]
      BY <1>2, <2>2
    <3> QED
      BY <1>3, <3>1, <3>2 DEF Ready, Settled
  <2> QED
    BY <2>1, <2>2
<1>7. LinkerInv'
  <2> SUFFICES ASSUME NEW u \in Thread, owner[GDl] = u
               PROVE  mutexSym /\ todo'[u] # <<>> /\ InLinker(Api, todo'[u][1])
    BY <1>3 DEF LinkerInv
  <2>1. mutexSym /\ todo[u] # <<>> /\ InLinker(Api, todo[u][1])
    BY DEF IInv, LinkerInv
  <2> QED
    BY <1>2, <2>1
<1>8. TableInv'
  BY DEF IInv, TableInv, Settled
<1> QED
  BY <1>2, <1>4, <1>5, <1>6, <1>7, <1>8 DEF IInv, TypeInv

\* The handles that the steps of a call are on.
LEMMA CallSets ==
    ASSUME IInv, NEW t \in Thread, todo[t] = <<>>, NEW L, todo' = [todo EXCEPT ![t] = L],
           L \in Seq(Steps), L # <<>> => Opens(Api, L[1]), UNCHANGED device
    PROVE  /\ Pending(t)' = {} /\ Pending(t) = {} /\ Closing(t) = {} /\ UsedBy(t) = {}
           /\ UsedBy(t)' = {h \in Handle : \E i \in 1 .. Len(L) : On(L[i], h)}
           /\ Closing(t)' = {h \in Handle : \E i \in 1 .. Len(L) : Ends(L[i]) /\ On(L[i], h)}
           /\ \A u \in Thread \ {t} : todo'[u] = todo[u]
<1>1. todo'[t] = L /\ \A u \in Thread \ {t} : todo'[u] = todo[u]
  BY DEF IInv, TypeInv
<1>2. Api' = Api
  BY DEF Api
<1>3. \A i \in 1 .. Len(<<>>) : FALSE
  OBVIOUS
<1>4. Pending(t) = {} /\ Closing(t) = {} /\ UsedBy(t) = {}
  BY <1>3 DEF Pending, Closing, UsedBy
<1>5. Pending(t)' = {}
  <2>1. L # <<>> => ~AwaitsFile(Api, L[1])
    BY OpensLater
  <2> QED
    BY <1>1, <1>2, <2>1 DEF Pending
<1>6. /\ UsedBy(t)' = {h \in Handle : \E i \in 1 .. Len(L) : On(L[i], h)}
      /\ Closing(t)' = {h \in Handle : \E i \in 1 .. Len(L) : Ends(L[i]) /\ On(L[i], h)}
  BY <1>1 DEF UsedBy, Closing
<1> QED
  BY <1>1, <1>4, <1>5, <1>6

\* A call that closes nothing, on a handle of the clients or of its own cache.
LEMMA PlainCall ==
    ASSUME IInv, NEW t \in Thread, todo[t] = <<>>, NEW L, todo' = [todo EXCEPT ![t] = L],
           NEW h, NEW x, NEW y, Block(Api, Inner(h, {}), L, x, y), Opens(Api, x), Final(y),
           h \in Handle => h \in given \cup cache[t],
           UNCHANGED <<device, ret, owner, inited, table, handle, given, cache, mutexSym>>
    PROVE  IInv'
<1>1. Orderly(Api, L)
  BY CallOrderly
<1>2. L \in Seq(Inner(h, {})) /\ Len(L) \in Nat /\ L # <<>> /\ L[1] = x
  BY DEF Block
<1>3. \A i \in 1 .. Len(L) : /\ L[i] \in Steps /\ L[i].op \notin {"done", "unlock"} /\ ~Ends(L[i])
                             /\ (OnKey(L[i]) /\ L[i].key \in Table => L[i].key[2] = h)
  BY <1>2 DEF Inner
<1>4. L \in Seq(Steps)
  BY <1>2, <1>3
<1>5. /\ Pending(t)' = {} /\ Pending(t) = {} /\ Closing(t) = {} /\ UsedBy(t) = {}
      /\ UsedBy(t)' = {g \in Handle : \E i \in 1 .. Len(L) : On(L[i], g)}
      /\ Closing(t)' = {g \in Handle : \E i \in 1 .. Len(L) : Ends(L[i]) /\ On(L[i], g)}
      /\ \A u \in Thread \ {t} : todo'[u] = todo[u]
  BY <1>2, <1>4, CallSets
<1>6. Closing(t)' = {}
  BY <1>3, <1>5
<1>7. UsedBy(t)' \subseteq given \cup cache[t]
  <2>1. ASSUME NEW g \in Handle, NEW i \in 1 .. Len(L), On(L[i], g) PROVE g = h
    <3>1. L[i] \in Steps
      BY <1>3
    <3>2. L[i].key \in Table
      BY <2>1, <3>1, OneHandle
    <3> QED
      BY <1>3, <2>1, <3>2 DEF On
  <2> QED
    BY <1>5, <2>1
<1>8. /\ given \subseteq Live /\ Own(t) \subseteq Live /\ Own(t) \cap given = {}
      /\ Own(t) = cache[t] /\ Own(t)' = cache'[t] /\ Live' = Live /\ Live \subseteq Handle
  BY <1>5, <1>6 DEF IInv, OwnInv, Own, Live
<1>9. OwnInv' /\ UseInv'
  <2>1. /\ Own(t)' \cup given' \subseteq Own(t) \cup given \cup (Handle \ Live)
        /\ Own(t)' \cap given' = {}
        /\ Own(t)' \cup given' \subseteq Live' /\ Live \ Live' \subseteq Own(t)
    BY <1>8
  <2>2. /\ Pending(t)' \cap Closing(t)' = {} /\ Pending(t)' \cap cache'[t] = {}
        /\ Closing(t)' \cap cache'[t] = {}
        /\ UsedBy(t)' \subseteq given' \cup cache'[t] \cup Closing(t)'
    BY <1>5, <1>6, <1>7
  <2>3. /\ \A u \in Thread \ {t} : todo'[u] = todo[u] /\ ret'[u] = ret[u] /\ cache'[u] = cache[u]
        /\ \A u \in Thread \ {t} : UsedBy(u) \cap given \subseteq given'
    BY <1>5
  <2> QED
    BY <2>1, <2>2, <2>3, OwnKept
<1>10. DataTypes'
  BY DEF IInv, TypeInv, DataTypes
<1> QED
  BY <1>1, <1>2, <1>3, <1>9, <1>10, CallMove

LEMMA FileCall ==
    ASSUME IInv, NEW t \in Thread, todo[t] = <<>>, NEW lib \in Lib,
           NEW steps \in {Find(lib), OpenTry(lib), OpenAlways(lib), Iterating(lib)},
           NEW op \in {"give", "cache"},
           todo' = [todo EXCEPT ![t] = steps \o <<Do(op)>>],
           UNCHANGED <<device, ret, owner, inited, table, handle, given, cache, mutexSym>>
    PROVE  IInv'
<1>1. PICK x : Block(Api, Loading, steps \o <<Do(op)>>, x, Do(op)) /\ Opens(Api, x)
  BY OpenBlock
<1>2. Loading \subseteq Inner(Null, {})
  BY LoadingIsInner
<1>3. Block(Api, Inner(Null, {}), steps \o <<Do(op)>>, x, Do(op))
  BY <1>1, <1>2 DEF Block
<1>4. Final(Do(op)) /\ Null \notin Handle
  BY DEF Final, Do, Null, Handle
<1>5. PICK L, y : L = steps \o <<Do(op)>> /\ y = Do(op)
  OBVIOUS
<1> QED
  BY <1>1, <1>3, <1>4, <1>5, PlainCall

LEMMA OpenCall ==
    ASSUME IInv, NEW t \in Thread, xdl_open(t)
    PROVE  IInv'
<1>0. PICK lib \in Lib : \E steps \in {Find(lib), OpenTry(lib), OpenAlways(lib)} :
         Call(t, steps \o <<Do("give")>>)
  BY DEF xdl_open
<1>1. PICK steps \in {Find(lib), OpenTry(lib), OpenAlways(lib)} : Call(t, steps \o <<Do("give")>>)
  BY <1>0
<1>2. UNCHANGED <<device, ret, owner, inited, table, handle, given, cache, mutexSym>>
  BY DEF xdl_open, objects, lists, pointers
<1>3. todo[t] = <<>> /\ todo' = [todo EXCEPT ![t] = steps \o <<Do("give")>>]
  BY <1>1 DEF Call
<1> QED
  BY <1>2, <1>3, FileCall

LEMMA SearchCall ==
    ASSUME IInv, NEW t \in Thread, NEW h \in Handle, h \in given \cup cache[t],
           NEW L, todo[t] = <<>>, todo' = [todo EXCEPT ![t] = L],
           NEW y, NEW z, Block(Api, Inner(h, {}), L, y, z), y.op = "ensure", z.op = "take",
           UNCHANGED <<device, ret, owner, inited, table, handle, given, cache, mutexSym>>
    PROVE  IInv'
<1>1. Opens(Api, y) /\ Final(z)
  BY DEF Opens, Final
<1> QED
  BY <1>1, PlainCall

LEMMA SymCall ==
    ASSUME IInv, NEW t \in Thread, xdl_sym(t)
    PROVE  IInv'
<1>1. PICK h \in given, name \in {"dynsym", "symtab"} : Call(t, Search(<<name, h>>, "nothing"))
  BY DEF xdl_sym
<1>2. UNCHANGED <<device, ret, owner, inited, table, handle, given, cache, mutexSym>>
  BY DEF xdl_sym, objects, lists, pointers
<1>3. h \in Handle
  BY DEF IInv, TypeInv, DataTypes
<1> DEFINE k == <<name, h>>
<1>4. k \in Table /\ k[2] = h
  BY <1>3 DEF Table
<1> HIDE DEF k
<1>5. Block(Api, Inner(h, {}), Search(k, "nothing"), DoKey("ensure", k), Take(k, "nothing"))
  BY <1>3, <1>4, SearchBlock
<1>6. todo[t] = <<>> /\ todo' = [todo EXCEPT ![t] = Search(k, "nothing")]
  BY <1>1 DEF Call, k
<1>7. DoKey("ensure", k).op = "ensure" /\ Take(k, "nothing").op = "take"
  BY DEF DoKey, Take
<1> QED
  BY <1>2, <1>3, <1>5, <1>6, <1>7, SearchCall

\* Nothing but the call's list changes, and that is empty.
LEMMA Same ==
    ASSUME IInv,
           UNCHANGED <<device, todo, ret, owner, inited, table, handle, given, cache, mutexSym>>
    PROVE  IInv'
<1>1. Api' = Api /\ Live' = Live
  BY DEF Api, Live
<1>2. TypeInv' /\ ListInv' /\ LockInv' /\ TableInv'
  BY <1>1 DEF IInv, TypeInv, DataTypes, ListInv, LockInv, TableInv, Settled
<1>3. NextInv' /\ LinkerInv'
  BY <1>1 DEF IInv, NextInv, LinkerInv, Ready, Settled
<1>4. \A t \in Thread : /\ Pending(t)' = Pending(t) /\ Closing(t)' = Closing(t)
                        /\ UsedBy(t)' = UsedBy(t) /\ Own(t)' = Own(t)
  BY <1>1 DEF Pending, Closing, UsedBy, Own
<1>5. OwnInv'
  BY <1>1, <1>4 DEF IInv, OwnInv
<1>6. UseInv'
  BY <1>4 DEF IInv, UseInv
<1> QED
  BY <1>2, <1>3, <1>5, <1>6 DEF IInv

LEMMA AddrCall ==
    ASSUME IInv, NEW t \in Thread, xdl_addr(t)
    PROVE  IInv'
<1>1. UNCHANGED <<device, ret, owner, inited, table, handle, given, cache, mutexSym>>
  BY DEF xdl_addr, objects, lists, pointers
<1>2. PICK lib \in Lib :
        \/ \E h \in cache[t] : \E steps \in Named(h) : Call(t, steps)
        \/ Call(t, Iterating(lib) \o <<Do("cache")>>)
  BY DEF xdl_addr
<1>3. CASE \E h \in cache[t] : \E steps \in Named(h) : Call(t, steps)
  <2>0. PICK h \in cache[t] : \E steps \in Named(h) : Call(t, steps)
    BY <1>3
  <2>1. PICK L \in Named(h) : Call(t, L)
    BY <2>0
  <2>2. todo[t] = <<>> /\ todo' = [todo EXCEPT ![t] = L]
    BY <2>1 DEF Call
  <2>3. h \in Handle
    BY DEF IInv, TypeInv, DataTypes
  <2>4. CASE L = <<>>
    <3>1. todo' = todo
      BY <2>2, <2>4 DEF IInv, TypeInv
    <3> QED
      BY <1>1, <3>1, Same
  <2>5. CASE L # <<>>
    <3>1. PICK y, z : Block(Api, Inner(h, {}), L, y, z) /\ y.op = "ensure" /\ z.op = "take"
      BY <2>3, <2>5, NamedBlock
    <3> QED
      BY <1>1, <2>2, <2>3, <3>1, SearchCall
  <2> QED
    BY <2>4, <2>5
<1>4. CASE Call(t, Iterating(lib) \o <<Do("cache")>>)
  <2>1. todo[t] = <<>> /\ todo' = [todo EXCEPT ![t] = Iterating(lib) \o <<Do("cache")>>]
    BY <1>4 DEF Call
  <2> QED
    BY <1>1, <2>1, FileCall
<1> QED
  BY <1>2, <1>3, <1>4

LEMMA CloseCall ==
    ASSUME IInv, NEW t \in Thread, xdl_close(t)
    PROVE  IInv'
<1>1. PICK h \in given :
        /\ \A other \in Thread \ {t} : ~Uses(other, h)
        /\ given' = given \ {h}
        /\ Call(t, <<DoKey("close", <<"dynsym", h>>), DoLib("drop", handle[h].lib)>>)
  BY DEF xdl_close
<1>2. UNCHANGED <<device, ret, owner, inited, table, handle, cache, mutexSym>>
  BY DEF xdl_close, objects, pointers
<1>3. h \in Handle /\ h \in Live /\ handle[h].lib \in AnyLib
  <2>1. h \in Handle /\ h \in Live
    BY DEF IInv, TypeInv, DataTypes, OwnInv
  <2> QED
    BY <2>1 DEF IInv, TypeInv, DataTypes, Live
<1> DEFINE k == <<"dynsym", h>>
           c == DoKey("close", k)
           d == DoLib("drop", handle[h].lib)
<1>4. k \in Table /\ k[2] = h
  BY <1>3 DEF Table
<1>5. todo[t] = <<>> /\ todo' = [todo EXCEPT ![t] = <<c, d>>]
  BY <1>1 DEF Call
<1> HIDE DEF k
<1>6. /\ c \in Steps /\ c.op = "close" /\ c.key = k /\ Opens(Api, c) /\ Ends(c)
      /\ d \in Steps /\ d.op = "drop"
  BY <1>3, <1>4 DEF Steps, DoKey, DoLib, Opens, Ends
<1>7. Orderly(Api, <<c, d>>)
  BY <1>3, <1>4, CloseOrderly
<1> HIDE DEF c, d
<1>8. PICK L : L = <<c, d>>
  OBVIOUS
<1>9. /\ Orderly(Api, L) /\ L \in Seq(Steps) /\ L # <<>> /\ L[1] = c /\ Len(L) = 2
      /\ \A i \in 1 .. Len(L) : L[i] = c \/ L[i] = d
  <2>1. Len(L) = 2 /\ L[1] = c /\ L[2] = d /\ L \in Seq(Steps)
    BY <1>6, <1>8
  <2>2. \A i \in 1 .. 2 : i = 1 \/ i = 2
    OBVIOUS
  <2> QED
    BY <1>7, <1>8, <2>1, <2>2
<1>10. On(c, h) /\ (\A g \in Handle : On(c, g) => g = h) /\ \A g \in Handle : ~On(d, g)
  BY <1>4, <1>6 DEF On, OnKey, Asks, Fills
<1>11. /\ Pending(t)' = {} /\ Pending(t) = {} /\ Closing(t) = {} /\ UsedBy(t) = {}
       /\ UsedBy(t)' = {g \in Handle : \E i \in 1 .. Len(L) : On(L[i], g)}
       /\ Closing(t)' = {g \in Handle : \E i \in 1 .. Len(L) : Ends(L[i]) /\ On(L[i], g)}
       /\ \A u \in Thread \ {t} : todo'[u] = todo[u]
  <2>1. todo' = [todo EXCEPT ![t] = L] /\ Opens(Api, L[1]) /\ UNCHANGED device
    BY <1>2, <1>5, <1>6, <1>8, <1>9
  <2> QED
    BY <1>5, <1>9, <2>1, CallSets
<1>12. Closing(t)' = {h} /\ UsedBy(t)' = {h}
  <2>1. 1 \in 1 .. Len(L)
    BY <1>9
  <2> QED
    BY <1>3, <1>6, <1>9, <1>10, <1>11, <2>1
<1>13. ASSUME NEW u \in Thread \ {t} PROVE h \notin UsedBy(u)
  <2> SUFFICES ASSUME NEW i \in 1 .. Len(todo[u]), On(todo[u][i], h) PROVE FALSE
    BY DEF UsedBy
  <2>1. todo[u] \in Seq(Steps)
    BY DEF IInv, TypeInv
  <2>2. todo[u][i] \in Steps /\ i \in DOMAIN todo[u]
    BY <2>1
  <2>3. "key" \in DOMAIN todo[u][i]
    BY <2>2, StepFacts DEF On
  <2> QED
    BY <1>1, <2>2, <2>3 DEF Uses, On
<1>14. /\ given \subseteq Live /\ Own(t) \subseteq Live /\ Own(t) \cap given = {}
       /\ Own(t) = cache[t] /\ Own(t)' = {h} \cup cache[t] /\ Live' = Live /\ Live \subseteq Handle
  BY <1>2, <1>11, <1>12 DEF IInv, OwnInv, Own, Live
<1>15. OwnInv' /\ UseInv'
  <2>1. /\ Own(t)' \cup given' \subseteq Own(t) \cup given \cup (Handle \ Live)
        /\ Own(t)' \cap given' = {}
        /\ Own(t)' \cup given' \subseteq Live' /\ Live \ Live' \subseteq Own(t)
    BY <1>1, <1>3, <1>14
  <2>2. /\ Pending(t)' \cap Closing(t)' = {} /\ Pending(t)' \cap cache'[t] = {}
        /\ Closing(t)' \cap cache'[t] = {}
        /\ UsedBy(t)' \subseteq given' \cup cache'[t] \cup Closing(t)'
    BY <1>2, <1>11, <1>12, <1>14
  <2>3. /\ \A u \in Thread \ {t} : todo'[u] = todo[u] /\ ret'[u] = ret[u] /\ cache'[u] = cache[u]
        /\ \A u \in Thread \ {t} : UsedBy(u) \cap given \subseteq given'
    BY <1>1, <1>2, <1>11, <1>13
  <2>4. UNCHANGED device
    BY <1>2
  <2> QED
    BY <2>1, <2>2, <2>3, <2>4, OwnKept
<1>16. DataTypes'
  BY <1>1, <1>2 DEF IInv, TypeInv, DataTypes
<1>17. \A i \in 1 .. Len(L) : L[i].op \notin {"done", "unlock"}
  BY <1>6, <1>9
<1> QED
  BY <1>2, <1>5, <1>6, <1>8, <1>9, <1>15, <1>16, <1>17, CallMove

LEMMA CleanCall ==
    ASSUME IInv, NEW t \in Thread, xdl_addr_clean(t)
    PROVE  IInv'
<1>1. /\ todo[t] = <<>> /\ todo' = [todo EXCEPT ![t] = <<>>]
      /\ handle' = [h \in Handle |-> IF h \in cache[t] THEN Unused ELSE handle[h]]
      /\ cache' = [cache EXCEPT ![t] = {}]
      /\ UNCHANGED <<device, ret, owner, inited, table, given, mutexSym>>
  BY DEF xdl_addr_clean, Call, pointers
<1>2. DataTypes
  BY DEF IInv, TypeInv
<1>3. PICK L : L = <<>>
  OBVIOUS
<1>4. Orderly(Api, L) /\ L \in Seq(Steps) /\ \A i \in 1 .. Len(L) : FALSE
  <2>1. L \in Seq(Steps) /\ \A i \in 1 .. Len(L) : FALSE
    BY <1>3
  <2>2. InOrder(Api, L)
    BY <1>3 DEF InOrder
  <2> QED
    BY <1>3, <2>1, <2>2 DEF Orderly, PartsFinish, ReleasesOnce, EndsLast
<1>5. /\ cache'[t] = {} /\ \A u \in Thread \ {t} : cache'[u] = cache[u]
      /\ cache' \in [Thread -> SUBSET Handle]
  BY <1>1, <1>2 DEF DataTypes
<1>6. Live' = Live \ cache[t] /\ Live \subseteq Handle
  BY <1>1 DEF Live
<1>7. /\ Pending(t)' = {} /\ Pending(t) = {} /\ Closing(t) = {} /\ UsedBy(t) = {}
      /\ UsedBy(t)' = {g \in Handle : \E i \in 1 .. Len(L) : On(L[i], g)}
      /\ Closing(t)' = {g \in Handle : \E i \in 1 .. Len(L) : Ends(L[i]) /\ On(L[i], g)}
      /\ \A u \in Thread \ {t} : todo'[u] = todo[u]
  <2>1. todo' = [todo EXCEPT ![t] = L] /\ todo[t] = <<>> /\ UNCHANGED device
    BY <1>1, <1>3
  <2>2. L # <<>> => Opens(Api, L[1])
    BY <1>3
  <2>3. L \in Seq(Steps)
    BY <1>4
  <2> QED
    BY <2>1, <2>2, <2>3, CallSets
<1>8. UsedBy(t)' = {} /\ Closing(t)' = {}
  BY <1>4, <1>7
<1>9. /\ given \subseteq Live /\ Own(t) \subseteq Live /\ Own(t) \cap given = {}
      /\ Own(t) = cache[t] /\ Own(t)' = {}
  BY <1>5, <1>7, <1>8 DEF IInv, OwnInv, Own
<1>10. OwnInv' /\ UseInv'
  <2>1. /\ Own(t)' \cup given' \subseteq Own(t) \cup given \cup (Handle \ Live)
        /\ Own(t)' \cap given' = {}
        /\ Own(t)' \cup given' \subseteq Live' /\ Live \ Live' \subseteq Own(t)
    BY <1>1, <1>6, <1>9
  <2>2. /\ Pending(t)' \cap Closing(t)' = {} /\ Pending(t)' \cap cache'[t] = {}
        /\ Closing(t)' \cap cache'[t] = {}
        /\ UsedBy(t)' \subseteq given' \cup cache'[t] \cup Closing(t)'
    BY <1>7, <1>8
  <2>3. /\ \A u \in Thread \ {t} : todo'[u] = todo[u] /\ ret'[u] = ret[u] /\ cache'[u] = cache[u]
        /\ \A u \in Thread \ {t} : UsedBy(u) \cap given \subseteq given'
    BY <1>1, <1>5, <1>7
  <2>4. UNCHANGED device
    BY <1>1
  <2> QED
    BY <2>1, <2>2, <2>3, <2>4, OwnKept
<1>11. DataTypes'
  <2>1. handle' \in [Handle -> [lib : AnyLib, held : BOOLEAN] \cup {Unused}]
    BY <1>1, <1>2 DEF DataTypes
  <2> QED
    BY <1>1, <1>2, <1>5, <2>1 DEF DataTypes
<1> QED
  BY <1>1, <1>3, <1>4, <1>10, <1>11, CallMove

-----------------------------------------------------------------------------
(***************************************************************************)
(* The theorems.                                                           *)
(***************************************************************************)
LEMMA InitIInv == Init => IInv
<1> SUFFICES ASSUME Init PROVE IInv
  OBVIOUS
<1> USE DEF Init
<1>1. /\ \A t \in Thread : todo[t] = <<>> /\ cache[t] = {} /\ ret[t] = Null
      /\ \A l \in Lock : owner[l] = Nobody
      /\ \A i \in 1 .. Len(<<>>) : FALSE
  OBVIOUS
<1>2. TypeInv
  <2>1. todo \in [Thread -> Seq(Steps)]
    OBVIOUS
  <2>2. DataTypes
    BY DEF DataTypes
  <2> QED
    BY <2>1, <2>2 DEF TypeInv
<1>3. ListInv
  <2>1. Orderly(Api, <<>>)
    <3>1. InOrder(Api, <<>>)
      BY DEF InOrder
    <3>2. PICK L : L = <<>>
      OBVIOUS
    <3>3. L \in Seq(Steps) /\ InOrder(Api, L) /\ \A i \in 1 .. Len(L) : FALSE
      BY <1>1, <3>1, <3>2
    <3>4. Orderly(Api, L)
      BY <3>2, <3>3 DEF Orderly, PartsFinish, ReleasesOnce, EndsLast
    <3> QED
      BY <3>2, <3>4
  <2> QED
    BY <1>1, <2>1 DEF ListInv
<1>4. LockInv
  <2>1. \A k \in Key : k \in Lock
    BY DEF Key, Lock
  <2> QED
    BY <1>1, <2>1, ThreadAssumption DEF LockInv
<1>5. TableInv /\ NextInv /\ LinkerInv
  <2>1. GDl \in Lock
    BY DEF Lock
  <2> QED
    BY <1>1, <2>1, ThreadAssumption DEF TableInv, NextInv, LinkerInv
<1>6. \A t \in Thread : Pending(t) = {} /\ Closing(t) = {} /\ UsedBy(t) = {} /\ Own(t) = {}
  BY <1>1 DEF Pending, Closing, UsedBy, Own
<1>7. OwnInv /\ UseInv
  BY <1>1, <1>6 DEF OwnInv, UseInv
<1> QED
  BY <1>2, <1>3, <1>4, <1>5, <1>7 DEF IInv

LEMMA StepIInv ==
    ASSUME IInv, NEW t \in Thread, Step(t)
    PROVE  IInv'
BY EnsureStep, LockAndLookStep, DoneStep, UnlockStep, FromAuxvStep, AgainStep, IterateStep,
   LockLinkerStep, UnlockLinkerStep, TryForceStep, ForceAsStep, DlopenStep, ForcedStep, HoldStep,
   LinkerFoundStep, NoExtStep, ScanCallersStep, LzmaFoundStep, TakeItStep, ReadStep, WholeStep,
   UnpackStep, CloseStep, GiveStep, DropStep, CacheStep DEF Step

LEMMA NextIInv == IInv /\ [Next]_vars => IInv'
<1> SUFFICES ASSUME IInv, [Next]_vars PROVE IInv'
  OBVIOUS
<1>1. ASSUME NEW t \in Thread,
             Step(t) \/ xdl_open(t) \/ xdl_sym(t) \/ xdl_close(t) \/ xdl_addr(t) \/ xdl_addr_clean(t)
      PROVE  IInv'
  BY <1>1, StepIInv, OpenCall, SymCall, CloseCall, AddrCall, CleanCall
<1>2. ASSUME NEW lib \in Lib, AppDlopen(lib) \/ AppDlclose(lib) PROVE IInv'
  BY <1>2, Same DEF AppDlopen, AppDlclose, objects, lists, pointers
<1>3. CASE UNCHANGED vars
  BY <1>3, Same DEF vars, objects, lists, pointers
<1> QED
  BY <1>1, <1>2, <1>3 DEF Next

\* The inductive invariant: the lists of all threads are orderly and agree with the
\* locks, tables and handles, whatever step of xdl_open, xdl_sym, xdl_addr,
\* xdl_addr_clean or xdl_close any thread is at.
THEOREM Invariant == Spec => []IInv
<1>1. Init => IInv
  BY InitIInv
<1>2. IInv /\ [Next]_vars => IInv'
  BY NextIInv
<1> QED
  BY <1>1, <1>2, PTL DEF Spec

\* Every variable keeps its type, and a thread only ever has steps to do that Step knows.
THEOREM TypeCorrect == Spec => []TypeInv
<1>1. IInv => TypeInv
  BY DEF IInv
<1> QED
  BY <1>1, Invariant, PTL

\* A table that a search takes a symbol from is whole, or was found missing: the one
\* look at its flag without the lock, in xdl_ensure_dynsym_loaded and
\* xdl_ensure_symtab_loaded, never lets a thread into a table that another is reading.
THEOREM SearchesSeeWholeTablesCorrect == Spec => []SearchesSeeWholeTables
<1>1. IInv => SearchesSeeWholeTables
  <2> SUFFICES ASSUME IInv, NEW t \in Thread, At(t, "take")
               PROVE  table[Now(t).key] \in {"whole", "missing"}
    BY DEF SearchesSeeWholeTables
  <2>1. Now(t) \in Steps /\ Now(t).op = "take" /\ Ready(t, Now(t))
    BY Begin
  <2>2. Now(t).key \in Table /\ Now(t).key \in inited
    BY <2>1, StepFacts DEF Ready
  <2> QED
    BY <2>2 DEF IInv, TableInv, Settled
<1> QED
  BY <1>1, Invariant, PTL

\* Where the linker has a mutex that xdl_linker_lock takes, the list of Android 5 is
\* walked and the loader of Android 7 called with it, xdl_linker_unlock gives back what
\* its own thread took, and a call that has ended holds no lock.
THEOREM LinkerIsLockedCorrect == Spec => []LinkerIsLocked
<1>1. IInv => LinkerIsLocked
  <2> SUFFICES ASSUME IInv, NEW t \in Thread
               PROVE  /\ ((Lollipop /\ At(t, "iterate")) \/ (Nougat /\ At(t, "dlopen")))
                            => Symbols \in inited /\ (mutexSym => owner[GDl] = t)
                      /\ (At(t, "unlockLinker") /\ mutexSym) => owner[GDl] = t
                      /\ todo[t] = <<>> => \A l \in Lock : owner[l] # t
    BY DEF LinkerIsLocked
  <2>1. ASSUME (Lollipop /\ At(t, "iterate")) \/ (Nougat /\ At(t, "dlopen"))
        PROVE  Symbols \in inited /\ (mutexSym => owner[GDl] = t)
    <3>1. Guarded(Api, Now(t)) /\ Ready(t, Now(t))
      BY <2>1, Begin DEF Guarded, Lollipop, Nougat
    <3> QED
      BY <3>1 DEF Ready, InLinker
  <2>2. ASSUME At(t, "unlockLinker") PROVE mutexSym => owner[GDl] = t
    BY <2>2, Begin DEF Ready, InLinker
  <2>3. ASSUME todo[t] = <<>>, NEW l \in Lock PROVE owner[l] # t
    <3>1. l \in Key \/ l = GDl
      BY DEF Lock, Key
    <3>2. owner[GDl] # t
      BY <2>3 DEF IInv, LinkerInv
    <3>3. \A i \in 1 .. Len(todo[t]) : FALSE
      BY <2>3
    <3>4. l \in Key => owner[l] # t
      BY <3>3 DEF IInv, LockInv
    <3> QED
      BY <3>1, <3>2, <3>4
  <2> QED
    BY <2>1, <2>2, <2>3
<1> QED
  BY <1>1, Invariant, PTL

-----------------------------------------------------------------------------
(***************************************************************************)
(* What is held stays mapped: the linker's count of a library is at least  *)
(* the number of those who claim it.                                       *)
(***************************************************************************)
\* The libraries that a step is about: its result is of that library, or it
\* expects what the step before it found or loaded to be of it.
Gives(x) == x.op \in {"iterate", "auxv", "again", "tryForce", "forced", "hold", "dlopen", "forceAs"}
Wants(y) == y.op \in {"hold", "tryForce", "forced", "lzmaFound"}
LibOf(x) == IF x.op \in {"auxv", "again"} THEN Linker
            ELSE IF x.op = "lzmaFound" THEN Lzma ELSE x.lib
Pair(x, y) == Gives(x) /\ Wants(y) => LibOf(x) = LibOf(y)

\* The result of step i is what step j finds: unlocking leaves it alone.
Feeds(L, i, j) == j = i + 1 \/ (j = i + 2 /\ L[i + 1].op = "unlockLinker")
Agrees(L) == \A i, j \in 1 .. Len(L) : Feeds(L, i, j) => Pair(L[i], L[j])

\* Step j finds what is in ret now.
Waits(L, j) == j = 1 \/ (j = 2 /\ L[1].op = "unlockLinker")

Found(t) == \A j \in 1 .. Len(todo[t]) :
    /\ Waits(todo[t], j)
    /\ todo[t][j].op \in {"hold", "tryForce", "lzmaFound"}
    /\ ret[t] \in Handle
    => handle[ret[t]].lib = LibOf(todo[t][j])

\* The linker's handle is given to dlclose after xdl_close, and only then.
Drops(L) == \E i \in 1 .. Len(L) : L[i].op = "drop"

Dropping(t) == \A i \in 1 .. Len(todo[t]) :
    todo[t][i].op = "drop" =>
      /\ Len(todo[t]) = i
      /\ i = 1 \/ (/\ i = 2 /\ todo[t][1].op = "close"
                   /\ handle[todo[t][1].key[2]].lib = todo[t][2].lib)

\* Handles that are going to be closed without a dlclose.
Lost(t) == {h \in Closing(t) : ~Drops(todo[t])}

TakesCode(x) == x.op = "take" /\ x.into = "code"

Coding(t) == \A i \in 1 .. Len(todo[t]) :
    TakesCode(todo[t][i]) =>
      /\ todo[t][i].key[2] \in Lost(t)
      /\ handle[todo[t][i].key[2]].lib = Lzma

\* Who claims that lib stays mapped: the application, the handles, the
\* functions that were found in liblzma, and steps that a thread has ahead,
\* counted from the end of its list.
Claims(t, j, lib) ==
    LET x == todo[t][j] IN
    \/ x.op = "hold" /\ x.lib = lib
    \/ x.op \in {"forced", "drop"} /\ x.lib = lib /\ Waits(todo[t], j) /\ ret[t] = LinkerHandle

Holds(h, lib) == handle[h].held /\ handle[h].lib = lib

\* The places of the steps of t that claim lib, from the end of its list.
Ahead(t, lib) ==
    {p \in Nat : \E j \in 1 .. Len(todo[t]) : Claims(t, j, lib) /\ p = Len(todo[t]) - j}

Token == ({"app", "code"} \X {Nobody} \X {0}) \cup ({"handle"} \X {Nobody} \X Handle)
           \cup ({"step"} \X Thread \X Nat)

Claimed(c, lib) ==
    \/ c[1] = "app" /\ lib \in app
    \/ /\ c[1] = "code" /\ lib = Lzma
       /\ code = "forced" \/ \E t \in Thread : \E h \in Lost(t) : Holds(h, lib)
    \/ /\ c[1] = "handle" /\ Holds(c[3], lib)
       /\ lib = Lzma => \A t \in Thread : c[3] \notin Lost(t)
    \/ c[1] = "step" /\ c[3] \in Ahead(c[2], lib)

Claimants(lib) == {c \in Token : Claimed(c, lib)}

Covered(C, n) == IsFiniteSet(C) /\ n \in Nat /\ Cardinality(C) <= n

CountInv == /\ refs \in [Lib -> Nat]
            /\ \A lib \in Lib : Covered(Claimants(lib), refs[lib])

HeldInv == /\ \A t \in Thread : Agrees(todo[t]) /\ Found(t) /\ Dropping(t) /\ Coding(t)
           /\ CountInv

\* The first step of t is replaced by the list s.
Turns(t, s) ==
    /\ t \in Thread /\ todo[t] # <<>>
    /\ s \in Seq(Steps)
    /\ Goes(t, s)
    /\ UNCHANGED device

LEMMA TurnSeq ==
    ASSUME TypeInv, NEW t, NEW s, Turns(t, s)
    PROVE  /\ todo[t] \in Seq(Steps) /\ s \in Seq(Steps)
           /\ Len(todo[t]) \in Nat \ {0} /\ Len(s) \in Nat
           /\ todo'[t] \in Seq(Steps) /\ todo'[t] = s \o Tail(todo[t])
           /\ Len(todo'[t]) = Len(s) + Len(todo[t]) - 1
           /\ \A u \in Thread \ {t} : todo'[u] = todo[u]
           /\ \A i \in 1 .. Len(s) : i \in 1 .. Len(todo'[t]) /\ todo'[t][i] = s[i]
           /\ \A j \in 2 .. Len(todo[t]) : /\ j + Len(s) - 1 \in 1 .. Len(todo'[t])
                                           /\ todo'[t][j + Len(s) - 1] = todo[t][j]
           /\ \A i \in 1 .. Len(todo'[t]) : \/ i \in 1 .. Len(s)
                                            \/ \E j \in 2 .. Len(todo[t]) : i = j + Len(s) - 1
<1>1. todo[t] \in Seq(Steps) /\ s \in Seq(Steps) /\ todo[t] # <<>> /\ t \in Thread
  BY DEF TypeInv, Turns
<1>2. todo'[t] = s \o Tail(todo[t]) /\ \A u \in Thread \ {t} : todo'[u] = todo[u]
  BY <1>1 DEF TypeInv, Turns, Goes
<1> DEFINE L == todo[t]
           w == todo'[t]
<1>3. L \in Seq(Steps) /\ L # <<>> /\ w = s \o Tail(L)
  BY <1>1, <1>2
<1> HIDE DEF L, w
<1>4. Len(L) \in Nat \ {0} /\ Len(s) \in Nat
  BY <1>1, <1>3
<1>5. w \in Seq(Steps) /\ Len(w) = Len(s) + Len(L) - 1
  BY <1>1, <1>3
<1>6. /\ \A i \in 1 .. Len(s) : i \in 1 .. Len(w) /\ w[i] = s[i]
      /\ \A j \in 2 .. Len(L) : /\ j + Len(s) - 1 \in 1 .. Len(w)
                                /\ w[j + Len(s) - 1] = L[j]
  BY <1>1, <1>3, <1>4, <1>5
<1>7. ASSUME NEW i \in 1 .. Len(w), i \notin 1 .. Len(s)
      PROVE  \E j \in 2 .. Len(L) : i = j + Len(s) - 1
  <2>1. i - Len(s) + 1 \in 2 .. Len(L) /\ i = (i - Len(s) + 1) + Len(s) - 1
    BY <1>4, <1>5, <1>7
  <2> QED
    BY <2>1
<1> QED
  BY <1>2, <1>3, <1>4, <1>5, <1>6, <1>7, <1>1 DEF L, w

\* The steps that stay.
LEMMA TurnLater ==
    ASSUME TypeInv, NEW t, NEW s, Turns(t, s), NEW j \in 2 .. Len(todo[t])
    PROVE  /\ j + Len(s) - 1 \in 1 .. Len(todo'[t])
           /\ todo'[t][j + Len(s) - 1] = todo[t][j]
<1>1. \A k \in 2 .. Len(todo[t]) : /\ k + Len(s) - 1 \in 1 .. Len(todo'[t])
                                   /\ todo'[t][k + Len(s) - 1] = todo[t][k]
  BY TurnSeq
<1> QED
  BY <1>1

LEMMA PopSeq ==
    ASSUME IInv, NEW t, Turns(t, <<>>)
    PROVE  /\ todo[t] # <<>> /\ t \in Thread /\ Len(todo[t]) \in Nat \ {0}
           /\ Len(todo'[t]) = Len(todo[t]) - 1
           /\ \A j \in 2 .. Len(todo[t]) : todo'[t][j - 1] = todo[t][j]
           /\ \A i \in 1 .. Len(todo'[t]) : /\ i + 1 \in 2 .. Len(todo[t])
                                            /\ todo'[t][i] = todo[t][i + 1]
<1>1. PICK s : s = <<>>
  OBVIOUS
<1>2. Turns(t, s) /\ Len(s) = 0 /\ TypeInv
  BY <1>1 DEF IInv
<1>3. /\ Len(todo[t]) \in Nat \ {0} /\ Len(todo'[t]) = Len(s) + Len(todo[t]) - 1
  BY <1>2, TurnSeq
<1>4. \A j \in 2 .. Len(todo[t]) : todo'[t][j + Len(s) - 1] = todo[t][j]
  BY <1>2, TurnLater
<1>5. ASSUME NEW j \in 2 .. Len(todo[t]) PROVE todo'[t][j - 1] = todo[t][j]
  <2>1. j + Len(s) - 1 = j - 1
    BY <1>2, <1>3
  <2> QED
    BY <1>4, <2>1
<1>6. ASSUME NEW i \in 1 .. Len(todo'[t])
      PROVE  i + 1 \in 2 .. Len(todo[t]) /\ todo'[t][i] = todo[t][i + 1]
  <2>1. i + 1 \in 2 .. Len(todo[t]) /\ (i + 1) - 1 = i
    BY <1>2, <1>3
  <2> QED
    BY <1>5, <2>1
<1> QED
  BY <1>2, <1>3, <1>5, <1>6 DEF Turns

\* What the list that a step x is replaced by hands on.
Starts(y) == Opens(Api, y) \/ y.op = "unlock"

Hands(x, s) ==
    /\ Agrees(s)
    /\ s # <<>> => Starts(s[1]) /\ x.op \notin {"iterate", "dlopen"}
    /\ \A i \in 1 .. Len(s) :
         /\ Gives(s[i]) /\ (i = Len(s) \/ (i = Len(s) - 1 /\ s[Len(s)].op = "unlockLinker"))
              => Gives(x) /\ LibOf(s[i]) = LibOf(x)
         /\ s[i].op # "drop"
         /\ s[i].op = "hold" => i = Len(s) /\ x.op = "forced" /\ s[i].lib = x.lib
         /\ TakesCode(s[i]) => x.op = "lzmaFound"

\* One list, after another.
LEMMA AgreesAfter ==
    ASSUME NEW L \in Seq(Steps), L # <<>>, NEW s \in Seq(Steps), Agrees(L), Agrees(s),
           s # <<>> /\ Len(L) >= 2 => L[2].op # "unlockLinker",
           \A i \in 1 .. Len(s) :
             Gives(s[i]) /\ (i = Len(s) \/ (i = Len(s) - 1 /\ s[Len(s)].op = "unlockLinker"))
               => Gives(L[1]) /\ LibOf(s[i]) = LibOf(L[1])
    PROVE  Agrees(s \o Tail(L))
<1> DEFINE w == s \o Tail(L)
           n == Len(s)
           m == Len(L)
<1>1. n \in Nat /\ m \in Nat \ {0} /\ Len(w) = n + m - 1
  OBVIOUS
<1>2. /\ \A i \in 1 .. n : w[i] = s[i]
      /\ \A i \in n + 1 .. n + m - 1 : w[i] = L[i - n + 1]
  OBVIOUS
<1> HIDE DEF w, n, m
<1> SUFFICES ASSUME NEW i \in 1 .. Len(w), NEW j \in 1 .. Len(w), Feeds(w, i, j)
             PROVE  Pair(w[i], w[j])
  BY DEF Agrees, w
<1>3. /\ i \in 1 .. n + m - 1 /\ j \in 1 .. n + m - 1
      /\ j = i + 1 \/ (j = i + 2 /\ w[i + 1].op = "unlockLinker")
  BY <1>1 DEF Feeds
<1>4. CASE j <= n
  <2>1. i \in 1 .. n /\ j \in 1 .. n /\ (j = i + 2 => i + 1 \in 1 .. n)
    BY <1>1, <1>3, <1>4
  <2>2. Feeds(s, i, j)
    BY <1>2, <1>3, <2>1 DEF Feeds
  <2>3. Pair(s[i], s[j])
    BY <2>1, <2>2 DEF Agrees, n
  <2> QED
    BY <1>2, <2>1, <2>3
<1>5. CASE i > n
  <2>1. PICK k, l : k = i - n + 1 /\ l = j - n + 1
    OBVIOUS
  <2>2. /\ k \in 1 .. m /\ l \in 1 .. m /\ w[i] = L[k] /\ w[j] = L[l]
        /\ l = k + 1 \/ (l = k + 2 /\ i + 1 \in n + 1 .. n + m - 1 /\ (i + 1) - n + 1 = k + 1)
        /\ (l = k + 2 => j = i + 2)
    BY <1>1, <1>2, <1>3, <1>5, <2>1
  <2>3. Feeds(L, k, l)
    BY <1>2, <1>3, <2>2 DEF Feeds
  <2>4. Pair(L[k], L[l])
    BY <2>2, <2>3 DEF Agrees, m
  <2> QED
    BY <2>2, <2>4
<1>6. CASE i <= n /\ j > n
  <2>1. n # 0 /\ i \in 1 .. n /\ m >= 2 /\ s # <<>>
    BY <1>1, <1>3, <1>6 DEF n
  <2>2. L[2].op # "unlockLinker"
    BY <2>1 DEF m
  <2>3. n + 1 \in n + 1 .. n + m - 1 /\ (n + 1) - n + 1 = 2
    BY <1>1, <2>1
  <2>4. w[n + 1] = L[2] /\ w[i] = s[i] /\ w[n] = s[n]
    BY <1>1, <1>2, <2>1, <2>3
  <2>5. j = n + 1 /\ (i = n \/ (i = n - 1 /\ s[n].op = "unlockLinker"))
    <3>1. CASE j = i + 1
      BY <1>1, <1>3, <1>6, <3>1
    <3>2. CASE j = i + 2 /\ w[i + 1].op = "unlockLinker"
      <4>1. i + 1 = n \/ i = n
        BY <1>1, <1>3, <1>6, <3>2
      <4>2. i # n
        BY <2>2, <2>4, <3>2
      <4>3. i + 1 = n
        BY <4>1, <4>2
      <4>4. i = n - 1 /\ j = n + 1
        BY <1>1, <1>3, <3>2, <4>3
      <4> QED
        BY <2>4, <3>2, <4>3, <4>4
    <3> QED
      BY <1>3, <3>1, <3>2
  <2>6. Gives(s[i]) => Gives(L[1]) /\ LibOf(s[i]) = LibOf(L[1])
    BY <2>1, <2>5 DEF n
  <2>7. Pair(L[1], L[2])
    <3>1. 1 \in 1 .. m /\ 2 \in 1 .. m /\ Feeds(L, 1, 2)
      BY <1>1, <2>1 DEF Feeds
    <3> QED
      BY <3>1 DEF Agrees, m
  <2> QED
    BY <2>4, <2>5, <2>6, <2>7 DEF Pair
<1> QED
  BY <1>1, <1>3, <1>4, <1>5, <1>6

\* The steps that a thread has next.
LEMMA NextTwo ==
    ASSUME IInv, NEW t \in Thread, todo[t] # <<>>
    PROVE  /\ todo[t] \in Seq(Steps) /\ Len(todo[t]) \in Nat \ {0} /\ todo[t][1] \in Steps
           /\ Len(todo[t]) >= 2 => Before(Api, todo[t][1], todo[t][2]) /\ todo[t][2] \in Steps
           /\ Len(todo[t]) >= 3 => Before(Api, todo[t][2], todo[t][3]) /\ todo[t][3] \in Steps
<1> DEFINE L == todo[t]
<1>1. L \in Seq(Steps) /\ L # <<>> /\ InOrder(Api, L)
  BY DEF IInv, ListInv, Orderly
<1> HIDE DEF L
<1>2. Len(L) \in Nat \ {0} /\ L[1] \in Steps
  BY <1>1
<1>3. Len(L) >= 2 => 1 \in 1 .. Len(L) - 1 /\ 1 + 1 = 2 /\ L[2] \in Steps
  BY <1>1, <1>2
<1>4. Len(L) >= 3 => 2 \in 1 .. Len(L) - 1 /\ 2 + 1 = 3 /\ L[3] \in Steps
  BY <1>1, <1>2
<1> QED
  BY <1>1, <1>2, <1>3, <1>4 DEF InOrder, L

LEMMA TurnAgrees ==
    ASSUME IInv, NEW t, NEW s, Turns(t, s), Hands(todo[t][1], s), Agrees(todo[t])
    PROVE  Agrees(todo'[t])
<1>1. todo[t] \in Seq(Steps) /\ todo[t] # <<>> /\ t \in Thread /\ s \in Seq(Steps)
  BY TurnSeq DEF Turns, IInv
<1>2. s # <<>> /\ Len(todo[t]) >= 2 => todo[t][2].op # "unlockLinker"
  <2>1. ASSUME s # <<>>, Len(todo[t]) >= 2, todo[t][2].op = "unlockLinker" PROVE FALSE
    <3>1. Guarded(Api, todo[t][1])
      BY <1>1, <2>1, NextTwo DEF Before
    <3> QED
      BY <2>1, <3>1 DEF Guarded, Hands
  <2> QED
    BY <2>1
<1>3. Agrees(s \o Tail(todo[t]))
  BY <1>1, <1>2, AgreesAfter DEF Hands
<1> QED
  BY <1>3, TurnSeq DEF IInv

\* A list with a step to drop the linker's handle is that of xdl_close.
LEMMA NoDrops ==
    ASSUME IInv, NEW t, NEW s, Turns(t, s), Hands(todo[t][1], s), Dropping(t),
           todo[t][1].op \notin {"close", "drop"}
    PROVE  ~Drops(todo[t]) /\ ~Drops(todo'[t])
<1>1. ASSUME NEW j \in 1 .. Len(todo[t]), todo[t][j].op = "drop" PROVE FALSE
  BY <1>1 DEF Dropping
<1>2. Len(todo[t]) \in Nat
  BY TurnSeq DEF IInv
<1>3. ASSUME NEW i \in 1 .. Len(todo'[t]), todo'[t][i].op = "drop" PROVE FALSE
  <2>1. CASE i \in 1 .. Len(s)
    BY <1>3, <2>1, TurnSeq DEF IInv, Hands
  <2>2. CASE i \notin 1 .. Len(s)
    <3>1. PICK j \in 2 .. Len(todo[t]) : i = j + Len(s) - 1
      BY <2>2, TurnSeq DEF IInv
    <3>2. todo'[t][i] = todo[t][j]
      BY <3>1, TurnLater DEF IInv
    <3>3. todo[t][j].op = "drop" /\ j \in 1 .. Len(todo[t])
      BY <1>2, <1>3, <3>2
    <3> QED
      BY <1>1, <3>3
  <2> QED
    BY <2>1, <2>2
<1> QED
  BY <1>1, <1>3 DEF Drops

\* A thread keeps to its own while another takes a step.
LEMMA OtherThread ==
    ASSUME IInv, NEW u \in Thread, todo'[u] = todo[u], ret'[u] = ret[u], UNCHANGED device,
           Agrees(todo[u]), Found(u), Dropping(u), Coding(u),
           \A h \in Own(u) : handle'[h].lib = handle[h].lib
    PROVE  /\ (Agrees(todo[u]) /\ Found(u) /\ Dropping(u) /\ Coding(u))'
           /\ Lost(u)' = Lost(u)
<1>1. Agrees(todo'[u])
  OBVIOUS
<1>2. Closing(u)' = Closing(u) /\ Lost(u)' = Lost(u)
  BY DEF Closing, Lost
<1>3. Found(u)'
  <2> SUFFICES ASSUME NEW j \in 1 .. Len(todo[u]), Waits(todo[u], j),
                      todo[u][j].op \in {"hold", "tryForce", "lzmaFound"}, ret[u] \in Handle
               PROVE  handle'[ret[u]].lib = LibOf(todo[u][j])
    BY DEF Found
  <2>1. handle[ret[u]].lib = LibOf(todo[u][j])
    BY DEF Found
  <2>2. todo[u] # <<>> /\ Len(todo[u]) \in Nat
    <3>1. todo[u] \in Seq(Steps) /\ \A i \in 1 .. Len(<<>>) : FALSE
      BY DEF IInv, TypeInv
    <3> QED
      BY <3>1
  <2>3. AwaitsFile(Api, todo[u][1])
    <3>1. CASE j = 1
      BY <3>1 DEF AwaitsFile, Awaits
    <3>2. CASE j = 2 /\ todo[u][1].op = "unlockLinker"
      <4>1. Before(Api, todo[u][1], todo[u][2])
        BY <2>2, <3>2, NextTwo
      <4> QED
        BY <3>2, <4>1 DEF AwaitsFile, Awaits, Before, Yields
    <3> QED
      BY <3>1, <3>2 DEF Waits
  <2>4. ret[u] \in Own(u)
    BY <2>2, <2>3 DEF Own, Pending
  <2> QED
    BY <2>1, <2>4
<1>4. Dropping(u)'
  <2> SUFFICES ASSUME NEW i \in 1 .. Len(todo[u]), todo[u][i].op = "drop"
               PROVE  /\ Len(todo[u]) = i
                      /\ i = 1 \/ (/\ i = 2 /\ todo[u][1].op = "close"
                                   /\ handle'[todo[u][1].key[2]].lib = todo[u][2].lib)
    BY DEF Dropping
  <2>1. CASE i = 1
    BY <2>1 DEF Dropping
  <2>2. CASE i # 1
    <3>1. /\ Len(todo[u]) = i /\ i = 2 /\ todo[u][1].op = "close"
          /\ handle[todo[u][1].key[2]].lib = todo[u][2].lib
      BY <2>2 DEF Dropping
    <3>2. todo[u] # <<>>
      <4>1. \A k \in 1 .. Len(<<>>) : FALSE
        OBVIOUS
      <4> QED
        BY <4>1
    <3>3. todo[u][1] \in Steps
      BY <3>2, NextTwo
    <3>4. todo[u][1].key \in Table
      BY <3>1, <3>3, StepFacts
    <3>5. PICK h \in Handle : h = todo[u][1].key[2]
      BY <3>4 DEF Table
    <3>6. h \in Closing(u)
      BY <3>1, <3>5 DEF Closing, Ends, On, OnKey
    <3>7. h \in Own(u)
      BY <3>6 DEF Own
    <3> QED
      BY <3>1, <3>5, <3>7
  <2> QED
    BY <2>1, <2>2
<1>5. Coding(u)'
  <2> SUFFICES ASSUME NEW i \in 1 .. Len(todo[u]), TakesCode(todo[u][i])
               PROVE  /\ todo[u][i].key[2] \in Lost(u)
                      /\ handle'[todo[u][i].key[2]].lib = Lzma
    BY <1>2 DEF Coding
  <2>1. todo[u][i].key[2] \in Lost(u) /\ handle[todo[u][i].key[2]].lib = Lzma
    BY DEF Coding
  <2>2. todo[u][i].key[2] \in Own(u)
    BY <2>1 DEF Lost, Own
  <2> QED
    BY <2>1, <2>2
<1> QED
  BY <1>1, <1>2, <1>3, <1>4, <1>5

\* The handles that the later steps of t close, while it turns.
LEMMA TurnCloses ==
    ASSUME IInv, NEW t, NEW s, Turns(t, s)
    PROVE  /\ LaterCloses(t) \subseteq Closing(t)'
           /\ \A h \in Closing(t)' : h \in LaterCloses(t) \/
                \E i \in 1 .. Len(s) : Ends(s[i]) /\ On(s[i], h)
           /\ \A i \in 1 .. Len(s), h \in Handle : Ends(s[i]) /\ On(s[i], h) => h \in Closing(t)'
           /\ Closing(t) = LaterCloses(t) \cup
                {h \in Handle : Ends(todo[t][1]) /\ On(todo[t][1], h)}
<1>1. LaterCloses(t) \subseteq Closing(t)'
  <2> SUFFICES ASSUME NEW h \in Handle, NEW j \in 2 .. Len(todo[t]),
                      Ends(todo[t][j]), On(todo[t][j], h)
               PROVE  h \in Closing(t)'
    BY DEF LaterCloses
  <2>1. /\ j + Len(s) - 1 \in 1 .. Len(todo'[t]) /\ todo'[t][j + Len(s) - 1] = todo[t][j]
    BY TurnLater DEF IInv
  <2> QED
    BY <2>1 DEF Closing
<1>2. ASSUME NEW h \in Closing(t)'
      PROVE  h \in LaterCloses(t) \/ \E i \in 1 .. Len(s) : Ends(s[i]) /\ On(s[i], h)
  <2>1. PICK i \in 1 .. Len(todo'[t]) : Ends(todo'[t][i]) /\ On(todo'[t][i], h) /\ h \in Handle
    BY <1>2 DEF Closing
  <2>2. CASE i \in 1 .. Len(s)
    BY <2>1, <2>2, TurnSeq DEF IInv
  <2>3. CASE i \notin 1 .. Len(s)
    <3>1. PICK j \in 2 .. Len(todo[t]) : i = j + Len(s) - 1
      BY <2>3, TurnSeq DEF IInv
    <3>2. todo'[t][i] = todo[t][j]
      BY <3>1, TurnLater DEF IInv
    <3> QED
      BY <2>1, <3>2 DEF LaterCloses
  <2> QED
    BY <2>2, <2>3
<1>3. ASSUME NEW i \in 1 .. Len(s), NEW h \in Handle, Ends(s[i]), On(s[i], h)
      PROVE  h \in Closing(t)'
  <2>1. i \in 1 .. Len(todo'[t]) /\ todo'[t][i] = s[i]
    BY TurnSeq DEF IInv
  <2> QED
    BY <1>3, <2>1 DEF Closing
<1>4. Closing(t) = LaterCloses(t) \cup {h \in Handle : Ends(todo[t][1]) /\ On(todo[t][1], h)}
  <2>1. Len(todo[t]) \in Nat \ {0}
    BY TurnSeq DEF IInv
  <2>2. \A i : i \in 1 .. Len(todo[t]) <=> i = 1 \/ i \in 2 .. Len(todo[t])
    BY <2>1
  <2> QED
    BY <2>2 DEF Closing, LaterCloses
<1> QED
  BY <1>1, <1>2, <1>3, <1>4

\* A handle that a later step takes code from is closed later.
LEMMA CodeLater ==
    ASSUME IInv, NEW t, NEW s, Turns(t, s), Coding(t), NEW j \in 2 .. Len(todo[t]),
           TakesCode(todo[t][j]), NEW h, h = todo[t][j].key[2]
    PROVE  /\ h \in LaterCloses(t) /\ h \in Lost(t) /\ handle[h].lib = Lzma
           /\ ~(Ends(todo[t][1]) /\ On(todo[t][1], h))
<1>1. Len(todo[t]) \in Nat \ {0} /\ t \in Thread /\ todo[t] \in Seq(Steps)
  BY TurnSeq DEF IInv, Turns
<1>2. j \in 1 .. Len(todo[t]) /\ 1 \in 1 .. Len(todo[t]) /\ 1 < j
  BY <1>1
<1>3. h \in Lost(t) /\ handle[h].lib = Lzma
  BY <1>2 DEF Coding
<1>4. On(todo[t][j], h)
  BY DEF TakesCode, On, OnKey
<1>5. ~(Ends(todo[t][1]) /\ On(todo[t][1], h))
  <2>1. EndsLast(todo[t])
    BY <1>1 DEF IInv, ListInv, Orderly
  <2> QED
    BY <1>2, <1>4, <2>1 DEF EndsLast, On
<1>6. h \in LaterCloses(t)
  BY <1>3, <1>5, TurnCloses DEF Lost
<1> QED
  BY <1>3, <1>5, <1>6

LEMMA TurnCoding ==
    ASSUME IInv, NEW t, NEW s, Turns(t, s), Coding(t), ~Drops(todo'[t]),
           \A i \in 1 .. Len(s) : TakesCode(s[i]) =>
             s[i].key[2] \in Closing(t)' /\ handle'[s[i].key[2]].lib = Lzma,
           \A h \in LaterCloses(t) : handle'[h].lib = handle[h].lib
    PROVE  Coding(t)'
<1> SUFFICES ASSUME NEW i \in 1 .. Len(todo'[t]), TakesCode(todo'[t][i])
             PROVE  /\ todo'[t][i].key[2] \in Lost(t)'
                    /\ handle'[todo'[t][i].key[2]].lib = Lzma
  BY DEF Coding
<1>1. \A h \in Closing(t)' : h \in Lost(t)'
  BY DEF Lost
<1>4. i \notin 1 .. Len(s) => \E j \in 2 .. Len(todo[t]) : i = j + Len(s) - 1
  BY TurnSeq DEF IInv
<1>2. CASE i \in 1 .. Len(s)
  <2>1. todo'[t][i] = s[i]
    BY <1>2, TurnSeq DEF IInv
  <2> QED
    BY <1>1, <1>2, <2>1
<1>3. CASE i \notin 1 .. Len(s)
  <2>1. PICK j \in 2 .. Len(todo[t]) : i = j + Len(s) - 1
    BY <1>3, <1>4
  <2>2. todo'[t][i] = todo[t][j]
    BY <2>1, TurnLater DEF IInv
  <2>3. PICK h : h = todo[t][j].key[2]
    OBVIOUS
  <2>4. h \in LaterCloses(t) /\ handle[h].lib = Lzma
    BY <2>2, <2>3, CodeLater
  <2> QED
    BY <1>1, <2>2, <2>3, <2>4, TurnCloses
<1> QED
  BY <1>2, <1>3

\* What a thread finds after its own step.
LEMMA PutFound ==
    ASSUME IInv, NEW t, NEW s, Turns(t, s), s # <<>>, Starts(s[1])
    PROVE  /\ Found(t)'
           /\ \A j : Waits(todo'[t], j) => j = 1 /\ todo'[t][j] = s[1]
<1>1. 1 \in 1 .. Len(s)
  BY TurnSeq DEF IInv
<1>2. todo'[t][1] = s[1]
  BY <1>1, TurnSeq DEF IInv
<1>3. s[1].op \notin {"hold", "tryForce", "lzmaFound", "unlockLinker"}
  BY DEF Starts, Opens
<1>4. \A j : Waits(todo'[t], j) => j = 1 /\ todo'[t][j] = s[1]
  BY <1>2, <1>3 DEF Waits
<1> QED
  BY <1>3, <1>4 DEF Found

\* Steps whose result a later one looks at.
LEMMA PopFound ==
    ASSUME IInv, NEW t, Turns(t, <<>>), Agrees(todo[t]), Found(t), NEW x, x = todo[t][1],
           (Yields(Api, x) \/ x.op = "iterate") /\ ret'[t] \in Handle =>
             IF x.op = "unlockLinker" THEN ret'[t] = ret[t] /\ handle'[ret[t]].lib = handle[ret[t]].lib
             ELSE Gives(x) /\ handle'[ret'[t]].lib = LibOf(x)
    PROVE  Found(t)'
<1> SUFFICES ASSUME NEW i \in 1 .. Len(todo'[t]), Waits(todo'[t], i), ret'[t] \in Handle,
                    todo'[t][i].op \in {"hold", "tryForce", "lzmaFound"}
             PROVE  handle'[ret'[t]].lib = LibOf(todo'[t][i])
  BY DEF Found
<1>1. /\ todo[t] # <<>> /\ t \in Thread /\ Len(todo[t]) \in Nat \ {0}
      /\ Len(todo'[t]) = Len(todo[t]) - 1
      /\ \A j \in 2 .. Len(todo[t]) : todo'[t][j - 1] = todo[t][j]
      /\ \A k \in 1 .. Len(todo'[t]) : /\ k + 1 \in 2 .. Len(todo[t])
                                       /\ todo'[t][k] = todo[t][k + 1]
  BY PopSeq
<1>2. CASE i = 1
  <2>1. Len(todo[t]) >= 2 /\ todo'[t][1] = todo[t][2]
    <3>1. Len(todo[t]) >= 2
      BY <1>1, <1>2
    <3>2. 2 \in 2 .. Len(todo[t]) /\ 2 - 1 = 1
      BY <1>1, <3>1
    <3> QED
      BY <1>1, <3>1, <3>2
  <2>2. Before(Api, x, todo[t][2])
    BY <1>1, <2>1, NextTwo
  <2>3. Yields(Api, x) /\ Wants(todo[t][2])
    BY <1>2, <2>1, <2>2 DEF Before, Awaits, Wants
  <2>4. CASE x.op = "unlockLinker"
    <3>1. Waits(todo[t], 2) /\ 2 \in 1 .. Len(todo[t])
      BY <1>1, <2>1, <2>4 DEF Waits
    <3> QED
      BY <1>2, <2>1, <2>3, <2>4, <3>1 DEF Found
  <2>5. CASE x.op # "unlockLinker"
    <3>1. 1 \in 1 .. Len(todo[t]) /\ 2 \in 1 .. Len(todo[t]) /\ Feeds(todo[t], 1, 2)
      BY <1>1, <2>1 DEF Feeds
    <3>2. Pair(x, todo[t][2])
      BY <3>1 DEF Agrees
    <3> QED
      BY <1>2, <2>1, <2>3, <2>5, <3>2 DEF Pair
  <2> QED
    BY <2>4, <2>5
<1>3. CASE i = 2 /\ todo'[t][1].op = "unlockLinker"
  <2>1. Len(todo[t]) >= 3 /\ todo'[t][1] = todo[t][2] /\ todo'[t][2] = todo[t][3]
    <3>1. Len(todo[t]) >= 3
      BY <1>1, <1>3
    <3>2. 2 \in 2 .. Len(todo[t]) /\ 2 - 1 = 1 /\ 3 \in 2 .. Len(todo[t]) /\ 3 - 1 = 2
      BY <1>1, <3>1
    <3> QED
      BY <1>1, <3>1, <3>2
  <2>2. Before(Api, x, todo[t][2]) /\ Before(Api, todo[t][2], todo[t][3])
    BY <1>1, <2>1, NextTwo
  <2>3. Guarded(Api, x)
    BY <1>3, <2>1, <2>2 DEF Before
  <2>4. Yields(Api, todo[t][2]) /\ Wants(todo[t][3])
    BY <1>3, <2>1, <2>2 DEF Before, Awaits, Wants
  <2>5. x.op = "iterate"
    BY <1>3, <2>1, <2>3, <2>4 DEF Guarded, Yields
  <2>6. 1 \in 1 .. Len(todo[t]) /\ 3 \in 1 .. Len(todo[t]) /\ Feeds(todo[t], 1, 3)
    BY <1>1, <1>3, <2>1 DEF Feeds
  <2>7. Pair(x, todo[t][3])
    BY <2>6 DEF Agrees
  <2> QED
    BY <1>3, <2>1, <2>4, <2>5, <2>7 DEF Pair
<1> QED
  BY <1>2, <1>3 DEF Waits

-----------------------------------------------------------------------------
(***************************************************************************)
(* Counting the claims.                                                    *)
(***************************************************************************)
LEMMA CoveredPart ==
    ASSUME NEW C, NEW n, Covered(C, n), NEW D, D \subseteq C
    PROVE  Covered(D, n)
<1>1. IsFiniteSet(D) /\ Cardinality(D) <= Cardinality(C)
  BY FS_Subset DEF Covered
<1>2. Cardinality(C) \in Nat /\ Cardinality(D) \in Nat
  BY <1>1, FS_CardinalityType DEF Covered
<1> QED
  BY <1>1, <1>2 DEF Covered

LEMMA CoveredMore ==
    ASSUME NEW C, NEW n, Covered(C, n), NEW y, NEW D, D \subseteq C \cup {y}
    PROVE  n + 1 \in Nat /\ Covered(D, n + 1)
<1>1. Cardinality(C) \in Nat
  BY FS_CardinalityType DEF Covered
<1>2. IsFiniteSet(C \cup {y}) /\ Cardinality(C \cup {y}) <= Cardinality(C) + 1
  BY <1>1, FS_AddElement DEF Covered
<1>3. Cardinality(C \cup {y}) \in Nat
  BY <1>2, FS_CardinalityType
<1>4. Covered(C \cup {y}, n + 1)
  BY <1>1, <1>2, <1>3 DEF Covered
<1> QED
  BY <1>4, CoveredPart DEF Covered

LEMMA CoveredLess ==
    ASSUME NEW C, NEW n, Covered(C, n), NEW x \in C, NEW D, D \subseteq C \ {x}
    PROVE  n - 1 \in Nat /\ Covered(D, n - 1)
<1>1. Cardinality(C) \in Nat
  BY FS_CardinalityType DEF Covered
<1>2. IsFiniteSet(C \ {x}) /\ Cardinality(C \ {x}) = Cardinality(C) - 1
  BY FS_RemoveElement DEF Covered
<1>3. Cardinality(C \ {x}) \in Nat
  BY <1>2, FS_CardinalityType
<1>4. n - 1 \in Nat /\ Covered(C \ {x}, n - 1)
  BY <1>1, <1>2, <1>3 DEF Covered
<1> QED
  BY <1>4, CoveredPart

LEMMA CoveredSwap ==
    ASSUME NEW C, NEW n, Covered(C, n), NEW x \in C, NEW y, NEW D, D \subseteq (C \ {x}) \cup {y}
    PROVE  Covered(D, n)
<1>1. n - 1 \in Nat /\ Covered(C \ {x}, n - 1)
  BY CoveredLess
<1>2. Covered(D, (n - 1) + 1)
  BY <1>1, CoveredMore
<1>3. (n - 1) + 1 = n
  BY <1>1 DEF Covered
<1> QED
  BY <1>2, <1>3

\* The claims of the steps that t has ahead, while another thread takes a step
\* and while its own puts some steps before them or is just done.
LEMMA AheadSame ==
    ASSUME NEW u, NEW lib, todo'[u] = todo[u], ret'[u] = ret[u]
    PROVE  Ahead(u, lib)' = Ahead(u, lib)
BY DEF Ahead, Claims

LEMMA AheadPut ==
    ASSUME IInv, NEW t, NEW s, Turns(t, s), s # <<>>, NEW x, x = todo[t][1], Hands(x, s),
           x.op = "forced" => ret[t] = LinkerHandle, NEW lib
    PROVE  Ahead(t, lib)' \subseteq Ahead(t, lib)
<1> SUFFICES ASSUME NEW p \in Nat, NEW i \in 1 .. Len(todo'[t]), Claims(t, i, lib)',
                    p = Len(todo'[t]) - i
             PROVE  p \in Ahead(t, lib)
  BY DEF Ahead
<1>1. /\ Len(todo[t]) \in Nat \ {0} /\ Len(s) \in Nat
      /\ Len(todo'[t]) = Len(s) + Len(todo[t]) - 1
  BY TurnSeq DEF IInv
<1>2. i \notin 1 .. Len(s) => \E j \in 2 .. Len(todo[t]) : i = j + Len(s) - 1
  BY TurnSeq DEF IInv
<1>3. todo'[t][i].op = "hold" /\ todo'[t][i].lib = lib
  <2>1. Waits(todo'[t], i) => todo'[t][i] = s[1]
    BY PutFound DEF Hands
  <2>2. s[1].op \notin {"forced", "drop"}
    BY DEF Hands, Starts, Opens
  <2> QED
    BY <2>1, <2>2 DEF Claims
<1>4. CASE i \in 1 .. Len(s)
  <2>1. todo'[t][i] = s[i]
    BY <1>4, TurnSeq DEF IInv
  <2>2. i = Len(s) /\ x.op = "forced" /\ x.lib = lib
    BY <1>3, <1>4, <2>1 DEF Hands
  <2>3. Claims(t, 1, lib)
    BY <2>2 DEF Claims, Waits
  <2>4. 1 \in 1 .. Len(todo[t]) /\ p = Len(todo[t]) - 1
    BY <1>1, <2>2
  <2> QED
    BY <2>3, <2>4 DEF Ahead
<1>5. CASE i \notin 1 .. Len(s)
  <2>1. PICK j \in 2 .. Len(todo[t]) : i = j + Len(s) - 1
    BY <1>2, <1>5
  <2>2. todo'[t][i] = todo[t][j]
    BY <2>1, TurnLater DEF IInv
  <2>3. Claims(t, j, lib)
    BY <1>3, <2>2 DEF Claims
  <2>4. j \in 1 .. Len(todo[t]) /\ p = Len(todo[t]) - j
    BY <1>1, <2>1
  <2> QED
    BY <2>3, <2>4 DEF Ahead
<1> QED
  BY <1>4, <1>5

LEMMA AheadPop ==
    ASSUME IInv, NEW t, Turns(t, <<>>), Dropping(t), NEW x, x = todo[t][1], NEW lib,
           ret'[t] = LinkerHandle => ret'[t] = ret[t] /\ x.op \notin {"dlopen", "close", "forceAs"}
    PROVE  /\ Ahead(t, lib)' \subseteq Ahead(t, lib)
           /\ Len(todo[t]) - 1 \notin Ahead(t, lib)'
<1> SUFFICES ASSUME NEW p \in Nat, NEW i \in 1 .. Len(todo'[t]), Claims(t, i, lib)',
                    p = Len(todo'[t]) - i
             PROVE  p \in Ahead(t, lib) /\ p # Len(todo[t]) - 1
  BY DEF Ahead
<1>1. /\ todo[t] # <<>> /\ t \in Thread /\ Len(todo[t]) \in Nat \ {0}
      /\ Len(todo'[t]) = Len(todo[t]) - 1
      /\ \A k \in 1 .. Len(todo'[t]) : /\ k + 1 \in 2 .. Len(todo[t])
                                       /\ todo'[t][k] = todo[t][k + 1]
  BY PopSeq
<1>2. PICK j \in 2 .. Len(todo[t]) : j = i + 1 /\ todo'[t][i] = todo[t][j]
  BY <1>1
<1>3. j \in 1 .. Len(todo[t]) /\ p = Len(todo[t]) - j /\ p # Len(todo[t]) - 1
  BY <1>1, <1>2
<1>4. Claims(t, j, lib)
  <2>1. CASE todo[t][j].op = "hold"
    BY <1>2, <2>1 DEF Claims
  <2>2. CASE todo[t][j].op # "hold"
    <3>1. /\ todo[t][j].op \in {"forced", "drop"} /\ todo[t][j].lib = lib
          /\ Waits(todo'[t], i) /\ ret'[t] = LinkerHandle
      BY <1>2, <2>2 DEF Claims
    <3>2. ret[t] = LinkerHandle /\ x.op \notin {"dlopen", "close", "forceAs"}
      BY <3>1
    <3>3. todo[t][j].op = "forced"
      BY <1>3, <3>1, <3>2 DEF Dropping
    <3>4. CASE i = 1
      <4>1. Before(Api, x, todo[t][2]) /\ j = 2
        BY <1>1, <1>2, <3>4, NextTwo
      <4>2. x.op = "unlockLinker"
        BY <3>2, <3>3, <4>1 DEF Before, Loads
      <4> QED
        BY <3>1, <3>2, <4>1, <4>2 DEF Claims, Waits
    <3>5. CASE i = 2 /\ todo'[t][1].op = "unlockLinker"
      <4>1. Len(todo[t]) >= 3 /\ todo'[t][1] = todo[t][2] /\ j = 3
        BY <1>1, <1>2, <3>5
      <4>2. Before(Api, x, todo[t][2]) /\ Before(Api, todo[t][2], todo[t][3])
        BY <1>1, <4>1, NextTwo
      <4>3. Guarded(Api, x) /\ Loads(Api, todo[t][2])
        BY <3>3, <3>5, <4>1, <4>2 DEF Before
      <4>4. x.op = "dlopen"
        BY <3>5, <4>1, <4>3 DEF Guarded, Loads
      <4> QED
        BY <3>2, <4>4
    <3> QED
      BY <3>1, <3>4, <3>5 DEF Waits
  <2> QED
    BY <2>1, <2>2
<1> QED
  BY <1>3, <1>4 DEF Ahead

\* A library that was just loaded is claimed by the step that is told so.
LEMMA AheadDlopen ==
    ASSUME IInv, NEW t, Turns(t, <<>>), Dropping(t), Agrees(todo[t]), NEW x, x = todo[t][1],
           x.op = "dlopen"
    PROVE  \E p \in Nat : \A lib :
             Ahead(t, lib)' \subseteq Ahead(t, lib) \cup (IF lib = x.lib THEN {p} ELSE {})
<1> DEFINE m == Len(todo[t])
           p == IF m >= 2 THEN IF todo[t][2].op = "unlockLinker" /\ m >= 3 THEN m - 3 ELSE m - 2
                ELSE 0
<1>1. /\ todo[t] # <<>> /\ t \in Thread /\ m \in Nat \ {0}
      /\ Len(todo'[t]) = m - 1
      /\ \A k \in 1 .. Len(todo'[t]) : k + 1 \in 2 .. m /\ todo'[t][k] = todo[t][k + 1]
  BY PopSeq
<1>2. p \in Nat
  BY <1>1
<1> SUFFICES ASSUME NEW lib, NEW q \in Nat, NEW i \in 1 .. Len(todo'[t]), Claims(t, i, lib)',
                    q = Len(todo'[t]) - i
             PROVE  q \in Ahead(t, lib) \/ (lib = x.lib /\ q = p)
  <2>1. \A lib : Ahead(t, lib)' \subseteq Ahead(t, lib) \cup (IF lib = x.lib THEN {p} ELSE {})
    BY DEF Ahead
  <2> HIDE DEF p
  <2> QED
    BY <1>2, <2>1
<1>3. PICK j \in 2 .. m : j = i + 1 /\ todo'[t][i] = todo[t][j]
  BY <1>1
<1>4. j \in 1 .. m /\ q = m - j
  BY <1>1, <1>3
<1>5. CASE todo[t][j].op = "hold"
  <2>1. Claims(t, j, lib)
    BY <1>3, <1>5 DEF Claims
  <2> QED
    BY <1>4, <2>1 DEF Ahead
<1>6. CASE todo[t][j].op # "hold"
  <2>1. /\ todo[t][j].op \in {"forced", "drop"} /\ todo[t][j].lib = lib
        /\ Waits(todo'[t], i)
    BY <1>3, <1>6 DEF Claims
  <2>2. todo[t][j].op = "forced"
    BY <1>3, <1>4, <2>1 DEF Dropping
  <2>3. 1 \in 1 .. m /\ Feeds(todo[t], 1, j) /\ q = p
    <3>1. CASE i = 1
      <4>1. j = 2 /\ m >= 2 /\ 1 \in 1 .. m
        BY <1>1, <1>3, <3>1
      <4>2. todo[t][2].op # "unlockLinker"
        BY <2>2, <4>1
      <4> QED
        BY <1>4, <4>1, <4>2 DEF Feeds
    <3>2. CASE i = 2 /\ todo'[t][1].op = "unlockLinker"
      <4>1. j = 3 /\ m >= 3 /\ todo'[t][1] = todo[t][2] /\ 1 \in 1 .. m
        BY <1>1, <1>3, <3>2
      <4> QED
        BY <1>1, <1>4, <3>2, <4>1 DEF Feeds
    <3> QED
      BY <2>1, <3>1, <3>2 DEF Waits
  <2>4. Pair(x, todo[t][j])
    BY <1>4, <2>3 DEF Agrees
  <2> QED
    BY <2>1, <2>2, <2>3, <2>4 DEF Pair, Gives, Wants, LibOf
<1> QED
  BY <1>5, <1>6

\* xdl_close hands the linker's handle to the step that drops it.
LEMMA AheadClose ==
    ASSUME IInv, NEW t, Turns(t, <<>>), Dropping(t), NEW x, x = todo[t][1], x.op = "close", NEW lib
    PROVE  /\ ~Drops(todo[t]) => Ahead(t, lib)' \subseteq Ahead(t, lib)
           /\ Drops(todo[t]) =>
                Ahead(t, lib)' \subseteq IF lib = handle[x.key[2]].lib THEN {0} ELSE {}
<1>1. /\ todo[t] # <<>> /\ t \in Thread /\ Len(todo[t]) \in Nat \ {0}
      /\ Len(todo'[t]) = Len(todo[t]) - 1
      /\ \A k \in 1 .. Len(todo'[t]) : /\ k + 1 \in 2 .. Len(todo[t])
                                       /\ todo'[t][k] = todo[t][k + 1]
  BY PopSeq
<1>2. ASSUME NEW q \in Nat, NEW i \in 1 .. Len(todo'[t]), Claims(t, i, lib)',
             q = Len(todo'[t]) - i
      PROVE  /\ ~Drops(todo[t]) => q \in Ahead(t, lib)
             /\ Drops(todo[t]) => lib = handle[x.key[2]].lib /\ q = 0
  <2>1. PICK j \in 2 .. Len(todo[t]) : j = i + 1 /\ todo'[t][i] = todo[t][j]
    BY <1>1
  <2>2. j \in 1 .. Len(todo[t]) /\ q = Len(todo[t]) - j
    BY <1>1, <1>2, <2>1
  <2>3. CASE ~Drops(todo[t])
    <3>1. todo[t][j].op # "forced" \/ ~Waits(todo'[t], i)
      <4>1. ASSUME i = 1, todo[t][2].op = "forced" PROVE FALSE
        <5>1. Before(Api, x, todo[t][2])
          BY <1>1, <4>1, NextTwo
        <5> QED
          BY <4>1, <5>1 DEF Before, Loads
      <4>2. ASSUME i = 2, todo'[t][1].op = "unlockLinker" PROVE FALSE
        <5>1. todo'[t][1] = todo[t][2] /\ Len(todo[t]) >= 2
          BY <1>1, <4>2
        <5>2. Before(Api, x, todo[t][2])
          BY <1>1, <5>1, NextTwo
        <5> QED
          BY <4>2, <5>1, <5>2 DEF Before, Guarded
      <4> QED
        BY <2>1, <4>1, <4>2 DEF Waits
    <3>2. todo[t][j].op # "drop"
      BY <2>2, <2>3 DEF Drops
    <3>3. todo[t][j].op = "hold" /\ todo[t][j].lib = lib
      BY <1>2, <2>1, <3>1, <3>2 DEF Claims
    <3>4. Claims(t, j, lib)
      BY <3>3 DEF Claims
    <3> QED
      BY <2>2, <2>3, <3>4 DEF Ahead
  <2>4. CASE Drops(todo[t])
    <3>1. PICK k \in 1 .. Len(todo[t]) : todo[t][k].op = "drop"
      BY <2>4 DEF Drops
    <3>2. Len(todo[t]) = k /\ k = 2 /\ handle[x.key[2]].lib = todo[t][2].lib
      <4>1. k # 1
        BY <3>1
      <4> QED
        BY <3>1, <4>1 DEF Dropping
    <3>3. j = 2 /\ q = 0
      BY <2>1, <2>2, <3>2
    <3>4. todo'[t][i].op = "drop" /\ todo'[t][i].lib = todo[t][2].lib
      BY <2>1, <3>1, <3>2, <3>3
    <3>5. todo'[t][i].lib = lib
      BY <1>2, <3>4 DEF Claims
    <3> QED
      BY <2>4, <3>2, <3>3, <3>4, <3>5
  <2> QED
    BY <2>3, <2>4
<1> QED
  BY <1>2 DEF Ahead

\* What keeps the claims of lib from growing, but for those of the steps of t and
\* of the handle n that holds now.
Settles(t, lib, n) ==
    /\ lib \in app' => lib \in app
    /\ lib = Lzma /\ code' = "forced" =>
         code = "forced" \/ \E u \in Thread : \E h \in Lost(u) : Holds(h, lib)
    /\ \A h \in Handle \ {n} : Holds(h, lib)' => Holds(h, lib) /\ (h \in Lost(t)' <=> h \in Lost(t))
    /\ \A u \in Thread : n \notin Lost(u)'
    /\ \A u \in Thread \ {t} : Lost(u)' = Lost(u) /\ Ahead(u, lib)' = Ahead(u, lib)

LEMMA StillClaimed ==
    ASSUME NEW t \in Thread, NEW lib, NEW n, Settles(t, lib, n), NEW c \in Claimants(lib)'
    PROVE  /\ c \in Token
           /\ \/ c \in Claimants(lib)
              \/ c[1] = "step" /\ c[2] = t /\ c[3] \in Ahead(t, lib)'
              \/ c[1] = "handle" /\ c[3] = n /\ Holds(n, lib)'
<1>1. c \in Token /\ Claimed(c, lib)'
  BY DEF Claimants, Token
<1>2. ASSUME c[1] = "app", lib \in app' PROVE Claimed(c, lib)
  BY <1>2 DEF Claimed, Settles
<1>3. ASSUME c[1] = "code", lib = Lzma, code' = "forced" PROVE Claimed(c, lib)
  BY <1>3 DEF Claimed, Settles
<1>4. ASSUME c[1] = "code", lib = Lzma, NEW u \in Thread, NEW h \in Lost(u)', Holds(h, lib)'
      PROVE  Claimed(c, lib)
  <2>1. h \in Handle
    BY <1>4 DEF Lost, Closing
  <2>2. Holds(h, lib) /\ h \in Lost(u)
    BY <1>4, <2>1 DEF Settles
  <2> QED
    BY <1>4, <2>2 DEF Claimed
<1>5. ASSUME c[1] = "handle", Holds(c[3], lib)', lib = Lzma => \A u \in Thread : c[3] \notin Lost(u)',
             c[3] # n
      PROVE  Claimed(c, lib)
  <2>1. c[3] \in Handle
    BY <1>1, <1>5 DEF Token
  <2>2. Holds(c[3], lib) /\ (lib = Lzma => \A u \in Thread : c[3] \notin Lost(u))
    BY <1>5, <2>1 DEF Settles
  <2> QED
    BY <1>5, <2>2 DEF Claimed
<1>6. ASSUME c[1] = "step", c[3] \in Ahead(c[2], lib)', c[2] # t PROVE Claimed(c, lib)
  <2>1. c[2] \in Thread
    BY <1>1, <1>6 DEF Token
  <2> QED
    BY <1>6, <2>1 DEF Claimed, Settles
<1>7. \/ Claimed(c, lib) \/ (c[1] = "step" /\ c[2] = t /\ c[3] \in Ahead(t, lib)')
      \/ c[1] = "handle" /\ c[3] = n /\ Holds(n, lib)'
  BY <1>1, <1>2, <1>3, <1>4, <1>5, <1>6 DEF Claimed
<1> QED
  BY <1>1, <1>7 DEF Claimants

\* What the lists of all threads are like after a step of t.
LEMMA TurnThreads ==
    ASSUME IInv, HeldInv, NEW t, NEW s, Turns(t, s), NEW x, x = todo[t][1], Hands(x, s),
           x.op \notin {"close", "drop"},
           \A u \in Thread \ {t} : ret'[u] = ret[u],
           \A h \in Live : handle'[h].lib = handle[h].lib,
           \A i \in 1 .. Len(s) : TakesCode(s[i]) =>
             s[i].key[2] \in Closing(t)' /\ handle'[s[i].key[2]].lib = Lzma,
           s = <<>> /\ (Yields(Api, x) \/ x.op = "iterate") /\ ret'[t] \in Handle =>
             IF x.op = "unlockLinker" THEN ret'[t] = ret[t] /\ handle'[ret[t]].lib = handle[ret[t]].lib
             ELSE Gives(x) /\ handle'[ret'[t]].lib = LibOf(x)
    PROVE  /\ \A u \in Thread : Agrees(todo'[u]) /\ Found(u)' /\ Dropping(u)' /\ Coding(u)'
           /\ \A u \in Thread \ {t} : Lost(u)' = Lost(u) /\ \A lib : Ahead(u, lib)' = Ahead(u, lib)
           /\ Lost(t) = Closing(t) /\ Lost(t)' = Closing(t)'
<1>1. /\ t \in Thread /\ UNCHANGED device
      /\ \A u \in Thread \ {t} : todo'[u] = todo[u]
      /\ \A u \in Thread : Agrees(todo[u]) /\ Found(u) /\ Dropping(u) /\ Coding(u)
      /\ \A u \in Thread : Own(u) \subseteq Live
  BY TurnSeq DEF Turns, IInv, HeldInv, OwnInv
<1>2. ASSUME NEW u \in Thread \ {t}
      PROVE  /\ Agrees(todo'[u]) /\ Found(u)' /\ Dropping(u)' /\ Coding(u)'
             /\ Lost(u)' = Lost(u) /\ \A lib : Ahead(u, lib)' = Ahead(u, lib)
  <2>1. \A h \in Own(u) : handle'[h].lib = handle[h].lib
    BY <1>1
  <2>2. (Agrees(todo[u]) /\ Found(u) /\ Dropping(u) /\ Coding(u))' /\ Lost(u)' = Lost(u)
    BY <1>1, <2>1, OtherThread
  <2> QED
    BY <1>1, <2>2, AheadSame
<1>3. ~Drops(todo[t]) /\ ~Drops(todo'[t])
  BY <1>1, NoDrops
<1>4. Agrees(todo'[t])
  BY <1>1, TurnAgrees
<1>5. Dropping(t)'
  BY <1>3 DEF Drops, Dropping
<1>6. Coding(t)'
  <2>1. LaterCloses(t) \subseteq Live
    BY <1>1, TurnCloses DEF Own
  <2> QED
    BY <1>1, <1>3, <2>1, TurnCoding
<1>7. Found(t)'
  <2>1. CASE s # <<>>
    BY <2>1, PutFound DEF Hands
  <2>2. CASE s = <<>>
    BY <1>1, <2>2, PopFound
  <2> QED
    BY <2>1, <2>2
<1>8. Lost(t) = Closing(t) /\ Lost(t)' = Closing(t)'
  BY <1>3 DEF Lost
<1> QED
  BY <1>2, <1>4, <1>5, <1>6, <1>7, <1>8

\* The tokens of the steps and handles.
StepToken(t, p) == <<"step", t, p>>
HandleToken(h) == <<"handle", Nobody, h>>
CodeToken == <<"code", Nobody, 0>>

LEMMA Tokens ==
    ASSUME NEW c \in Token
    PROVE  /\ c[1] = "step" => c = StepToken(c[2], c[3]) /\ c[2] \in Thread /\ c[3] \in Nat
           /\ c[1] = "handle" => c = HandleToken(c[3]) /\ c[3] \in Handle
           /\ c[1] = "code" => c = CodeToken
BY DEF Token, StepToken, HandleToken, CodeToken

LEMMA TokenClaims ==
    ASSUME NEW lib
    PROVE  /\ \A t \in Thread : \A p \in Ahead(t, lib) : StepToken(t, p) \in Claimants(lib)
           /\ \A h \in Handle : Holds(h, lib) /\ (lib = Lzma => \A u \in Thread : h \notin Lost(u)) =>
                HandleToken(h) \in Claimants(lib)
           /\ \A t, p : StepToken(t, p) \in Claimants(lib) => p \in Ahead(t, lib)
<1>1. /\ \A t \in Thread, p \in Nat : StepToken(t, p) \in Token
      /\ \A h \in Handle : HandleToken(h) \in Token
  BY DEF Token, StepToken, HandleToken
<1>2. /\ \A t, p : StepToken(t, p)[1] = "step" /\ StepToken(t, p)[2] = t /\ StepToken(t, p)[3] = p
      /\ \A h : HandleToken(h)[1] = "handle" /\ HandleToken(h)[3] = h
  BY DEF StepToken, HandleToken
<1>3. \A t : Ahead(t, lib) \subseteq Nat
  BY DEF Ahead
<1> QED
  BY <1>1, <1>2, <1>3 DEF Claimants, Claimed

\* What a step of t may add to the claims.
LEMMA NewClaims ==
    ASSUME NEW t \in Thread, NEW lib, NEW n, Settles(t, lib, n)
    PROVE  \A c \in Claimants(lib)' :
             \/ c \in Claimants(lib)
             \/ \E p \in Ahead(t, lib)' \ Ahead(t, lib) : c = StepToken(t, p)
             \/ c = HandleToken(n) /\ Holds(n, lib)'
<1> SUFFICES ASSUME NEW c \in Claimants(lib)', c \notin Claimants(lib)
             PROVE  \/ \E p \in Ahead(t, lib)' \ Ahead(t, lib) : c = StepToken(t, p)
                    \/ c = HandleToken(n) /\ Holds(n, lib)'
  OBVIOUS
<1>1. /\ c \in Token
      /\ \/ c[1] = "step" /\ c[2] = t /\ c[3] \in Ahead(t, lib)'
         \/ c[1] = "handle" /\ c[3] = n /\ Holds(n, lib)'
  BY StillClaimed
<1>2. c[1] = "step" => c = StepToken(c[2], c[3])
  BY <1>1, Tokens
<1>3. c[1] = "handle" => c = HandleToken(c[3])
  BY <1>1, Tokens
<1>4. c[1] = "step" /\ c[2] = t => c[3] \notin Ahead(t, lib)
  BY <1>2, TokenClaims
<1> QED
  BY <1>1, <1>2, <1>3, <1>4

LEMMA NoSuchHandle ==
    ASSUME NEW lib
    PROVE  \A c \in Claimants(lib)' : c # HandleToken(Null)
<1>1. \A c \in Claimants(lib)' : c \in Token
  BY DEF Claimants, Token
<1>2. HandleToken(Null) \notin Token
  BY DEF HandleToken, Token, Null, Handle
<1> QED
  BY <1>1, <1>2

\* A step that claims nothing new.
LEMMA SameCount ==
    ASSUME HeldInv, NEW t \in Thread, refs' = refs,
           \A lib \in Lib : Settles(t, lib, Null) /\ Ahead(t, lib)' \subseteq Ahead(t, lib)
    PROVE  CountInv'
<1>1. ASSUME NEW lib \in Lib PROVE Covered(Claimants(lib)', refs[lib])
  <2>1. \A c \in Claimants(lib)' :
             \/ c \in Claimants(lib)
             \/ \E p \in Ahead(t, lib)' \ Ahead(t, lib) : c = StepToken(t, p)
             \/ c = HandleToken(Null) /\ Holds(Null, lib)'
    BY NewClaims
  <2>2. \A c \in Claimants(lib)' : c # HandleToken(Null)
    BY NoSuchHandle
  <2>3. Claimants(lib)' \subseteq Claimants(lib)
    BY <2>1, <2>2
  <2>4. Covered(Claimants(lib), refs[lib])
    BY DEF HeldInv, CountInv
  <2> QED
    BY <2>3, <2>4, CoveredPart
<1> QED
  BY <1>1 DEF CountInv, HeldInv, Covered

LEMMA CloseSame ==
    ASSUME IInv, NEW t, NEW s, Turns(t, s), ~Ends(todo[t][1]), \A i \in 1 .. Len(s) : ~Ends(s[i])
    PROVE  Closing(t)' = Closing(t)
<1>1. /\ LaterCloses(t) \subseteq Closing(t)'
      /\ \A h \in Closing(t)' : h \in LaterCloses(t) \/
                \E i \in 1 .. Len(s) : Ends(s[i]) /\ On(s[i], h)
      /\ Closing(t) = LaterCloses(t) \cup
                {h \in Handle : Ends(todo[t][1]) /\ On(todo[t][1], h)}
  BY TurnCloses
<1>2. Closing(t) = LaterCloses(t)
  BY <1>1
<1>3. Closing(t)' \subseteq LaterCloses(t)
  BY <1>1
<1> QED
  BY <1>1, <1>2, <1>3

\* Most steps leave the handles to be closed alone, nor do they load or unload.
LEMMA PlainHeld ==
    ASSUME IInv, HeldInv, NEW t, NEW s, Turns(t, s), NEW x, x = todo[t][1], Hands(x, s),
           x.op \notin {"close", "drop"}, Closing(t)' = Closing(t),
           \A i \in 1 .. Len(s) : ~TakesCode(s[i]),
           \A u \in Thread \ {t} : ret'[u] = ret[u],
           \A h \in Live : handle'[h].lib = handle[h].lib,
           \A h \in Handle : handle'[h].held => handle'[h] = handle[h],
           refs' = refs, app' = app,
           code' = "forced" => code = "forced" \/ \E u \in Thread : \E h \in Lost(u) : Holds(h, Lzma),
           s # <<>> /\ x.op = "forced" => ret[t] = LinkerHandle,
           s = <<>> /\ ret'[t] = LinkerHandle => ret'[t] = ret[t] /\ x.op \notin {"dlopen", "forceAs"},
           s = <<>> /\ (Yields(Api, x) \/ x.op = "iterate") /\ ret'[t] \in Handle =>
             IF x.op = "unlockLinker" THEN ret'[t] = ret[t] /\ handle'[ret[t]].lib = handle[ret[t]].lib
             ELSE Gives(x) /\ handle'[ret'[t]].lib = LibOf(x)
    PROVE  HeldInv'
<1>1. t \in Thread /\ Dropping(t)
  BY DEF Turns, HeldInv
<1>2. /\ \A u \in Thread : Agrees(todo'[u]) /\ Found(u)' /\ Dropping(u)' /\ Coding(u)'
      /\ \A u \in Thread \ {t} : Lost(u)' = Lost(u) /\ \A lib : Ahead(u, lib)' = Ahead(u, lib)
      /\ Lost(t) = Closing(t) /\ Lost(t)' = Closing(t)'
  BY TurnThreads
<1>3. Lost(t)' = Lost(t)
  BY <1>2
<1>6. \A u \in Thread : Null \notin Lost(u)'
  BY DEF Lost, Closing, Null, Handle
<1>4. ASSUME NEW lib \in Lib
      PROVE  Settles(t, lib, Null) /\ Ahead(t, lib)' \subseteq Ahead(t, lib)
  <2>1. \A h \in Handle : Holds(h, lib)' => Holds(h, lib)
    BY DEF Holds
  <2>2. Settles(t, lib, Null)
    BY <1>2, <1>3, <1>6, <2>1 DEF Settles
  <2>3. CASE s # <<>>
    BY <2>2, <2>3, AheadPut
  <2>4. CASE s = <<>>
    BY <1>1, <2>2, <2>4, AheadPop
  <2> QED
    BY <2>3, <2>4
<1>5. CountInv'
  BY <1>1, <1>4, SameCount
<1> QED
  BY <1>2, <1>5 DEF HeldInv

\* Lists of steps that are all about one library and close nothing.
About(lib) == {y \in Steps : /\ Gives(y) \/ Wants(y) => LibOf(y) = lib
                             /\ y.op \notin {"drop", "hold"} /\ ~TakesCode(y) /\ ~Ends(y)}

LEMMA AboutHands ==
    ASSUME NEW lib, NEW s \in Seq(About(lib)), NEW x,
           s # <<>> => /\ Starts(s[1]) /\ x.op \notin {"iterate", "dlopen"}
                       /\ \/ Gives(x) /\ LibOf(x) = lib
                          \/ ~Gives(s[Len(s)]) /\ s[Len(s)].op # "unlockLinker"
    PROVE  /\ Hands(x, s) /\ s \in Seq(Steps)
           /\ \A i \in 1 .. Len(s) : ~Ends(s[i]) /\ ~TakesCode(s[i])
<1>1. \A i \in 1 .. Len(s) : s[i] \in About(lib)
  OBVIOUS
<1>2. \A i \in 1 .. Len(s) :
        /\ Gives(s[i]) \/ Wants(s[i]) => LibOf(s[i]) = lib
        /\ s[i].op \notin {"drop", "hold"} /\ ~TakesCode(s[i]) /\ ~Ends(s[i]) /\ s[i] \in Steps
  BY <1>1 DEF About
<1>3. Agrees(s)
  BY <1>2 DEF Agrees, Pair
<1>4. s \in Seq(Steps)
  BY <1>2
<1>5. ASSUME NEW i \in 1 .. Len(s), Gives(s[i]),
             i = Len(s) \/ (i = Len(s) - 1 /\ s[Len(s)].op = "unlockLinker")
      PROVE  Gives(x) /\ LibOf(s[i]) = LibOf(x)
  <2>1. s # <<>>
    <3>1. \A j \in 1 .. Len(<<>>) : FALSE
      OBVIOUS
    <3> QED
      BY <1>5, <3>1
  <2> QED
    BY <1>2, <1>5, <2>1
<1>6. /\ \A i \in 1 .. Len(s) :
           /\ Gives(s[i]) /\ (i = Len(s) \/ (i = Len(s) - 1 /\ s[Len(s)].op = "unlockLinker"))
                => Gives(x) /\ LibOf(s[i]) = LibOf(x)
           /\ s[i].op # "drop"
           /\ s[i].op = "hold" => i = Len(s) /\ x.op = "forced" /\ s[i].lib = x.lib
           /\ TakesCode(s[i]) => x.op = "lzmaFound"
  BY <1>2, <1>5
<1> QED
  BY <1>2, <1>3, <1>4, <1>6 DEF Hands

LEMMA AboutLists ==
    ASSUME NEW lib \in AnyLib
    PROVE  /\ Find(lib) \in Seq(About(lib)) /\ Iterating(lib) \in Seq(About(lib))
           /\ ForceDlopen(lib) \in Seq(About(lib)) /\ OpenAlways(lib) \in Seq(About(lib))
           /\ OpenTry(lib) \in Seq(About(lib))
           /\ WithLinkerLock(<<DoLib("dlopen", lib)>>) \in Seq(About(lib))
<1>1. /\ \A op \in {"iterate", "tryForce", "forced", "forceAs", "dlopen"} :
           DoLib(op, lib) \in Steps /\ DoLib(op, lib).op = op /\ DoLib(op, lib).lib = lib
      /\ \A op \in {"lockLinker", "unlockLinker", "auxv"} : Do(op) \in Steps /\ Do(op).op = op
      /\ DoKey("ensure", Symbols) \in Steps /\ DoKey("ensure", Symbols).op = "ensure"
  <2>1. \A op \in {"iterate", "tryForce", "forced", "forceAs", "dlopen"} :
           DoLib(op, lib) \in Steps /\ DoLib(op, lib).op = op /\ DoLib(op, lib).lib = lib
    BY DEF Steps, DoLib
  <2>2. \A op \in {"lockLinker", "unlockLinker", "auxv"} : Do(op) \in Steps /\ Do(op).op = op
    BY DEF Steps, Do
  <2>3. Symbols \in Key
    BY DEF Key, Once, Symbols
  <2>4. DoKey("ensure", Symbols) \in Steps /\ DoKey("ensure", Symbols).op = "ensure"
    BY <2>3 DEF Steps, DoKey
  <2> QED
    BY <2>1, <2>2, <2>4
<1>2. /\ \A op \in {"iterate", "tryForce", "forced", "forceAs", "dlopen"} : DoLib(op, lib) \in About(lib)
      /\ \A op \in {"lockLinker", "unlockLinker"} : Do(op) \in About(lib)
      /\ lib = Linker => Do("auxv") \in About(lib)
      /\ DoKey("ensure", Symbols) \in About(lib)
  BY <1>1 DEF About, Gives, Wants, LibOf, TakesCode, Ends
<1>3. ASSUME NEW z \in About(lib) PROVE WithLinkerLock(<<z>>) \in Seq(About(lib))
  BY <1>2, <1>3 DEF WithLinkerLock
<1>4. Iterating(lib) \in Seq(About(lib)) /\ WithLinkerLock(<<DoLib("dlopen", lib)>>) \in Seq(About(lib))
  BY <1>2, <1>3 DEF Iterating
<1>5. Find(lib) \in Seq(About(lib))
  BY <1>2, <1>4 DEF Find
<1>6. ForceDlopen(lib) \in Seq(About(lib))
  BY <1>2 DEF ForceDlopen
<1>7. OpenAlways(lib) \in Seq(About(lib))
  BY <1>2, <1>6 DEF OpenAlways
<1>8. OpenTry(lib) \in Seq(About(lib))
  BY <1>2, <1>5 DEF OpenTry
<1> QED
  BY <1>4, <1>5, <1>6, <1>7, <1>8

LEMMA AboutSearch ==
    ASSUME NEW k \in Table, NEW into \in {"nothing", "mutex", "dlopen", "dlopen_ext"}, NEW lib
    PROVE  Search(k, into) \in Seq(About(lib))
<1>1. DoKey("ensure", k) \in Steps /\ Take(k, into) \in Steps
  BY DEF Steps, Key
<1>2. DoKey("ensure", k) \in About(lib) /\ Take(k, into) \in About(lib)
  BY <1>1 DEF About, Gives, Wants, TakesCode, Ends, DoKey, Take
<1> QED
  BY <1>2 DEF Search

LEMMA NowTurns ==
    ASSUME IInv, NEW t \in Thread, NEW op, At(t, op), NEW s \in Seq(Steps), Goes(t, s),
           UNCHANGED device
    PROVE  /\ Turns(t, s) /\ Now(t) = todo[t][1] /\ Now(t).op = op /\ Now(t) \in Steps
           /\ Ready(t, Now(t))
BY Begin DEF Turns

\* A step that leaves what was returned last alone.
LEMMA CalmHeld ==
    ASSUME IInv, HeldInv, NEW t \in Thread, NEW op, At(t, op),
           op \notin {"close", "drop", "noExt", "dlopen", "forceAs", "iterate", "auxv", "again",
                      "forced", "hold"},
           NEW lib, NEW s \in Seq(About(lib)), Goes(t, s),
           s # <<>> => /\ Starts(s[1])
                       /\ \/ Gives(Now(t)) /\ LibOf(Now(t)) = lib
                          \/ ~Gives(s[Len(s)]) /\ s[Len(s)].op # "unlockLinker",
           UNCHANGED <<device, ret, handle, refs, app>>,
           code' = "forced" => code = "forced" \/ \E u \in Thread : \E h \in Lost(u) : Holds(h, Lzma)
    PROVE  HeldInv'
<1>1. PICK x : x = Now(t)
  OBVIOUS
<1>2. x.op = op
  BY <1>1, Begin
<1>3. /\ Hands(x, s) /\ s \in Seq(Steps)
      /\ \A i \in 1 .. Len(s) : ~Ends(s[i]) /\ ~TakesCode(s[i])
  BY <1>1, <1>2, AboutHands
<1>4. Turns(t, s) /\ x = todo[t][1] /\ ~Ends(x)
  BY <1>1, <1>2, <1>3, NowTurns DEF Ends
<1>5. Closing(t)' = Closing(t)
  BY <1>3, <1>4, CloseSame
<1>6. ASSUME Yields(Api, x) \/ x.op = "iterate", ret[t] \in Handle, x.op # "unlockLinker"
      PROVE  Gives(x) /\ handle[ret[t]].lib = LibOf(x)
  <2>1. x.op = "tryForce"
    BY <1>2, <1>6 DEF Yields
  <2>2. Len(todo[t]) \in Nat \ {0}
    BY <1>4, TurnSeq DEF IInv
  <2>3. 1 \in 1 .. Len(todo[t]) /\ Waits(todo[t], 1)
    BY <2>2 DEF Waits
  <2>4. Found(t)
    BY DEF HeldInv
  <2> QED
    BY <1>4, <1>6, <2>1, <2>3, <2>4 DEF Found, Gives
<1> QED
  BY <1>2, <1>3, <1>4, <1>5, <1>6, PlainHeld

LEMMA PopHeld ==
    ASSUME IInv, HeldInv, NEW t \in Thread, NEW op, At(t, op), Goes(t, <<>>),
           op \notin {"close", "drop", "noExt", "dlopen", "forceAs", "iterate", "auxv", "again",
                      "forced", "hold"},
           UNCHANGED <<device, ret, handle, refs, app>>,
           code' = "forced" => code = "forced" \/ \E u \in Thread : \E h \in Lost(u) : Holds(h, Lzma)
    PROVE  HeldInv'
<1>1. PICK s : s = <<>>
  OBVIOUS
<1>2. s \in Seq(About(Linker))
  BY <1>1
<1> QED
  BY <1>1, <1>2, CalmHeld

LEMMA EnsureHeld ==
    ASSUME IInv, HeldInv, NEW t \in Thread, Ensure(t)
    PROVE  HeldInv'
<1>1. /\ At(t, "ensure") /\ UNCHANGED <<device, ret, handle, refs, app, code>>
      /\ Now(t) \in Steps /\ Now(t).op = "ensure"
  BY Begin DEF Ensure, objects, pointers
<1>2. CASE Now(t).key \in inited
  <2>1. Goes(t, <<>>)
    BY <1>2 DEF Ensure
  <2> QED
    BY <1>1, <2>1, PopHeld
<1>3. CASE Now(t).key \notin inited
  <2>1. PICK z : z = DoKey("lock", Now(t).key)
    OBVIOUS
  <2>2. z \in Steps /\ z.op = "lock"
    BY <1>1, <2>1, StepFacts DEF Steps, DoKey, OnKey, Asks
  <2>3. z \in About(Linker)
    BY <2>2 DEF About, Gives, Wants, TakesCode, Ends
  <2>4. PICK s : s = <<z>>
    OBVIOUS
  <2>5. s \in Seq(About(Linker)) /\ s[1] = z /\ Len(s) = 1 /\ Goes(t, s)
    BY <1>3, <2>1, <2>3, <2>4 DEF Ensure
  <2>6. Starts(z) /\ ~Gives(z) /\ z.op # "unlockLinker"
    BY <2>2 DEF Starts, Opens, Gives
  <2> QED
    BY <1>1, <2>5, <2>6, CalmHeld
<1> QED
  BY <1>2, <1>3

LEMMA TryForceHeld ==
    ASSUME IInv, HeldInv, NEW t \in Thread, TryForce(t)
    PROVE  HeldInv'
<1>1. /\ At(t, "tryForce") /\ UNCHANGED <<device, ret, handle, refs, app, code>>
      /\ Now(t) \in Steps /\ Now(t).op = "tryForce"
  BY Begin DEF TryForce, objects, pointers
<1>2. PICK lib \in AnyLib : lib = Now(t).lib
  BY <1>1 DEF Steps, Do, DoLib, DoKey, Take
<1>3. CASE ret[t] # Null
  <2>1. Goes(t, <<>>)
    BY <1>3 DEF TryForce
  <2> QED
    BY <1>1, <2>1, PopHeld
<1>4. CASE ret[t] = Null
  <2>1. PICK s : s = OpenAlways(lib)
    OBVIOUS
  <2>2. s \in Seq(About(lib)) /\ Goes(t, s)
    BY <1>2, <1>4, <2>1, AboutLists DEF TryForce
  <2>3. s # <<>> => Starts(s[1])
    BY <1>1, <2>1, TryForcePiece DEF Piece, Starts
  <2>4. Gives(Now(t)) /\ LibOf(Now(t)) = lib
    BY <1>1, <1>2 DEF Gives, LibOf
  <2> QED
    BY <1>1, <2>2, <2>3, <2>4, CalmHeld
<1> QED
  BY <1>3, <1>4

LEMMA BodyAbout ==
    ASSUME NEW k \in Key
    PROVE  \E lib : Body(k) \in Seq(About(lib))
<1>1. /\ Symbols \notin Table /\ Callers \notin Table /\ Unpacker \notin Table
      /\ Symbols # Callers /\ Symbols # Unpacker /\ Callers # Unpacker
  BY DEF Symbols, Callers, Unpacker, Table
<1>2. /\ Symbols[1] \notin {"dynsym", "symtab"} /\ Callers[1] \notin {"dynsym", "symtab"}
      /\ Unpacker[1] \notin {"dynsym", "symtab"}
  BY DEF Symbols, Callers, Unpacker
<1>3. /\ \A op \in {"linkerFound", "scanCallers", "lzmaFound"} : Do(op) \in Steps /\ Do(op).op = op
      /\ \A op \in {"read", "whole"} : DoKey(op, k).op = op /\ (k \in Table => DoKey(op, k) \in Steps)
  BY DEF Steps, Do, DoKey
<1>12. Linker \in AnyLib /\ Lzma \in AnyLib
  BY LibAssumption DEF AnyLib
<1>4. /\ Do("linkerFound") \in About(Linker) /\ Do("scanCallers") \in About(Linker)
      /\ Do("lzmaFound") \in About(Lzma)
      /\ k \in Table => DoKey("read", k) \in About(Linker) /\ DoKey("whole", k) \in About(Linker)
  BY <1>3 DEF About, Gives, Wants, LibOf, TakesCode, Ends
<1>5. CASE k = Symbols
  <2>1. Body(k) = Find(Linker) \o <<Do("linkerFound")>>
    BY <1>1, <1>2, <1>5 DEF Body
  <2>2. Find(Linker) \in Seq(About(Linker))
    BY <1>12, AboutLists
  <2> QED
    BY <1>4, <2>1, <2>2
<1>6. CASE k = Callers
  <2>1. Body(k) = <<Do("scanCallers")>>
    BY <1>1, <1>2, <1>6 DEF Body
  <2> QED
    BY <1>4, <2>1
<1>7. CASE k = Unpacker
  <2>1. Body(k) = OpenTry(Lzma) \o <<Do("lzmaFound")>>
    BY <1>1, <1>2, <1>7 DEF Body
  <2>2. OpenTry(Lzma) \in Seq(About(Lzma))
    BY <1>12, AboutLists
  <2> QED
    BY <1>4, <2>1, <2>2
<1>8. CASE k \in Table /\ k[1] = "dynsym"
  <2>1. Body(k) = <<DoKey("read", k), DoKey("whole", k)>>
    BY <1>1, <1>2, <1>8 DEF Body
  <2> QED
    BY <1>4, <1>8, <2>1
<1>9. CASE k \in Table /\ k[1] = "symtab"
  <2>1. Body(k) = <<DoKey("read", k)>>
    BY <1>1, <1>2, <1>9 DEF Body
  <2> QED
    BY <1>4, <1>9, <2>1
<1>10. k = Symbols \/ k = Callers \/ k = Unpacker \/ k \in Table
  BY DEF Key, Once, Symbols, Callers, Unpacker
<1>11. k \in Table => k[1] = "dynsym" \/ k[1] = "symtab"
  BY DEF Table
<1> QED
  BY <1>5, <1>6, <1>7, <1>8, <1>9, <1>10, <1>11

LEMMA LockAndLookHeld ==
    ASSUME IInv, HeldInv, NEW t \in Thread, LockAndLook(t)
    PROVE  HeldInv'
<1>1. /\ At(t, "lock") /\ UNCHANGED <<device, ret, handle, refs, app, code>>
      /\ Now(t) \in Steps /\ Now(t).op = "lock"
      /\ Goes(t, Locked(Now(t).key))
  BY Begin DEF LockAndLook, objects, pointers, Locked
<1>2. PICK k \in Key : k = Now(t).key
  BY <1>1, StepFacts DEF OnKey, Asks
<1>3. PICK s : s = Locked(k)
  OBVIOUS
<1>4. s # <<>> /\ Starts(s[1])
  <2>1. s # <<>> /\ ((s[1] = DoKey("unlock", k) /\ k \in inited) \/ Opens(Api, s[1]))
    BY <1>3, LockedList
  <2> QED
    BY <2>1 DEF Starts, DoKey
<1>5. PICK lib : Body(k) \in Seq(About(lib))
  BY BodyAbout
<1> DEFINE d == DoKey("done", k)
           u == DoKey("unlock", k)
<1>6. d \in About(lib) /\ u \in About(lib) /\ u.op = "unlock" /\ ~Gives(u)
  <2>1. d \in Steps /\ u \in Steps /\ d.op = "done" /\ u.op = "unlock"
    BY DEF Steps, DoKey
  <2> HIDE DEF d, u
  <2> QED
    BY <2>1 DEF About, Gives, Wants, TakesCode, Ends
<1>7. s \in Seq(About(lib)) /\ s[Len(s)] = u
  <2>1. PICK b \in Seq(About(lib)) : s = b \o <<u>>
    <3>1. CASE k \in inited
      <4>1. s = <<>> \o <<u>> /\ <<>> \in Seq(About(lib))
        BY <1>3, <3>1 DEF Locked
      <4> QED
        BY <4>1
    <3>2. CASE k \notin inited
      <4>1. s = (Body(k) \o <<d>>) \o <<u>>
        BY <1>3, <3>2 DEF Locked
      <4>2. Body(k) \o <<d>> \in Seq(About(lib))
        BY <1>5, <1>6
      <4> QED
        BY <4>1, <4>2
    <3> QED
      BY <3>1, <3>2
  <2> HIDE DEF d, u
  <2> QED
    BY <1>6, <2>1
<1> HIDE DEF d, u
<1> QED
  BY <1>1, <1>2, <1>3, <1>4, <1>6, <1>7, CalmHeld

LEMMA PopsHeld ==
    ASSUME IInv, HeldInv, NEW t \in Thread,
           Done(t) \/ Unlock(t) \/ LockLinker(t) \/ UnlockLinker(t) \/ ScanCallers(t) \/ Whole(t)
             \/ Unpack(t) \/ Give(t)
    PROVE  HeldInv'
<1>1. ASSUME NEW op \in {"done", "unlock", "lockLinker", "unlockLinker", "scanCallers", "whole",
                         "unpack", "give"},
             At(t, op), Goes(t, <<>>), UNCHANGED <<device, ret, handle, refs, app, code>>
      PROVE  HeldInv'
  BY <1>1, PopHeld
<1>2. CASE Done(t)
  BY <1>1, <1>2 DEF Done, objects, pointers
<1>3. CASE Unlock(t)
  BY <1>1, <1>3 DEF Unlock, objects, pointers
<1>4. CASE LockLinker(t)
  BY <1>1, <1>4 DEF LockLinker, objects, pointers
<1>5. CASE UnlockLinker(t)
  BY <1>1, <1>5 DEF UnlockLinker, objects, pointers
<1>6. CASE ScanCallers(t)
  BY <1>1, <1>6 DEF ScanCallers, objects
<1>7. CASE Whole(t)
  BY <1>1, <1>7 DEF Whole, pointers
<1>8. CASE Unpack(t)
  BY <1>1, <1>8 DEF Unpack, pointers
<1>9. CASE Give(t)
  BY <1>1, <1>9 DEF Give, objects, pointers
<1> QED
  BY <1>2, <1>3, <1>4, <1>5, <1>6, <1>7, <1>8, <1>9

LEMMA ReadHeld ==
    ASSUME IInv, HeldInv, NEW t \in Thread, Read(t)
    PROVE  HeldInv'
<1>1. /\ At(t, "read") /\ UNCHANGED <<device, ret, handle, refs, app, code>>
      /\ Now(t) \in Steps /\ Now(t).op = "read"
  BY Begin DEF Read, pointers
<1>2. PICK k \in Table : k = Now(t).key
  BY <1>1, StepFacts DEF Fills
<1> DEFINE e == DoKey("ensure", Unpacker)
           u == DoKey("unpack", k)
           w == DoKey("whole", k)
<1>3. Goes(t, <<>>) \/ Goes(t, <<e, u>>) \/ Goes(t, <<w>>)
  BY <1>2 DEF Read
<1>4. /\ e \in Steps /\ u \in Steps /\ w \in Steps
      /\ e.op = "ensure" /\ u.op = "unpack" /\ w.op = "whole"
  BY DEF Steps, DoKey, Key, Once, Unpacker
<1> HIDE DEF e, u, w
<1>5. e \in About(Linker) /\ u \in About(Linker) /\ w \in About(Linker)
  BY <1>4 DEF About, Gives, Wants, TakesCode, Ends
<1>6. Starts(e) /\ Starts(w) /\ ~Gives(u) /\ ~Gives(w)
  BY <1>4 DEF Starts, Opens, Gives
<1>7. CASE Goes(t, <<>>)
  BY <1>1, <1>7, PopHeld
<1>8. CASE Goes(t, <<e, u>>)
  <2>1. PICK s : s = <<e, u>>
    OBVIOUS
  <2>2. s \in Seq(About(Linker)) /\ s[1] = e /\ s[Len(s)] = u
    BY <1>5, <2>1
  <2> QED
    BY <1>1, <1>4, <1>6, <1>8, <2>1, <2>2, CalmHeld
<1>9. CASE Goes(t, <<w>>)
  <2>1. PICK s : s = <<w>>
    OBVIOUS
  <2>2. s \in Seq(About(Linker)) /\ s[1] = w /\ s[Len(s)] = w
    BY <1>5, <2>1
  <2> QED
    BY <1>1, <1>4, <1>6, <1>9, <2>1, <2>2, CalmHeld
<1> QED
  BY <1>3, <1>7, <1>8, <1>9

LEMMA NamedAbout ==
    ASSUME NEW h \in Handle, NEW s \in Named(h)
    PROVE  /\ s \in Seq(About(Linker))
           /\ s # <<>> => Starts(s[1]) /\ ~Gives(s[Len(s)]) /\ s[Len(s)].op # "unlockLinker"
<1> DEFINE a == Search(<<"dynsym", h>>, "nothing")
           b == Search(<<"symtab", h>>, "nothing")
<1>1. a \in Seq(About(Linker)) /\ b \in Seq(About(Linker))
  <2>1. <<"dynsym", h>> \in Table /\ <<"symtab", h>> \in Table
    BY DEF Table
  <2> QED
    BY <2>1, AboutSearch
<1>2. s = <<>> \/ s = a \/ s = a \o b
  BY DEF Named
<1> HIDE DEF a, b
<1>3. s \in Seq(About(Linker))
  <2>1. \A S : \A p, q \in Seq(S) : <<>> \in Seq(S) /\ p \o q \in Seq(S)
    OBVIOUS
  <2> QED
    BY <1>1, <1>2, <2>1
<1>4. ASSUME s # <<>>
      PROVE  Starts(s[1]) /\ ~Gives(s[Len(s)]) /\ s[Len(s)].op # "unlockLinker"
  <2>1. PICK y, z : Block(Api, Inner(h, {}), s, y, z) /\ y.op = "ensure" /\ z.op = "take"
    BY <1>4, NamedBlock
  <2> QED
    BY <2>1 DEF Block, Starts, Opens, Gives
<1> QED
  BY <1>3, <1>4

LEMMA CacheHeld ==
    ASSUME IInv, HeldInv, NEW t \in Thread, Cache(t)
    PROVE  HeldInv'
<1>1. /\ At(t, "cache") /\ UNCHANGED <<device, ret, handle, refs, app, code>>
      /\ Now(t) \in Steps /\ Now(t).op = "cache" /\ Ready(t, Now(t))
  BY Begin DEF Cache, objects, pointers
<1>2. CASE ret[t] = Null
  <2>1. Goes(t, <<>>)
    BY <1>2 DEF Cache
  <2> QED
    BY <1>1, <2>1, PopHeld
<1>3. CASE ret[t] # Null
  <2>1. ret[t] \in Handle
    BY <1>1, <1>3 DEF Ready, AwaitsFile, Awaits
  <2>2. PICK s \in Named(ret[t]) : Goes(t, s)
    BY <1>3 DEF Cache
  <2>3. /\ s \in Seq(About(Linker))
        /\ s # <<>> => Starts(s[1]) /\ ~Gives(s[Len(s)]) /\ s[Len(s)].op # "unlockLinker"
    BY <2>1, NamedAbout
  <2> QED
    BY <1>1, <2>2, <2>3, CalmHeld
<1> QED
  BY <1>2, <1>3

\* Functions of a liblzma whose handle t is about to drop: they keep what it held.
LEMMA TakeItHeld ==
    ASSUME IInv, HeldInv, NEW t \in Thread, TakeIt(t)
    PROVE  HeldInv'
<1>1. /\ At(t, "take") /\ UNCHANGED <<device, ret, handle, refs, app>> /\ Goes(t, <<>>)
      /\ Now(t) \in Steps /\ Now(t).op = "take" /\ Now(t) = todo[t][1]
      /\ todo[t] \in Seq(Steps) /\ todo[t] # <<>>
  BY Begin DEF TakeIt, objects
<1>2. ASSUME code' = "forced", code # "forced"
      PROVE  \E u \in Thread : \E h \in Lost(u) : Holds(h, Lzma)
  <2>1. Now(t).into = "code" /\ handle[Now(t).key[2]].held
    BY <1>2 DEF TakeIt
  <2>2. TakesCode(todo[t][1])
    BY <1>1, <2>1 DEF TakesCode
  <2>3. 1 \in 1 .. Len(todo[t])
    BY <1>1
  <2>4. Coding(t)
    BY DEF HeldInv
  <2>5. PICK h : h = todo[t][1].key[2]
    OBVIOUS
  <2>6. h \in Lost(t) /\ handle[h].lib = Lzma
    BY <2>2, <2>3, <2>4, <2>5 DEF Coding
  <2> QED
    BY <1>1, <2>1, <2>5, <2>6 DEF Holds
<1> QED
  BY <1>1, <1>2, PopHeld

\* A handle of the library that was looked for, or none.
LEMMA AllocHeld ==
    ASSUME IInv, HeldInv, NEW t \in Thread, NEW op \in {"auxv", "again", "iterate"}, At(t, op),
           NEW lib, lib = LibOf(Now(t)),
           Alloc(t, lib) \/ (Returns(t, Null) /\ UNCHANGED handle),
           NEW s, Goes(t, s),
           s = <<>> \/ (s = <<Do("again")>> /\ op = "auxv" /\ Returns(t, Null) /\ UNCHANGED handle),
           UNCHANGED <<device, refs, app, code>>
    PROVE  HeldInv'
<1>1. PICK x : x = Now(t)
  OBVIOUS
<1>2. x.op = op /\ Gives(x) /\ x.op \notin {"close", "drop", "forced", "dlopen", "forceAs"}
  BY <1>1, Begin DEF Gives
<1> DEFINE a == Do("again")
<1>3. a \in About(Linker) /\ Starts(a) /\ a.op = "again"
  <2>1. a \in Steps /\ a.op = "again"
    BY DEF Steps, Do
  <2> HIDE DEF a
  <2> QED
    BY <2>1 DEF About, Gives, Wants, LibOf, TakesCode, Ends, Starts, Opens
<1> HIDE DEF a
<1>4. s \in Seq(About(Linker)) /\ (s # <<>> => s[1] = a /\ op = "auxv")
  <2>1. CASE s = <<>>
    BY <2>1
  <2>2. CASE s = <<a>> /\ op = "auxv"
    BY <1>3, <2>2
  <2> QED
    BY <2>1, <2>2 DEF a
<1>5. /\ Hands(x, s) /\ s \in Seq(Steps)
      /\ \A i \in 1 .. Len(s) : ~Ends(s[i]) /\ ~TakesCode(s[i])
  <2>1. op = "auxv" => LibOf(x) = Linker
    BY <1>2 DEF LibOf
  <2> QED
    BY <1>2, <1>3, <1>4, <2>1, AboutHands
<1>6. Turns(t, s) /\ x = todo[t][1] /\ ~Ends(x)
  BY <1>1, <1>2, <1>5, NowTurns DEF Ends
<1>7. Closing(t)' = Closing(t)
  BY <1>5, <1>6, CloseSame
<1>8. ret \in [Thread -> Handle \cup {Null, LinkerHandle}] /\ DOMAIN handle = Handle
  BY DEF IInv, TypeInv, DataTypes
<1>9. CASE ret' = [ret EXCEPT ![t] = Null] /\ UNCHANGED handle
  <2>1. ret'[t] = Null /\ \A u \in Thread \ {t} : ret'[u] = ret[u]
    BY <1>8, <1>9
  <2>2. ret'[t] \notin Handle /\ ret'[t] # LinkerHandle
    BY <2>1 DEF Null, Handle, LinkerHandle
  <2> QED
    BY <1>2, <1>5, <1>6, <1>7, <1>9, <2>1, <2>2, PlainHeld
<1>10. CASE ~(ret' = [ret EXCEPT ![t] = Null] /\ UNCHANGED handle)
  <2>1. s = <<>> /\ Alloc(t, lib) /\ FreeHandles # {}
    BY <1>10 DEF Alloc, Returns
  <2>2. PICK h \in FreeHandles : h = CHOOSE i \in FreeHandles : \A g \in FreeHandles : i <= g
    BY <2>1, LeastFree
  <2>3. /\ handle' = [handle EXCEPT ![h] = [lib |-> lib, held |-> FALSE]]
        /\ ret' = [ret EXCEPT ![t] = h]
    BY <2>1, <2>2 DEF Alloc, Returns
  <2>4. h \in Handle /\ h \notin Live
    BY DEF FreeHandles, Live
  <2>5. ret'[t] = h /\ \A u \in Thread \ {t} : ret'[u] = ret[u]
    BY <1>8, <2>3
  <2>6. /\ \A g \in Live : handle'[g].lib = handle[g].lib
        /\ \A g \in Handle : handle'[g].held => handle'[g] = handle[g]
        /\ handle'[h].lib = LibOf(x)
    BY <1>1, <1>8, <2>3, <2>4 DEF Live
  <2>7. ret'[t] # LinkerHandle
    BY <2>4, <2>5 DEF LinkerHandle, Handle
  <2>8. x.op # "unlockLinker"
    BY <1>2
  <2> QED
    BY <1>2, <1>5, <1>6, <1>7, <2>1, <2>5, <2>6, <2>7, <2>8, PlainHeld
<1> QED
  BY <1>9, <1>10

LEMMA FindHeld ==
    ASSUME IInv, HeldInv, NEW t \in Thread, FromAuxv(t) \/ Again(t) \/ Iterate(t)
    PROVE  HeldInv'
<1>1. CASE FromAuxv(t)
  <2>1. /\ At(t, "auxv") /\ UNCHANGED <<device, refs, app, code>> /\ Alloc(t, Linker)
        /\ LibOf(Now(t)) = Linker
    BY <1>1, Begin DEF FromAuxv, pointers, LibOf
  <2>2. PICK s : s = IF FreeHandles = {} THEN <<Do("again")>> ELSE <<>>
    OBVIOUS
  <2>3. Goes(t, s)
    BY <1>1, <2>2 DEF FromAuxv
  <2>4. s = <<>> \/ (s = <<Do("again")>> /\ Returns(t, Null) /\ UNCHANGED handle)
    BY <2>1, <2>2 DEF Alloc
  <2> QED
    BY <2>1, <2>3, <2>4, AllocHeld
<1>2. CASE Again(t)
  <2>1. /\ At(t, "again") /\ UNCHANGED <<device, refs, app, code>> /\ Alloc(t, Linker)
        /\ LibOf(Now(t)) = Linker /\ Goes(t, <<>>)
    BY <1>2, Begin DEF Again, pointers, LibOf
  <2> QED
    BY <2>1, AllocHeld
<1>3. CASE Iterate(t)
  <2>1. /\ At(t, "iterate") /\ UNCHANGED <<device, refs, app, code>>
        /\ LibOf(Now(t)) = Now(t).lib /\ Goes(t, <<>>)
    BY <1>3, Begin DEF Iterate, pointers, LibOf
  <2>2. Alloc(t, Now(t).lib) \/ (Returns(t, Null) /\ UNCHANGED handle)
    BY <1>3 DEF Iterate
  <2> QED
    BY <2>1, <2>2, AllocHeld
<1> QED
  BY <1>1, <1>2, <1>3

LEMMA ForceAsHeld ==
    ASSUME IInv, HeldInv, NEW t \in Thread, ForceAs(t)
    PROVE  HeldInv'
<1>1. PICK x : x = Now(t)
  OBVIOUS
<1>2. /\ At(t, "forceAs") /\ UNCHANGED <<device, handle, refs, app, code>>
      /\ x \in Steps /\ x.op = "forceAs"
  BY <1>1, Begin DEF ForceAs, objects, pointers
<1>3. PICK lib \in AnyLib : lib = x.lib
  BY <1>2 DEF Steps, Do, DoLib, DoKey, Take
<1>4. Gives(x) /\ LibOf(x) = lib
  BY <1>2, <1>3 DEF Gives, LibOf
<1>5. ret \in [Thread -> Handle \cup {Null, LinkerHandle}]
  BY DEF IInv, TypeInv, DataTypes
<1>6. CASE ~dlopenSym
  <2>1. PICK s : s = <<>>
    OBVIOUS
  <2>2. Goes(t, s) /\ ret' = [ret EXCEPT ![t] = Null]
    BY <1>6, <2>1 DEF ForceAs, Returns
  <2>3. s \in Seq(About(lib))
    BY <2>1
  <2>4. /\ Hands(x, s) /\ s \in Seq(Steps)
        /\ \A i \in 1 .. Len(s) : ~Ends(s[i]) /\ ~TakesCode(s[i])
    BY <2>1, <2>3, AboutHands
  <2>5. Turns(t, s) /\ x = todo[t][1] /\ ~Ends(x)
    BY <1>1, <1>2, <2>2, <2>4, NowTurns DEF Ends
  <2>6. Closing(t)' = Closing(t)
    BY <2>4, <2>5, CloseSame
  <2>7. ret'[t] = Null /\ \A u \in Thread \ {t} : ret'[u] = ret[u]
    BY <1>5, <2>2
  <2>8. ret'[t] \notin Handle /\ ret'[t] # LinkerHandle
    BY <2>7 DEF Null, Handle, LinkerHandle
  <2> QED
    BY <1>2, <2>1, <2>4, <2>5, <2>6, <2>7, <2>8, PlainHeld
<1>7. CASE dlopenSym
  <2> DEFINE e == DoKey("ensure", Callers)
             d == IF Nougat THEN WithLinkerLock(<<DoLib("dlopen", lib)>>)
                            ELSE <<DoLib("dlopen", lib)>>
  <2>1. PICK s : s = <<e>> \o d
    OBVIOUS
  <2>2. Goes(t, s) /\ ret' = ret
    BY <1>1, <1>3, <1>7, <2>1 DEF ForceAs
  <2>3. e \in About(lib) /\ DoLib("dlopen", lib) \in About(lib)
    <3>1. /\ e \in Steps /\ e.op = "ensure" /\ DoLib("dlopen", lib) \in Steps
          /\ DoLib("dlopen", lib).op = "dlopen" /\ DoLib("dlopen", lib).lib = lib
      BY DEF Steps, DoKey, DoLib, Key, Once, Callers
    <3> QED
      BY <3>1 DEF About, Gives, Wants, LibOf, TakesCode, Ends
  <2>4. d \in Seq(About(lib))
    BY <2>3, AboutLists
  <2>5. Starts(e)
    BY DEF Starts, Opens, DoKey
  <2> HIDE DEF e, d
  <2>6. s \in Seq(About(lib)) /\ s # <<>> /\ s[1] = e
    BY <2>1, <2>3, <2>4
  <2>7. /\ Hands(x, s) /\ s \in Seq(Steps)
        /\ \A i \in 1 .. Len(s) : ~Ends(s[i]) /\ ~TakesCode(s[i])
    BY <1>2, <1>4, <2>5, <2>6, AboutHands
  <2>8. Turns(t, s) /\ x = todo[t][1] /\ ~Ends(x)
    BY <1>1, <1>2, <2>2, <2>7, NowTurns DEF Ends
  <2>9. Closing(t)' = Closing(t)
    BY <2>7, <2>8, CloseSame
  <2> QED
    BY <1>2, <2>2, <2>6, <2>7, <2>8, <2>9, PlainHeld
<1> QED
  BY <1>6, <1>7

LEMMA ForcedHands ==
    ASSUME NEW lib \in AnyLib, NEW a \in Seq(About(lib)), NEW z, z = DoLib("hold", lib),
           NEW s, s = a \o <<z>>, Starts(s[1]), NEW x, x.op = "forced", x.lib = lib
    PROVE  /\ Hands(x, s) /\ s \in Seq(Steps) /\ s # <<>>
           /\ \A i \in 1 .. Len(s) : ~Ends(s[i]) /\ ~TakesCode(s[i])
<1>1. z \in Steps /\ z.op = "hold" /\ z.lib = lib
  BY DEF Steps, DoLib
<1>2. /\ a \in Seq(Steps) /\ Len(a) \in Nat /\ Len(s) = Len(a) + 1
      /\ \A i \in 1 .. Len(a) : s[i] = a[i] /\ a[i] \in About(lib)
      /\ s[Len(s)] = z
  <2>1. \A y \in About(lib) : y \in Steps
    BY DEF About
  <2>2. a \in Seq(Steps)
    BY <2>1
  <2> QED
    BY <2>2
<1>3. s \in Seq(Steps) /\ s # <<>>
  BY <1>1, <1>2
<1>4. ASSUME NEW i \in 1 .. Len(s)
      PROVE  /\ Gives(s[i]) \/ Wants(s[i]) => LibOf(s[i]) = lib
             /\ s[i].op # "drop" /\ ~TakesCode(s[i]) /\ ~Ends(s[i])
             /\ s[i].op = "hold" => i = Len(s) /\ s[i].lib = lib
  <2>1. CASE i \in 1 .. Len(a)
    BY <1>2, <2>1 DEF About
  <2>2. CASE i = Len(s)
    BY <1>1, <1>2, <2>2 DEF LibOf, TakesCode, Ends
  <2> QED
    BY <1>2, <2>1, <2>2
<1>5. Agrees(s)
  BY <1>4 DEF Agrees, Pair
<1>6. Gives(x) /\ LibOf(x) = lib
  BY DEF Gives, LibOf
<1> QED
  BY <1>3, <1>4, <1>5, <1>6 DEF Hands

LEMMA ForcedHeld ==
    ASSUME IInv, HeldInv, NEW t \in Thread, Forced(t)
    PROVE  HeldInv'
<1>1. PICK x : x = Now(t)
  OBVIOUS
<1>2. /\ At(t, "forced") /\ UNCHANGED <<device, ret, handle, refs, app, code>>
      /\ x \in Steps /\ x.op = "forced" /\ Ready(t, x)
  BY <1>1, Begin DEF Forced, objects, pointers
<1>3. PICK lib \in AnyLib : lib = x.lib
  BY <1>2 DEF Steps, Do, DoLib, DoKey, Take
<1>4. ret[t] \in {Null, LinkerHandle} /\ ~Ends(x)
  BY <1>2 DEF Ready, AwaitsLinker, Ends
<1>5. CASE ret[t] = Null
  <2>1. PICK s : s = <<>>
    OBVIOUS
  <2>2. Goes(t, s) /\ s \in Seq(About(lib))
    BY <1>1, <1>5, <2>1 DEF Forced
  <2>3. /\ Hands(x, s) /\ s \in Seq(Steps)
        /\ \A i \in 1 .. Len(s) : ~Ends(s[i]) /\ ~TakesCode(s[i])
    BY <2>1, <2>2, AboutHands
  <2>4. Turns(t, s) /\ x = todo[t][1]
    BY <1>1, <1>2, <2>2, <2>3, NowTurns
  <2>5. Closing(t)' = Closing(t)
    BY <1>4, <2>3, <2>4, CloseSame
  <2>6. ret[t] \notin Handle /\ ret[t] # LinkerHandle
    BY <1>5 DEF Null, Handle, LinkerHandle
  <2> QED
    BY <1>2, <2>1, <2>3, <2>4, <2>5, <2>6, PlainHeld
<1>6. CASE ret[t] = LinkerHandle
  <2>1. PICK s : s = Find(lib) \o <<DoLib("hold", lib)>>
    OBVIOUS
  <2>2. Goes(t, s)
    <3>1. ret[t] # Null
      BY <1>6 DEF Null, LinkerHandle
    <3> QED
      BY <1>1, <1>3, <2>1, <3>1 DEF Forced
  <2>3. Find(lib) \in Seq(About(lib))
    BY AboutLists
  <2>4. Starts(s[1])
    <3>1. s # <<>>
      <4>1. \A S, y : \A a \in Seq(S) : a \o <<y>> # <<>>
        OBVIOUS
      <4> QED
        BY <2>1, <2>3, <4>1
    <3> QED
      BY <1>2, <2>1, <3>1, ForcedPiece DEF Piece, Starts
  <2>5. /\ Hands(x, s) /\ s \in Seq(Steps) /\ s # <<>>
        /\ \A i \in 1 .. Len(s) : ~Ends(s[i]) /\ ~TakesCode(s[i])
    BY <1>2, <1>3, <2>1, <2>3, <2>4, ForcedHands
  <2>6. Turns(t, s) /\ x = todo[t][1]
    BY <1>1, <1>2, <2>2, <2>5, NowTurns
  <2>7. Closing(t)' = Closing(t)
    BY <1>4, <2>5, <2>6, CloseSame
  <2> QED
    BY <1>2, <1>6, <2>5, <2>6, <2>7, PlainHeld
<1> QED
  BY <1>4, <1>5, <1>6

\* What is the same for the steps that count.
LEMMA PopThreads ==
    ASSUME IInv, HeldInv, NEW t \in Thread, NEW op \in {"dlopen", "hold"}, At(t, op), Goes(t, <<>>),
           UNCHANGED device,
           \A u \in Thread \ {t} : ret'[u] = ret[u],
           \A h \in Live : handle'[h].lib = handle[h].lib,
           op = "hold" /\ ret'[t] \in Handle => handle'[ret'[t]].lib = Now(t).lib
    PROVE  /\ \A u \in Thread : Agrees(todo'[u]) /\ Found(u)' /\ Dropping(u)' /\ Coding(u)'
           /\ \A u \in Thread \ {t} : Lost(u)' = Lost(u) /\ \A lib : Ahead(u, lib)' = Ahead(u, lib)
           /\ Lost(t) = Closing(t) /\ Lost(t)' = Closing(t)
           /\ Turns(t, <<>>) /\ Now(t) = todo[t][1] /\ Now(t).op = op /\ Now(t) \in Steps
<1>1. PICK s : s = <<>>
  OBVIOUS
<1>2. s \in Seq(About(Linker))
  BY <1>1
<1>3. /\ Hands(Now(t), s) /\ s \in Seq(Steps)
      /\ \A i \in 1 .. Len(s) : ~Ends(s[i]) /\ ~TakesCode(s[i])
  BY <1>1, <1>2, AboutHands
<1>4. Turns(t, s) /\ Now(t) = todo[t][1] /\ Now(t).op = op /\ Now(t) \in Steps
  BY <1>1, <1>3, NowTurns
<1>5. ~Ends(todo[t][1])
  BY <1>4 DEF Ends
<1>6. Closing(t)' = Closing(t)
  BY <1>3, <1>4, <1>5, CloseSame
<1>7. Yields(Api, Now(t)) \/ Now(t).op = "iterate" => op = "hold"
  BY <1>4 DEF Yields
<1>8. op = "hold" => Gives(Now(t)) /\ LibOf(Now(t)) = Now(t).lib
  BY <1>4 DEF Gives, LibOf
<1>9. Now(t).op \notin {"close", "drop", "unlockLinker"}
  BY <1>4
<1>10. /\ \A u \in Thread : Agrees(todo'[u]) /\ Found(u)' /\ Dropping(u)' /\ Coding(u)'
       /\ \A u \in Thread \ {t} : Lost(u)' = Lost(u) /\ \A lib : Ahead(u, lib)' = Ahead(u, lib)
       /\ Lost(t) = Closing(t) /\ Lost(t)' = Closing(t)'
  BY <1>3, <1>4, <1>7, <1>8, <1>9, TurnThreads
<1> QED
  BY <1>1, <1>4, <1>6, <1>10

\* The linker's counts, once a library is loaded or unloaded once more.
LEMMA Counts ==
    ASSUME NEW f \in [Lib -> Nat], NEW l, NEW n, NEW g, g = [f EXCEPT ![l] = n],
           l \in Lib => n \in Nat
    PROVE  /\ g \in [Lib -> Nat] /\ \A lib \in Lib : lib # l => g[lib] = f[lib]
           /\ l \in Lib => g[l] = n
OBVIOUS

LEMMA DlopenHeld ==
    ASSUME IInv, HeldInv, NEW t \in Thread, Dlopen(t)
    PROVE  HeldInv'
<1>1. /\ At(t, "dlopen") /\ Goes(t, <<>>) /\ UNCHANGED <<device, handle, app, code>>
      /\ ret \in [Thread -> Handle \cup {Null, LinkerHandle}]
      /\ refs \in [Lib -> Nat]
  BY DEF Dlopen, objects, pointers, IInv, TypeInv, DataTypes, HeldInv, CountInv
<1>2. PICK x : x = Now(t)
  OBVIOUS
<1>3. PICK r \in {Null, LinkerHandle} :
        /\ ret' = [ret EXCEPT ![t] = r]
        /\ refs' = IF r = LinkerHandle THEN [refs EXCEPT ![x.lib] = @ + 1] ELSE refs
  <2>1. Null # LinkerHandle
    BY DEF Null, LinkerHandle
  <2> QED
    BY <1>2, <2>1 DEF Dlopen, Returns
<1>4. ret'[t] = r /\ \A u \in Thread \ {t} : ret'[u] = ret[u]
  BY <1>1, <1>3
<1>5. /\ \A u \in Thread : Agrees(todo'[u]) /\ Found(u)' /\ Dropping(u)' /\ Coding(u)'
      /\ \A u \in Thread \ {t} : Lost(u)' = Lost(u) /\ \A lib : Ahead(u, lib)' = Ahead(u, lib)
      /\ Lost(t) = Closing(t) /\ Lost(t)' = Closing(t)
      /\ Turns(t, <<>>) /\ x = todo[t][1] /\ x.op = "dlopen"
  BY <1>1, <1>2, <1>4, PopThreads
<1>6. ASSUME NEW lib PROVE Settles(t, lib, Null)
  <2>1. \A u \in Thread : Null \notin Lost(u)'
    BY DEF Lost, Closing, Null, Handle
  <2>2. \A h : Holds(h, lib)' => Holds(h, lib)
    BY <1>1 DEF Holds
  <2> QED
    BY <1>1, <1>5, <2>1, <2>2 DEF Settles
<1>7. Dropping(t) /\ Agrees(todo[t])
  BY DEF HeldInv
<1>8. CASE r = Null
  <2>1. r # LinkerHandle
    BY <1>8 DEF Null, LinkerHandle
  <2>2. \A lib : Ahead(t, lib)' \subseteq Ahead(t, lib)
    BY <1>4, <1>5, <1>7, <2>1, AheadPop
  <2>3. refs' = refs
    BY <1>3, <2>1
  <2>4. CountInv'
    BY <1>6, <2>2, <2>3, SameCount
  <2> QED
    BY <1>5, <2>4 DEF HeldInv
<1>9. CASE r = LinkerHandle
  <2>1. PICK p \in Nat : \A lib :
          Ahead(t, lib)' \subseteq Ahead(t, lib) \cup (IF lib = x.lib THEN {p} ELSE {})
    BY <1>5, <1>7, AheadDlopen
  <2>2. refs' = [refs EXCEPT ![x.lib] = @ + 1]
    BY <1>3, <1>9
  <2>3. ASSUME NEW lib \in Lib PROVE Covered(Claimants(lib)', refs'[lib]) /\ refs'[lib] \in Nat
    <3>1. Covered(Claimants(lib), refs[lib]) /\ refs[lib] \in Nat
      BY <1>1 DEF HeldInv, CountInv
    <3>2. \A c \in Claimants(lib)' :
             \/ c \in Claimants(lib)
             \/ \E q \in Ahead(t, lib)' \ Ahead(t, lib) : c = StepToken(t, q)
             \/ c = HandleToken(Null) /\ Holds(Null, lib)'
      BY <1>6, NewClaims
    <3>3. \A c \in Claimants(lib)' : c # HandleToken(Null)
      BY NoSuchHandle
    <3>4. CASE lib = x.lib
      <4>1. Claimants(lib)' \subseteq Claimants(lib) \cup {StepToken(t, p)}
        BY <2>1, <3>2, <3>3, <3>4
      <4>2. refs'[lib] = refs[lib] + 1
        BY <1>1, <2>2, <3>4
      <4> QED
        BY <3>1, <4>1, <4>2, CoveredMore
    <3>5. CASE lib # x.lib
      <4>1. Claimants(lib)' \subseteq Claimants(lib)
        BY <2>1, <3>2, <3>3, <3>5
      <4>2. refs'[lib] = refs[lib]
        BY <1>1, <2>2, <3>5
      <4> QED
        BY <3>1, <4>1, <4>2, CoveredPart
    <3> QED
      BY <3>4, <3>5
  <2>4. refs' \in [Lib -> Nat]
    <3>1. x.lib \in Lib => refs[x.lib] + 1 \in Nat
      BY <1>1
    <3> QED
      BY <1>1, <2>2, <3>1, Counts
  <2>5. CountInv'
    BY <2>3, <2>4 DEF CountInv, Covered
  <2> QED
    BY <1>5, <2>5 DEF HeldInv
<1> QED
  BY <1>8, <1>9

\* A step that claims lib, and is just done, claims it no more.
LEMMA StepDone ==
    ASSUME IInv, HeldInv, NEW t \in Thread, Turns(t, <<>>), NEW x, x = todo[t][1],
           x.op = "hold" \/ (x.op \in {"forced", "drop"} /\ ret[t] = LinkerHandle),
           NEW lib, lib = x.lib
    PROVE  StepToken(t, Len(todo[t]) - 1) \in Claimants(lib) /\ Len(todo[t]) - 1 \in Nat
<1>1. Len(todo[t]) \in Nat \ {0}
  BY PopSeq
<1>2. Claims(t, 1, lib) /\ 1 \in 1 .. Len(todo[t]) /\ Len(todo[t]) - 1 \in Nat
  BY <1>1 DEF Claims, Waits
<1>3. Len(todo[t]) - 1 \in Ahead(t, lib)
  BY <1>2 DEF Ahead
<1> QED
  BY <1>2, <1>3, TokenClaims

LEMMA HoldHeld ==
    ASSUME IInv, HeldInv, NEW t \in Thread, Hold(t)
    PROVE  HeldInv'
<1>1. /\ At(t, "hold") /\ Goes(t, <<>>) /\ UNCHANGED <<device, ret, app, code>>
      /\ refs \in [Lib -> Nat]
      /\ DOMAIN handle = Handle
  BY DEF Hold, pointers, HeldInv, CountInv, IInv, TypeInv, DataTypes
<1>2. PICK x : x = Now(t)
  OBVIOUS
<1>3. /\ x \in Steps /\ x.op = "hold" /\ x = todo[t][1] /\ Ready(t, x) /\ todo[t] # <<>>
  BY <1>1, <1>2, Begin
<1>4. PICK h : h = ret[t]
  OBVIOUS
<1>5. h = Null \/ h \in Handle
  BY <1>3, <1>4 DEF Ready, AwaitsFile, Awaits
<1>6. IF h = Null THEN refs' = [refs EXCEPT ![x.lib] = @ - 1] /\ UNCHANGED handle
      ELSE handle' = [handle EXCEPT ![h].held = TRUE] /\ UNCHANGED refs
  BY <1>2, <1>4 DEF Hold
<1>7. h \in Handle => h \in Pending(t) /\ handle[h].lib = x.lib
  <2>1. h \in Handle => h \in Pending(t)
    BY <1>3, <1>4 DEF Pending, AwaitsFile, Awaits
  <2>2. Len(todo[t]) \in Nat \ {0}
    BY <1>3 DEF IInv, TypeInv
  <2>3. 1 \in 1 .. Len(todo[t]) /\ Waits(todo[t], 1) /\ LibOf(x) = x.lib
    BY <1>3, <2>2 DEF Waits, LibOf
  <2>4. Found(t)
    BY DEF HeldInv
  <2> QED
    BY <1>3, <1>4, <2>1, <2>3, <2>4 DEF Found
<1>8. \A g \in Handle : handle'[g].lib = handle[g].lib /\ (g # h => handle'[g] = handle[g])
  <2>1. CASE h = Null
    BY <1>6, <2>1
  <2>2. CASE h # Null
    <3>1. h \in Handle /\ handle' = [handle EXCEPT ![h].held = TRUE]
      BY <1>5, <1>6, <2>2
    <3>2. \A g \in Handle \ {h} : handle'[g] = handle[g]
      BY <1>1, <3>1
    <3>3. handle'[h] = [handle[h] EXCEPT !.held = TRUE]
      BY <1>1, <3>1
    <3>4. handle[h] \in [lib : AnyLib, held : BOOLEAN]
      <4>1. h \in Live
        BY <1>7, <3>1 DEF IInv, OwnInv, Own
      <4> QED
        BY <3>1, <4>1 DEF IInv, TypeInv, DataTypes, Live
    <3>5. handle'[h].lib = handle[h].lib
      BY <3>3, <3>4
    <3> QED
      BY <3>2, <3>5
  <2> QED
    BY <2>1, <2>2
<1>9. /\ \A u \in Thread : Agrees(todo'[u]) /\ Found(u)' /\ Dropping(u)' /\ Coding(u)'
      /\ \A u \in Thread \ {t} : Lost(u)' = Lost(u) /\ \A lib : Ahead(u, lib)' = Ahead(u, lib)
      /\ Lost(t) = Closing(t) /\ Lost(t)' = Closing(t)
      /\ Turns(t, <<>>)
  <2>1. ret'[t] \in Handle => handle'[ret'[t]].lib = Now(t).lib
    BY <1>1, <1>2, <1>4, <1>7, <1>8
  <2>2. \A g \in Live : handle'[g].lib = handle[g].lib
    BY <1>8 DEF Live
  <2> QED
    BY <1>1, <2>1, <2>2, PopThreads
<1>10. Dropping(t)
  BY DEF HeldInv
<1>11. PICK p : p = Len(todo[t]) - 1
  OBVIOUS
<1>12. p \in Nat /\ StepToken(t, p) \in Claimants(x.lib)
  BY <1>3, <1>9, <1>11, StepDone
<1>13. \A lib : Ahead(t, lib)' \subseteq Ahead(t, lib) /\ p \notin Ahead(t, lib)'
  BY <1>1, <1>3, <1>9, <1>10, <1>11, AheadPop
<1>14. \A u \in Thread : h \notin Lost(u)'
  <2>1. ASSUME NEW u \in Thread, h \in Handle PROVE h \notin Lost(u)
    <3>1. h \in Pending(t) /\ h \in Own(t) /\ Lost(u) \subseteq Closing(u) /\ Closing(u) \subseteq Own(u)
      BY <1>7, <2>1 DEF Own, Lost
    <3> QED
      BY <3>1 DEF IInv, OwnInv
  <2>2. h \notin Handle => h \notin Lost(t)' /\ \A u \in Thread : h \notin Lost(u)'
    BY DEF Lost, Closing
  <2> QED
    BY <1>9, <2>1, <2>2
<1>15. ASSUME NEW lib PROVE Settles(t, lib, h)
  <2>1. \A g \in Handle \ {h} : Holds(g, lib)' => Holds(g, lib)
    BY <1>8 DEF Holds
  <2> QED
    BY <1>1, <1>9, <1>14, <2>1 DEF Settles
<1>16. ASSUME NEW lib
       PROVE  /\ \A c \in Claimants(lib)' :
                   \/ c \in Claimants(lib)
                   \/ c = HandleToken(h) /\ Holds(h, lib)' /\ h \in Handle
              /\ StepToken(t, p) \notin Claimants(lib)'
  <2>1. \A c \in Claimants(lib)' :
             \/ c \in Claimants(lib)
             \/ \E q \in Ahead(t, lib)' \ Ahead(t, lib) : c = StepToken(t, q)
             \/ c = HandleToken(h) /\ Holds(h, lib)'
    BY <1>15, NewClaims
  <2>2. \A c \in Claimants(lib)' : c # HandleToken(Null)
    BY NoSuchHandle
  <2>3. StepToken(t, p) \notin Claimants(lib)'
    <3>1. Claimed(StepToken(t, p), lib)' => p \in Ahead(t, lib)'
      BY DEF Claimed, StepToken
    <3> QED
      BY <1>13, <3>1 DEF Claimants
  <2> QED
    BY <1>5, <1>13, <2>1, <2>2, <2>3
<1>17. ASSUME NEW lib \in Lib PROVE Covered(Claimants(lib)', refs'[lib]) /\ refs'[lib] \in Nat
  <2>1. Covered(Claimants(lib), refs[lib]) /\ refs[lib] \in Nat
    BY <1>1 DEF HeldInv, CountInv
  <2>2. CASE lib # x.lib
    <3>1. h \in Handle => ~Holds(h, lib)'
      BY <1>7, <1>8, <2>2 DEF Holds
    <3>2. Claimants(lib)' \subseteq Claimants(lib)
      BY <1>16, <3>1
    <3>3. refs'[lib] = refs[lib]
      BY <1>1, <1>6, <2>2
    <3> QED
      BY <2>1, <3>2, <3>3, CoveredPart
  <2>3. CASE lib = x.lib /\ h = Null
    <3>1. Claimants(lib)' \subseteq Claimants(lib) \ {StepToken(t, p)}
      <4>1. h \notin Handle
        BY <2>3 DEF Null, Handle
      <4> QED
        BY <1>16, <4>1
    <3>2. refs'[lib] = refs[lib] - 1
      BY <1>1, <1>6, <2>3
    <3>3. StepToken(t, p) \in Claimants(lib)
      BY <1>12, <2>3
    <3> QED
      BY <2>1, <3>1, <3>2, <3>3, CoveredLess
  <2>4. CASE lib = x.lib /\ h # Null
    <3>1. Claimants(lib)' \subseteq (Claimants(lib) \ {StepToken(t, p)}) \cup {HandleToken(h)}
      BY <1>16
    <3>2. refs'[lib] = refs[lib]
      BY <1>6, <2>4
    <3>3. StepToken(t, p) \in Claimants(lib)
      BY <1>12, <2>4
    <3> QED
      BY <2>1, <3>1, <3>2, <3>3, CoveredSwap
  <2> QED
    BY <2>2, <2>3, <2>4
<1>18. refs' \in [Lib -> Nat]
  <2>1. CASE h = Null
    <3>1. refs' = [refs EXCEPT ![x.lib] = refs[x.lib] - 1]
      BY <1>6, <2>1
    <3>2. x.lib \in Lib => refs[x.lib] - 1 \in Nat
      <4>1. x.lib \in Lib => refs'[x.lib] = refs[x.lib] - 1
        BY <1>1, <3>1
      <4> QED
        BY <1>17, <4>1
    <3> QED
      BY <1>1, <3>1, <3>2, Counts
  <2>2. CASE h # Null
    BY <1>1, <1>6, <2>2
  <2> QED
    BY <2>1, <2>2
<1>19. CountInv'
  BY <1>17, <1>18 DEF CountInv, Covered
<1> QED
  BY <1>9, <1>19 DEF HeldInv

-----------------------------------------------------------------------------
(***************************************************************************)
(* What has been found is searched and then closed.                        *)
(***************************************************************************)
Mute == {y \in Steps : y.op \in {"ensure", "take", "close", "noExt"}}
Quiet == {y \in Mute : ~TakesCode(y)}

LEMMA MuteHands ==
    ASSUME NEW x, x.op \notin {"iterate", "dlopen"}, NEW h, NEW s, Piece(Api, x, s, h),
           s \in Seq(Quiet) \/ (s \in Seq(Mute) /\ x.op = "lzmaFound")
    PROVE  Hands(x, s)
<1>1. s \in Seq(Mute)
  <2>1. \A q \in Seq(Quiet) : q \in Seq(Mute)
    BY DEF Quiet
  <2> QED
    BY <2>1
<1>2. \A i \in 1 .. Len(s) : s[i] \in Mute /\ (TakesCode(s[i]) => x.op = "lzmaFound")
  BY <1>1 DEF Quiet
<1>3. \A i \in 1 .. Len(s) : ~Gives(s[i]) /\ s[i].op \notin {"drop", "hold"}
  BY <1>2 DEF Mute, Gives
<1>4. Agrees(s)
  BY <1>3 DEF Agrees, Pair
<1>5. s # <<>> => Starts(s[1])
  BY DEF Piece, Starts
<1> QED
  BY <1>2, <1>3, <1>4, <1>5 DEF Hands

LEMMA MuteLists ==
    ASSUME NEW k \in Table
    PROVE  /\ \A into \in {"mutex", "dlopen", "dlopen_ext"} : Search(k, into) \in Seq(Quiet)
           /\ Search(k, "code") \in Seq(Mute)
           /\ DoKey("close", k) \in Quiet /\ DoKey("noExt", k) \in Quiet
           /\ Ends(DoKey("close", k)) /\ Ends(DoKey("noExt", k))
<1>1. /\ DoKey("ensure", k) \in Steps /\ DoKey("close", k) \in Steps /\ DoKey("noExt", k) \in Steps
      /\ \A into \in {"mutex", "dlopen", "dlopen_ext", "code"} : Take(k, into) \in Steps
  BY DEF Steps, Key
<1>2. /\ DoKey("ensure", k) \in Quiet /\ DoKey("close", k) \in Quiet /\ DoKey("noExt", k) \in Quiet
      /\ \A into \in {"mutex", "dlopen", "dlopen_ext"} : Take(k, into) \in Quiet
      /\ Take(k, "code") \in Mute
  BY <1>1 DEF Quiet, Mute, TakesCode, DoKey, Take
<1>3. Quiet \subseteq Mute
  BY DEF Quiet
<1> QED
  BY <1>2, <1>3 DEF Search, Ends, DoKey

\* The handle that a list closes in the end.
LEMMA TurnEnds ==
    ASSUME IInv, NEW t, NEW s, Turns(t, s), NEW h \in Handle, Piece(Api, todo[t][1], s, h),
           \E i \in 1 .. Len(s) : Ends(s[i])
    PROVE  Closing(t)' = LaterCloses(t) \cup {h}
<1>1. \A i \in 1 .. Len(s) : Ends(s[i]) => On(s[i], h)
  <2> SUFFICES ASSUME NEW i \in 1 .. Len(s), Ends(s[i]) PROVE On(s[i], h)
    OBVIOUS
  <2>1. s[i] \in Steps
    BY DEF Turns
  <2>2. OnKey(s[i]) /\ s[i].key \in Table
    BY <2>1, StepFacts DEF OnKey, Ends
  <2> QED
    BY <2>2 DEF Piece, On
<1>2. \A g : \A i \in 1 .. Len(s) : Ends(s[i]) /\ On(s[i], g) => g = h
  BY <1>1 DEF On
<1> QED
  BY <1>1, <1>2, TurnCloses

LEMMA NoExtHeld ==
    ASSUME IInv, HeldInv, NEW t \in Thread, NoExt(t)
    PROVE  HeldInv'
<1>1. /\ At(t, "noExt") /\ UNCHANGED <<device, ret, handle, refs, app, code>>
  BY DEF NoExt, objects, pointers
<1>2. PICK x : x = Now(t)
  OBVIOUS
<1>3. x \in Steps /\ x.op = "noExt" /\ x.key \in Table /\ x = todo[t][1] /\ On(x, x.key[2])
  <2>1. x \in Steps /\ x.op = "noExt" /\ x = todo[t][1]
    BY <1>1, <1>2, Begin
  <2> QED
    BY <2>1, StepFacts DEF On, OnKey
<1>4. PICK k \in Table, h \in Handle : k = x.key /\ h = k[2]
  BY <1>3 DEF Table
<1> DEFINE q == IF dlopenSym THEN <<>> ELSE Search(k, "dlopen") \o Search(k, "mutex")
<1>5. Piece(Api, x, q \o <<DoKey("close", k)>>, h) /\ Goes(t, q \o <<DoKey("close", k)>>)
  BY <1>2, <1>3, <1>4, NoExtPiece DEF NoExt
<1>6. q \in Seq(Quiet)
  <2>1. \A a, b \in Seq(Quiet) : a \o b \in Seq(Quiet)
    OBVIOUS
  <2> QED
    BY <2>1, MuteLists
<1> HIDE DEF q
<1>7. PICK s : s = q \o <<DoKey("close", k)>>
  OBVIOUS
<1>8. s \in Seq(Quiet) /\ Len(s) \in 1 .. Len(s) /\ Ends(s[Len(s)]) /\ s # <<>>
  <2>1. \A y \in Quiet : LET w == q \o <<y>> IN
          w \in Seq(Quiet) /\ Len(w) \in 1 .. Len(w) /\ w[Len(w)] = y /\ w # <<>>
    BY <1>6
  <2> QED
    BY <1>7, <2>1, MuteLists
<1>9. s \in Seq(Steps) /\ Hands(x, s) /\ \A i \in 1 .. Len(s) : ~TakesCode(s[i])
  <2>1. \A i \in 1 .. Len(s) : s[i] \in Quiet
    BY <1>8
  <2> QED
    BY <1>3, <1>5, <1>7, <1>8, <2>1, MuteHands DEF Quiet, Piece
<1>10. Turns(t, s)
  BY <1>1, <1>5, <1>7, <1>9, NowTurns
<1>11. Closing(t)' = Closing(t)
  <2>1. Closing(t)' = LaterCloses(t) \cup {h}
    BY <1>3, <1>5, <1>7, <1>8, <1>10, TurnEnds
  <2>2. Closing(t) = LaterCloses(t) \cup {g \in Handle : Ends(x) /\ On(x, g)}
    BY <1>3, <1>10, TurnCloses
  <2>3. \A g \in Handle : Ends(x) /\ On(x, g) <=> g = h
    BY <1>3, <1>4 DEF On, Ends
  <2> QED
    BY <2>1, <2>2, <2>3
<1> QED
  BY <1>1, <1>3, <1>8, <1>9, <1>10, <1>11, PlainHeld

\* The handle that has been found will be closed without a dlclose: from then on the
\* functions of liblzma claim what it claimed.
LEMMA FoundHeld ==
    ASSUME IInv, HeldInv, NEW t \in Thread, NEW op \in {"linkerFound", "lzmaFound"}, At(t, op),
           NEW h \in Handle, ret[t] = h, NEW s, Goes(t, s), Piece(Api, Now(t), s, h),
           s # <<>>, \E i \in 1 .. Len(s) : Ends(s[i]),
           s \in Seq(Quiet) \/ (s \in Seq(Mute) /\ op = "lzmaFound"),
           UNCHANGED <<device, ret, handle, refs, app, code>>
    PROVE  HeldInv'
<1>1. PICK x : x = Now(t)
  OBVIOUS
<1>2. s \in Seq(Steps) /\ Piece(Api, x, s, h)
  BY <1>1 DEF Piece
<1>3. Turns(t, s) /\ x = todo[t][1] /\ x.op = op /\ x \in Steps
  BY <1>1, <1>2, NowTurns
<1>4. Hands(x, s)
  BY <1>2, <1>3, MuteHands
<1>5. h \in Pending(t) /\ (op = "lzmaFound" => handle[h].lib = Lzma)
  <2>1. todo[t] # <<>> /\ Len(todo[t]) \in Nat \ {0}
    BY <1>3, TurnSeq DEF IInv, Turns
  <2>2. h \in Pending(t)
    BY <1>3, <2>1 DEF Pending, AwaitsFile, Awaits
  <2>3. 1 \in 1 .. Len(todo[t]) /\ Waits(todo[t], 1) /\ Found(t)
    BY <2>1 DEF Waits, HeldInv
  <2> QED
    BY <1>3, <2>2, <2>3 DEF Found, LibOf
<1>6. Closing(t)' = Closing(t) \cup {h}
  <2>1. Closing(t)' = LaterCloses(t) \cup {h}
    BY <1>2, <1>3, TurnEnds
  <2>2. Closing(t) = LaterCloses(t) \cup {g \in Handle : Ends(x) /\ On(x, g)}
    BY <1>3, TurnCloses
  <2> QED
    BY <1>3, <2>1, <2>2 DEF Ends
<1>7. ASSUME NEW i \in 1 .. Len(s), TakesCode(s[i])
      PROVE  s[i].key[2] \in Closing(t)' /\ handle'[s[i].key[2]].lib = Lzma
  <2>1. op = "lzmaFound"
    BY <1>3, <1>4, <1>7 DEF Hands
  <2>2. OnKey(s[i]) /\ s[i].key \in Table
    BY <1>2, <1>7, StepFacts DEF TakesCode, OnKey
  <2>3. s[i].key[2] = h
    BY <1>2, <2>2 DEF Piece
  <2> QED
    BY <1>5, <1>6, <2>1, <2>3
<1>8. /\ \A u \in Thread : Agrees(todo'[u]) /\ Found(u)' /\ Dropping(u)' /\ Coding(u)'
      /\ \A u \in Thread \ {t} : Lost(u)' = Lost(u) /\ \A lib : Ahead(u, lib)' = Ahead(u, lib)
      /\ Lost(t) = Closing(t) /\ Lost(t)' = Closing(t)'
  BY <1>3, <1>4, <1>7, TurnThreads
<1>9. \A u \in Thread : h \notin Lost(u)
  <2>1. \A u \in Thread : Lost(u) \subseteq Closing(u) /\ Closing(u) \subseteq Own(u)
    BY DEF Lost, Own
  <2>2. h \in Own(t) /\ h \notin Closing(t)
    BY <1>5 DEF Own, IInv, OwnInv
  <2> QED
    BY <2>1, <2>2 DEF IInv, OwnInv
<1>10. \A lib : Ahead(t, lib)' \subseteq Ahead(t, lib)
  BY <1>3, <1>4, AheadPut
<1>11. \A u \in Thread : Lost(u) \subseteq Lost(u)' /\ Lost(u)' \subseteq Lost(u) \cup {h}
  BY <1>6, <1>8
<1>12. h \in Lost(t)'
  BY <1>6, <1>8
<1>13. \A g, lib : Holds(g, lib)' = Holds(g, lib)
  BY DEF Holds
<1>14. ASSUME NEW lib, NEW c \in Claimants(lib)'
       PROVE  /\ c \in Claimants(lib) \/ (c = CodeToken /\ lib = Lzma /\ Holds(h, lib))
              /\ lib = Lzma => c # HandleToken(h)
  <2>1. c \in Token /\ Claimed(c, lib)'
    BY DEF Claimants, Token
  <2>2. ASSUME c[1] = "app", lib \in app' PROVE Claimed(c, lib)
    BY <2>2 DEF Claimed
  <2>3. ASSUME c[1] = "code", lib = Lzma, code' = "forced" PROVE Claimed(c, lib)
    BY <2>3 DEF Claimed
  <2>4. ASSUME c[1] = "code", lib = Lzma, NEW u \in Thread, NEW g \in Lost(u)', Holds(g, lib)'
        PROVE  Claimed(c, lib) \/ (c = CodeToken /\ lib = Lzma /\ Holds(h, lib))
    <3>1. Holds(g, lib) /\ (g \in Lost(u) \/ g = h)
      BY <1>11, <1>13, <2>4
    <3> QED
      BY <2>1, <2>4, <3>1, Tokens DEF Claimed
  <2>5. ASSUME c[1] = "handle", Holds(c[3], lib)',
               lib = Lzma => \A u \in Thread : c[3] \notin Lost(u)'
        PROVE  Claimed(c, lib)
    <3>1. Holds(c[3], lib) /\ (lib = Lzma => \A u \in Thread : c[3] \notin Lost(u))
      BY <1>11, <1>13, <2>5
    <3> QED
      BY <2>5, <3>1 DEF Claimed
  <2>6. ASSUME c[1] = "step", c[3] \in Ahead(c[2], lib)' PROVE Claimed(c, lib)
    <3>1. c[2] \in Thread
      BY <2>1, <2>6, Tokens
    <3>2. c[3] \in Ahead(c[2], lib)
      BY <1>8, <1>10, <2>6, <3>1
    <3> QED
      BY <2>6, <3>2 DEF Claimed
  <2>7. Claimed(c, lib) \/ (c = CodeToken /\ lib = Lzma /\ Holds(h, lib))
    BY <2>1, <2>2, <2>3, <2>4, <2>5, <2>6 DEF Claimed
  <2>8. lib = Lzma => c # HandleToken(h)
    <3>1. c = HandleToken(h) => c[1] = "handle" /\ c[3] = h
      BY DEF HandleToken
    <3> QED
      BY <1>12, <2>1, <3>1 DEF Claimed
  <2> QED
    BY <2>1, <2>7, <2>8 DEF Claimants
<1>15. ASSUME NEW lib \in Lib PROVE Covered(Claimants(lib)', refs[lib])
  <2>1. Covered(Claimants(lib), refs[lib])
    BY DEF HeldInv, CountInv
  <2>2. CASE lib = Lzma /\ Holds(h, lib)
    <3>1. HandleToken(h) \in Claimants(lib)
      BY <1>9, <2>2, TokenClaims
    <3>2. Claimants(lib)' \subseteq (Claimants(lib) \ {HandleToken(h)}) \cup {CodeToken}
      BY <1>14, <2>2
    <3> QED
      BY <2>1, <3>1, <3>2, CoveredSwap
  <2>3. CASE ~(lib = Lzma /\ Holds(h, lib))
    <3>1. Claimants(lib)' \subseteq Claimants(lib)
      BY <1>14, <2>3
    <3> QED
      BY <2>1, <3>1, CoveredPart
  <2> QED
    BY <2>2, <2>3
<1>16. CountInv'
  BY <1>15 DEF CountInv, HeldInv, Covered
<1> QED
  BY <1>8, <1>16 DEF HeldInv

LEMMA LzmaFoundHeld ==
    ASSUME IInv, HeldInv, NEW t \in Thread, LzmaFound(t)
    PROVE  HeldInv'
<1>1. /\ At(t, "lzmaFound") /\ UNCHANGED <<device, ret, handle, refs, app, code>>
      /\ Now(t).op = "lzmaFound" /\ Ready(t, Now(t))
  BY Begin DEF LzmaFound, objects, pointers
<1>2. CASE ret[t] = Null
  <2>1. Goes(t, <<>>)
    BY <1>2 DEF LzmaFound
  <2> QED
    BY <1>1, <2>1, PopHeld
<1>3. CASE ret[t] # Null
  <2>1. PICK h \in Handle : ret[t] = h
    BY <1>1, <1>3 DEF Ready, AwaitsFile, Awaits
  <2>2. PICK k \in Table : k = <<"dynsym", h>>
    BY DEF Table
  <2>3. /\ Goes(t, Search(k, "code") \o <<DoKey("close", k)>>)
        /\ Piece(Api, Now(t), Search(k, "code") \o <<DoKey("close", k)>>, h)
    BY <1>1, <1>3, <2>1, <2>2, LzmaFoundPiece DEF LzmaFound
  <2>4. PICK s : s = Search(k, "code") \o <<DoKey("close", k)>>
    OBVIOUS
  <2>5. s \in Seq(Mute) /\ Len(s) \in 1 .. Len(s) /\ Ends(s[Len(s)]) /\ s # <<>>
    <3>1. \A q \in Seq(Mute), y \in Mute : LET w == q \o <<y>> IN
            w \in Seq(Mute) /\ Len(w) \in 1 .. Len(w) /\ w[Len(w)] = y /\ w # <<>>
      OBVIOUS
    <3>2. DoKey("close", k) \in Mute
      BY MuteLists DEF Quiet
    <3> QED
      BY <2>4, <3>1, <3>2, MuteLists
  <2> QED
    BY <1>1, <2>1, <2>3, <2>4, <2>5, FoundHeld
<1> QED
  BY <1>2, <1>3

LEMMA LinkerFoundHeld ==
    ASSUME IInv, HeldInv, NEW t \in Thread, LinkerFound(t)
    PROVE  HeldInv'
<1>1. /\ At(t, "linkerFound") /\ UNCHANGED <<device, ret, handle, refs, app, code>>
      /\ Now(t).op = "linkerFound" /\ Ready(t, Now(t))
  BY Begin DEF LinkerFound, objects, pointers
<1>2. CASE ret[t] = Null
  <2>1. Goes(t, <<>>)
    BY <1>2 DEF LinkerFound
  <2> QED
    BY <1>1, <2>1, PopHeld
<1>3. CASE ret[t] # Null
  <2>1. PICK h \in Handle : ret[t] = h
    BY <1>1, <1>3 DEF Ready, AwaitsFile, Awaits
  <2> DEFINE k == <<"symtab", h>>
             d == <<"dynsym", h>>
             all == CASE Lollipop        -> Search(k, "mutex") \o <<DoKey("close", k)>>
                      [] Nougat          -> Search(k, "dlopen_ext") \o <<DoKey("noExt", k)>>
                      [] Api \in {26,27} -> Search(k, "dlopen") \o <<DoKey("close", k)>>
                      [] Api >= 28       -> Search(d, "dlopen") \o <<DoKey("close", k)>>
                      [] OTHER           -> <<DoKey("close", k)>>
  <2>2. Goes(t, all)
    BY <1>3, <2>1 DEF LinkerFound
  <2>3. Piece(Api, Now(t), all, h)
    BY <1>1, LinkerFoundPiece
  <2>4. k \in Table /\ d \in Table
    BY DEF Table
  <2> HIDE DEF k, d
  <2>5. \E a \in Seq(Quiet), c \in Quiet : Ends(c) /\ all = a \o <<c>>
    <3> DEFINE c == DoKey("close", k)
               e == DoKey("noExt", k)
    <3>1. c \in Quiet /\ e \in Quiet /\ Ends(c) /\ Ends(e)
      BY <2>4, MuteLists
    <3>2. /\ Search(k, "mutex") \in Seq(Quiet) /\ Search(k, "dlopen_ext") \in Seq(Quiet)
          /\ Search(k, "dlopen") \in Seq(Quiet) /\ Search(d, "dlopen") \in Seq(Quiet)
      BY <2>4, MuteLists
    <3> HIDE DEF c, e
    <3>3. <<>> \in Seq(Quiet) /\ <<c>> = <<>> \o <<c>>
      OBVIOUS
    <3>4. \/ all = Search(k, "mutex") \o <<c>> \/ all = Search(k, "dlopen_ext") \o <<e>>
          \/ all = Search(k, "dlopen") \o <<c>> \/ all = Search(d, "dlopen") \o <<c>>
          \/ all = <<c>>
      BY SMTT(30) DEF c, e
    <3> QED
      BY <3>1, <3>2, <3>3, <3>4
  <2> HIDE DEF all
  <2>6. PICK s : s = all
    OBVIOUS
  <2>7. s \in Seq(Quiet) /\ s # <<>> /\ \E i \in 1 .. Len(s) : Ends(s[i])
    <3>1. PICK a \in Seq(Quiet), c \in Quiet : Ends(c) /\ s = a \o <<c>>
      BY <2>5, <2>6
    <3>2. s \in Seq(Quiet) /\ s # <<>> /\ Len(s) \in 1 .. Len(s) /\ s[Len(s)] = c
      BY <3>1
    <3> QED
      BY <3>1, <3>2
  <2> QED
    BY <1>1, <2>1, <2>2, <2>3, <2>6, <2>7, FoundHeld
<1> QED
  BY <1>2, <1>3

-----------------------------------------------------------------------------
(***************************************************************************)
(* A handle is closed, and the linker's handle that it held is dropped.    *)
(***************************************************************************)
\* The thread that closes h, and what it is about to do then.
LEMMA CloseThreads ==
    ASSUME IInv, HeldInv, NEW t \in Thread, NEW x, x = Now(t), NEW h, h = x.key[2], Close(t)
    PROVE  /\ \A u \in Thread : Agrees(todo'[u]) /\ Found(u)' /\ Dropping(u)' /\ Coding(u)'
           /\ \A u \in Thread \ {t} : Lost(u)' = Lost(u) /\ \A lib : Ahead(u, lib)' = Ahead(u, lib)
           /\ \A g \in Handle \ {h} : g \in Lost(t)' <=> g \in Lost(t)
           /\ Turns(t, <<>>) /\ x = todo[t][1] /\ x.op = "close"
           /\ h \in Handle /\ h \in Closing(t)
           /\ handle'[h] = Unused /\ \A g \in Handle \ {h} : handle'[g] = handle[g]
<1>1. /\ At(t, "close") /\ Goes(t, <<>>) /\ UNCHANGED <<device, refs, app, code>>
      /\ DOMAIN handle = Handle
      /\ ret \in [Thread -> Handle \cup {Null, LinkerHandle}]
  BY DEF Close, pointers, IInv, TypeInv, DataTypes
<1>2. PICK s : s = <<>>
  OBVIOUS
<1>3. s \in Seq(Steps) /\ Goes(t, s) /\ Len(s) = 0
  BY <1>1, <1>2
<1>4. Turns(t, s) /\ x = todo[t][1] /\ x.op = "close" /\ x \in Steps
  BY <1>1, <1>3, NowTurns
<1>5. x.key \in Table /\ h \in Handle /\ On(x, h) /\ Ends(x)
  <2>1. x.key \in Table /\ OnKey(x)
    BY <1>4, StepFacts DEF OnKey
  <2>2. h \in Handle
    BY <2>1 DEF Table
  <2> QED
    BY <1>4, <2>1, <2>2 DEF On, Ends
<1>6. Closing(t) = LaterCloses(t) \cup {h} /\ LaterCloses(t) \subseteq Closing(t)'
      /\ Closing(t)' \subseteq LaterCloses(t)
  <2>1. /\ LaterCloses(t) \subseteq Closing(t)'
        /\ \A g \in Closing(t)' : g \in LaterCloses(t) \/
                \E i \in 1 .. Len(s) : Ends(s[i]) /\ On(s[i], g)
        /\ Closing(t) = LaterCloses(t) \cup {g \in Handle : Ends(x) /\ On(x, g)}
    BY <1>4, TurnCloses
  <2>2. \A g \in Handle : Ends(x) /\ On(x, g) <=> g = h
    BY <1>5 DEF On
  <2>3. \A i \in 1 .. Len(s) : FALSE
    BY <1>3
  <2> QED
    BY <2>1, <2>2, <2>3, <1>5
<1>7. h \notin LaterCloses(t)
  <2>1. EndsLast(todo[t]) /\ Len(todo[t]) \in Nat \ {0}
    BY <1>4, TurnSeq DEF IInv, ListInv, Orderly
  <2>2. \A j \in 2 .. Len(todo[t]) : ~On(todo[t][j], h)
    <3> SUFFICES ASSUME NEW j \in 2 .. Len(todo[t]) PROVE ~On(todo[t][j], h)
      OBVIOUS
    <3>1. j \in 1 .. Len(todo[t]) /\ 1 \in 1 .. Len(todo[t]) /\ 1 < j
      BY <2>1
    <3> QED
      BY <1>4, <1>5, <2>1, <3>1 DEF EndsLast
  <2> QED
    BY <2>2 DEF LaterCloses
<1>8. handle'[h] = Unused /\ \A g \in Handle \ {h} : handle'[g] = handle[g]
  <2>1. handle' = [handle EXCEPT ![h] = Unused]
    BY DEF Close
  <2> QED
    BY <1>1, <1>5, <2>1
<1>9. ret'[t] \notin Handle /\ \A u \in Thread \ {t} : ret'[u] = ret[u]
  <2>1. PICK r \in {Null, LinkerHandle} : ret' = [ret EXCEPT ![t] = r]
    BY DEF Close, Returns
  <2>2. r \notin Handle
    BY DEF Handle, Null, LinkerHandle
  <2> QED
    BY <1>1, <2>1, <2>2
<1>10. Agrees(todo[t]) /\ Found(t) /\ Dropping(t) /\ Coding(t)
  BY DEF HeldInv
<1>11. ASSUME NEW u \in Thread \ {t}
       PROVE  /\ Agrees(todo'[u]) /\ Found(u)' /\ Dropping(u)' /\ Coding(u)'
              /\ Lost(u)' = Lost(u) /\ \A lib : Ahead(u, lib)' = Ahead(u, lib)
  <2>1. h \notin Own(u) /\ Own(u) \subseteq Handle
    <3>1. h \in Own(t)
      BY <1>6 DEF Own
    <3> QED
      BY <3>1 DEF IInv, OwnInv, Live
  <2>2. todo'[u] = todo[u]
    BY <1>4, TurnSeq DEF IInv
  <2>3. \A g \in Own(u) : handle'[g].lib = handle[g].lib
    BY <1>8, <2>1
  <2>4. (Agrees(todo[u]) /\ Found(u) /\ Dropping(u) /\ Coding(u))' /\ Lost(u)' = Lost(u)
    BY <1>1, <1>9, <2>2, <2>3, OtherThread DEF HeldInv
  <2> QED
    BY <1>9, <2>2, <2>4, AheadSame
<1>12. Agrees(todo'[t])
  <2>1. Hands(x, s)
    <3>1. s \in Seq(About(Linker))
      BY <1>2
    <3> QED
      BY <1>2, <3>1, AboutHands
  <2> QED
    BY <1>4, <1>10, <2>1, TurnAgrees
<1>13. Found(t)'
  BY <1>2, <1>4, <1>9, <1>10, PopFound
<1>14. \A i \in 1 .. Len(todo'[t]) : i + 1 \in 2 .. Len(todo[t]) /\ todo'[t][i] = todo[t][i + 1]
  BY <1>2, <1>4, PopSeq
<1>15. Len(todo'[t]) = Len(todo[t]) - 1 /\ Len(todo[t]) \in Nat \ {0}
  BY <1>2, <1>4, PopSeq
<1>16. CASE ~Drops(todo[t])
  <2>1. ~Drops(todo'[t])
    <3> SUFFICES ASSUME NEW i \in 1 .. Len(todo'[t]), todo'[t][i].op = "drop" PROVE FALSE
      BY DEF Drops
    <3>1. i + 1 \in 1 .. Len(todo[t]) /\ todo[t][i + 1].op = "drop"
      BY <1>14, <1>15
    <3> QED
      BY <1>16, <3>1 DEF Drops
  <2>2. Dropping(t)'
    BY <2>1 DEF Drops, Dropping
  <2>3. Coding(t)'
    <3>1. \A g \in LaterCloses(t) : handle'[g].lib = handle[g].lib
      BY <1>7, <1>8 DEF LaterCloses
    <3>2. \A i \in 1 .. Len(s) : TakesCode(s[i]) =>
             s[i].key[2] \in Closing(t)' /\ handle'[s[i].key[2]].lib = Lzma
      BY <1>3
    <3> QED
      BY <1>4, <1>10, <2>1, <3>1, <3>2, TurnCoding
  <2>4. Lost(t)' = Closing(t)' /\ Lost(t) = Closing(t)
    BY <1>16, <2>1 DEF Lost
  <2> QED
    BY <1>2, <1>4, <1>5, <1>6, <1>8, <1>11, <1>12, <1>13, <2>2, <2>3, <2>4
<1>17. CASE Drops(todo[t])
  <2>1. PICK k \in 1 .. Len(todo[t]) : todo[t][k].op = "drop"
    BY <1>17 DEF Drops
  <2>2. Len(todo[t]) = 2 /\ k = 2
    BY <1>4, <1>10, <2>1 DEF Dropping
  <2>3. Len(todo'[t]) = 1 /\ todo'[t][1] = todo[t][2]
    BY <1>14, <1>15, <2>2
  <2>4. todo'[t][1].op = "drop" /\ \A i \in 1 .. Len(todo'[t]) : i = 1
    BY <2>1, <2>2, <2>3
  <2>5. Drops(todo'[t])
    BY <2>3, <2>4 DEF Drops
  <2>6. Dropping(t)'
    BY <2>3, <2>4 DEF Dropping
  <2>7. Coding(t)'
    BY <2>4 DEF Coding, TakesCode
  <2>8. Lost(t)' = {} /\ Lost(t) = {}
    BY <1>17, <2>5 DEF Lost
  <2> QED
    BY <1>2, <1>4, <1>5, <1>6, <1>8, <1>11, <1>12, <1>13, <2>6, <2>7, <2>8
<1> QED
  BY <1>16, <1>17

LEMMA CloseHeld ==
    ASSUME IInv, HeldInv, NEW t \in Thread, Close(t)
    PROVE  HeldInv'
<1>1. PICK x : x = Now(t)
  OBVIOUS
<1>2. PICK h : h = x.key[2]
  OBVIOUS
<1>3. /\ \A u \in Thread : Agrees(todo'[u]) /\ Found(u)' /\ Dropping(u)' /\ Coding(u)'
      /\ \A u \in Thread \ {t} : Lost(u)' = Lost(u) /\ \A lib : Ahead(u, lib)' = Ahead(u, lib)
      /\ \A g \in Handle \ {h} : g \in Lost(t)' <=> g \in Lost(t)
      /\ Turns(t, <<>>) /\ x = todo[t][1] /\ x.op = "close"
      /\ h \in Handle /\ h \in Closing(t)
      /\ handle'[h] = Unused /\ \A g \in Handle \ {h} : handle'[g] = handle[g]
  BY <1>1, <1>2, CloseThreads
<1>4. UNCHANGED <<refs, app, code>>
  BY DEF Close, pointers
<1>5. ret'[t] = IF handle[h].held THEN LinkerHandle ELSE Null
  BY <1>1, <1>2 DEF Close, Returns, IInv, TypeInv, DataTypes
<1>6. Dropping(t)
  BY DEF HeldInv
<1>7. ~(handle'[h].held)
  <2>1. Unused.held = FALSE
    BY DEF Unused
  <2> QED
    BY <1>3, <2>1
<1>8. ASSUME NEW lib PROVE Settles(t, lib, Null)
  <2>1. \A u \in Thread : Null \notin Lost(u)'
    BY DEF Lost, Closing, Null, Handle
  <2>2. \A g \in Handle : Holds(g, lib)' => g # h /\ Holds(g, lib)
    BY <1>3, <1>7 DEF Holds
  <2> QED
    BY <1>3, <1>4, <2>1, <2>2 DEF Settles
<1>9. ASSUME NEW lib
      PROVE  /\ ~Drops(todo[t]) => Ahead(t, lib)' \subseteq Ahead(t, lib)
             /\ Drops(todo[t]) =>
                  Ahead(t, lib)' \subseteq IF lib = handle[h].lib THEN {0} ELSE {}
             /\ ~(handle[h].held) => Ahead(t, lib)' \subseteq Ahead(t, lib)
  <2>1. /\ ~Drops(todo[t]) => Ahead(t, lib)' \subseteq Ahead(t, lib)
        /\ Drops(todo[t]) =>
             Ahead(t, lib)' \subseteq IF lib = handle[h].lib THEN {0} ELSE {}
    BY <1>2, <1>3, <1>6, AheadClose
  <2>2. ~(handle[h].held) => ret'[t] # LinkerHandle
    BY <1>5 DEF Null, LinkerHandle
  <2> QED
    BY <1>3, <1>6, <2>1, <2>2, AheadPop
<1>10. CASE ~Drops(todo[t]) \/ ~(handle[h].held)
  <2>1. CountInv'
    BY <1>4, <1>8, <1>9, <1>10, SameCount
  <2> QED
    BY <1>3, <2>1 DEF HeldInv
<1>11. CASE Drops(todo[t]) /\ handle[h].held
  <2>1. \A u \in Thread : h \notin Lost(u)
    <3>1. \A u \in Thread : Lost(u) \subseteq Closing(u) /\ Closing(u) \subseteq Own(u)
      BY DEF Lost, Own
    <3>2. h \notin Lost(t)
      BY <1>11 DEF Lost
    <3> QED
      BY <1>3, <3>1, <3>2 DEF IInv, OwnInv
  <2>2. ASSUME NEW lib \in Lib PROVE Covered(Claimants(lib)', refs[lib])
    <3>1. Covered(Claimants(lib), refs[lib])
      BY DEF HeldInv, CountInv
    <3>2. \A c \in Claimants(lib)' :
             \/ c \in Claimants(lib)
             \/ \E p \in Ahead(t, lib)' \ Ahead(t, lib) : c = StepToken(t, p)
             \/ c = HandleToken(Null) /\ Holds(Null, lib)'
      BY <1>8, NewClaims
    <3>3. \A c \in Claimants(lib)' : c # HandleToken(Null)
      BY NoSuchHandle
    <3>4. CASE lib = handle[h].lib
      <4>1. HandleToken(h) \in Claimants(lib)
        BY <1>3, <1>11, <2>1, <3>4, TokenClaims DEF Holds
      <4>2. HandleToken(h) \notin Claimants(lib)'
        <5>1. HandleToken(h)[1] = "handle" /\ HandleToken(h)[3] = h
          BY DEF HandleToken
        <5> QED
          BY <1>7, <5>1 DEF Claimants, Claimed, Holds
      <4>3. Claimants(lib)' \subseteq (Claimants(lib) \ {HandleToken(h)}) \cup {StepToken(t, 0)}
        BY <1>9, <1>11, <3>2, <3>3, <3>4, <4>2
      <4> QED
        BY <3>1, <4>1, <4>3, CoveredSwap
    <3>5. CASE lib # handle[h].lib
      <4>1. Claimants(lib)' \subseteq Claimants(lib)
        BY <1>9, <1>11, <3>2, <3>3, <3>5
      <4> QED
        BY <3>1, <4>1, CoveredPart
    <3> QED
      BY <3>4, <3>5
  <2>3. CountInv'
    BY <1>4, <2>2 DEF CountInv, HeldInv, Covered
  <2> QED
    BY <1>3, <2>3 DEF HeldInv
<1> QED
  BY <1>10, <1>11

LEMMA DropHeld ==
    ASSUME IInv, HeldInv, NEW t \in Thread, Drop(t)
    PROVE  HeldInv'
<1>1. /\ At(t, "drop") /\ Goes(t, <<>>) /\ UNCHANGED <<device, ret, handle, app, code>>
      /\ refs \in [Lib -> Nat]
  BY DEF Drop, objects, pointers, HeldInv, CountInv
<1>2. PICK x : x = Now(t)
  OBVIOUS
<1>3. PICK s : s = <<>>
  OBVIOUS
<1>4. s \in Seq(Steps) /\ Goes(t, s)
  BY <1>1, <1>3
<1>5. Turns(t, <<>>) /\ x = todo[t][1] /\ x.op = "drop" /\ x \in Steps
  BY <1>1, <1>2, <1>3, <1>4, NowTurns
<1>6. Agrees(todo[t]) /\ Found(t) /\ Dropping(t) /\ Coding(t)
  BY DEF HeldInv
<1>7. Len(todo[t]) = 1 /\ Len(todo'[t]) = 0 /\ Drops(todo[t]) /\ \A i \in 1 .. Len(todo'[t]) : FALSE
  <2>1. Len(todo[t]) \in Nat \ {0} /\ Len(todo'[t]) = Len(todo[t]) - 1
    BY <1>5, PopSeq
  <2>2. 1 \in 1 .. Len(todo[t])
    BY <2>1
  <2>3. Len(todo[t]) = 1 /\ Drops(todo[t])
    BY <1>5, <1>6, <2>2 DEF Dropping, Drops
  <2> QED
    BY <2>1, <2>3
<1>8. Lost(t) = {} /\ Lost(t)' = {}
  <2>1. Closing(t)' = {}
    BY <1>7 DEF Closing
  <2> QED
    BY <1>7, <2>1 DEF Lost
<1>9. /\ \A u \in Thread : Agrees(todo'[u]) /\ Found(u)' /\ Dropping(u)' /\ Coding(u)'
      /\ \A u \in Thread : Lost(u)' = Lost(u)
      /\ \A u \in Thread \ {t} : \A lib : Ahead(u, lib)' = Ahead(u, lib)
  <2>1. ASSUME NEW u \in Thread \ {t}
        PROVE  /\ Agrees(todo'[u]) /\ Found(u)' /\ Dropping(u)' /\ Coding(u)'
               /\ Lost(u)' = Lost(u) /\ \A lib : Ahead(u, lib)' = Ahead(u, lib)
    <3>1. todo'[u] = todo[u]
      BY <1>3, <1>5, TurnSeq DEF IInv
    <3>2. (Agrees(todo[u]) /\ Found(u) /\ Dropping(u) /\ Coding(u))' /\ Lost(u)' = Lost(u)
      BY <1>1, <3>1, OtherThread DEF HeldInv
    <3> QED
      BY <1>1, <3>1, <3>2, AheadSame
  <2>2. Agrees(todo'[t]) /\ Found(t)' /\ Dropping(t)' /\ Coding(t)'
    BY <1>7 DEF Agrees, Found, Dropping, Coding
  <2> QED
    BY <1>8, <2>1, <2>2
<1>10. ASSUME NEW lib PROVE Settles(t, lib, Null)
  <2>1. \A u \in Thread : Null \notin Lost(u)'
    BY DEF Lost, Closing, Null, Handle
  <2>2. \A g : Holds(g, lib)' => Holds(g, lib)
    BY <1>1 DEF Holds
  <2> QED
    BY <1>1, <1>9, <2>1, <2>2 DEF Settles
<1>11. PICK p : p = Len(todo[t]) - 1
  OBVIOUS
<1>12. \A lib : Ahead(t, lib)' \subseteq Ahead(t, lib) /\ p \notin Ahead(t, lib)'
  BY <1>1, <1>5, <1>6, <1>11, AheadPop
<1>13. CASE ret[t] # LinkerHandle
  <2>1. refs' = refs
    BY <1>13 DEF Drop
  <2>2. CountInv'
    BY <1>10, <1>12, <2>1, SameCount
  <2> QED
    BY <1>9, <2>2 DEF HeldInv
<1>14. CASE ret[t] = LinkerHandle
  <2>1. refs' = [refs EXCEPT ![x.lib] = @ - 1]
    BY <1>2, <1>14 DEF Drop
  <2>2. StepToken(t, p) \in Claimants(x.lib)
    BY <1>5, <1>11, <1>14, StepDone
  <2>3. ASSUME NEW lib
        PROVE  Claimants(lib)' \subseteq Claimants(lib) \ {StepToken(t, p)}
    <3>1. \A c \in Claimants(lib)' :
             \/ c \in Claimants(lib)
             \/ \E q \in Ahead(t, lib)' \ Ahead(t, lib) : c = StepToken(t, q)
             \/ c = HandleToken(Null) /\ Holds(Null, lib)'
      BY <1>10, NewClaims
    <3>2. \A c \in Claimants(lib)' : c # HandleToken(Null)
      BY NoSuchHandle
    <3>3. StepToken(t, p) \notin Claimants(lib)'
      <4>1. Claimed(StepToken(t, p), lib)' => p \in Ahead(t, lib)'
        BY DEF Claimed, StepToken
      <4> QED
        BY <1>12, <4>1 DEF Claimants
    <3> QED
      BY <1>12, <3>1, <3>2, <3>3
  <2>4. ASSUME NEW lib \in Lib PROVE Covered(Claimants(lib)', refs'[lib]) /\ refs'[lib] \in Nat
    <3>1. Covered(Claimants(lib), refs[lib]) /\ refs[lib] \in Nat
      BY <1>1 DEF HeldInv, CountInv
    <3>2. Claimants(lib)' \subseteq Claimants(lib) \ {StepToken(t, p)}
      BY <2>3
    <3>3. CASE lib = x.lib
      <4>1. refs'[lib] = refs[lib] - 1
        BY <1>1, <2>1, <3>3
      <4>2. StepToken(t, p) \in Claimants(lib)
        BY <2>2, <3>3
      <4> QED
        BY <3>1, <3>2, <4>1, <4>2, CoveredLess
    <3>4. CASE lib # x.lib
      <4>1. refs'[lib] = refs[lib]
        BY <1>1, <2>1, <3>4
      <4>2. Claimants(lib)' \subseteq Claimants(lib)
        BY <3>2
      <4> QED
        BY <3>1, <4>1, <4>2, CoveredPart
    <3> QED
      BY <3>3, <3>4
  <2>5. refs' \in [Lib -> Nat]
    <3>1. x.lib \in Lib => refs[x.lib] - 1 \in Nat
      <4>1. x.lib \in Lib => refs'[x.lib] = refs[x.lib] - 1
        BY <1>1, <2>1
      <4> QED
        BY <2>4, <4>1
    <3> QED
      BY <1>1, <2>1, <3>1, Counts
  <2>6. CountInv'
    BY <2>4, <2>5 DEF CountInv, Covered
  <2> QED
    BY <1>9, <2>6 DEF HeldInv
<1> QED
  BY <1>13, <1>14

-----------------------------------------------------------------------------
(***************************************************************************)
(* The clients' calls.                                                     *)
(***************************************************************************)
\* A call claims nothing yet, and closes only what it is going to drop.
LEMMA CallHeld ==
    ASSUME IInv, HeldInv, NEW t \in Thread, todo[t] = <<>>, NEW L \in Seq(Steps),
           todo' = [todo EXCEPT ![t] = L], L # <<>> => Opens(Api, L[1]),
           Agrees(L), \A i \in 1 .. Len(L) : L[i].op # "hold" /\ ~TakesCode(L[i]),
           Drops(L) \/ (\A i \in 1 .. Len(L) : ~Ends(L[i])),
           \A i \in 1 .. Len(L) : L[i].op = "drop" =>
             /\ Len(L) = i /\ i = 2 /\ L[1].op = "close"
             /\ handle'[L[1].key[2]].lib = L[2].lib,
           UNCHANGED <<device, ret, refs, app, code>>,
           \A u \in Thread \ {t} : \A h \in Own(u) : handle'[h].lib = handle[h].lib,
           \A h \in Handle : handle'[h].held => handle'[h] = handle[h]
    PROVE  HeldInv'
<1>1. todo'[t] = L /\ \A u \in Thread \ {t} : todo'[u] = todo[u]
  BY DEF IInv, TypeInv
<1>2. Len(L) \in Nat /\ (L = <<>> => \A i \in 1 .. Len(L) : FALSE)
  OBVIOUS
<1>3. ASSUME NEW j \in 1 .. Len(L), Waits(L, j)
      PROVE  L[j].op \notin {"hold", "tryForce", "lzmaFound", "forced", "drop"}
  <2>1. Opens(Api, L[1])
    BY <1>2
  <2>2. L[1].op \notin {"hold", "tryForce", "lzmaFound", "forced", "drop", "unlockLinker"}
    BY <2>1 DEF Opens
  <2> QED
    BY <1>3, <2>2 DEF Waits
<1>4. Found(t)'
  BY <1>1, <1>3 DEF Found
<1>5. Lost(t) = {} /\ Lost(t)' = {}
  <2>1. \A i \in 1 .. Len(todo[t]) : FALSE
    OBVIOUS
  <2>2. Closing(t) = {}
    BY <2>1 DEF Closing
  <2>3. (\A i \in 1 .. Len(L) : ~Ends(L[i])) => Closing(t)' = {}
    BY <1>1 DEF Closing
  <2> QED
    BY <1>1, <2>2, <2>3 DEF Lost
<1>6. Agrees(todo'[t]) /\ Dropping(t)' /\ Coding(t)'
  BY <1>1 DEF Dropping, Coding
<1>7. ASSUME NEW u \in Thread \ {t}
      PROVE  /\ Agrees(todo'[u]) /\ Found(u)' /\ Dropping(u)' /\ Coding(u)'
             /\ Lost(u)' = Lost(u) /\ \A lib : Ahead(u, lib)' = Ahead(u, lib)
  <2>1. (Agrees(todo[u]) /\ Found(u) /\ Dropping(u) /\ Coding(u))' /\ Lost(u)' = Lost(u)
    BY <1>1, OtherThread DEF HeldInv
  <2> QED
    BY <1>1, <2>1, AheadSame
<1>8. ASSUME NEW lib
      PROVE  Settles(t, lib, Null) /\ Ahead(t, lib)' \subseteq Ahead(t, lib)
  <2>1. \A u \in Thread : Null \notin Lost(u)'
    BY DEF Lost, Closing, Null, Handle
  <2>2. \A g \in Handle : Holds(g, lib)' => Holds(g, lib)
    BY DEF Holds
  <2>3. Settles(t, lib, Null)
    BY <1>5, <1>7, <2>1, <2>2 DEF Settles
  <2>4. \A j \in 1 .. Len(L) : ~Claims(t, j, lib)'
    BY <1>1, <1>3 DEF Claims
  <2>5. Ahead(t, lib)' = {}
    BY <1>1, <2>4 DEF Ahead
  <2> QED
    BY <2>3, <2>5
<1>9. CountInv'
  BY <1>8, SameCount
<1> QED
  BY <1>4, <1>6, <1>7, <1>9 DEF HeldInv

\* Calls that search, or look for a file.
LEMMA AboutCall ==
    ASSUME IInv, HeldInv, NEW t \in Thread, todo[t] = <<>>, NEW lib, NEW L \in Seq(About(lib)),
           todo' = [todo EXCEPT ![t] = L], L # <<>> => Opens(Api, L[1]),
           UNCHANGED <<device, ret, handle, refs, app, code>>
    PROVE  HeldInv'
<1>1. \A i \in 1 .. Len(L) :
        /\ Gives(L[i]) \/ Wants(L[i]) => LibOf(L[i]) = lib
        /\ L[i].op \notin {"drop", "hold"} /\ ~TakesCode(L[i]) /\ ~Ends(L[i]) /\ L[i] \in Steps
  BY DEF About
<1>2. Agrees(L)
  BY <1>1 DEF Agrees, Pair
<1>3. L \in Seq(Steps)
  BY <1>1
<1> QED
  BY <1>1, <1>2, <1>3, CallHeld

LEMMA OpenHeld ==
    ASSUME IInv, HeldInv, NEW t \in Thread, xdl_open(t)
    PROVE  HeldInv'
<1>0. PICK lib \in Lib : \E steps \in {Find(lib), OpenTry(lib), OpenAlways(lib)} :
         Call(t, steps \o <<Do("give")>>)
  BY DEF xdl_open
<1>1. PICK steps \in {Find(lib), OpenTry(lib), OpenAlways(lib)} : Call(t, steps \o <<Do("give")>>)
  BY <1>0
<1>2. UNCHANGED <<device, ret, handle, refs, app, code>>
  BY DEF xdl_open, objects, pointers
<1>3. PICK L : L = steps \o <<Do("give")>>
  OBVIOUS
<1>4. todo[t] = <<>> /\ todo' = [todo EXCEPT ![t] = L]
  BY <1>1, <1>3 DEF Call
<1>5. L \in Seq(About(lib))
  <2>1. steps \in Seq(About(lib))
    <3>1. lib \in AnyLib
      BY DEF AnyLib
    <3> QED
      BY <3>1, AboutLists
  <2>2. Do("give") \in About(lib)
    BY DEF About, Steps, Do, Gives, Wants, TakesCode, Ends
  <2>3. \A S : \A q \in Seq(S), y \in S : q \o <<y>> \in Seq(S)
    OBVIOUS
  <2> QED
    BY <1>3, <2>1, <2>2, <2>3
<1>6. Opens(Api, L[1])
  <2>1. \E x : Block(Api, Loading, L, x, Do("give")) /\ Opens(Api, x)
    BY <1>3, OpenBlock
  <2> QED
    BY <2>1 DEF Block
<1> QED
  BY <1>2, <1>4, <1>5, <1>6, AboutCall

LEMMA SymHeld ==
    ASSUME IInv, HeldInv, NEW t \in Thread, xdl_sym(t)
    PROVE  HeldInv'
<1>1. PICK h \in given, name \in {"dynsym", "symtab"} : Call(t, Search(<<name, h>>, "nothing"))
  BY DEF xdl_sym
<1>2. UNCHANGED <<device, ret, handle, refs, app, code>>
  BY DEF xdl_sym, objects, pointers
<1>3. PICK k \in Table : k = <<name, h>>
  <2>1. h \in Handle
    BY DEF IInv, TypeInv, DataTypes
  <2> QED
    BY <2>1 DEF Table
<1>4. PICK L : L = Search(k, "nothing")
  OBVIOUS
<1>5. todo[t] = <<>> /\ todo' = [todo EXCEPT ![t] = L]
  BY <1>1, <1>3, <1>4 DEF Call
<1>6. L \in Seq(About(Linker))
  BY <1>4, AboutSearch
<1>7. Opens(Api, L[1])
  BY <1>4 DEF Search, Opens, DoKey
<1> QED
  BY <1>2, <1>5, <1>6, <1>7, AboutCall

LEMMA AddrHeld ==
    ASSUME IInv, HeldInv, NEW t \in Thread, xdl_addr(t)
    PROVE  HeldInv'
<1>1. UNCHANGED <<device, ret, handle, refs, app, code>>
  BY DEF xdl_addr, objects, pointers
<1>2. PICK lib \in Lib :
        \/ \E h \in cache[t] : \E steps \in Named(h) : Call(t, steps)
        \/ Call(t, Iterating(lib) \o <<Do("cache")>>)
  BY DEF xdl_addr
<1>3. CASE \E h \in cache[t] : \E steps \in Named(h) : Call(t, steps)
  <2>0. PICK h \in cache[t] : \E steps \in Named(h) : Call(t, steps)
    BY <1>3
  <2>1. PICK L \in Named(h) : Call(t, L)
    BY <2>0
  <2>2. todo[t] = <<>> /\ todo' = [todo EXCEPT ![t] = L]
    BY <2>1 DEF Call
  <2>3. h \in Handle
    BY DEF IInv, TypeInv, DataTypes
  <2>4. L \in Seq(About(Linker))
    BY <2>3, NamedAbout
  <2>5. L # <<>> => Opens(Api, L[1])
    <3> SUFFICES ASSUME L # <<>> PROVE Opens(Api, L[1])
      OBVIOUS
    <3>1. PICK y, z : Block(Api, Inner(h, {}), L, y, z) /\ y.op = "ensure" /\ z.op = "take"
      BY <2>3, NamedBlock
    <3> QED
      BY <3>1 DEF Block, Opens
  <2> QED
    BY <1>1, <2>2, <2>4, <2>5, AboutCall
<1>4. CASE Call(t, Iterating(lib) \o <<Do("cache")>>)
  <2>1. PICK L : L = Iterating(lib) \o <<Do("cache")>>
    OBVIOUS
  <2>2. todo[t] = <<>> /\ todo' = [todo EXCEPT ![t] = L]
    BY <1>4, <2>1 DEF Call
  <2>3. L \in Seq(About(lib))
    <3>1. Iterating(lib) \in Seq(About(lib))
      <4>1. lib \in AnyLib
        BY DEF AnyLib
      <4> QED
        BY <4>1, AboutLists
    <3>2. Do("cache") \in About(lib)
      BY DEF About, Steps, Do, Gives, Wants, TakesCode, Ends
    <3>3. \A S : \A q \in Seq(S), y \in S : q \o <<y>> \in Seq(S)
      OBVIOUS
    <3> QED
      BY <2>1, <3>1, <3>2, <3>3
  <2>4. Opens(Api, L[1])
    <3>1. \E x : Block(Api, Loading, L, x, Do("cache")) /\ Opens(Api, x)
      BY <2>1, OpenBlock
    <3> QED
      BY <3>1 DEF Block
  <2> QED
    BY <1>1, <2>2, <2>3, <2>4, AboutCall
<1> QED
  BY <1>2, <1>3, <1>4

LEMMA CloseCallHeld ==
    ASSUME IInv, HeldInv, NEW t \in Thread, xdl_close(t)
    PROVE  HeldInv'
<1>1. PICK h \in given :
        Call(t, <<DoKey("close", <<"dynsym", h>>), DoLib("drop", handle[h].lib)>>)
  BY DEF xdl_close
<1>2. UNCHANGED <<device, ret, handle, refs, app, code>>
  BY DEF xdl_close, objects, pointers
<1>3. h \in Handle /\ handle[h].lib \in AnyLib
  <2>1. h \in Handle /\ h \in Live
    BY DEF IInv, TypeInv, DataTypes, OwnInv
  <2> QED
    BY <2>1 DEF IInv, TypeInv, DataTypes, Live
<1>4. PICK k \in Table : k = <<"dynsym", h>>
  BY <1>3 DEF Table
<1>5. PICK c, d : c = DoKey("close", k) /\ d = DoLib("drop", handle[h].lib)
  OBVIOUS
<1>6. /\ c \in Steps /\ c.op = "close" /\ c.key = k /\ k[2] = h /\ Opens(Api, c) /\ Ends(c)
      /\ d \in Steps /\ d.op = "drop" /\ d.lib = handle[h].lib
  BY <1>3, <1>4, <1>5 DEF Steps, DoKey, DoLib, Opens, Ends
<1>7. PICK L : L = <<c, d>>
  OBVIOUS
<1>8. /\ L \in Seq(Steps) /\ Len(L) = 2 /\ L[1] = c /\ L[2] = d
      /\ \A i \in 1 .. Len(L) : i = 1 \/ i = 2
  BY <1>6, <1>7
<1>9. todo[t] = <<>> /\ todo' = [todo EXCEPT ![t] = L]
  BY <1>1, <1>4, <1>5, <1>7 DEF Call
<1>10. Agrees(L)
  <2>1. ~Gives(c) /\ ~Gives(d)
    BY <1>6 DEF Gives
  <2> QED
    BY <1>8, <2>1 DEF Agrees, Pair
<1>11. Drops(L)
  <2>1. 2 \in 1 .. Len(L)
    BY <1>8
  <2> QED
    BY <1>6, <1>8, <2>1 DEF Drops
<1>12. \A i \in 1 .. Len(L) : L[i].op # "hold" /\ ~TakesCode(L[i])
  BY <1>6, <1>8 DEF TakesCode
<1>13. ASSUME NEW i \in 1 .. Len(L), L[i].op = "drop"
       PROVE  /\ Len(L) = i /\ i = 2 /\ L[1].op = "close"
              /\ handle'[L[1].key[2]].lib = L[2].lib
  BY <1>2, <1>6, <1>8, <1>13
<1>14. Opens(Api, L[1])
  BY <1>6, <1>8
<1> QED
  BY <1>2, <1>8, <1>9, <1>10, <1>11, <1>12, <1>13, <1>14, CallHeld

LEMMA CleanHeld ==
    ASSUME IInv, HeldInv, NEW t \in Thread, xdl_addr_clean(t)
    PROVE  HeldInv'
<1>1. /\ todo[t] = <<>> /\ todo' = [todo EXCEPT ![t] = <<>>]
      /\ handle' = [h \in Handle |-> IF h \in cache[t] THEN Unused ELSE handle[h]]
      /\ UNCHANGED <<device, ret, refs, app, code>>
  BY DEF xdl_addr_clean, Call, pointers
<1>2. PICK L : L = <<>>
  OBVIOUS
<1>3. L \in Seq(Steps) /\ \A i \in 1 .. Len(L) : FALSE
  BY <1>2
<1>4. \A u \in Thread \ {t} : \A h \in Own(u) : handle'[h].lib = handle[h].lib
  <2> SUFFICES ASSUME NEW u \in Thread \ {t}, NEW h \in Own(u)
               PROVE  handle'[h] = handle[h]
    OBVIOUS
  <2>1. h \notin Own(t) /\ h \in Handle
    BY DEF IInv, OwnInv, Live
  <2>2. h \notin cache[t]
    BY <2>1 DEF Own
  <2> QED
    BY <1>1, <2>1, <2>2
<1>5. \A h \in Handle : handle'[h].held => handle'[h] = handle[h]
  <2>1. Unused.held = FALSE
    BY DEF Unused
  <2> QED
    BY <1>1, <2>1
<1>6. Agrees(L)
  BY <1>3 DEF Agrees
<1> QED
  BY <1>1, <1>2, <1>3, <1>4, <1>5, <1>6, CallHeld

\* The application loads and unloads, and nothing else happens.
AppToken == <<"app", Nobody, 0>>

LEMMA StillHeld ==
    ASSUME HeldInv, UNCHANGED <<device, todo, ret, handle, code>>
    PROVE  /\ \A u \in Thread : Agrees(todo'[u]) /\ Found(u)' /\ Dropping(u)' /\ Coding(u)'
           /\ \A lib : \A c \in Claimants(lib)' :
                c \in Claimants(lib) \/ (c = AppToken /\ lib \in app')
           /\ \A lib : lib \notin app' => AppToken \notin Claimants(lib)'
           /\ \A lib : lib \in app => AppToken \in Claimants(lib)
<1>1. \A u : Closing(u)' = Closing(u) /\ Lost(u)' = Lost(u)
  BY DEF Closing, Lost
<1>2. \A u \in Thread : Agrees(todo'[u]) /\ Found(u)' /\ Dropping(u)' /\ Coding(u)'
  BY <1>1 DEF HeldInv, Found, Dropping, Coding
<1>3. \A u, lib : Ahead(u, lib)' = Ahead(u, lib)
  BY AheadSame
<1>4. \A h, lib : Holds(h, lib)' = Holds(h, lib)
  BY DEF Holds
<1>5. ASSUME NEW lib, NEW c \in Claimants(lib)'
      PROVE  c \in Claimants(lib) \/ (c = AppToken /\ lib \in app')
  <2>1. c \in Token /\ Claimed(c, lib)'
    BY <1>5 DEF Claimants, Token
  <2>2. c[1] = "app" => c = AppToken
    BY <2>1 DEF Token, AppToken
  <2>3. c[1] = "code" /\ Claimed(c, lib)' => Claimed(c, lib)
    BY <1>1, <1>4 DEF Claimed
  <2>4. c[1] = "handle" /\ Claimed(c, lib)' => Claimed(c, lib)
    BY <1>1, <1>4 DEF Claimed
  <2>5. c[1] = "step" /\ Claimed(c, lib)' => Claimed(c, lib)
    BY <1>3 DEF Claimed
  <2>6. Claimed(c, lib)' => c[1] \in {"app", "code", "handle", "step"} /\ (c[1] = "app" => lib \in app')
    BY DEF Claimed
  <2> QED
    BY <2>1, <2>2, <2>3, <2>4, <2>5, <2>6 DEF Claimants
<1>6. AppToken \in Token /\ AppToken[1] = "app"
  BY DEF Token, AppToken
<1>7. \A lib : lib \notin app' => AppToken \notin Claimants(lib)'
  BY <1>6 DEF Claimants, Claimed
<1>8. \A lib : lib \in app => AppToken \in Claimants(lib)
  BY <1>6 DEF Claimants, Claimed
<1> QED
  BY <1>2, <1>5, <1>7, <1>8

LEMMA AppDlopenHeld ==
    ASSUME HeldInv, NEW l \in Lib, AppDlopen(l)
    PROVE  HeldInv'
<1>1. /\ app' = app \cup {l} /\ refs' = [refs EXCEPT ![l] = @ + 1]
      /\ UNCHANGED <<device, todo, ret, handle, code>>
      /\ refs \in [Lib -> Nat]
  BY DEF AppDlopen, objects, pointers, HeldInv, CountInv
<1>2. /\ \A u \in Thread : Agrees(todo'[u]) /\ Found(u)' /\ Dropping(u)' /\ Coding(u)'
      /\ \A lib : \A c \in Claimants(lib)' :
                c \in Claimants(lib) \/ (c = AppToken /\ lib \in app')
      /\ \A lib : lib \in app => AppToken \in Claimants(lib)
  BY <1>1, StillHeld
<1>3. ASSUME NEW lib \in Lib PROVE Covered(Claimants(lib)', refs'[lib])
  <2>1. Covered(Claimants(lib), refs[lib])
    BY DEF HeldInv, CountInv
  <2>2. CASE lib = l
    <3>1. Claimants(lib)' \subseteq Claimants(lib) \cup {AppToken}
      BY <1>2
    <3>2. refs'[lib] = refs[lib] + 1
      BY <1>1, <2>2
    <3> QED
      BY <2>1, <3>1, <3>2, CoveredMore
  <2>3. CASE lib # l
    <3>1. Claimants(lib)' \subseteq Claimants(lib)
      BY <1>1, <1>2, <2>3
    <3>2. refs'[lib] = refs[lib]
      BY <1>1, <2>3
    <3> QED
      BY <2>1, <3>1, <3>2, CoveredPart
  <2> QED
    BY <2>2, <2>3
<1>4. refs' \in [Lib -> Nat]
  BY <1>1
<1> QED
  BY <1>2, <1>3, <1>4 DEF HeldInv, CountInv

LEMMA AppDlcloseHeld ==
    ASSUME HeldInv, NEW l \in Lib, AppDlclose(l)
    PROVE  HeldInv'
<1>1. /\ l \in app /\ app' = app \ {l} /\ refs' = [refs EXCEPT ![l] = @ - 1]
      /\ UNCHANGED <<device, todo, ret, handle, code>>
      /\ refs \in [Lib -> Nat]
  BY DEF AppDlclose, objects, pointers, HeldInv, CountInv
<1>2. /\ \A u \in Thread : Agrees(todo'[u]) /\ Found(u)' /\ Dropping(u)' /\ Coding(u)'
      /\ \A lib : \A c \in Claimants(lib)' :
                c \in Claimants(lib) \/ (c = AppToken /\ lib \in app')
      /\ \A lib : lib \notin app' => AppToken \notin Claimants(lib)'
      /\ \A lib : lib \in app => AppToken \in Claimants(lib)
  BY <1>1, StillHeld
<1>3. ASSUME NEW lib \in Lib PROVE Covered(Claimants(lib)', refs'[lib]) /\ refs'[lib] \in Nat
  <2>1. Covered(Claimants(lib), refs[lib]) /\ refs[lib] \in Nat
    BY <1>1 DEF HeldInv, CountInv
  <2>2. CASE lib = l
    <3>1. AppToken \in Claimants(lib) /\ Claimants(lib)' \subseteq Claimants(lib) \ {AppToken}
      BY <1>1, <1>2, <2>2
    <3>2. refs'[lib] = refs[lib] - 1
      BY <1>1, <2>2
    <3> QED
      BY <2>1, <3>1, <3>2, CoveredLess
  <2>3. CASE lib # l
    <3>1. Claimants(lib)' \subseteq Claimants(lib)
      BY <1>1, <1>2, <2>3
    <3>2. refs'[lib] = refs[lib]
      BY <1>1, <2>3
    <3> QED
      BY <2>1, <3>1, <3>2, CoveredPart
  <2> QED
    BY <2>2, <2>3
<1>4. refs' \in [Lib -> Nat]
  <2>1. refs[l] - 1 \in Nat
    <3>1. refs'[l] = refs[l] - 1
      BY <1>1
    <3> QED
      BY <1>3, <3>1
  <2> QED
    BY <1>1, <2>1, Counts
<1> QED
  BY <1>2, <1>3, <1>4 DEF HeldInv, CountInv

LEMMA SameHeld ==
    ASSUME HeldInv, UNCHANGED vars
    PROVE  HeldInv'
<1>1. UNCHANGED <<device, todo, ret, handle, code, refs, app>>
  BY DEF vars, objects, pointers
<1>2. /\ \A u \in Thread : Agrees(todo'[u]) /\ Found(u)' /\ Dropping(u)' /\ Coding(u)'
      /\ \A lib : \A c \in Claimants(lib)' :
                c \in Claimants(lib) \/ (c = AppToken /\ lib \in app')
      /\ \A lib : lib \in app => AppToken \in Claimants(lib)
  BY <1>1, StillHeld
<1>3. ASSUME NEW lib \in Lib PROVE Covered(Claimants(lib)', refs'[lib])
  <2>1. Covered(Claimants(lib), refs[lib])
    BY DEF HeldInv, CountInv
  <2>2. Claimants(lib)' \subseteq Claimants(lib) /\ refs'[lib] = refs[lib]
    BY <1>1, <1>2
  <2> QED
    BY <2>1, <2>2, CoveredPart
<1> QED
  BY <1>1, <1>2, <1>3 DEF HeldInv, CountInv

LEMMA InitHeld == Init => HeldInv
<1> SUFFICES ASSUME Init PROVE HeldInv
  OBVIOUS
<1> USE DEF Init
<1>1. \A t \in Thread : todo[t] = <<>> /\ \A i \in 1 .. Len(todo[t]) : FALSE
  <2>1. \A i \in 1 .. Len(<<>>) : FALSE
    OBVIOUS
  <2> QED
    BY <2>1
<1>2. \A t \in Thread : Agrees(todo[t]) /\ Found(t) /\ Dropping(t) /\ Coding(t)
  BY <1>1 DEF Agrees, Found, Dropping, Coding
<1>3. \A t \in Thread : Lost(t) = {} /\ \A lib : Ahead(t, lib) = {}
  BY <1>1 DEF Lost, Closing, Ahead
<1>4. Unused.held = FALSE /\ code # "forced"
  BY DEF Unused
<1>5. ASSUME NEW lib, NEW c \in Claimants(lib) PROVE c = AppToken /\ lib \in app
  <2>1. c \in Token /\ Claimed(c, lib)
    BY <1>5 DEF Claimants
  <2>2. c[1] # "code" \/ ~Claimed(c, lib)
    BY <1>3, <1>4 DEF Claimed
  <2>3. c[1] = "handle" => ~Holds(c[3], lib)
    <3>1. c[1] = "handle" => c[3] \in Handle
      BY <2>1, Tokens
    <3> QED
      BY <1>4, <3>1 DEF Holds
  <2>4. c[1] = "step" => c[3] \notin Ahead(c[2], lib)
    <3>1. c[1] = "step" => c[2] \in Thread
      BY <2>1, Tokens
    <3> QED
      BY <1>3, <3>1
  <2>5. c[1] = "app" /\ lib \in app
    BY <2>1, <2>2, <2>3, <2>4 DEF Claimed
  <2> QED
    BY <2>1, <2>5 DEF Token, AppToken
<1>6. Covered({}, 0)
  BY FS_EmptySet DEF Covered
<1>7. refs \in [Lib -> Nat] /\ \A lib \in Lib : refs[lib] = IF lib \in app THEN 1 ELSE 0
  OBVIOUS
<1>8. ASSUME NEW lib \in Lib PROVE Covered(Claimants(lib), refs[lib])
  <2>1. CASE lib \in app
    <3>1. Claimants(lib) \subseteq {} \cup {AppToken} /\ refs[lib] = 0 + 1
      BY <1>5, <1>7, <2>1
    <3> QED
      BY <1>6, <3>1, CoveredMore
  <2>2. CASE lib \notin app
    <3>1. Claimants(lib) \subseteq {} /\ refs[lib] = 0
      BY <1>5, <1>7, <2>2
    <3> QED
      BY <1>6, <3>1, CoveredPart
  <2> QED
    BY <2>1, <2>2
<1> QED
  BY <1>2, <1>7, <1>8 DEF HeldInv, CountInv

LEMMA NextHeld == IInv /\ HeldInv /\ [Next]_vars => HeldInv'
<1> SUFFICES ASSUME IInv, HeldInv, [Next]_vars PROVE HeldInv'
  OBVIOUS
<1>1. ASSUME NEW t \in Thread, Step(t) PROVE HeldInv'
  BY <1>1, EnsureHeld, LockAndLookHeld, PopsHeld, FindHeld, TryForceHeld, ForceAsHeld, DlopenHeld,
     ForcedHeld, HoldHeld, LinkerFoundHeld, NoExtHeld, LzmaFoundHeld, TakeItHeld, ReadHeld,
     CloseHeld, DropHeld, CacheHeld DEF Step
<1>2. ASSUME NEW t \in Thread,
             xdl_open(t) \/ xdl_sym(t) \/ xdl_close(t) \/ xdl_addr(t) \/ xdl_addr_clean(t)
      PROVE  HeldInv'
  BY <1>2, OpenHeld, SymHeld, CloseCallHeld, AddrHeld, CleanHeld
<1>3. ASSUME NEW lib \in Lib, AppDlopen(lib) \/ AppDlclose(lib) PROVE HeldInv'
  BY <1>3, AppDlopenHeld, AppDlcloseHeld
<1>4. CASE UNCHANGED vars
  BY <1>4, SameHeld
<1> QED
  BY <1>1, <1>2, <1>3, <1>4 DEF Next

\* What the linker was asked to load stays mapped while it is needed, whatever else the
\* application or another thread loads and unloads: while an xdl_t keeps the linker's
\* handle (xdl_open_always_force), until the client gives what xdl_close returned to
\* dlclose; and for good if the functions of a force-loaded liblzma are kept, as
\* xdl_lzma_init closes its xdl_t without a dlclose.
THEOREM HeldStaysMappedCorrect == Spec => []HeldStaysMapped
<1>1. Init => IInv /\ HeldInv
  BY InitIInv, InitHeld
<1>2. (IInv /\ HeldInv) /\ [Next]_vars => (IInv /\ HeldInv)'
  BY NextIInv, NextHeld
<1>3. IInv /\ HeldInv => HeldStaysMapped
  <2> SUFFICES ASSUME IInv, HeldInv PROVE HeldStaysMapped
    OBVIOUS
  <2>1. ASSUME NEW lib, NEW c \in Claimants(lib) PROVE Mapped(lib)
    <3>1. CASE lib \in Lib
      <4>1. Covered(Claimants(lib), refs[lib]) /\ refs[lib] \in Nat
        BY <3>1 DEF HeldInv, CountInv
      <4>2. Claimants(lib) \ {c} \subseteq Claimants(lib) \ {c}
        OBVIOUS
      <4>3. refs[lib] - 1 \in Nat
        BY <2>1, <4>1, <4>2, CoveredLess
      <4> QED
        BY <4>1, <4>3 DEF Mapped
    <3>2. CASE lib \notin Lib
      BY <3>2 DEF Mapped
    <3> QED
      BY <3>1, <3>2
  <2>2. CodeToken \in Token /\ CodeToken[1] = "code"
    BY DEF CodeToken, Token
  <2>3. ASSUME NEW h \in Handle, handle[h].held PROVE Mapped(handle[h].lib)
    <3>1. PICK lib : lib = handle[h].lib
      OBVIOUS
    <3>2. Holds(h, lib)
      BY <2>3, <3>1 DEF Holds
    <3>3. CASE lib = Lzma /\ \E u \in Thread : h \in Lost(u)
      <4>1. CodeToken \in Claimants(lib)
        BY <2>2, <3>2, <3>3 DEF Claimants, Claimed
      <4> QED
        BY <2>1, <3>1, <4>1
    <3>4. CASE lib = Lzma => \A u \in Thread : h \notin Lost(u)
      <4>1. HandleToken(h) \in Claimants(lib)
        BY <3>2, <3>4, TokenClaims
      <4> QED
        BY <2>1, <3>1, <4>1
    <3> QED
      BY <3>3, <3>4
  <2>4. code = "forced" => Mapped(Lzma)
    <3>1. code = "forced" => CodeToken \in Claimants(Lzma)
      BY <2>2 DEF Claimants, Claimed
    <3> QED
      BY <2>1, <3>1
  <2> QED
    BY <2>3, <2>4 DEF HeldStaysMapped
<1> QED
  BY <1>1, <1>2, <1>3, PTL DEF Spec
=============================================================================
