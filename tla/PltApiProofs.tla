--------------------------- MODULE PltApiProofs ---------------------------
(***************************************************************************)
(* Theorems about PltApi, for any modules, libraries, callbacks,           *)
(* expressions and exclusions, and whatever fails.                         *)
(***************************************************************************)
EXTENDS PltApi, FiniteSetTheorems, WellFoundedInduction, TLAPS

Expression == [match : Regex, symbol : Sym, callback : Fn, nth : Nat]
Entry == [symbol : Sym, callback : Fn, nth : Nat]
Call == [file : Lib, place : Nat, symbol : Sym, callback : Fn, nth : Nat]

TypeOK ==
    /\ register_info \in Seq(Expression)
    /\ ignore_info \subseteq Exclusion
    /\ hook_info_lock \subseteq Module
    /\ todo \in [Module -> SUBSET Call]
    /\ pc \in [Module -> {"idle", "register", "commit"}]
    /\ pending \in [Lib -> Seq(Entry)]
    /\ mapped \subseteq Lib
    /\ slot \in [Lib -> [Sym -> Fn \cup {Original}]]
    /\ backup \in [Fn -> Fn \cup {Original}]
    /\ returned \in [Module -> BOOLEAN]
    /\ made \in [Fn -> Nat]
    /\ put \subseteq Lib \X Fn
    /\ shield \subseteq Lib \X Fn \X Nat
    /\ asked \subseteq Expression
    /\ due \in [Module -> SUBSET (Lib \X Expression)]

\* Where the n-th registration of a callback is on its way to: queued with
\* LSPlt, or about to be registered with it by the module that resolves the
\* expressions.
WaitsAs(l, f, n) == \E i \in DOMAIN pending[l] : pending[l][i].callback = f /\ pending[l][i].nth = n
ComesAs(l, f, n) == \E m \in Module : \E c \in todo[m] : c.file = l /\ c.callback = f /\ c.nth = n
PlacedAs(l, f, n) == WaitsAs(l, f, n) \/ ComesAs(l, f, n)

\* Where a callback is, or is bound to be, by whichever of its registrations.
Waits(l, f) == \E i \in DOMAIN pending[l] : pending[l][i].callback = f
Comes(l, f) == \E m \in Module : \E c \in todo[m] : c.file = l /\ c.callback = f
Placed(l, f) == <<l, f>> \in put \/ Waits(l, f) \/ Comes(l, f)

\* Those that wait and for which there is a slot.
Hooks(l, f) == \E i \in Hits(l) : pending[l][i].callback = f

\* The lock is that of the module that makes its calls of RegisterHook.
LockHeld ==
    /\ \A m \in Module : m \in hook_info_lock <=> pc[m] = "register"
    /\ \A m, n \in hook_info_lock : m = n
    /\ \A m \in Module : pc[m] # "register" => todo[m] = {}
    /\ \A m \in Module : ~ByExpression(m) => Idle(m) /\ due[m] = {}

\* The registrations of a callback are numbered as they are made.
Numbered ==
    /\ \A l \in Lib, f \in Fn : <<l, f>> \in put => made[f] # 0
    /\ \A l \in Lib, f \in Fn, n \in Nat :
         PlacedAs(l, f, n) \/ <<l, f, n>> \in shield => n \in 1 .. made[f]
    /\ \A i \in DOMAIN register_info :
         register_info[i].nth \in 1 .. made[register_info[i].callback]
    /\ \A i, j \in DOMAIN register_info :
         register_info[i].callback = register_info[j].callback
         /\ register_info[i].nth = register_info[j].nth => i = j

\* Outside a commit the lists of the context are what was asked for, no library
\* has any of it, and what is excluded is what the exclusions cover.
ListsAreAsked ==
    IF hook_info_lock # {} THEN asked = {}
    ELSE /\ asked = Range(register_info)
         /\ \A r \in asked, l \in Lib :
              /\ ~PlacedAs(l, r.callback, r.nth)
              /\ <<l, r.callback>> \in put => made[r.callback] > 1
              /\ <<l, r.callback, r.nth>> \in shield <=> Shielded(l, r, ignore_info)

NothingShielded == \A l \in Lib, f \in Fn, n \in Nat :
    PlacedAs(l, f, n) => <<l, f, n>> \notin shield

\* There is one order of the callbacks, below a bound, and a symbol for each:
\* every library gets its callbacks in this order, those of one commit in the
\* order in which they were registered; a callback calls on to one before it.
Ordered(rank, sym, bound) ==
    /\ \A l \in Lib, f \in Fn : Placed(l, f) => rank[f] < bound
    /\ \A l \in Lib : \A i \in DOMAIN pending[l] :
         /\ sym[pending[l][i].callback] = pending[l][i].symbol
         /\ \A f \in Fn : <<l, f>> \in put => rank[f] < rank[pending[l][i].callback]
         /\ \A j \in DOMAIN pending[l] :
              i < j => rank[pending[l][i].callback] < rank[pending[l][j].callback]
    /\ \A m \in Module : \A c \in todo[m] :
         /\ sym[c.callback] = c.symbol
         /\ \A f \in Fn : <<c.file, f>> \in put \/ Waits(c.file, f) => rank[f] < rank[c.callback]
         /\ \A d \in todo[m] :
              /\ c.place < d.place => rank[c.callback] < rank[d.callback]
              /\ c.place = d.place => c.callback = d.callback
    /\ \A f \in Fn : backup[f] # Original => rank[backup[f]] < rank[f]

\* On top of each slot is the last of its callbacks, and under it the others:
\* each has one above it that calls on to it, or hides it.
Stacked(rank, sym) ==
    /\ \A l \in Lib, y \in Sym : slot[l][y] # Original =>
         <<l, slot[l][y]>> \in put /\ sym[slot[l][y]] = y
    /\ \A f \in Fn : backup[f] # Original =>
         \E l \in Lib : <<l, f>> \in put /\ <<l, backup[f]>> \in put
    /\ \A l \in Lib, f \in Fn : <<l, f>> \in put =>
         /\ sym[f] \in Sym /\ slot[l][sym[f]] # Original
         /\ f # slot[l][sym[f]] => rank[f] < rank[slot[l][sym[f]]]
         /\ \/ slot[l][sym[f]] = f
            \/ \E g \in Fn : /\ <<l, g>> \in put /\ sym[g] = sym[f] /\ rank[f] < rank[g]
                             /\ backup[g] = f \/ Hides(g)

\* What a commit has to bring about is on its way while the commit runs, and
\* written when it returned true.
DueComes(sym) == \A m \in Module : \A d \in due[m] :
    LET l == d[1]  f == d[2].callback IN
    /\ l \in mapped /\ sym[f] = d[2].symbol
    /\ made[f] # 0 /\ \A r \in asked : r.callback # f
    /\ pc[m] = "register" /\ ~Fails("maps") => Waits(l, f) \/ Comes(l, f)
    /\ pc[m] = "commit" /\ ~Fails("maps") => Waits(l, f)
    /\ Idle(m) /\ returned[m] /\ ~Fails("maps") /\ <<l, d[2].symbol>> \in Found => <<l, f>> \in put

\* What the lists of the context and the placed callbacks have to do with each
\* other does not depend on the order of the callbacks, nor on how often each
\* was registered.
ListsInv == TypeOK /\ LockHeld /\ Numbered /\ ListsAreAsked /\ NothingShielded

OrderInv(rank, sym, bound) ==
    Ordered(rank, sym, bound) /\ Stacked(rank, sym) /\ DueComes(sym)

IInv ==
    /\ ListsInv
    /\ Once => \E rank \in [Fn -> Nat], sym \in [Fn -> Sym \cup {NoSymbol}], bound \in Nat :
         OrderInv(rank, sym, bound)

---------------------------------------------------------------------------
\* Of a set of naturals that is not empty there is a least element, and a
\* greatest if it is bounded.
LEMMA MinExists ==
    ASSUME NEW S, S \subseteq Nat, S # {}
    PROVE  \E m \in S : \A k \in S : m <= k
<1>1. PICK m \in S : \A y \in S : ~(<<y, m>> \in OpToRel(<, Nat))
  BY NatLessThanWellFounded, WFMin
<1>2. \A y \in S : ~(y < m)
  BY <1>1 DEF OpToRel
<1> QED
  BY <1>2

LEMMA MaxIs ==
    ASSUME NEW S, NEW n \in Nat, S \subseteq 0 .. n, S # {}
    PROVE  Max(S) \in S /\ \A k \in S : k <= Max(S)
<1> DEFINE R == {n - k : k \in S}
<1>1. PICK m \in R : \A k \in R : m <= k
  <2>1. R \subseteq Nat /\ R # {}
    <3>1. \A k \in S : n - k \in Nat
      OBVIOUS
    <3> QED
      BY <3>1
  <2> HIDE DEF R
  <2> QED
    BY <2>1, MinExists
<1>2. PICK x \in S : m = n - x
  BY <1>1
<1>3. \A k \in S : k <= x
  BY <1>1, <1>2
<1>4. \E y \in S : \A k \in S : y >= k
  BY <1>3
<1>5. Max(S) \in S /\ \A k \in S : Max(S) >= k
  BY <1>4 DEF Max
<1> QED
  BY <1>5

LEMMA LibBound == \E n \in Nat : Lib \subseteq 0 .. n
<1> DEFINE above(l) == {k \in Lib : k > l}
           sizes == {Cardinality(above(l)) : l \in Lib}
<1>1. Lib \subseteq Nat /\ IsFiniteSet(Lib)
  BY ApiAssumption
<1>2. \A l \in Lib : IsFiniteSet(above(l)) /\ Cardinality(above(l)) \in Nat
  BY <1>1, FS_Subset, FS_CardinalityType
<1> CASE Lib # {}
  <2>1. PICK s \in sizes : \A k \in sizes : s <= k
    <3>1. sizes \subseteq Nat /\ sizes # {}
      BY <1>2
    <3> HIDE DEF sizes
    <3> QED
      BY <3>1, MinExists
  <2>2. PICK l \in Lib : s = Cardinality(above(l))
    BY <2>1
  <2>3. ASSUME NEW k \in Lib, k > l PROVE FALSE
    <3>1. above(k) \subseteq above(l) /\ k \in above(l) /\ k \notin above(k)
      BY <1>1, <2>2, <2>3
    <3>2. Cardinality(above(k)) < Cardinality(above(l))
      <4>1. above(k) # above(l) /\ IsFiniteSet(above(l))
        BY <1>2, <2>2, <3>1
      <4> HIDE DEF above
      <4>2. Cardinality(above(k)) <= Cardinality(above(l))
        BY <3>1, <4>1, FS_Subset
      <4>3. Cardinality(above(k)) # Cardinality(above(l))
        BY <3>1, <4>1, FS_Subset
      <4> QED
        BY <1>2, <2>2, <2>3, <4>2, <4>3
    <3>3. s <= Cardinality(above(k))
      BY <2>1
    <3> HIDE DEF above
    <3> QED
      BY <1>2, <2>2, <3>2, <3>3
  <2> QED
    BY <1>1, <2>3
<1> CASE Lib = {}
  OBVIOUS
<1> QED
  OBVIOUS

LEMMA LibMax == ASSUME NEW S, S \subseteq Lib, S # {}
                PROVE  Max(S) \in S /\ \A k \in S : k <= Max(S)
  BY LibBound, MaxIs

---------------------------------------------------------------------------
\* The places of a queue: the last of some of them, and the last below one.
LEMMA Places ==
    ASSUME TypeOK, NEW l \in Lib
    PROVE  /\ pending[l] \in Seq(Entry) /\ Len(pending[l]) \in Nat
           /\ DOMAIN pending[l] = 1 .. Len(pending[l])
           /\ \A i \in DOMAIN pending[l] :
                /\ i \in Nat
                /\ pending[l][i] \in Entry
                /\ pending[l][i].symbol \in Sym /\ pending[l][i].callback \in Fn
                /\ pending[l][i].nth \in Nat
           /\ \A S \in SUBSET DOMAIN pending[l] :
                S # {} => Max(S) \in S /\ \A k \in S : k <= Max(S)
<1>1. pending[l] \in Seq(Entry)
  BY DEF TypeOK
<1>2. Len(pending[l]) \in Nat /\ DOMAIN pending[l] = 1 .. Len(pending[l])
  BY <1>1
<1>3. ASSUME NEW S \in SUBSET DOMAIN pending[l], S # {}
      PROVE  Max(S) \in S /\ \A k \in S : k <= Max(S)
  <2>1. S \subseteq 0 .. Len(pending[l])
    BY <1>2
  <2> QED
    BY <1>2, <1>3, <2>1, MaxIs
<1>4. ASSUME NEW i \in DOMAIN pending[l]
      PROVE  /\ i \in Nat
             /\ pending[l][i] \in Entry
             /\ pending[l][i].symbol \in Sym /\ pending[l][i].callback \in Fn
             /\ pending[l][i].nth \in Nat
  <2>1. i \in Nat /\ pending[l][i] \in Entry
    BY <1>1, <1>2
  <2> QED
    BY <2>1 DEF Entry
<1> QED
  BY <1>1, <1>2, <1>3, <1>4

\* Below a registration is the one before it of the same symbol, or what was
\* in the slot.
LEMMA UnderIs ==
    ASSUME TypeOK, NEW l \in Lib, NEW i \in DOMAIN pending[l]
    PROVE  \/ /\ Under(l, i) = slot[l][pending[l][i].symbol]
              /\ \A j \in DOMAIN pending[l] : pending[l][j].symbol = pending[l][i].symbol => i <= j
           \/ \E j \in DOMAIN pending[l] :
                /\ j < i /\ pending[l][j].symbol = pending[l][i].symbol
                /\ Under(l, i) = pending[l][j].callback
                /\ \A k \in DOMAIN pending[l] :
                     pending[l][k].symbol = pending[l][i].symbol => k <= j \/ i <= k
<1> DEFINE earlier == {j \in 1 .. i - 1 : pending[l][j].symbol = pending[l][i].symbol}
<1>1. Under(l, i) = IF earlier = {} THEN slot[l][pending[l][i].symbol]
                    ELSE pending[l][Max(earlier)].callback
  BY DEF Under
<1>2. Len(pending[l]) \in Nat /\ DOMAIN pending[l] = 1 .. Len(pending[l]) /\ i \in Nat
  BY Places
<1>3. earlier \subseteq DOMAIN pending[l]
  BY <1>2
<1>4. \A k \in DOMAIN pending[l] :
        pending[l][k].symbol = pending[l][i].symbol /\ k < i => k \in earlier
  BY <1>2
<1>5. CASE earlier = {}
  BY <1>1, <1>2, <1>4, <1>5
<1>6. CASE earlier # {}
  <2>1. Max(earlier) \in earlier /\ \A k \in earlier : k <= Max(earlier)
    BY <1>3, <1>6, Places
  <2> DEFINE j == Max(earlier)
  <2>2. /\ j \in DOMAIN pending[l] /\ j < i /\ pending[l][j].symbol = pending[l][i].symbol
    BY <1>2, <1>3, <2>1
  <2>3. Under(l, i) = pending[l][j].callback
    BY <1>1, <1>6
  <2>4. \A k \in DOMAIN pending[l] :
          pending[l][k].symbol = pending[l][i].symbol => k <= j \/ i <= k
    <3> HIDE DEF earlier
    <3> QED
      BY <1>2, <1>4, <2>1
  <2> HIDE DEF j
  <2> QED
    BY <2>2, <2>3, <2>4
<1> QED
  BY <1>5, <1>6

\* Whether a registration comes to a slot is a matter of its symbol.
LEMMA HitIs ==
    ASSUME NEW l
    PROVE  /\ Hits(l) \subseteq DOMAIN pending[l]
           /\ \A i \in DOMAIN pending[l] : i \in Hits(l) <=> <<l, pending[l][i].symbol>> \in Found
           /\ \A f : Hooks(l, f) => Waits(l, f)
  BY DEF Hits, Hooks, Waits

\* On top of a slot is the last of its symbol.
LEMMA TopIs ==
    ASSUME TypeOK, NEW l \in Lib, NEW y \in Sym
    PROVE  \/ /\ Top(l, y) = slot[l][y]
              /\ \A i \in Hits(l) : pending[l][i].symbol # y
           \/ \E t \in Hits(l) :
                /\ pending[l][t].symbol = y /\ Top(l, y) = pending[l][t].callback
                /\ \A i \in DOMAIN pending[l] : pending[l][i].symbol = y => i \in Hits(l) /\ i <= t
<1> DEFINE hits == {i \in Hits(l) : pending[l][i].symbol = y}
<1>1. Top(l, y) = IF hits = {} THEN slot[l][y] ELSE pending[l][Max(hits)].callback
  BY DEF Top
<1>2. CASE hits = {}
  BY <1>1, <1>2
<1>3. CASE hits # {}
  <2> DEFINE t == Max(hits)
  <2>1. hits \in SUBSET DOMAIN pending[l]
    BY HitIs
  <2>2. t \in hits /\ \A k \in hits : k <= t
    BY <1>3, <2>1, Places
  <2>3. Top(l, y) = pending[l][t].callback
    BY <1>1, <1>3
  <2> HIDE DEF t
  <2>4. \A i \in DOMAIN pending[l] : pending[l][i].symbol = y => i \in Hits(l)
    BY <2>2, HitIs
  <2> QED
    BY <2>2, <2>3, <2>4
<1> QED
  BY <1>2, <1>3

\* The backup variable of a callback is written in a library where it is queued,
\* with what is below it there, or in none.
LEMMA SavedIs ==
    ASSUME TypeOK, NEW f \in Fn, NEW libs \in SUBSET Lib
    PROVE  \/ /\ Saved(f, libs) = backup[f]
              /\ \A l \in libs : \A i \in Hits(l) :
                   pending[l][i].callback = f => Under(l, i) = f
           \/ \E l \in libs : \E i \in Hits(l) :
                /\ pending[l][i].callback = f /\ Saved(f, libs) = Under(l, i)
<1> DEFINE Writes(l) == {i \in Hits(l) : pending[l][i].callback = f /\ Under(l, i) # f}
           written == {l \in libs : Writes(l) # {}}
<1>1. Saved(f, libs) = IF written = {} THEN backup[f]
                       ELSE Under(Max(written), Max(Writes(Max(written))))
  BY DEF Saved
<1>2. CASE written = {}
  BY <1>1, <1>2
<1>3. CASE written # {}
  <2> DEFINE l == Max(written)
             i == Max(Writes(l))
  <2>1. l \in written
    BY <1>3, LibMax
  <2>2. l \in Lib /\ Writes(l) \in SUBSET DOMAIN pending[l] /\ Writes(l) # {}
    BY <2>1, HitIs
  <2>3. i \in Writes(l)
    <3> HIDE DEF Writes, l
    <3> QED
      BY <2>2, Places
  <2>4. Saved(f, libs) = Under(l, i)
    BY <1>1, <1>3
  <2>5. l \in libs /\ i \in Hits(l) /\ pending[l][i].callback = f
    BY <2>1, <2>3
  <2> HIDE DEF l, i
  <2> QED
    BY <2>4, <2>5
<1> QED
  BY <1>2, <1>3

LEMMA UnderType ==
    ASSUME TypeOK, NEW l \in Lib, NEW i \in DOMAIN pending[l]
    PROVE  Under(l, i) \in Fn \cup {Original}
<1>1. pending[l][i].symbol \in Sym /\ \A j \in DOMAIN pending[l] : pending[l][j].callback \in Fn
  BY Places
<1>2. slot[l][pending[l][i].symbol] \in Fn \cup {Original}
  BY <1>1 DEF TypeOK
<1> QED
  BY <1>1, <1>2, UnderIs

LEMMA TopType ==
    ASSUME TypeOK, NEW l \in Lib, NEW y \in Sym
    PROVE  Top(l, y) \in Fn \cup {Original}
<1>1. \A j \in DOMAIN pending[l] : pending[l][j].callback \in Fn
  BY Places
<1>2. slot[l][y] \in Fn \cup {Original}
  BY DEF TypeOK
<1> QED
  BY <1>1, <1>2, TopIs, HitIs

LEMMA SavedType ==
    ASSUME TypeOK, NEW f \in Fn, NEW libs \in SUBSET Lib
    PROVE  Saved(f, libs) \in Fn \cup {Original}
<1>1. backup[f] \in Fn \cup {Original}
  BY DEF TypeOK
<1> QED
  BY <1>1, SavedIs, UnderType, HitIs

\* The calls that a commit is to make.
LEMMA ResolvedIs ==
    ASSUME TypeOK, NEW maps \in SUBSET Lib
    PROVE  /\ \A c \in Resolved(maps) :
                /\ c \in Call /\ c.file \in maps /\ c.place \in DOMAIN register_info
                /\ register_info[c.place] \in Expression
                /\ c.symbol = register_info[c.place].symbol
                /\ c.callback = register_info[c.place].callback
                /\ c.nth = register_info[c.place].nth
                /\ c.file \in register_info[c.place].match
                /\ ~Shielded(c.file, register_info[c.place], ignore_info)
           /\ \A l \in maps, i \in DOMAIN register_info :
                /\ l \in register_info[i].match
                /\ ~Shielded(l, register_info[i], ignore_info)
                => \E c \in Resolved(maps) : c.file = l /\ c.callback = register_info[i].callback
<1> DEFINE Matches(d) == d[1] \in register_info[d[2]].match
           Covered(d) == \E e \in ignore_info : Covers(e, d[1], register_info[d[2]].symbol)
           CallOf(d) == [file |-> d[1], place |-> d[2], symbol |-> register_info[d[2]].symbol,
                         callback |-> register_info[d[2]].callback, nth |-> register_info[d[2]].nth]
<1>1. Resolved(maps) =
        {CallOf(d) : d \in {d \in maps \X (DOMAIN register_info) : Matches(d) /\ ~Covered(d)}}
  BY DEF Resolved
<1>2. \A d : Covered(d) <=> Shielded(d[1], register_info[d[2]], ignore_info)
  BY DEF Covers, Shielded
<1>3. \A i \in DOMAIN register_info : /\ i \in Nat /\ register_info[i] \in Expression
                                      /\ register_info[i].symbol \in Sym
                                      /\ register_info[i].callback \in Fn
                                      /\ register_info[i].nth \in Nat
  <2>1. register_info \in Seq(Expression)
    BY DEF TypeOK
  <2>2. \A i \in DOMAIN register_info : i \in Nat /\ register_info[i] \in Expression
    BY <2>1
  <2> QED
    BY <2>2 DEF Expression
<1>4. ASSUME NEW c \in Resolved(maps)
      PROVE  /\ c \in Call /\ c.file \in maps /\ c.place \in DOMAIN register_info
             /\ c.symbol = register_info[c.place].symbol
             /\ c.callback = register_info[c.place].callback
             /\ c.nth = register_info[c.place].nth
             /\ c.file \in register_info[c.place].match
             /\ ~Shielded(c.file, register_info[c.place], ignore_info)
  <2>1. PICK d \in maps \X (DOMAIN register_info) : Matches(d) /\ ~Covered(d) /\ c = CallOf(d)
    BY <1>1, <1>4
  <2>2. d[1] \in maps /\ d[2] \in DOMAIN register_info
    BY <2>1
  <2>3. c.file = d[1] /\ c.place = d[2]
    BY <2>1
  <2>4. c.symbol = register_info[c.place].symbol /\ c.callback = register_info[c.place].callback
        /\ c.nth = register_info[c.place].nth
    BY <2>1, <2>3
  <2>5. c \in Call
    <3>1. d[1] \in Lib /\ d[2] \in Nat /\ register_info[d[2]].symbol \in Sym
          /\ register_info[d[2]].callback \in Fn /\ register_info[d[2]].nth \in Nat
      BY <1>3, <2>2
    <3> QED
      BY <2>1, <3>1 DEF Call
  <2> QED
    BY <1>2, <2>1, <2>2, <2>3, <2>4, <2>5
<1>5. ASSUME NEW l \in maps, NEW i \in DOMAIN register_info,
             l \in register_info[i].match, ~Shielded(l, register_info[i], ignore_info)
      PROVE  \E c \in Resolved(maps) : c.file = l /\ c.callback = register_info[i].callback
  <2> DEFINE d == <<l, i>>
  <2>1. d \in maps \X (DOMAIN register_info) /\ Matches(d) /\ ~Covered(d)
    BY <1>2, <1>5
  <2>2. CallOf(d) \in Resolved(maps)
    <3> HIDE DEF d, CallOf, Matches, Covered
    <3> QED
      BY <1>1, <2>1
  <2>3. CallOf(d).file = l /\ CallOf(d).callback = register_info[i].callback
    OBVIOUS
  <2> QED
    BY <2>2, <2>3
<1> QED
  BY <1>3, <1>4, <1>5

LEMMA ScanIs ==
    ASSUME TypeOK, NEW call, NEW maps \in Scan(call)
    PROVE  maps \in SUBSET Lib /\ (~Fails(call) => maps = mapped)
  BY DEF Scan, TypeOK

---------------------------------------------------------------------------
LEMMA TypeInit == Init => TypeOK
  BY ApiAssumption DEF Init, TypeOK

LEMMA TypeRegister ==
    ASSUME TypeOK, NEW m \in Module, NEW re \in Regex, NEW y \in Sym, NEW f \in Fn,
           plt_hook_register(m, re, y, f)
    PROVE  TypeOK'
<1> DEFINE r == [match |-> re, symbol |-> y, callback |-> f, nth |-> made[f] + 1]
<1>1. r \in Expression /\ r.nth \in Nat
  BY DEF Expression, TypeOK
<1>2. register_info' \in Seq(Expression)
  BY <1>1 DEF plt_hook_register, TypeOK
<1>3. asked' \subseteq Expression /\ made' \in [Fn -> Nat]
  BY <1>1 DEF plt_hook_register, TypeOK
<1>4. shield' \subseteq Lib \X Fn \X Nat
  BY <1>1 DEF plt_hook_register, TypeOK
<1> HIDE DEF r
<1> QED
  BY <1>2, <1>3, <1>4 DEF plt_hook_register, TypeOK, engine, thread

LEMMA TypeExclude ==
    ASSUME TypeOK, NEW m \in Module, NEW e \in Exclusion, plt_hook_exclude(m, e)
    PROVE  TypeOK'
<1>1. shield' \subseteq Lib \X Fn \X Nat
  BY DEF plt_hook_exclude, TypeOK, Expression
<1> QED
  BY <1>1 DEF plt_hook_exclude, TypeOK, engine, thread

LEMMA DueType == TypeOK => \A m \in Module : Due(m) \in SUBSET (Lib \X Expression)
  BY DEF TypeOK, Due

LEMMA TypeCommit ==
    ASSUME TypeOK, NEW m \in Module, plt_hook_commit(m)
    PROVE  TypeOK'
<1>1. PICK maps \in Scan("maps") : todo' = [todo EXCEPT ![m] = Resolved(maps)]
  BY DEF plt_hook_commit
<1>2. Resolved(maps) \in SUBSET Call
  BY <1>1, ScanIs, ResolvedIs
<1>3. todo' \in [Module -> SUBSET Call]
  BY <1>1, <1>2 DEF TypeOK
<1>4. due' \in [Module -> SUBSET (Lib \X Expression)]
  BY DueType DEF plt_hook_commit, TypeOK
<1> QED
  BY <1>3, <1>4 DEF plt_hook_commit, TypeOK, engine

LEMMA TypeProcessNext ==
    ASSUME TypeOK, NEW m \in Module, ProcessNext(m)
    PROVE  TypeOK'
<1>1. PICK c \in todo[m] :
        /\ pending' = [pending EXCEPT ![c.file] =
                         Append(@, [symbol |-> c.symbol, callback |-> c.callback, nth |-> c.nth])]
        /\ todo' = [todo EXCEPT ![m] = @ \ {c}]
  BY DEF ProcessNext
<1>2. c \in Call
  BY <1>1 DEF TypeOK
<1>3. c.file \in Lib /\ [symbol |-> c.symbol, callback |-> c.callback, nth |-> c.nth] \in Entry
  BY <1>2 DEF Call, Entry
<1>4. pending' \in [Lib -> Seq(Entry)]
  BY <1>1, <1>3 DEF TypeOK
<1>5. todo' \in [Module -> SUBSET Call]
  BY <1>1 DEF TypeOK
<1> QED
  BY <1>4, <1>5 DEF ProcessNext, TypeOK, context, ghost

LEMMA TypeRelease ==
    ASSUME TypeOK, NEW m \in Module, Release(m)
    PROVE  TypeOK'
  BY DEF Release, TypeOK, engine, ghost

LEMMA TypeRegisterHook ==
    ASSUME TypeOK, NEW m \in Module, NEW l \in Lib, NEW y \in Sym, NEW f \in Fn,
           RegisterHook(m, l, y, f)
    PROVE  TypeOK'
<1>1. [symbol |-> y, callback |-> f, nth |-> made[f] + 1] \in Entry
  BY DEF Entry, TypeOK
<1>2. pending' \in [Lib -> Seq(Entry)]
  BY <1>1 DEF RegisterHook, TypeOK
<1> QED
  BY <1>2 DEF RegisterHook, TypeOK, context, thread

\* What a commit of LSPlt does, by the libraries that it could write.
Commits(m, done) ==
    /\ slot' = [l \in Lib |-> IF l \in done THEN [y \in Sym |-> Top(l, y)] ELSE slot[l]]
    /\ backup' = [f \in Fn |-> Saved(f, done)]
    /\ put' = put \cup UNION {{<<l, pending[l][i].callback>> : i \in Hits(l)} : l \in done}
    /\ returned' = [returned EXCEPT ![m] = {l \in mapped : Hits(l) # {}} \subseteq done]
    /\ pending' = [l \in Lib |-> IF l \in mapped THEN <<>> ELSE pending[l]]

LEMMA CommitHookIs ==
    ASSUME TypeOK, NEW m \in Module, CommitHook(m)
    PROVE  /\ pc[m] = "commit" \/ (~ByExpression(m) /\ Idle(m))
           /\ pc' = [pc EXCEPT ![m] = "idle"]
           /\ due' = [n \in Module |-> IF n # m /\ ~Idle(n) THEN {} ELSE due[n]]
           /\ UNCHANGED <<context, todo, mapped, made, shield, asked>>
           /\ \/ /\ returned' = [returned EXCEPT ![m] = Queued = {}]
                 /\ UNCHANGED <<engine, put>>
              \/ \E done \in SUBSET mapped : Commits(m, done)
<1>1. CASE Queued = {} /\ returned' = [returned EXCEPT ![m] = TRUE] /\ UNCHANGED <<engine, put>>
  <2>1. (Queued = {}) = TRUE
    BY <1>1
  <2> QED
    BY <1>1, <2>1 DEF CommitHook
<1>2. CASE Queued # {} /\ returned' = [returned EXCEPT ![m] = FALSE] /\ UNCHANGED <<engine, put>>
  <2>1. (Queued = {}) = FALSE
    BY <1>2
  <2> QED
    BY <1>2, <2>1 DEF CommitHook
<1>3. ASSUME NEW bad \in SUBSET {l \in mapped : Hits(l) # {}},
             slot' = [l \in Lib |-> IF l \in mapped \ bad THEN [y \in Sym |-> Top(l, y)] ELSE slot[l]],
             backup' = [f \in Fn |-> Saved(f, mapped \ bad)],
             put' = put \cup UNION {{<<l, pending[l][i].callback>> : i \in Hits(l)} : l \in mapped \ bad},
             returned' = [returned EXCEPT ![m] = bad = {}],
             pending' = [l \in Lib |-> IF l \in mapped THEN <<>> ELSE pending[l]]
      PROVE  Commits(m, mapped \ bad)
  <2>1. (bad = {}) = ({l \in mapped : Hits(l) # {}} \subseteq mapped \ bad)
    OBVIOUS
  <2> QED
    BY <1>3, <2>1 DEF Commits
<1> QED
  <2>1. CASE \E bad \in SUBSET {l \in mapped : Hits(l) # {}} : Commits(m, mapped \ bad)
    BY <2>1 DEF CommitHook
  <2> QED
    BY <1>1, <1>2, <1>3, <2>1 DEF CommitHook

LEMMA TypeCommitHook ==
    ASSUME TypeOK, NEW m \in Module, CommitHook(m)
    PROVE  TypeOK'
<1>1. pc' \in [Module -> {"idle", "register", "commit"}]
  BY CommitHookIs DEF TypeOK
<1>2. due' \in [Module -> SUBSET (Lib \X Expression)]
  BY CommitHookIs DEF TypeOK
<1>3. UNCHANGED <<context, todo, mapped, made, shield, asked>>
  BY CommitHookIs
<1>4. CASE UNCHANGED <<engine, put>> /\ returned' = [returned EXCEPT ![m] = Queued = {}]
  <2>1. (Queued = {}) \in BOOLEAN
    OBVIOUS
  <2>2. returned' \in [Module -> BOOLEAN]
    BY <1>4, <2>1 DEF TypeOK
  <2> QED
    BY <1>1, <1>2, <1>3, <1>4, <2>2 DEF TypeOK, context, engine
<1>5. ASSUME NEW done \in SUBSET mapped, Commits(m, done) PROVE TypeOK'
  <2>1. returned' \in [Module -> BOOLEAN]
    <3>1. ({l \in mapped : Hits(l) # {}} \subseteq done) \in BOOLEAN
      OBVIOUS
    <3> QED
      BY <1>5, <3>1 DEF Commits, TypeOK
  <2>2. slot' \in [Lib -> [Sym -> Fn \cup {Original}]]
    BY <1>5, TopType DEF Commits, TypeOK
  <2>3. backup' \in [Fn -> Fn \cup {Original}]
    <3>1. done \in SUBSET Lib
      BY DEF TypeOK
    <3> QED
      BY <1>5, <3>1, SavedType DEF Commits
  <2>4. pending' \in [Lib -> Seq(Entry)]
    BY <1>5 DEF Commits, TypeOK
  <2>5. put' \subseteq Lib \X Fn
    <3>1. ASSUME NEW l \in done, NEW i \in Hits(l) PROVE l \in Lib /\ pending[l][i].callback \in Fn
      BY Places, HitIs DEF TypeOK
    <3>2. put' = put \cup UNION {{<<l, pending[l][i].callback>> : i \in Hits(l)} : l \in done}
      BY <1>5 DEF Commits
    <3>3. put \subseteq Lib \X Fn
      BY DEF TypeOK
    <3> QED
      BY <3>1, <3>2, <3>3
  <2> QED
    BY <1>1, <1>2, <1>3, <2>1, <2>2, <2>3, <2>4, <2>5 DEF TypeOK, context
<1> QED
  BY <1>4, <1>5, CommitHookIs

LEMMA TypeDlopen ==
    ASSUME TypeOK, NEW l \in Lib, Dlopen(l)
    PROVE  TypeOK'
  BY DEF Dlopen, TypeOK, context, engine, thread, ghost

\* All variables keep their types.
LEMMA TypeStep == TypeOK /\ [Next]_vars => TypeOK'
<1> SUFFICES ASSUME TypeOK, [Next]_vars PROVE TypeOK'
  OBVIOUS
<1>1. CASE UNCHANGED vars
  BY <1>1 DEF TypeOK, vars, context, engine, thread, ghost
<1> QED
  BY <1>1, TypeRegister, TypeExclude, TypeCommit, TypeProcessNext, TypeRelease,
     TypeRegisterHook, TypeCommitHook, TypeDlopen DEF Next

\* Every variable has its type in every reachable state.
THEOREM TypeCorrect == Spec => []TypeOK
<1>1. Init => TypeOK
  BY TypeInit
<1>2. TypeOK /\ [Next]_vars => TypeOK'
  BY TypeStep
<1> QED
  BY <1>1, <1>2, PTL DEF Spec

---------------------------------------------------------------------------
\* How the steps move a callback from one place to the next.
LEMMA PlacedSame ==
    ASSUME UNCHANGED <<pending, todo>>, NEW l \in Lib, NEW f \in Fn
    PROVE  /\ Waits(l, f)' <=> Waits(l, f)
           /\ Comes(l, f)' <=> Comes(l, f)
           /\ \A n \in Nat :
                /\ WaitsAs(l, f, n)' <=> WaitsAs(l, f, n)
                /\ ComesAs(l, f, n)' <=> ComesAs(l, f, n)
                /\ PlacedAs(l, f, n)' <=> PlacedAs(l, f, n)
  BY DEF Waits, Comes, WaitsAs, ComesAs, PlacedAs

\* Of a callback that waits, one of its registrations does.
LEMMA WaitsIs ==
    ASSUME TypeOK, NEW l \in Lib, NEW f \in Fn
    PROVE  /\ Waits(l, f) <=> \E n \in Nat : WaitsAs(l, f, n)
           /\ Comes(l, f) <=> \E n \in Nat : ComesAs(l, f, n)
           /\ \A n \in Nat : PlacedAs(l, f, n) => Waits(l, f) \/ Comes(l, f)
<1>1. \A i \in DOMAIN pending[l] : pending[l][i].nth \in Nat
  BY Places
<1>2. \A m \in Module : \A c \in todo[m] : c.nth \in Nat
  BY DEF TypeOK, Call
<1>3. Waits(l, f) <=> \E n \in Nat : WaitsAs(l, f, n)
  BY <1>1 DEF Waits, WaitsAs
<1>4. Comes(l, f) <=> \E n \in Nat : ComesAs(l, f, n)
  BY <1>2 DEF Comes, ComesAs
<1>5. \A n \in Nat : PlacedAs(l, f, n) => Waits(l, f) \/ Comes(l, f)
  BY DEF PlacedAs, WaitsAs, ComesAs, Waits, Comes
<1> QED
  BY <1>3, <1>4, <1>5

LEMMA QueueGrows ==
    ASSUME TypeOK, NEW l \in Lib, NEW e \in Entry,
           pending' = [pending EXCEPT ![l] = Append(@, e)]
    PROVE  /\ DOMAIN pending'[l] = 1 .. Len(pending[l]) + 1
           /\ \A i \in DOMAIN pending[l] : pending'[l][i] = pending[l][i]
           /\ pending'[l][Len(pending[l]) + 1] = e
           /\ \A k \in Lib : k # l => pending'[k] = pending[k]
           /\ \A k \in Lib, f \in Fn :
                Waits(k, f)' <=> Waits(k, f) \/ (k = l /\ f = e.callback)
           /\ \A k \in Lib, f \in Fn, n \in Nat :
                WaitsAs(k, f, n)' <=> WaitsAs(k, f, n) \/ (k = l /\ f = e.callback /\ n = e.nth)
<1>1. pending[l] \in Seq(Entry) /\ pending'[l] = Append(pending[l], e)
  BY DEF TypeOK
<1>2. /\ DOMAIN pending'[l] = 1 .. Len(pending[l]) + 1
      /\ \A i \in DOMAIN pending[l] : pending'[l][i] = pending[l][i]
      /\ pending'[l][Len(pending[l]) + 1] = e
  BY <1>1
<1>3. \A k \in Lib : k # l => pending'[k] = pending[k]
  BY DEF TypeOK
<1>4. Len(pending[l]) \in Nat /\ DOMAIN pending[l] = 1 .. Len(pending[l])
  BY Places
<1>5. /\ \A i \in DOMAIN pending'[l] : i = Len(pending[l]) + 1 \/ i \in DOMAIN pending[l]
      /\ Len(pending[l]) + 1 \in DOMAIN pending'[l]
      /\ \A i \in DOMAIN pending[l] : i \in DOMAIN pending'[l]
  BY <1>2, <1>4
<1>6. ASSUME NEW k \in Lib, NEW f \in Fn
      PROVE  /\ Waits(k, f)' <=> Waits(k, f) \/ (k = l /\ f = e.callback)
             /\ \A n \in Nat : WaitsAs(k, f, n)' <=>
                  WaitsAs(k, f, n) \/ (k = l /\ f = e.callback /\ n = e.nth)
  <2>1. CASE k # l
    BY <1>3, <2>1 DEF Waits, WaitsAs
  <2>2. CASE k = l
    <3>1. Waits(l, f)' <=> Waits(l, f) \/ f = e.callback
      BY <1>2, <1>5 DEF Waits
    <3>2. \A n \in Nat : WaitsAs(l, f, n)' <=> WaitsAs(l, f, n) \/ (f = e.callback /\ n = e.nth)
      BY <1>2, <1>5 DEF WaitsAs
    <3> QED
      BY <2>2, <3>1, <3>2
  <2> QED
    BY <2>1, <2>2
<1> QED
  BY <1>2, <1>3, <1>6

\* The call that is made next is that of the only module with calls to make.
LEMMA NextCall ==
    ASSUME TypeOK, LockHeld, NEW m \in Module, ProcessNext(m)
    PROVE  /\ m \in hook_info_lock /\ \A n \in Module : n # m => todo[n] = {} /\ todo'[n] = {}
           /\ \E c \in todo[m] :
                /\ c \in Call /\ c.file \in Lib
                /\ c.place \in Nat /\ c.symbol \in Sym /\ c.callback \in Fn
                /\ [symbol |-> c.symbol, callback |-> c.callback, nth |-> c.nth] \in Entry
                /\ \A d \in todo[m] \ {c} : Precedes(c, d)
                /\ pending' = [pending EXCEPT ![c.file] =
                                 Append(@, [symbol |-> c.symbol, callback |-> c.callback, nth |-> c.nth])]
                /\ todo'[m] = todo[m] \ {c}
                /\ \A l \in Lib, f \in Fn :
                     /\ Waits(l, f)' <=> Waits(l, f) \/ (l = c.file /\ f = c.callback)
                     /\ Comes(l, f)' => Comes(l, f)
                     /\ Comes(l, f) => Comes(l, f)' \/ (l = c.file /\ f = c.callback)
                     /\ Placed(l, f)' <=> Placed(l, f)
                     /\ \A n \in Nat : PlacedAs(l, f, n)' <=> PlacedAs(l, f, n)
<1>1. m \in hook_info_lock /\ \A n \in Module : n # m => todo[n] = {}
  BY DEF ProcessNext, LockHeld
<1>2. PICK c \in todo[m] :
        /\ \A d \in todo[m] \ {c} : Precedes(c, d)
        /\ pending' = [pending EXCEPT ![c.file] =
                         Append(@, [symbol |-> c.symbol, callback |-> c.callback, nth |-> c.nth])]
        /\ todo' = [todo EXCEPT ![m] = @ \ {c}]
  BY DEF ProcessNext
<1>3. todo \in [Module -> SUBSET Call]
  BY DEF TypeOK
<1>4. todo'[m] = todo[m] \ {c} /\ \A n \in Module : n # m => todo'[n] = todo[n]
  BY <1>2, <1>3
<1>5. c \in Call
  BY <1>2, <1>3
<1>6. c.file \in Lib /\ c.place \in Nat /\ c.symbol \in Sym /\ c.callback \in Fn /\ c.nth \in Nat
  BY <1>5 DEF Call
<1> DEFINE e == [symbol |-> c.symbol, callback |-> c.callback, nth |-> c.nth]
<1>7. e \in Entry /\ e.callback = c.callback /\ e.nth = c.nth
  BY <1>6 DEF Entry
<1>8. ASSUME NEW l \in Lib, NEW f \in Fn
      PROVE  /\ Waits(l, f)' <=> Waits(l, f) \/ (l = c.file /\ f = c.callback)
             /\ Comes(l, f)' => Comes(l, f)
             /\ Comes(l, f) => Comes(l, f)' \/ (l = c.file /\ f = c.callback)
             /\ Placed(l, f)' <=> Placed(l, f)
             /\ \A n \in Nat : PlacedAs(l, f, n)' <=> PlacedAs(l, f, n)
  <2>1. /\ Waits(l, f)' <=> Waits(l, f) \/ (l = c.file /\ f = c.callback)
        /\ \A n \in Nat : WaitsAs(l, f, n)' <=>
             WaitsAs(l, f, n) \/ (l = c.file /\ f = c.callback /\ n = c.nth)
    <3>1. pending' = [pending EXCEPT ![c.file] = Append(@, e)]
      BY <1>2
    <3> HIDE DEF e
    <3>2. \A k \in Lib, g \in Fn : Waits(k, g)' <=> Waits(k, g) \/ (k = c.file /\ g = e.callback)
      BY <1>6, <1>7, <3>1, QueueGrows
    <3>3. \A k \in Lib, g \in Fn, n \in Nat :
            WaitsAs(k, g, n)' <=> WaitsAs(k, g, n) \/ (k = c.file /\ g = e.callback /\ n = e.nth)
      BY <1>6, <1>7, <3>1, QueueGrows
    <3> QED
      BY <1>7, <3>2, <3>3
  <2>2. Comes(l, f)' => Comes(l, f)
    BY <1>4 DEF Comes
  <2>3. Comes(l, f) => Comes(l, f)' \/ (l = c.file /\ f = c.callback)
    BY <1>4 DEF Comes
  <2>4. l = c.file /\ f = c.callback => Comes(l, f)
    BY <1>2 DEF Comes
  <2>5. put' = put
    BY DEF ProcessNext, ghost
  <2>6. \A n \in Nat : PlacedAs(l, f, n)' <=> PlacedAs(l, f, n)
    <3>1. \A n \in Nat : ComesAs(l, f, n)' => ComesAs(l, f, n)
      BY <1>4 DEF ComesAs
    <3>2. \A n \in Nat : ComesAs(l, f, n) => ComesAs(l, f, n)' \/ (l = c.file /\ f = c.callback /\ n = c.nth)
      BY <1>4 DEF ComesAs
    <3>3. \A n \in Nat : l = c.file /\ f = c.callback /\ n = c.nth => ComesAs(l, f, n)
      BY <1>2 DEF ComesAs
    <3> QED
      BY <2>1, <3>1, <3>2, <3>3 DEF PlacedAs
  <2> QED
    BY <2>1, <2>2, <2>3, <2>4, <2>5, <2>6 DEF Placed
<1> QED
  BY <1>1, <1>2, <1>4, <1>5, <1>6, <1>7, <1>8

LEMMA Committed ==
    ASSUME TypeOK, NEW m \in Module, NEW done \in SUBSET mapped, Commits(m, done), UNCHANGED todo,
           NEW l \in Lib, NEW f \in Fn
    PROVE  /\ Waits(l, f)' <=> Waits(l, f) /\ l \notin mapped
           /\ Comes(l, f)' <=> Comes(l, f)
           /\ <<l, f>> \in put' <=> <<l, f>> \in put \/ (l \in done /\ Hooks(l, f))
           /\ Placed(l, f)' => Placed(l, f)
           /\ \A n \in Nat : PlacedAs(l, f, n)' => PlacedAs(l, f, n)
<1>1. pending'[l] = IF l \in mapped THEN <<>> ELSE pending[l]
  BY DEF Commits
<1>2. Waits(l, f)' <=> Waits(l, f) /\ l \notin mapped
  BY <1>1 DEF Waits
<1>3. Comes(l, f)' <=> Comes(l, f)
  BY DEF Comes
<1>4. <<l, f>> \in put' <=> <<l, f>> \in put \/ (l \in done /\ Hooks(l, f))
  <2>1. put' = put \cup UNION {{<<k, pending[k][i].callback>> : i \in Hits(k)} : k \in done}
    BY DEF Commits
  <2> QED
    BY <2>1 DEF Hooks
<1>5. \A n \in Nat : PlacedAs(l, f, n)' => PlacedAs(l, f, n)
  <2>1. \A n \in Nat : WaitsAs(l, f, n)' => WaitsAs(l, f, n)
    BY <1>1 DEF WaitsAs
  <2>2. \A n \in Nat : ComesAs(l, f, n)' <=> ComesAs(l, f, n)
    BY DEF ComesAs
  <2> QED
    BY <2>1, <2>2 DEF PlacedAs
<1> QED
  BY <1>2, <1>3, <1>4, <1>5, HitIs DEF Placed

\* What a commit that took the lock resolved.
LEMMA Resolving ==
    ASSUME ListsInv, NEW m \in Module, plt_hook_commit(m)
    PROVE  /\ pc[m] = "idle" /\ hook_info_lock' = {m} /\ asked = Range(register_info)
           /\ \A n \in Module : n \notin hook_info_lock /\ todo[n] = {} /\ (n # m => todo'[n] = {})
           /\ \A c \in todo'[m] :
                /\ c \in Call /\ c.place \in DOMAIN register_info
                /\ register_info[c.place] \in asked
                /\ c.symbol = register_info[c.place].symbol
                /\ c.callback = register_info[c.place].callback
                /\ c.nth = register_info[c.place].nth
                /\ ~Shielded(c.file, register_info[c.place], ignore_info)
           /\ ~Fails("maps") =>
                \A l \in mapped, i \in DOMAIN register_info :
                  /\ l \in register_info[i].match
                  /\ ~Shielded(l, register_info[i], ignore_info)
                  => \E c \in todo'[m] : c.file = l /\ c.callback = register_info[i].callback
           /\ \A l \in Lib, f \in Fn :
                /\ Waits(l, f)' <=> Waits(l, f)
                /\ ~Comes(l, f)
                /\ Comes(l, f)' <=> \E c \in todo'[m] : c.file = l /\ c.callback = f
                /\ \A n \in Nat : PlacedAs(l, f, n)' =>
                     \/ PlacedAs(l, f, n)
                     \/ \E c \in todo'[m] : c.file = l /\ c.callback = f /\ c.nth = n
<1>1. PICK maps \in Scan("maps") : todo' = [todo EXCEPT ![m] = Resolved(maps)]
  BY DEF plt_hook_commit
<1>2. todo'[m] = Resolved(maps) /\ \A n \in Module : n # m => todo'[n] = todo[n]
  BY <1>1 DEF ListsInv, TypeOK
<1>3. maps \in SUBSET Lib /\ (~Fails("maps") => maps = mapped)
  BY <1>1, ScanIs DEF ListsInv
<1>4. pc[m] = "idle" /\ hook_info_lock = {} /\ hook_info_lock' = {m} /\ UNCHANGED pending
  BY DEF plt_hook_commit, Idle, engine
<1>5. asked = Range(register_info)
  BY <1>4 DEF ListsInv, ListsAreAsked
<1>6. \A n \in Module : n \notin hook_info_lock /\ todo[n] = {}
  BY <1>4 DEF ListsInv, LockHeld
<1>7. \A c \in todo'[m] :
        /\ c \in Call /\ c.place \in DOMAIN register_info
        /\ register_info[c.place] \in asked
        /\ c.symbol = register_info[c.place].symbol
        /\ c.callback = register_info[c.place].callback
        /\ c.nth = register_info[c.place].nth
        /\ ~Shielded(c.file, register_info[c.place], ignore_info)
  BY <1>2, <1>3, <1>5, ResolvedIs DEF ListsInv, Range
<1>8. ~Fails("maps") =>
        \A l \in mapped, i \in DOMAIN register_info :
          /\ l \in register_info[i].match
          /\ ~Shielded(l, register_info[i], ignore_info)
          => \E c \in todo'[m] : c.file = l /\ c.callback = register_info[i].callback
  BY <1>2, <1>3, ResolvedIs DEF ListsInv
<1>9. ASSUME NEW l \in Lib, NEW f \in Fn
      PROVE  /\ Waits(l, f)' <=> Waits(l, f)
             /\ ~Comes(l, f)
             /\ Comes(l, f)' <=> \E c \in todo'[m] : c.file = l /\ c.callback = f
             /\ \A n \in Nat : PlacedAs(l, f, n)' =>
                  \/ PlacedAs(l, f, n)
                  \/ \E c \in todo'[m] : c.file = l /\ c.callback = f /\ c.nth = n
  <2>1. Waits(l, f)' <=> Waits(l, f)
    BY <1>4 DEF Waits
  <2>2. ~Comes(l, f)
    BY <1>6 DEF Comes
  <2>3. Comes(l, f)' <=> \E c \in todo'[m] : c.file = l /\ c.callback = f
    BY <1>2, <1>6 DEF Comes
  <2>4. \A n \in Nat : PlacedAs(l, f, n)' =>
              \/ PlacedAs(l, f, n)
              \/ \E c \in todo'[m] : c.file = l /\ c.callback = f /\ c.nth = n
    BY <1>2, <1>4, <1>6 DEF PlacedAs, WaitsAs, ComesAs
  <2> QED
    BY <2>1, <2>2, <2>3, <2>4
<1> QED
  BY <1>2, <1>4, <1>5, <1>6, <1>7, <1>8, <1>9

---------------------------------------------------------------------------
LEMMA ListsInit == Init => ListsInv
<1> SUFFICES ASSUME Init PROVE ListsInv
  OBVIOUS
<1>1. TypeOK
  BY TypeInit
<1>2. \A l \in Lib, f \in Fn, n \in Nat : ~PlacedAs(l, f, n)
  BY DEF Init, PlacedAs, WaitsAs, ComesAs
<1>3. LockHeld
  BY DEF Init, LockHeld, Idle
<1>4. Numbered
  BY <1>2 DEF Init, Numbered
<1>5. ListsAreAsked
  BY DEF Init, ListsAreAsked, Range
<1>6. NothingShielded
  BY DEF Init, NothingShielded
<1> QED
  BY <1>1, <1>3, <1>4, <1>5, <1>6 DEF ListsInv

\* What the registrations by expression look like.
LEMMA Registrations ==
    ASSUME TypeOK
    PROVE  /\ register_info \in Seq(Expression) /\ Len(register_info) \in Nat
           /\ DOMAIN register_info = 1 .. Len(register_info)
           /\ \A i \in DOMAIN register_info :
                /\ i \in Nat
                /\ register_info[i] \in Expression
                /\ register_info[i].symbol \in Sym /\ register_info[i].callback \in Fn
                /\ register_info[i].nth \in Nat
           /\ \A r \in asked : r.symbol \in Sym /\ r.callback \in Fn /\ r.nth \in Nat
<1>1. register_info \in Seq(Expression) /\ asked \subseteq Expression
  BY DEF TypeOK
<1>2. Len(register_info) \in Nat /\ DOMAIN register_info = 1 .. Len(register_info)
  BY <1>1
<1>3. ASSUME NEW i \in DOMAIN register_info PROVE register_info[i] \in Expression /\ i \in Nat
  BY <1>1, <1>2
<1>4. \A r \in Expression : r.symbol \in Sym /\ r.callback \in Fn /\ r.nth \in Nat
  BY DEF Expression
<1> QED
  BY <1>1, <1>2, <1>3, <1>4

LEMMA ListsRegister ==
    ASSUME ListsInv, NEW m \in Module, NEW re \in Regex, NEW y \in Sym, NEW f \in Fn,
           plt_hook_register(m, re, y, f)
    PROVE  ListsInv'
<1> DEFINE r == [match |-> re, symbol |-> y, callback |-> f, nth |-> made[f] + 1]
<1>1. TypeOK /\ TypeOK'
  BY TypeRegister DEF ListsInv
<1>2. /\ hook_info_lock = {} /\ hook_info_lock' = {} /\ made' = [made EXCEPT ![f] = @ + 1]
      /\ register_info' = Append(register_info, r) /\ asked' = asked \cup {r}
      /\ shield' = shield \cup {<<l, f, r.nth>> : l \in {k \in Lib : Shielded(k, r, ignore_info)}}
      /\ ignore_info' = ignore_info
      /\ UNCHANGED <<put, pending, todo, pc, due>>
  BY DEF plt_hook_register, engine, thread
<1>3. r.callback = f /\ r.symbol = y /\ r.nth = made[f] + 1 /\ r \in Expression
  BY <1>1 DEF Expression, TypeOK
<1> HIDE DEF r
<1>4. \A l \in Lib, g \in Fn, n \in Nat : PlacedAs(l, g, n)' <=> PlacedAs(l, g, n)
  BY <1>2, PlacedSame
<1>5. LockHeld'
  BY <1>2 DEF ListsInv, LockHeld, Idle
<1>6. register_info \in Seq(Expression) /\ Len(register_info) \in Nat
      /\ DOMAIN register_info = 1 .. Len(register_info)
  BY <1>1, Registrations
<1>7. /\ DOMAIN register_info' = 1 .. Len(register_info) + 1
      /\ register_info'[Len(register_info) + 1] = r
      /\ \A i \in DOMAIN register_info : register_info'[i] = register_info[i]
      /\ \A i \in DOMAIN register_info' : i \in DOMAIN register_info \/ i = Len(register_info) + 1
  BY <1>2, <1>3, <1>6
<1>8. \A i \in DOMAIN register_info :
        /\ register_info[i].callback \in Fn
        /\ register_info[i].nth \in 1 .. made[register_info[i].callback]
  BY <1>1, Registrations DEF ListsInv, Numbered
<1>9. /\ \A g \in Fn : made[g] \in Nat /\ made'[g] = IF g = f THEN made[g] + 1 ELSE made[g]
      /\ \A g \in Fn, n \in Nat : n \in 1 .. made[g] => n \in 1 .. made'[g] /\ ~(g = f /\ n = r.nth)
      /\ r.nth \in 1 .. made'[f] /\ r.nth \in Nat
  BY <1>1, <1>2, <1>3 DEF TypeOK
<1>10. \A l \in Lib, g \in Fn, n \in Nat :
         <<l, g, n>> \in shield' <=>
           <<l, g, n>> \in shield \/ (g = f /\ n = r.nth /\ Shielded(l, r, ignore_info))
  BY <1>2
<1>11. \A l \in Lib, g \in Fn, n \in Nat :
         PlacedAs(l, g, n) \/ <<l, g, n>> \in shield => ~(g = f /\ n = r.nth)
  BY <1>9 DEF ListsInv, Numbered
<1>12. Numbered'
  <2>1. ASSUME NEW l \in Lib, NEW g \in Fn, NEW n \in Nat,
               PlacedAs(l, g, n)' \/ <<l, g, n>> \in shield'
        PROVE  n \in 1 .. made'[g]
    BY <1>4, <1>9, <1>10, <2>1 DEF ListsInv, Numbered
  <2>2. ASSUME NEW l \in Lib, NEW g \in Fn, <<l, g>> \in put' PROVE made'[g] # 0
    <3>1. made[g] # 0
      BY <1>2, <2>2 DEF ListsInv, Numbered
    <3> QED
      BY <1>9, <3>1
  <2>3. ASSUME NEW i \in DOMAIN register_info'
        PROVE  register_info'[i].nth \in 1 .. made'[register_info'[i].callback]
    <3>1. CASE i \in DOMAIN register_info
      <4>1. register_info[i].nth \in Nat
        BY <1>1, <3>1, Registrations
      <4> QED
        BY <1>7, <1>8, <1>9, <3>1, <4>1
    <3>2. CASE i = Len(register_info) + 1
      BY <1>3, <1>7, <1>9, <3>2
    <3> QED
      BY <1>7, <3>1, <3>2
  <2>4. ASSUME NEW i \in DOMAIN register_info', NEW j \in DOMAIN register_info',
               register_info'[i].callback = register_info'[j].callback,
               register_info'[i].nth = register_info'[j].nth
        PROVE  i = j
    <3>1. \A k \in DOMAIN register_info :
            ~(register_info[k].callback = f /\ register_info[k].nth = r.nth)
      BY <1>8, <1>9
    <3>2. CASE i \in DOMAIN register_info /\ j \in DOMAIN register_info
      BY <1>7, <2>4, <3>2 DEF ListsInv, Numbered
    <3>3. CASE i \in DOMAIN register_info /\ j \notin DOMAIN register_info
      BY <1>3, <1>7, <2>4, <3>1, <3>3
    <3>4. CASE i \notin DOMAIN register_info /\ j \in DOMAIN register_info
      BY <1>3, <1>7, <2>4, <3>1, <3>4
    <3>5. CASE i \notin DOMAIN register_info /\ j \notin DOMAIN register_info
      BY <1>7, <3>5
    <3> QED
      BY <3>2, <3>3, <3>4, <3>5
  <2> QED
    BY <2>1, <2>2, <2>3, <2>4 DEF Numbered
<1>13. asked = Range(register_info)
  BY <1>2 DEF ListsInv, ListsAreAsked
<1>14. ListsAreAsked'
  <2>1. asked' = Range(register_info')
    <3>1. ASSUME NEW s \in asked' PROVE \E i \in DOMAIN register_info' : register_info'[i] = s
      <4>1. CASE s = r
        BY <1>6, <1>7, <4>1
      <4>2. CASE s \in asked
        <5>1. PICK i \in DOMAIN register_info : register_info[i] = s
          BY <1>13, <4>2 DEF Range
        <5>2. i \in DOMAIN register_info'
          BY <1>6, <1>7
        <5> QED
          BY <1>7, <5>1, <5>2
      <4> QED
        BY <1>2, <4>1, <4>2
    <3>2. ASSUME NEW i \in DOMAIN register_info' PROVE register_info'[i] \in asked'
      BY <1>2, <1>7, <1>13 DEF Range
    <3> QED
      BY <3>1, <3>2 DEF Range
  <2>2. ASSUME NEW s \in asked', NEW l \in Lib
        PROVE  /\ ~PlacedAs(l, s.callback, s.nth)'
               /\ <<l, s.callback>> \in put' => made'[s.callback] > 1
               /\ <<l, s.callback, s.nth>> \in shield' <=> Shielded(l, s, ignore_info)
    <3>1. CASE s = r
      <4>1. ~PlacedAs(l, f, r.nth) /\ <<l, f, r.nth>> \notin shield
        BY <1>9, <1>11
      <4>2. <<l, f>> \in put => made'[f] > 1
        BY <1>9 DEF ListsInv, Numbered
      <4> QED
        BY <1>2, <1>3, <1>4, <1>9, <1>10, <3>1, <4>1, <4>2
    <3>2. CASE s \in asked
      <4>1. PICK i \in DOMAIN register_info : register_info[i] = s
        BY <1>13, <3>2 DEF Range
      <4>2. s.callback \in Fn /\ s.nth \in Nat /\ ~(s.callback = f /\ s.nth = r.nth)
        BY <1>1, <1>8, <1>9, <3>2, <4>1, Registrations
      <4>3. /\ ~PlacedAs(l, s.callback, s.nth)
            /\ <<l, s.callback>> \in put => made[s.callback] > 1
            /\ <<l, s.callback, s.nth>> \in shield <=> Shielded(l, s, ignore_info)
        BY <1>2, <3>2 DEF ListsInv, ListsAreAsked
      <4>4. <<l, s.callback>> \in put' => made'[s.callback] > 1
        BY <1>2, <1>9, <4>2, <4>3
      <4> QED
        BY <1>4, <1>10, <4>2, <4>3, <4>4
    <3> QED
      BY <1>2, <3>1, <3>2
  <2>3. \A s, l : Shielded(l, s, ignore_info)' <=> Shielded(l, s, ignore_info)
    BY <1>2 DEF Shielded
  <2> QED
    BY <1>2, <2>1, <2>2, <2>3 DEF ListsAreAsked
<1>15. NothingShielded'
  BY <1>4, <1>10, <1>11 DEF ListsInv, NothingShielded
<1> QED
  BY <1>1, <1>5, <1>12, <1>14, <1>15 DEF ListsInv

LEMMA ListsExclude ==
    ASSUME ListsInv, NEW m \in Module, NEW e \in Exclusion, plt_hook_exclude(m, e)
    PROVE  ListsInv'
<1>1. TypeOK /\ TypeOK'
  BY TypeExclude DEF ListsInv
<1>2. /\ hook_info_lock = {} /\ hook_info_lock' = {} /\ ignore_info' = ignore_info \cup {e}
      /\ shield' = shield \cup UNION
           {{<<l, r.callback, r.nth>> : l \in {k \in Lib : Shielded(k, r, {e})}} : r \in asked}
      /\ UNCHANGED <<register_info, put, pending, todo, pc, due, made, asked>>
  BY DEF plt_hook_exclude, engine, thread
<1>3. \A l \in Lib, g \in Fn, n \in Nat : PlacedAs(l, g, n)' <=> PlacedAs(l, g, n)
  BY <1>2, PlacedSame
<1>4. LockHeld'
  BY <1>2 DEF ListsInv, LockHeld, Idle
<1>5. asked = Range(register_info)
  BY <1>2 DEF ListsInv, ListsAreAsked
<1>6. \A r \in asked : r.callback \in Fn /\ r.nth \in Nat /\ r.nth \in 1 .. made[r.callback]
  BY <1>1, <1>5, Registrations DEF ListsInv, Numbered, Range
<1>7. \A r, s \in asked : r.callback = s.callback /\ r.nth = s.nth => r = s
  BY <1>5 DEF ListsInv, Numbered, Range
<1>8. \A l, g, n : <<l, g, n>> \in shield' <=>
        \/ <<l, g, n>> \in shield
        \/ l \in Lib /\ \E r \in asked : r.callback = g /\ r.nth = n /\ Shielded(l, r, {e})
  BY <1>2
<1>9. Numbered'
  <2>1. ASSUME NEW l \in Lib, NEW g \in Fn, NEW n \in Nat,
               PlacedAs(l, g, n)' \/ <<l, g, n>> \in shield'
        PROVE  n \in 1 .. made'[g]
    BY <1>2, <1>3, <1>6, <1>8, <2>1 DEF ListsInv, Numbered
  <2> QED
    BY <1>2, <2>1 DEF ListsInv, Numbered
<1>10. ListsAreAsked'
  <2>1. ASSUME NEW s \in asked, NEW l \in Lib
        PROVE  /\ ~PlacedAs(l, s.callback, s.nth)'
               /\ <<l, s.callback>> \in put' => made'[s.callback] > 1
               /\ <<l, s.callback, s.nth>> \in shield' <=> Shielded(l, s, ignore_info')
    <3>1. /\ ~PlacedAs(l, s.callback, s.nth)
          /\ <<l, s.callback>> \in put => made[s.callback] > 1
          /\ <<l, s.callback, s.nth>> \in shield <=> Shielded(l, s, ignore_info)
      BY <1>2 DEF ListsInv, ListsAreAsked
    <3>2. Shielded(l, s, ignore_info') <=> Shielded(l, s, ignore_info) \/ Shielded(l, s, {e})
      BY <1>2 DEF Shielded
    <3>3. <<l, s.callback, s.nth>> \in shield' <=>
            <<l, s.callback, s.nth>> \in shield \/ Shielded(l, s, {e})
      <4>1. <<l, s.callback, s.nth>> \in shield' <=>
              \/ <<l, s.callback, s.nth>> \in shield
              \/ \E r \in asked : r.callback = s.callback /\ r.nth = s.nth /\ Shielded(l, r, {e})
        BY <1>8
      <4>2. \A r \in asked : r.callback = s.callback /\ r.nth = s.nth => r = s
        BY <1>7
      <4> QED
        BY <4>1, <4>2
    <3> QED
      BY <1>2, <1>3, <1>6, <3>1, <3>2, <3>3
  <2>2. \A s, l : Shielded(l, s, ignore_info)' <=> Shielded(l, s, ignore_info')
    BY DEF Shielded
  <2>3. asked' = Range(register_info)'
    BY <1>2, <1>5 DEF Range
  <2> QED
    BY <1>2, <2>1, <2>2, <2>3 DEF ListsAreAsked
<1>11. NothingShielded'
  <2>1. ASSUME NEW l \in Lib, NEW g \in Fn, NEW n \in Nat, PlacedAs(l, g, n)'
        PROVE  <<l, g, n>> \notin shield'
    <3>1. PlacedAs(l, g, n) /\ <<l, g, n>> \notin shield
      BY <1>3, <2>1 DEF ListsInv, NothingShielded
    <3>2. \A r \in asked : ~(r.callback = g /\ r.nth = n)
      BY <1>2, <3>1 DEF ListsInv, ListsAreAsked
    <3> QED
      BY <1>8, <3>1, <3>2
  <2> QED
    BY <2>1 DEF NothingShielded
<1> QED
  BY <1>1, <1>4, <1>9, <1>10, <1>11 DEF ListsInv

LEMMA ListsCommit ==
    ASSUME ListsInv, NEW m \in Module, plt_hook_commit(m)
    PROVE  ListsInv'
<1>1. TypeOK /\ TypeOK'
  BY TypeCommit DEF ListsInv
<1>2. /\ hook_info_lock = {} /\ hook_info_lock' = {m} /\ asked' = {} /\ ByExpression(m)
      /\ pc' = [pc EXCEPT ![m] = "register"]
      /\ UNCHANGED <<register_info, ignore_info, put, pending, made, shield>>
      /\ due' = [due EXCEPT ![m] = Due(m)]
  BY DEF plt_hook_commit, engine
<1>3. /\ asked = Range(register_info)
      /\ \A n \in Module : n \notin hook_info_lock /\ (n # m => todo'[n] = {})
      /\ \A c \in todo'[m] :
           /\ register_info[c.place] \in asked
           /\ c.place \in DOMAIN register_info
           /\ c.callback = register_info[c.place].callback
           /\ c.nth = register_info[c.place].nth
           /\ ~Shielded(c.file, register_info[c.place], ignore_info)
      /\ \A l \in Lib, f \in Fn, n \in Nat : PlacedAs(l, f, n)' =>
           \/ PlacedAs(l, f, n)
           \/ \E c \in todo'[m] : c.file = l /\ c.callback = f /\ c.nth = n
  BY Resolving
<1>4. LockHeld'
  <2>1. ASSUME NEW n \in Module PROVE n \in hook_info_lock' <=> pc'[n] = "register"
    BY <1>1, <1>2 DEF ListsInv, LockHeld, TypeOK
  <2>2. ASSUME NEW n \in Module, pc'[n] # "register" PROVE todo'[n] = {}
    BY <1>2, <1>3, <2>1, <2>2
  <2>3. ASSUME NEW n \in Module, ~ByExpression(n) PROVE Idle(n)' /\ due'[n] = {}
    BY <1>1, <1>2, <2>3 DEF ListsInv, LockHeld, TypeOK, Idle
  <2> QED
    BY <1>2, <2>1, <2>2, <2>3 DEF LockHeld, ByExpression
<1>5. \A l \in Lib, f \in Fn, n \in Nat : PlacedAs(l, f, n)' =>
        \/ PlacedAs(l, f, n)
        \/ \E r \in asked : r.callback = f /\ r.nth = n /\ ~Shielded(l, r, ignore_info)
  BY <1>3
<1>6. \A r \in asked : r.nth \in 1 .. made[r.callback]
  BY <1>3 DEF ListsInv, Numbered, Range
<1>7. Numbered'
  BY <1>2, <1>5, <1>6 DEF ListsInv, Numbered
<1>8. ListsAreAsked'
  BY <1>2 DEF ListsAreAsked
<1>9. NothingShielded'
  <2>1. ASSUME NEW l \in Lib, NEW f \in Fn, NEW n \in Nat, PlacedAs(l, f, n)'
        PROVE  <<l, f, n>> \notin shield
    <3>1. CASE PlacedAs(l, f, n)
      BY <3>1 DEF ListsInv, NothingShielded
    <3>2. CASE \E r \in asked : r.callback = f /\ r.nth = n /\ ~Shielded(l, r, ignore_info)
      BY <1>2, <3>2 DEF ListsInv, ListsAreAsked
    <3> QED
      BY <1>5, <2>1, <3>1, <3>2
  <2> QED
    BY <1>2, <2>1 DEF NothingShielded
<1> QED
  BY <1>1, <1>4, <1>7, <1>8, <1>9 DEF ListsInv

LEMMA ListsProcessNext ==
    ASSUME ListsInv, NEW m \in Module, ProcessNext(m)
    PROVE  ListsInv'
<1>1. TypeOK /\ TypeOK' /\ LockHeld
  BY TypeProcessNext DEF ListsInv
<1>2. /\ m \in hook_info_lock
      /\ \A l \in Lib, f \in Fn, n \in Nat : PlacedAs(l, f, n)' <=> PlacedAs(l, f, n)
  BY <1>1, NextCall
<1>3. UNCHANGED <<register_info, ignore_info, hook_info_lock, pc, made, put, shield, asked, due>>
  BY DEF ProcessNext, context, ghost
<1>4. LockHeld'
  <2>1. \A n \in Module : n # m => todo'[n] = {}
    BY <1>1, NextCall
  <2>2. pc[m] = "register"
    BY DEF ProcessNext
  <2> QED
    BY <1>1, <1>3, <2>1, <2>2 DEF LockHeld, Idle, ByExpression
<1>5. Numbered'
  BY <1>2, <1>3 DEF ListsInv, Numbered
<1>6. ListsAreAsked'
  BY <1>2, <1>3 DEF ListsInv, ListsAreAsked
<1>7. NothingShielded'
  BY <1>2, <1>3 DEF ListsInv, NothingShielded
<1> QED
  BY <1>1, <1>4, <1>5, <1>6, <1>7 DEF ListsInv

LEMMA ListsRelease ==
    ASSUME ListsInv, NEW m \in Module, Release(m)
    PROVE  ListsInv'
<1>1. TypeOK /\ TypeOK' /\ LockHeld
  BY TypeRelease DEF ListsInv
<1>2. /\ pc[m] = "register" /\ todo[m] = {} /\ pc' = [pc EXCEPT ![m] = "commit"]
      /\ register_info' = <<>> /\ ignore_info' = {} /\ hook_info_lock' = {}
      /\ UNCHANGED <<put, pending, todo, made, shield, asked, due>>
  BY DEF Release, engine, ghost
<1>3. \A l \in Lib, f \in Fn, n \in Nat : PlacedAs(l, f, n)' <=> PlacedAs(l, f, n)
  BY <1>2, PlacedSame
<1>4. m \in hook_info_lock /\ \A n \in hook_info_lock : n = m
  BY <1>1, <1>2 DEF LockHeld
<1>5. LockHeld'
  <2>1. ASSUME NEW n \in Module PROVE pc'[n] # "register" /\ todo'[n] = {}
    BY <1>1, <1>2, <1>4 DEF LockHeld, TypeOK
  <2>2. ASSUME NEW n \in Module, ~ByExpression(n) PROVE Idle(n)' /\ due'[n] = {}
    BY <1>1, <1>2, <2>2 DEF LockHeld, TypeOK, Idle
  <2> QED
    BY <1>2, <2>1, <2>2 DEF LockHeld, ByExpression
<1>6. Numbered'
  BY <1>2, <1>3 DEF ListsInv, Numbered
<1>7. ListsAreAsked'
  <2>1. asked' = {}
    BY <1>2, <1>4 DEF ListsInv, ListsAreAsked
  <2> QED
    BY <1>2, <2>1 DEF ListsAreAsked, Range
<1>8. NothingShielded'
  BY <1>2, <1>3 DEF ListsInv, NothingShielded
<1> QED
  BY <1>1, <1>5, <1>6, <1>7, <1>8 DEF ListsInv

LEMMA ListsRegisterHook ==
    ASSUME ListsInv, NEW m \in Module, NEW l \in Lib, NEW y \in Sym, NEW f \in Fn,
           RegisterHook(m, l, y, f)
    PROVE  ListsInv'
<1>1. TypeOK /\ TypeOK'
  BY TypeRegisterHook DEF ListsInv
<1> DEFINE e == [symbol |-> y, callback |-> f, nth |-> made[f] + 1]
<1>2. /\ made' = [made EXCEPT ![f] = @ + 1]
      /\ pending' = [pending EXCEPT ![l] = Append(@, e)]
      /\ UNCHANGED <<register_info, ignore_info, hook_info_lock, todo, pc, put, shield, asked, due>>
  BY DEF RegisterHook, context, thread
<1>3. e \in Entry /\ e.callback = f /\ e.nth = made[f] + 1
  BY <1>1 DEF Entry, TypeOK
<1> HIDE DEF e
<1>4. \A k \in Lib, g \in Fn, n \in Nat :
        PlacedAs(k, g, n)' <=> PlacedAs(k, g, n) \/ (k = l /\ g = f /\ n = e.nth)
  <2>1. \A k \in Lib, g \in Fn, n \in Nat :
          WaitsAs(k, g, n)' <=> WaitsAs(k, g, n) \/ (k = l /\ g = e.callback /\ n = e.nth)
    BY <1>1, <1>2, <1>3, QueueGrows
  <2>2. \A k \in Lib, g \in Fn, n \in Nat : ComesAs(k, g, n)' <=> ComesAs(k, g, n)
    BY <1>2 DEF ComesAs
  <2> QED
    BY <1>3, <2>1, <2>2 DEF PlacedAs
<1>5. /\ \A g \in Fn : made[g] \in Nat /\ made'[g] = IF g = f THEN made[g] + 1 ELSE made[g]
      /\ \A g \in Fn, n \in Nat : n \in 1 .. made[g] => n \in 1 .. made'[g] /\ ~(g = f /\ n = e.nth)
      /\ e.nth \in 1 .. made'[f] /\ e.nth \in Nat
  BY <1>1, <1>2, <1>3 DEF TypeOK
<1>6. LockHeld'
  BY <1>2 DEF ListsInv, LockHeld, Idle
<1>7. Numbered'
  <2>1. ASSUME NEW k \in Lib, NEW g \in Fn, NEW n \in Nat,
               PlacedAs(k, g, n)' \/ <<k, g, n>> \in shield'
        PROVE  n \in 1 .. made'[g]
    BY <1>2, <1>4, <1>5, <2>1 DEF ListsInv, Numbered
  <2>2. ASSUME NEW k \in Lib, NEW g \in Fn, <<k, g>> \in put' PROVE made'[g] # 0
    <3>1. made[g] # 0
      BY <1>2, <2>2 DEF ListsInv, Numbered
    <3> QED
      BY <1>5, <3>1
  <2>3. ASSUME NEW i \in DOMAIN register_info'
        PROVE  register_info'[i].nth \in 1 .. made'[register_info'[i].callback]
    <3>1. /\ register_info[i].nth \in 1 .. made[register_info[i].callback]
          /\ register_info[i].nth \in Nat /\ register_info[i].callback \in Fn
      BY <1>1, <1>2, Registrations DEF ListsInv, Numbered
    <3> QED
      BY <1>2, <1>5, <3>1
  <2> QED
    BY <1>2, <2>1, <2>2, <2>3 DEF ListsInv, Numbered
<1>8. ListsAreAsked'
  <2>1. ASSUME hook_info_lock = {}, NEW r \in asked
        PROVE  r.callback \in Fn /\ r.nth \in Nat /\ ~(r.callback = f /\ r.nth = e.nth)
    <3>1. PICK i \in DOMAIN register_info : register_info[i] = r
      BY <2>1 DEF ListsInv, ListsAreAsked, Range
    <3>2. /\ register_info[i].nth \in 1 .. made[register_info[i].callback]
          /\ register_info[i].nth \in Nat /\ register_info[i].callback \in Fn
      BY <1>1, Registrations DEF ListsInv, Numbered
    <3> QED
      BY <1>5, <3>1, <3>2
  <2>2. ASSUME hook_info_lock = {}, NEW r \in asked, NEW k \in Lib
        PROVE  /\ ~PlacedAs(k, r.callback, r.nth)'
               /\ <<k, r.callback>> \in put' => made'[r.callback] > 1
               /\ <<k, r.callback, r.nth>> \in shield' <=> Shielded(k, r, ignore_info)
    <3>1. /\ ~PlacedAs(k, r.callback, r.nth)
          /\ <<k, r.callback>> \in put => made[r.callback] > 1
          /\ <<k, r.callback, r.nth>> \in shield <=> Shielded(k, r, ignore_info)
      BY <2>2 DEF ListsInv, ListsAreAsked
    <3> QED
      BY <1>2, <1>4, <1>5, <2>1, <2>2, <3>1
  <2>3. \A r, k : Shielded(k, r, ignore_info)' <=> Shielded(k, r, ignore_info)
    BY <1>2 DEF Shielded
  <2>4. Range(register_info)' = Range(register_info)
    BY <1>2
  <2> QED
    BY <1>2, <2>2, <2>3, <2>4 DEF ListsInv, ListsAreAsked
<1>9. NothingShielded'
  <2>1. ASSUME NEW k \in Lib, NEW g \in Fn, NEW n \in Nat, PlacedAs(k, g, n)'
        PROVE  <<k, g, n>> \notin shield
    <3>1. CASE PlacedAs(k, g, n)
      BY <3>1 DEF ListsInv, NothingShielded
    <3>2. CASE g = f /\ n = e.nth
      BY <1>5, <3>2 DEF ListsInv, Numbered
    <3> QED
      BY <1>4, <2>1, <3>1, <3>2
  <2> QED
    BY <1>2, <2>1 DEF NothingShielded
<1> QED
  BY <1>1, <1>6, <1>7, <1>8, <1>9 DEF ListsInv

LEMMA ListsCommitHook ==
    ASSUME ListsInv, NEW m \in Module, CommitHook(m)
    PROVE  ListsInv'
<1>1. TypeOK /\ TypeOK' /\ LockHeld
  BY TypeCommitHook DEF ListsInv
<1>2. /\ pc[m] = "commit" \/ (~ByExpression(m) /\ Idle(m))
      /\ pc' = [pc EXCEPT ![m] = "idle"]
      /\ due' = [n \in Module |-> IF n # m /\ ~Idle(n) THEN {} ELSE due[n]]
      /\ UNCHANGED <<register_info, ignore_info, hook_info_lock, todo, made, shield, asked>>
      /\ \/ UNCHANGED <<pending, put>>
         \/ \E done \in SUBSET mapped : Commits(m, done)
  BY <1>1, CommitHookIs DEF context, engine
<1>3. /\ \A l \in Lib, f \in Fn, n \in Nat : PlacedAs(l, f, n)' => PlacedAs(l, f, n)
      /\ \A l \in Lib, f \in Fn : <<l, f>> \in put' => <<l, f>> \in put \/ Waits(l, f)
  <2>1. CASE UNCHANGED <<pending, put>>
    BY <1>2, <2>1, PlacedSame
  <2>2. CASE \E done \in SUBSET mapped : Commits(m, done)
    BY <1>1, <1>2, <2>2, Committed, HitIs
  <2> QED
    BY <1>2, <2>1, <2>2
<1>4. LockHeld'
  <2>1. ASSUME NEW n \in Module PROVE pc'[n] = "register" <=> pc[n] = "register"
    BY <1>1, <1>2 DEF TypeOK, Idle
  <2>2. ASSUME NEW n \in Module, ~ByExpression(n) PROVE Idle(n)' /\ due'[n] = {}
    BY <1>1, <1>2, <2>2 DEF LockHeld, TypeOK, Idle
  <2> QED
    BY <1>1, <1>2, <2>1, <2>2 DEF LockHeld, ByExpression
<1>5. \* A callback that waits does so by one of its registrations.
      ASSUME NEW l \in Lib, NEW f \in Fn, Waits(l, f)
      PROVE  \E n \in Nat : PlacedAs(l, f, n) /\ n \in 1 .. made[f]
  <2>1. PICK n \in Nat : PlacedAs(l, f, n)
    BY <1>1, <1>5, WaitsIs DEF PlacedAs
  <2> QED
    BY <2>1 DEF ListsInv, Numbered
<1>6. Numbered'
  <2>1. ASSUME NEW l \in Lib, NEW f \in Fn, <<l, f>> \in put' PROVE made[f] # 0
    <3>1. CASE <<l, f>> \in put
      BY <3>1 DEF ListsInv, Numbered
    <3>2. CASE Waits(l, f)
      BY <1>1, <1>5, <3>2 DEF TypeOK
    <3> QED
      BY <1>3, <2>1, <3>1, <3>2
  <2> QED
    BY <1>2, <1>3, <2>1 DEF ListsInv, Numbered
<1>7. ListsAreAsked'
  <2>1. ASSUME hook_info_lock = {}, NEW r \in asked, NEW l \in Lib
        PROVE  /\ ~PlacedAs(l, r.callback, r.nth)'
               /\ <<l, r.callback>> \in put' => made[r.callback] > 1
               /\ <<l, r.callback, r.nth>> \in shield <=> Shielded(l, r, ignore_info)
    <3>1. /\ ~PlacedAs(l, r.callback, r.nth) /\ r.callback \in Fn /\ r.nth \in Nat
          /\ <<l, r.callback>> \in put => made[r.callback] > 1
          /\ <<l, r.callback, r.nth>> \in shield <=> Shielded(l, r, ignore_info)
      BY <1>1, <2>1, Registrations DEF ListsInv, ListsAreAsked
    <3>2. r.nth \in 1 .. made[r.callback]
      BY <2>1 DEF ListsInv, ListsAreAsked, Numbered, Range
    <3>3. Waits(l, r.callback) => made[r.callback] > 1
      <4> SUFFICES ASSUME Waits(l, r.callback) PROVE made[r.callback] > 1
        OBVIOUS
      <4>1. PICK n \in Nat : PlacedAs(l, r.callback, n) /\ n \in 1 .. made[r.callback]
        BY <1>5, <3>1
      <4>2. n # r.nth /\ made[r.callback] \in Nat
        BY <1>1, <3>1, <4>1 DEF TypeOK
      <4> QED
        BY <3>1, <3>2, <4>1, <4>2
    <3> QED
      BY <1>3, <3>1, <3>3
  <2>2. \A r, l : Shielded(l, r, ignore_info)' <=> Shielded(l, r, ignore_info)
    BY <1>2 DEF Shielded
  <2>3. Range(register_info)' = Range(register_info)
    BY <1>2
  <2> QED
    BY <1>2, <2>1, <2>2, <2>3 DEF ListsInv, ListsAreAsked
<1>8. NothingShielded'
  BY <1>2, <1>3 DEF ListsInv, NothingShielded
<1> QED
  BY <1>1, <1>4, <1>6, <1>7, <1>8 DEF ListsInv

LEMMA ListsSame ==
    ASSUME Numbered, ListsAreAsked, NothingShielded,
           UNCHANGED <<register_info, ignore_info, hook_info_lock, todo, pending, made, put,
                       shield, asked>>
    PROVE  Numbered' /\ ListsAreAsked' /\ NothingShielded'
<1>1. \A l \in Lib, f \in Fn, n \in Nat : PlacedAs(l, f, n)' <=> PlacedAs(l, f, n)
  BY PlacedSame
<1>2. \A r, l : PlacedAs(l, r.callback, r.nth)' <=> PlacedAs(l, r.callback, r.nth)
  BY DEF PlacedAs, WaitsAs, ComesAs
<1>3. \A r, l : Shielded(l, r, ignore_info)' <=> Shielded(l, r, ignore_info)
  BY DEF Shielded
<1>4. Range(register_info)' = Range(register_info)
  OBVIOUS
<1>5. Numbered'
  BY <1>1 DEF Numbered
<1>6. ListsAreAsked'
  BY <1>2, <1>3, <1>4 DEF ListsAreAsked
<1>7. NothingShielded'
  BY <1>1 DEF NothingShielded
<1> QED
  BY <1>5, <1>6, <1>7

LEMMA ListsDlopen ==
    ASSUME ListsInv, NEW l \in Lib, Dlopen(l)
    PROVE  ListsInv'
<1>1. TypeOK'
  BY TypeDlopen DEF ListsInv
<1>2. UNCHANGED <<context, engine, thread, ghost>>
  BY DEF Dlopen
<1>3. LockHeld'
  BY <1>2 DEF ListsInv, LockHeld, Idle, context, thread, ghost
<1>4. Numbered' /\ ListsAreAsked' /\ NothingShielded'
  BY <1>2, ListsSame DEF ListsInv, context, engine, thread, ghost
<1> QED
  BY <1>1, <1>3, <1>4 DEF ListsInv

LEMMA ListsStep == ListsInv /\ [Next]_vars => ListsInv'
<1> SUFFICES ASSUME ListsInv, [Next]_vars PROVE ListsInv'
  OBVIOUS
<1>1. CASE UNCHANGED vars
  <2>1. UNCHANGED <<context, engine, thread, ghost, mapped>>
    BY <1>1 DEF vars
  <2>2. TypeOK'
    BY <1>1, TypeStep DEF ListsInv
  <2>3. LockHeld'
    BY <2>1 DEF ListsInv, LockHeld, Idle, context, thread, ghost
  <2>4. Numbered' /\ ListsAreAsked' /\ NothingShielded'
    BY <2>1, ListsSame DEF ListsInv, context, engine, thread, ghost
  <2> QED
    BY <2>2, <2>3, <2>4 DEF ListsInv
<1> QED
  BY <1>1, ListsRegister, ListsExclude, ListsCommit, ListsProcessNext, ListsRelease,
     ListsRegisterHook, ListsCommitHook, ListsDlopen DEF Next

\* The lists and what is on its way from them agree in every reachable state,
\* however often a callback is registered.
THEOREM ListsCorrect == Spec => []ListsInv
<1>1. Init => ListsInv
  BY ListsInit
<1>2. ListsInv /\ [Next]_vars => ListsInv'
  BY ListsStep
<1> QED
  BY <1>1, <1>2, PTL DEF Spec

\* module.cpp:302-307: no registration by expression ever gets to LSPlt for a
\* library that was excluded in time.
THEOREM ExclusionsHoldCorrect == Spec => []ExclusionsHold
<1>1. ListsInv => ExclusionsHold
  <2> SUFFICES ASSUME ListsInv, NEW l \in Lib, NEW i \in DOMAIN pending[l]
               PROVE  <<l, pending[l][i].callback, pending[l][i].nth>> \notin shield
    BY DEF ExclusionsHold
  <2>1. pending[l][i].callback \in Fn /\ pending[l][i].nth \in Nat
    BY Places DEF ListsInv
  <2>2. PlacedAs(l, pending[l][i].callback, pending[l][i].nth)
    BY DEF PlacedAs, WaitsAs
  <2> QED
    BY <2>1, <2>2 DEF ListsInv, NothingShielded
<1> QED
  BY <1>1, ListsCorrect, PTL

\* As long as no callback has been registered twice, a callback that the lists
\* ask for is nowhere yet, and is asked for once.
LEMMA OnceLists ==
    ASSUME ListsInv, Once
    PROVE  /\ \A l \in Lib, f \in Fn : Placed(l, f) => made[f] # 0
           /\ \A i \in DOMAIN register_info : made[register_info[i].callback] # 0
           /\ \A i, j \in DOMAIN register_info :
                register_info[i].callback = register_info[j].callback => i = j
           /\ hook_info_lock = {} =>
                /\ asked = Range(register_info)
                /\ \A r \in asked, l \in Lib :
                     /\ ~Placed(l, r.callback)
                     /\ <<l, r.callback, r.nth>> \in shield <=> Shielded(l, r, ignore_info)
<1>1. TypeOK /\ Numbered
  BY DEF ListsInv
<1>2. \A f \in Fn : made[f] \in Nat /\ made[f] <= 1
  BY <1>1 DEF Once, TypeOK
<1>3. \A f \in Fn, n \in Nat : n \in 1 .. made[f] => n = 1 /\ made[f] # 0
  BY <1>2
<1>4. ASSUME NEW l \in Lib, NEW f \in Fn, Waits(l, f) \/ Comes(l, f)
      PROVE  PlacedAs(l, f, 1) /\ made[f] # 0
  <2>1. PICK n \in Nat : PlacedAs(l, f, n)
    BY <1>1, <1>4, WaitsIs DEF PlacedAs
  <2>2. n \in 1 .. made[f]
    BY <1>1, <2>1 DEF Numbered
  <2> QED
    BY <1>3, <2>1, <2>2
<1>5. \A l \in Lib, f \in Fn : Placed(l, f) => made[f] # 0
  BY <1>1, <1>4 DEF Placed, Numbered
<1>6. ASSUME NEW i \in DOMAIN register_info
      PROVE  register_info[i].nth = 1 /\ made[register_info[i].callback] # 0
  <2>1. register_info[i].nth \in 1 .. made[register_info[i].callback]
    BY <1>1 DEF Numbered
  <2>2. register_info[i].callback \in Fn /\ register_info[i].nth \in Nat
    BY <1>1, Registrations
  <2> QED
    BY <1>3, <2>1, <2>2
<1>7. \A i, j \in DOMAIN register_info :
        register_info[i].callback = register_info[j].callback => i = j
  BY <1>1, <1>6 DEF Numbered
<1>8. ASSUME hook_info_lock = {}
      PROVE  /\ asked = Range(register_info)
             /\ \A r \in asked, l \in Lib :
                  /\ ~Placed(l, r.callback)
                  /\ <<l, r.callback, r.nth>> \in shield <=> Shielded(l, r, ignore_info)
  <2>1. asked = Range(register_info)
    BY <1>8 DEF ListsInv, ListsAreAsked
  <2>2. ASSUME NEW r \in asked, NEW l \in Lib
        PROVE  /\ ~Placed(l, r.callback)
               /\ <<l, r.callback, r.nth>> \in shield <=> Shielded(l, r, ignore_info)
    <3>1. r.nth = 1 /\ r.callback \in Fn
      BY <1>1, <1>6, <2>1, Registrations DEF Range
    <3>2. /\ ~PlacedAs(l, r.callback, r.nth)
          /\ <<l, r.callback>> \in put => made[r.callback] > 1
          /\ <<l, r.callback, r.nth>> \in shield <=> Shielded(l, r, ignore_info)
      BY <1>8 DEF ListsInv, ListsAreAsked
    <3>3. <<l, r.callback>> \notin put
      BY <1>2, <3>1, <3>2
    <3> QED
      BY <1>4, <3>1, <3>2, <3>3 DEF Placed
  <2> QED
    BY <2>1, <2>2
<1> QED
  BY <1>5, <1>6, <1>7, <1>8

---------------------------------------------------------------------------
LEMMA HidesGrows ==
    ASSUME put \subseteq put', NEW f, Hides(f)
    PROVE  Hides(f)'
  BY DEF Hides

\* Some parts of OrderInv depend on some variables only.
LEMMA OrderedSame ==
    ASSUME NEW rank, NEW sym, NEW bound, Ordered(rank, sym, bound),
           UNCHANGED <<pending, todo, put, backup>>
    PROVE  Ordered(rank, sym, bound)'
  BY DEF Ordered, Placed, Waits, Comes

LEMMA StackedSame ==
    ASSUME NEW rank, NEW sym, Stacked(rank, sym), UNCHANGED <<slot, put, backup>>
    PROVE  Stacked(rank, sym)'
  BY DEF Stacked, Hides

\* Callbacks that are nowhere yet can be given any place in the order, as long
\* as the others keep theirs.
LEMMA Reordered ==
    ASSUME ListsInv,
           NEW rank \in [Fn -> Nat], NEW sym \in [Fn -> Sym \cup {NoSymbol}], NEW bound \in Nat,
           OrderInv(rank, sym, bound),
           NEW rank2 \in [Fn -> Nat], NEW sym2 \in [Fn -> Sym \cup {NoSymbol}], NEW bound2 \in Nat,
           \A l \in Lib, f \in Fn : Placed(l, f) => rank2[f] < bound2 /\ sym2[f] = sym[f],
           \A k, l \in Lib, f, g \in Fn :
             Placed(k, f) /\ Placed(l, g) /\ rank[f] < rank[g] => rank2[f] < rank2[g],
           \A m \in Module : \A d \in due[m] : sym2[d[2].callback] = sym[d[2].callback]
    PROVE  OrderInv(rank2, sym2, bound2)
<1>1. TypeOK
  BY DEF ListsInv
<1>2. put \subseteq Lib \X Fn /\ \A l \in Lib, f \in Fn : <<l, f>> \in put => Placed(l, f)
  BY <1>1 DEF TypeOK, Placed
<1>3. \A l \in Lib : \A i \in DOMAIN pending[l] :
        pending[l][i].callback \in Fn /\ Placed(l, pending[l][i].callback)
  BY <1>1, Places DEF Placed, Waits
<1>4. \A m \in Module : \A c \in todo[m] :
        c.file \in Lib /\ c.callback \in Fn /\ Placed(c.file, c.callback)
  <2>1. ASSUME NEW m \in Module, NEW c \in todo[m] PROVE c.file \in Lib /\ c.callback \in Fn
    BY <1>1 DEF TypeOK, Call
  <2> QED
    BY <2>1 DEF Placed, Comes
<1>5. \A l \in Lib, f \in Fn : Waits(l, f) => Placed(l, f)
  BY DEF Placed
<1>6. \A f \in Fn : backup[f] # Original =>
        backup[f] \in Fn /\ \E l \in Lib : <<l, f>> \in put /\ <<l, backup[f]>> \in put
  BY <1>1 DEF OrderInv, Stacked, TypeOK
<1>7. Ordered(rank2, sym2, bound2)
  <2>1. \A l \in Lib, f \in Fn : Placed(l, f) => rank2[f] < bound2
    OBVIOUS
  <2>2. ASSUME NEW l \in Lib, NEW i \in DOMAIN pending[l]
        PROVE  /\ sym2[pending[l][i].callback] = pending[l][i].symbol
               /\ \A f \in Fn : <<l, f>> \in put => rank2[f] < rank2[pending[l][i].callback]
               /\ \A j \in DOMAIN pending[l] :
                    i < j => rank2[pending[l][i].callback] < rank2[pending[l][j].callback]
    BY <1>2, <1>3 DEF OrderInv, Ordered
  <2>3. ASSUME NEW m \in Module, NEW c \in todo[m]
        PROVE  /\ sym2[c.callback] = c.symbol
               /\ \A f \in Fn : <<c.file, f>> \in put \/ Waits(c.file, f) => rank2[f] < rank2[c.callback]
               /\ \A d \in todo[m] :
                    /\ c.place < d.place => rank2[c.callback] < rank2[d.callback]
                    /\ c.place = d.place => c.callback = d.callback
    BY <1>2, <1>4, <1>5 DEF OrderInv, Ordered
  <2>4. \A f \in Fn : backup[f] # Original => rank2[backup[f]] < rank2[f]
    BY <1>2, <1>6 DEF OrderInv, Ordered
  <2> QED
    BY <2>1, <2>2, <2>3, <2>4 DEF Ordered
<1>8. Stacked(rank2, sym2)
  <2>1. ASSUME NEW l \in Lib, NEW y \in Sym, slot[l][y] # Original
        PROVE  <<l, slot[l][y]>> \in put /\ sym2[slot[l][y]] = y
    <3>1. <<l, slot[l][y]>> \in put /\ sym[slot[l][y]] = y
      BY <2>1 DEF OrderInv, Stacked
    <3> QED
      BY <1>2, <3>1
  <2>2. ASSUME NEW l \in Lib, NEW f \in Fn, <<l, f>> \in put
        PROVE  /\ sym2[f] \in Sym /\ slot[l][sym2[f]] # Original
               /\ f # slot[l][sym2[f]] => rank2[f] < rank2[slot[l][sym2[f]]]
               /\ \/ slot[l][sym2[f]] = f
                  \/ \E g \in Fn : /\ <<l, g>> \in put /\ sym2[g] = sym2[f] /\ rank2[f] < rank2[g]
                                   /\ backup[g] = f \/ Hides(g)
    <3>1. sym2[f] = sym[f]
      BY <1>2, <2>2
    <3>2. /\ sym[f] \in Sym /\ slot[l][sym[f]] # Original
          /\ f # slot[l][sym[f]] => rank[f] < rank[slot[l][sym[f]]]
          /\ \/ slot[l][sym[f]] = f
             \/ \E g \in Fn : /\ <<l, g>> \in put /\ sym[g] = sym[f] /\ rank[f] < rank[g]
                              /\ backup[g] = f \/ Hides(g)
      BY <2>2 DEF OrderInv, Stacked
    <3>3. <<l, slot[l][sym[f]]>> \in put
      BY <3>2 DEF OrderInv, Stacked
    <3> QED
      BY <1>2, <2>2, <3>1, <3>2, <3>3
  <2> QED
    BY <1>6, <2>1, <2>2 DEF Stacked
<1>9. DueComes(sym2)
  BY DEF OrderInv, DueComes
<1> QED
  BY <1>7, <1>8, <1>9 DEF OrderInv

\* As long as no callback has been registered twice, the one that is registered
\* was not before.
LEMMA RegisteredFirst ==
    ASSUME ListsInv, Once', NEW f \in Fn, made' = [made EXCEPT ![f] = @ + 1]
    PROVE  made[f] = 0 /\ made'[f] = 1 /\ \A g \in Fn : g # f => made'[g] = made[g]
<1>1. made \in [Fn -> Nat]
  BY DEF ListsInv, TypeOK
<1>2. made'[f] = made[f] + 1 /\ made'[f] <= 1 /\ made[f] \in Nat
  BY <1>1 DEF Once
<1> QED
  BY <1>1, <1>2

LEMMA OrderRegister ==
    ASSUME ListsInv, NEW rank, NEW sym, NEW bound, OrderInv(rank, sym, bound),
           NEW m \in Module, NEW re \in Regex, NEW y \in Sym, NEW f \in Fn,
           plt_hook_register(m, re, y, f), Once'
    PROVE  OrderInv(rank, sym, bound)'
<1> DEFINE r == [match |-> re, symbol |-> y, callback |-> f, nth |-> made[f] + 1]
<1>1. /\ UNCHANGED <<pending, todo, put, backup, slot, pc, returned, mapped, due>>
      /\ made' = [made EXCEPT ![f] = @ + 1] /\ asked' = asked \cup {r}
  BY DEF plt_hook_register, engine, thread
<1>2. Ordered(rank, sym, bound)' /\ Stacked(rank, sym)'
  BY <1>1, OrderedSame, StackedSame DEF OrderInv
<1>3. r.callback = f
  OBVIOUS
<1>4. made[f] = 0 /\ \A g \in Fn : g # f => made'[g] = made[g]
  BY <1>1, RegisteredFirst
<1> HIDE DEF r
<1>5. \A l, g : (Waits(l, g)' <=> Waits(l, g)) /\ (Comes(l, g)' <=> Comes(l, g))
  BY <1>1 DEF Waits, Comes
<1>6. \A g \in Fn : made[g] # 0 =>
        made'[g] # 0 /\ ((\A s \in asked : s.callback # g) => \A s \in asked' : s.callback # g)
  BY <1>1, <1>3, <1>4
<1>7. \A n \in Module : \A d \in due[n] : d[2].callback \in Fn
  BY DEF ListsInv, TypeOK, Expression
<1>8. DueComes(sym)'
  BY <1>1, <1>5, <1>6, <1>7 DEF OrderInv, DueComes, Idle
<1> QED
  BY <1>2, <1>8 DEF OrderInv

LEMMA OrderExclude ==
    ASSUME ListsInv, NEW rank, NEW sym, NEW bound, OrderInv(rank, sym, bound),
           NEW m \in Module, NEW e \in Exclusion, plt_hook_exclude(m, e)
    PROVE  OrderInv(rank, sym, bound)'
<1>1. UNCHANGED <<pending, todo, put, backup, slot, pc, returned, mapped, due, made, asked>>
  BY DEF plt_hook_exclude, engine, thread
<1>2. Ordered(rank, sym, bound)' /\ Stacked(rank, sym)'
  BY <1>1, OrderedSame, StackedSame DEF OrderInv
<1>3. \A k, f : (Waits(k, f)' <=> Waits(k, f)) /\ (Comes(k, f)' <=> Comes(k, f))
  BY <1>1 DEF Waits, Comes
<1>4. DueComes(sym)'
  BY <1>1, <1>3 DEF OrderInv, DueComes, Idle
<1> QED
  BY <1>2, <1>4 DEF OrderInv

LEMMA OrderDlopen ==
    ASSUME ListsInv, NEW rank, NEW sym, NEW bound, OrderInv(rank, sym, bound),
           NEW l \in Lib, Dlopen(l)
    PROVE  OrderInv(rank, sym, bound)'
<1>1. /\ UNCHANGED <<pending, todo, put, backup, slot, pc, returned, due, made, asked>>
      /\ mapped' = mapped \cup {l}
  BY DEF Dlopen, engine, thread, ghost
<1>2. Ordered(rank, sym, bound)' /\ Stacked(rank, sym)'
  BY <1>1, OrderedSame, StackedSame DEF OrderInv
<1>3. \A k, f : (Waits(k, f)' <=> Waits(k, f)) /\ (Comes(k, f)' <=> Comes(k, f))
  BY <1>1 DEF Waits, Comes
<1>4. DueComes(sym)'
  BY <1>1, <1>3 DEF OrderInv, DueComes, Idle
<1> QED
  BY <1>2, <1>4 DEF OrderInv

LEMMA OrderRelease ==
    ASSUME ListsInv, NEW rank, NEW sym, NEW bound, OrderInv(rank, sym, bound),
           NEW m \in Module, Release(m)
    PROVE  OrderInv(rank, sym, bound)'
<1>1. /\ UNCHANGED <<pending, todo, put, backup, slot, returned, due, made, asked, mapped>>
      /\ pc[m] = "register" /\ todo[m] = {} /\ pc' = [pc EXCEPT ![m] = "commit"]
  BY DEF Release, engine, ghost
<1>2. Ordered(rank, sym, bound)' /\ Stacked(rank, sym)'
  BY <1>1, OrderedSame, StackedSame DEF OrderInv
<1>3. \A n \in Module : todo[n] = {}
  BY <1>1 DEF ListsInv, LockHeld
<1>4. \A l, f : ~Comes(l, f)
  BY <1>3 DEF Comes
<1>5. pc'[m] = "commit" /\ \A n \in Module : n # m => pc'[n] = pc[n]
  BY <1>1 DEF ListsInv, TypeOK
<1>6. \A l, f : (Waits(l, f)' <=> Waits(l, f)) /\ (Comes(l, f)' <=> Comes(l, f))
  BY <1>1 DEF Waits, Comes
<1>7. DueComes(sym)'
  <2> SUFFICES ASSUME NEW n \in Module, NEW d \in due[n]
               PROVE  /\ d[1] \in mapped /\ sym[d[2].callback] = d[2].symbol
                      /\ made[d[2].callback] # 0 /\ \A r \in asked : r.callback # d[2].callback
                      /\ pc'[n] = "register" /\ ~Fails("maps") =>
                           Waits(d[1], d[2].callback) \/ Comes(d[1], d[2].callback)
                      /\ pc'[n] = "commit" /\ ~Fails("maps") => Waits(d[1], d[2].callback)
                      /\ pc'[n] = "idle" /\ returned[n] /\ ~Fails("maps")
                         /\ <<d[1], d[2].symbol>> \in Found => <<d[1], d[2].callback>> \in put
    BY <1>1, <1>6 DEF DueComes, Idle
  <2>1. /\ d[1] \in mapped /\ sym[d[2].callback] = d[2].symbol
        /\ made[d[2].callback] # 0 /\ \A r \in asked : r.callback # d[2].callback
        /\ pc[n] = "register" /\ ~Fails("maps") =>
             Waits(d[1], d[2].callback) \/ Comes(d[1], d[2].callback)
        /\ pc[n] = "commit" /\ ~Fails("maps") => Waits(d[1], d[2].callback)
        /\ pc[n] = "idle" /\ returned[n] /\ ~Fails("maps")
           /\ <<d[1], d[2].symbol>> \in Found => <<d[1], d[2].callback>> \in put
    BY DEF OrderInv, DueComes, Idle
  <2>2. CASE n = m
    BY <1>1, <1>4, <1>5, <2>1, <2>2
  <2>3. CASE n # m
    BY <1>5, <2>1, <2>3
  <2> QED
    BY <2>2, <2>3
<1> QED
  BY <1>2, <1>7 DEF OrderInv

LEMMA OrderProcessNext ==
    ASSUME ListsInv,
           NEW rank \in [Fn -> Nat], NEW sym \in [Fn -> Sym \cup {NoSymbol}], NEW bound \in Nat,
           OrderInv(rank, sym, bound), NEW m \in Module, ProcessNext(m)
    PROVE  OrderInv(rank, sym, bound)'
<1>1. TypeOK /\ LockHeld
  BY DEF ListsInv
<1>2. /\ UNCHANGED <<put, backup, slot, pc, returned, due, made, asked, mapped>>
      /\ pc[m] = "register"
  BY DEF ProcessNext, ghost
<1>3. \A n \in Module : n # m => todo[n] = {} /\ todo'[n] = {}
  BY <1>1, NextCall
<1>4. PICK c \in todo[m] :
        /\ c \in Call /\ c.file \in Lib
        /\ c.place \in Nat /\ c.symbol \in Sym /\ c.callback \in Fn
        /\ [symbol |-> c.symbol, callback |-> c.callback, nth |-> c.nth] \in Entry
        /\ \A d \in todo[m] \ {c} : Precedes(c, d)
        /\ pending' = [pending EXCEPT ![c.file] =
                         Append(@, [symbol |-> c.symbol, callback |-> c.callback, nth |-> c.nth])]
        /\ todo'[m] = todo[m] \ {c}
        /\ \A l \in Lib, f \in Fn :
             /\ Waits(l, f)' <=> Waits(l, f) \/ (l = c.file /\ f = c.callback)
             /\ Comes(l, f)' => Comes(l, f)
             /\ Comes(l, f) => Comes(l, f)' \/ (l = c.file /\ f = c.callback)
             /\ Placed(l, f)' <=> Placed(l, f)
  BY <1>1, NextCall
<1> DEFINE e == [symbol |-> c.symbol, callback |-> c.callback, nth |-> c.nth]
           l == c.file
           n == Len(pending[l])
<1>5. e \in Entry /\ e.symbol = c.symbol /\ e.callback = c.callback
      /\ pending' = [pending EXCEPT ![l] = Append(@, e)] /\ l \in Lib
  BY <1>4
<1>6. n \in Nat /\ DOMAIN pending[l] = 1 .. n
  BY <1>1, <1>5, Places
<1>7. /\ DOMAIN pending'[l] = 1 .. n + 1
      /\ \A i \in DOMAIN pending[l] : pending'[l][i] = pending[l][i]
      /\ pending'[l][n + 1] = e
      /\ \A k \in Lib : k # l => pending'[k] = pending[k]
  <2> HIDE DEF e, l
  <2> QED
    BY <1>1, <1>5, QueueGrows
<1> HIDE DEF e, n
<1>8. \A f \in Fn : <<l, f>> \in put \/ Waits(l, f) => rank[f] < rank[c.callback]
  BY <1>4 DEF OrderInv, Ordered
<1>9. sym[c.callback] = c.symbol
  BY <1>4 DEF OrderInv, Ordered
<1>10. Ordered(rank, sym, bound)'
  <2>1. \A k \in Lib, f \in Fn : Placed(k, f)' => rank[f] < bound
    BY <1>4 DEF OrderInv, Ordered
  <2>2. ASSUME NEW k \in Lib, NEW i \in DOMAIN pending'[k]
        PROVE  /\ sym[pending'[k][i].callback] = pending'[k][i].symbol
               /\ \A f \in Fn : <<k, f>> \in put' => rank[f] < rank[pending'[k][i].callback]
               /\ \A j \in DOMAIN pending'[k] :
                    i < j => rank[pending'[k][i].callback] < rank[pending'[k][j].callback]
    <3>1. CASE k # l
      BY <1>2, <1>7, <3>1 DEF OrderInv, Ordered
    <3>2. CASE k = l /\ i = n + 1
      BY <1>2, <1>5, <1>6, <1>7, <1>8, <1>9, <3>2
    <3>3. CASE k = l /\ i # n + 1
      <4>1. i \in DOMAIN pending[l] /\ pending'[l][i] = pending[l][i]
        BY <1>6, <1>7, <3>3
      <4>2. /\ sym[pending[l][i].callback] = pending[l][i].symbol
            /\ \A f \in Fn : <<l, f>> \in put => rank[f] < rank[pending[l][i].callback]
            /\ \A j \in DOMAIN pending[l] :
                 i < j => rank[pending[l][i].callback] < rank[pending[l][j].callback]
        BY <1>5, <4>1 DEF OrderInv, Ordered
      <4>3. rank[pending[l][i].callback] < rank[c.callback]
        <5>1. pending[l][i].callback \in Fn /\ Waits(l, pending[l][i].callback)
          BY <1>1, <1>5, <4>1, Places DEF Waits
        <5> QED
          BY <1>8, <5>1
      <4>4. \A j \in DOMAIN pending'[l] : j \in DOMAIN pending[l] \/ j = n + 1
        BY <1>6, <1>7
      <4>5. ASSUME NEW j \in DOMAIN pending'[l], i < j
            PROVE  rank[pending[l][i].callback] < rank[pending'[l][j].callback]
        BY <1>5, <1>7, <4>2, <4>3, <4>4, <4>5
      <4> QED
        BY <1>2, <3>3, <4>1, <4>2, <4>5
    <3> QED
      BY <3>1, <3>2, <3>3
  <2>3. ASSUME NEW b \in Module, NEW d \in todo'[b]
        PROVE  /\ sym[d.callback] = d.symbol
               /\ \A f \in Fn : <<d.file, f>> \in put' \/ Waits(d.file, f)' => rank[f] < rank[d.callback]
               /\ \A d2 \in todo'[b] :
                    /\ d.place < d2.place => rank[d.callback] < rank[d2.callback]
                    /\ d.place = d2.place => d.callback = d2.callback
    <3>1. b = m /\ d \in todo[m] /\ d # c /\ d.file \in Lib /\ d.place \in Nat
      BY <1>1, <1>3, <1>4 DEF TypeOK, Call
    <3>2. /\ sym[d.callback] = d.symbol
          /\ \A f \in Fn : <<d.file, f>> \in put \/ Waits(d.file, f) => rank[f] < rank[d.callback]
          /\ \A d2 \in todo[m] :
               /\ d.place < d2.place => rank[d.callback] < rank[d2.callback]
               /\ d.place = d2.place => d.callback = d2.callback
      BY <3>1 DEF OrderInv, Ordered
    <3>3. d.file = l => rank[c.callback] < rank[d.callback]
      <4> SUFFICES ASSUME d.file = l PROVE rank[c.callback] < rank[d.callback]
        OBVIOUS
      <4>1. Precedes(c, d)
        BY <1>4, <3>1
      <4>2. l \in Nat
        BY <1>5, ApiAssumption
      <4>3. c.place < d.place
        BY <4>1, <4>2 DEF Precedes
      <4> QED
        BY <1>4, <3>1, <4>3 DEF OrderInv, Ordered
    <3>4. \A f \in Fn : Waits(d.file, f)' => Waits(d.file, f) \/ (d.file = l /\ f = c.callback)
      BY <1>4, <3>1
    <3>5. todo'[b] \subseteq todo[m]
      BY <1>4, <3>1
    <3> QED
      BY <1>2, <3>2, <3>3, <3>4, <3>5
  <2>4. \A f \in Fn : backup'[f] # Original => rank[backup'[f]] < rank[f]
    BY <1>2 DEF OrderInv, Ordered
  <2> QED
    BY <2>1, <2>2, <2>3, <2>4 DEF Ordered
<1>11. Stacked(rank, sym)'
  BY <1>2, StackedSame DEF OrderInv
<1>12. DueComes(sym)'
  <2> SUFFICES ASSUME NEW b \in Module, NEW d \in due[b]
               PROVE  /\ d[1] \in mapped /\ sym[d[2].callback] = d[2].symbol
                      /\ made[d[2].callback] # 0 /\ \A r \in asked : r.callback # d[2].callback
                      /\ pc[b] = "register" /\ ~Fails("maps") =>
                           Waits(d[1], d[2].callback)' \/ Comes(d[1], d[2].callback)'
                      /\ pc[b] = "commit" /\ ~Fails("maps") => Waits(d[1], d[2].callback)'
                      /\ pc[b] = "idle" /\ returned[b] /\ ~Fails("maps")
                         /\ <<d[1], d[2].symbol>> \in Found => <<d[1], d[2].callback>> \in put
    BY <1>2 DEF DueComes, Idle
  <2>1. d[1] \in Lib /\ d[2].callback \in Fn
    BY <1>1 DEF TypeOK, Expression
  <2>2. \A f \in Fn : Waits(d[1], f) \/ Comes(d[1], f) => Waits(d[1], f)' \/ Comes(d[1], f)'
    BY <1>4, <2>1
  <2>3. \A f \in Fn : Waits(d[1], f) => Waits(d[1], f)'
    BY <1>4, <2>1
  <2>4. /\ d[1] \in mapped /\ sym[d[2].callback] = d[2].symbol
        /\ made[d[2].callback] # 0 /\ \A r \in asked : r.callback # d[2].callback
        /\ pc[b] = "register" /\ ~Fails("maps") =>
             Waits(d[1], d[2].callback) \/ Comes(d[1], d[2].callback)
        /\ pc[b] = "commit" /\ ~Fails("maps") => Waits(d[1], d[2].callback)
        /\ pc[b] = "idle" /\ returned[b] /\ ~Fails("maps")
           /\ <<d[1], d[2].symbol>> \in Found => <<d[1], d[2].callback>> \in put
    BY DEF OrderInv, DueComes, Idle
  <2> QED
    BY <2>1, <2>2, <2>3, <2>4
<1> QED
  BY <1>10, <1>11, <1>12 DEF OrderInv

---------------------------------------------------------------------------
\* The commit of LSPlt.  A callback is written once into a library, and what is
\* under it there comes before it in the order.
LEMMA WrittenOnce ==
    ASSUME ListsInv,
           NEW rank \in [Fn -> Nat], NEW sym \in [Fn -> Sym \cup {NoSymbol}], NEW bound \in Nat,
           OrderInv(rank, sym, bound), NEW l \in Lib
    PROVE  /\ \A f \in Fn : ~(<<l, f>> \in put /\ Waits(l, f))
           /\ \A i, j \in DOMAIN pending[l] :
                pending[l][i].callback = pending[l][j].callback => i = j
<1>1. DOMAIN pending[l] \subseteq Nat /\ \A i \in DOMAIN pending[l] : pending[l][i].callback \in Fn
  BY Places DEF ListsInv
<1>2. \A i \in DOMAIN pending[l] :
        /\ \A f \in Fn : <<l, f>> \in put => rank[f] < rank[pending[l][i].callback]
        /\ \A j \in DOMAIN pending[l] :
             i < j => rank[pending[l][i].callback] < rank[pending[l][j].callback]
  BY DEF OrderInv, Ordered
<1>3. \A f \in Fn : ~(rank[f] < rank[f])
  OBVIOUS
<1>4. \A i, j \in DOMAIN pending[l] : i < j \/ j < i \/ i = j
  BY <1>1
<1>5. \A f \in Fn : ~(<<l, f>> \in put /\ Waits(l, f))
  BY <1>2, <1>3 DEF Waits
<1>6. ASSUME NEW i \in DOMAIN pending[l], NEW j \in DOMAIN pending[l],
             pending[l][i].callback = pending[l][j].callback
      PROVE  i = j
  BY <1>1, <1>2, <1>3, <1>4, <1>6
<1> QED
  BY <1>5, <1>6

LEMMA UnderLower ==
    ASSUME ListsInv,
           NEW rank \in [Fn -> Nat], NEW sym \in [Fn -> Sym \cup {NoSymbol}], NEW bound \in Nat,
           OrderInv(rank, sym, bound), NEW l \in Lib, NEW i \in DOMAIN pending[l],
           Under(l, i) # Original
    PROVE  /\ Under(l, i) \in Fn
           /\ i \in Hits(l) => <<l, Under(l, i)>> \in put \/ Hooks(l, Under(l, i))
           /\ rank[Under(l, i)] < rank[pending[l][i].callback]
<1>1. TypeOK
  BY DEF ListsInv
<1>2. /\ pending[l][i].symbol \in Sym /\ pending[l][i].callback \in Fn
      /\ \A j \in DOMAIN pending[l] : pending[l][j].callback \in Fn
  BY <1>1, Places
<1>3. CASE Under(l, i) = slot[l][pending[l][i].symbol]
  <2>1. Under(l, i) \in Fn
    BY <1>1, <1>2, <1>3 DEF TypeOK
  <2>2. <<l, Under(l, i)>> \in put
    BY <1>2, <1>3 DEF OrderInv, Stacked
  <2> QED
    BY <2>1, <2>2 DEF OrderInv, Ordered
<1>4. CASE \E j \in DOMAIN pending[l] :
             j < i /\ pending[l][j].symbol = pending[l][i].symbol /\ Under(l, i) = pending[l][j].callback
  <2>1. PICK j \in DOMAIN pending[l] :
          j < i /\ pending[l][j].symbol = pending[l][i].symbol /\ Under(l, i) = pending[l][j].callback
    BY <1>4
  <2>2. Under(l, i) \in Fn
    BY <1>2, <2>1
  <2>3. i \in Hits(l) => j \in Hits(l)
    BY <2>1, HitIs
  <2> QED
    BY <2>1, <2>2, <2>3 DEF OrderInv, Ordered, Hooks
<1> QED
  BY <1>1, <1>3, <1>4, UnderIs

LEMMA UnderNotSelf ==
    ASSUME ListsInv,
           NEW rank \in [Fn -> Nat], NEW sym \in [Fn -> Sym \cup {NoSymbol}], NEW bound \in Nat,
           OrderInv(rank, sym, bound), NEW l \in Lib, NEW i \in DOMAIN pending[l]
    PROVE  Under(l, i) # pending[l][i].callback
<1> SUFFICES ASSUME Under(l, i) = pending[l][i].callback PROVE FALSE
  OBVIOUS
<1>1. pending[l][i].callback \in Fn
  BY Places DEF ListsInv
<1>2. Under(l, i) # Original
  BY <1>1, ApiAssumption
<1>3. rank[Under(l, i)] < rank[pending[l][i].callback] /\ Under(l, i) \in Fn
  BY <1>2, UnderLower
<1> QED
  BY <1>3

\* A callback that was written calls on to what is under it, and one that was
\* not to what it did; or it was written into another library as well.
LEMMA SavedIn ==
    ASSUME ListsInv,
           NEW rank \in [Fn -> Nat], NEW sym \in [Fn -> Sym \cup {NoSymbol}], NEW bound \in Nat,
           OrderInv(rank, sym, bound),
           NEW m \in Module, NEW done \in SUBSET mapped, Commits(m, done), UNCHANGED todo,
           NEW l \in done, NEW i \in Hits(l), NEW f \in Fn, pending[l][i].callback = f
    PROVE  backup'[f] = Under(l, i) \/ Hides(f)'
<1>1. TypeOK
  BY DEF ListsInv
<1>2. l \in Lib /\ done \in SUBSET Lib
  BY <1>1 DEF TypeOK
<1>3. i \in DOMAIN pending[l] /\ Under(l, i) # f
  BY <1>2, UnderNotSelf, HitIs
<1>4. backup'[f] = Saved(f, done)
  BY DEF Commits
<1>5. PICK k \in done : \E j \in Hits(k) :
        pending[k][j].callback = f /\ Saved(f, done) = Under(k, j)
  <2>1. \/ \A k \in done : \A j \in Hits(k) :
              pending[k][j].callback = f => Under(k, j) = f
        \/ \E k \in done : \E j \in Hits(k) :
              pending[k][j].callback = f /\ Saved(f, done) = Under(k, j)
    BY <1>1, <1>2, <1>3, SavedIs
  <2> QED
    BY <1>3, <2>1
<1>6. PICK j \in Hits(k) : pending[k][j].callback = f /\ Saved(f, done) = Under(k, j)
  BY <1>5
<1>7. CASE k = l
  <2>1. j = i
    BY <1>2, <1>3, <1>6, <1>7, WrittenOnce, HitIs
  <2> QED
    BY <1>4, <1>6, <1>7, <2>1
<1>8. CASE k # l
  <2>1. k \in Lib /\ Hooks(k, f) /\ Hooks(l, f)
    BY <1>2, <1>6 DEF Hooks
  <2>2. <<k, f>> \in put' /\ <<l, f>> \in put'
    BY <1>1, <1>2, <2>1, Committed
  <2>3. Hides(f)'
    BY <1>2, <1>8, <2>1, <2>2 DEF Hides
  <2> QED
    BY <2>3
<1> QED
  BY <1>7, <1>8

LEMMA SavedKept ==
    ASSUME ListsInv,
           NEW rank \in [Fn -> Nat], NEW sym \in [Fn -> Sym \cup {NoSymbol}], NEW bound \in Nat,
           OrderInv(rank, sym, bound),
           NEW m \in Module, NEW done \in SUBSET mapped, Commits(m, done), UNCHANGED todo,
           NEW l \in Lib, NEW g \in Fn, <<l, g>> \in put
    PROVE  backup'[g] = backup[g] \/ Hides(g)'
<1>1. TypeOK
  BY DEF ListsInv
<1>2. done \in SUBSET Lib
  BY <1>1 DEF TypeOK
<1>3. backup'[g] = Saved(g, done)
  BY DEF Commits
<1>4. CASE Saved(g, done) = backup[g]
  BY <1>3, <1>4
<1>5. CASE \E k \in done : \E j \in Hits(k) : pending[k][j].callback = g
  <2>1. PICK k \in done : Hooks(k, g)
    BY <1>5 DEF Hooks
  <2>2. k # l /\ k \in Lib
    BY <1>2, <2>1, WrittenOnce, HitIs
  <2>3. <<k, g>> \in put' /\ <<l, g>> \in put'
    BY <1>1, <2>1, <2>2, Committed
  <2> QED
    BY <2>2, <2>3 DEF Hides
<1> QED
  BY <1>1, <1>2, <1>4, <1>5, SavedIs

LEMMA OrderedCommitHook ==
    ASSUME ListsInv,
           NEW rank \in [Fn -> Nat], NEW sym \in [Fn -> Sym \cup {NoSymbol}], NEW bound \in Nat,
           OrderInv(rank, sym, bound),
           NEW m \in Module, NEW done \in SUBSET mapped, Commits(m, done), UNCHANGED todo
    PROVE  Ordered(rank, sym, bound)'
<1>1. TypeOK
  BY DEF ListsInv
<1>2. done \in SUBSET Lib
  BY <1>1 DEF TypeOK
<1>3. \A l \in Lib, f \in Fn :
        /\ Waits(l, f)' <=> Waits(l, f) /\ l \notin mapped
        /\ <<l, f>> \in put' => <<l, f>> \in put \/ (l \in done /\ Waits(l, f))
        /\ Placed(l, f)' => Placed(l, f)
  BY <1>1, Committed, HitIs
<1>4. \A l \in Lib, f \in Fn : Placed(l, f)' => rank[f] < bound
  BY <1>3 DEF OrderInv, Ordered
<1>5. ASSUME NEW l \in Lib, NEW i \in DOMAIN pending'[l]
      PROVE  /\ sym[pending'[l][i].callback] = pending'[l][i].symbol
             /\ \A f \in Fn : <<l, f>> \in put' => rank[f] < rank[pending'[l][i].callback]
             /\ \A j \in DOMAIN pending'[l] :
                  i < j => rank[pending'[l][i].callback] < rank[pending'[l][j].callback]
  <2>1. l \notin mapped /\ pending'[l] = pending[l]
    BY <1>5 DEF Commits
  <2> QED
    BY <1>3, <1>5, <2>1 DEF OrderInv, Ordered
<1>6. ASSUME NEW b \in Module, NEW c \in todo'[b]
      PROVE  /\ sym[c.callback] = c.symbol
             /\ \A f \in Fn : <<c.file, f>> \in put' \/ Waits(c.file, f)' => rank[f] < rank[c.callback]
             /\ \A d \in todo'[b] :
                  /\ c.place < d.place => rank[c.callback] < rank[d.callback]
                  /\ c.place = d.place => c.callback = d.callback
  <2>1. c \in todo[b] /\ c.file \in Lib
    BY <1>1 DEF TypeOK, Call
  <2> QED
    BY <1>3, <2>1 DEF OrderInv, Ordered
<1>7. ASSUME NEW f \in Fn, backup'[f] # Original PROVE rank[backup'[f]] < rank[f]
  <2>1. backup'[f] = Saved(f, done)
    BY DEF Commits
  <2>2. CASE Saved(f, done) = backup[f]
    BY <1>7, <2>1, <2>2 DEF OrderInv, Ordered
  <2>3. CASE \E l \in done : \E i \in Hits(l) :
               pending[l][i].callback = f /\ Saved(f, done) = Under(l, i)
    BY <1>2, <1>7, <2>1, <2>3, UnderLower, HitIs
  <2> QED
    BY <1>1, <1>2, <2>2, <2>3, SavedIs
<1> QED
  BY <1>4, <1>5, <1>6, <1>7 DEF Ordered

LEMMA StackedCommitHook ==
    ASSUME ListsInv,
           NEW rank \in [Fn -> Nat], NEW sym \in [Fn -> Sym \cup {NoSymbol}], NEW bound \in Nat,
           OrderInv(rank, sym, bound),
           NEW m \in Module, NEW done \in SUBSET mapped, Commits(m, done), UNCHANGED todo
    PROVE  Stacked(rank, sym)'
<1>1. TypeOK
  BY DEF ListsInv
<1>2. done \in SUBSET Lib
  BY <1>1 DEF TypeOK
<1>3. \A l \in Lib, f \in Fn :
        <<l, f>> \in put' <=> <<l, f>> \in put \/ (l \in done /\ Hooks(l, f))
  BY <1>1, Committed
<1>4. \A l \in Lib : slot'[l] = IF l \in done THEN [y \in Sym |-> Top(l, y)] ELSE slot[l]
  BY DEF Commits
<1>5. put \subseteq put'
  BY DEF Commits
<1>6. \A l \in Lib : \A i \in DOMAIN pending[l] :
        /\ i \in Nat /\ pending[l][i].callback \in Fn /\ pending[l][i].symbol \in Sym
        /\ i \in Hits(l) => Hooks(l, pending[l][i].callback)
        /\ sym[pending[l][i].callback] = pending[l][i].symbol
        /\ \A f \in Fn : <<l, f>> \in put => rank[f] < rank[pending[l][i].callback]
        /\ \A j \in DOMAIN pending[l] :
             i < j => rank[pending[l][i].callback] < rank[pending[l][j].callback]
  BY <1>1, Places DEF OrderInv, Ordered, Hooks
<1>7. ASSUME NEW l \in Lib, NEW y \in Sym, slot'[l][y] # Original
      PROVE  <<l, slot'[l][y]>> \in put' /\ sym[slot'[l][y]] = y
  <2>1. CASE slot'[l][y] = slot[l][y]
    BY <1>5, <1>7, <2>1 DEF OrderInv, Stacked
  <2>2. CASE l \in done /\ \E t \in Hits(l) :
               pending[l][t].symbol = y /\ slot'[l][y] = pending[l][t].callback
    BY <1>3, <1>6, <2>2, HitIs
  <2>3. slot'[l][y] = IF l \in done THEN Top(l, y) ELSE slot[l][y]
    BY <1>4
  <2> QED
    BY <1>1, <2>1, <2>2, <2>3, TopIs
<1>8. ASSUME NEW f \in Fn, backup'[f] # Original
      PROVE  \E l \in Lib : <<l, f>> \in put' /\ <<l, backup'[f]>> \in put'
  <2>1. backup'[f] = Saved(f, done)
    BY DEF Commits
  <2>2. CASE Saved(f, done) = backup[f]
    BY <1>5, <1>8, <2>1, <2>2 DEF OrderInv, Stacked
  <2>3. CASE \E l \in done : \E i \in Hits(l) :
               pending[l][i].callback = f /\ Saved(f, done) = Under(l, i)
    <3>1. PICK l \in done : \E i \in Hits(l) :
            pending[l][i].callback = f /\ Saved(f, done) = Under(l, i)
      BY <2>3
    <3>2. PICK i \in Hits(l) : pending[l][i].callback = f /\ Saved(f, done) = Under(l, i)
      BY <3>1
    <3>3. l \in Lib /\ i \in DOMAIN pending[l]
      BY <1>2, HitIs
    <3>4. Under(l, i) \in Fn /\ (<<l, Under(l, i)>> \in put \/ Hooks(l, Under(l, i)))
      BY <1>8, <2>1, <3>2, <3>3, UnderLower
    <3> QED
      BY <1>3, <1>6, <2>1, <3>2, <3>3, <3>4
  <2> QED
    BY <1>1, <1>2, <2>2, <2>3, SavedIs
<1>9. \* What was above a written callback is so still.
      ASSUME NEW l \in Lib, NEW f \in Fn, <<l, f>> \in put, slot[l][sym[f]] # f
      PROVE  \E g \in Fn : /\ <<l, g>> \in put' /\ sym[g] = sym[f] /\ rank[f] < rank[g]
                           /\ backup'[g] = f \/ Hides(g)'
  <2>1. PICK g \in Fn : /\ <<l, g>> \in put /\ sym[g] = sym[f] /\ rank[f] < rank[g]
                        /\ backup[g] = f \/ Hides(g)
    BY <1>9 DEF OrderInv, Stacked
  <2>2. backup'[g] = backup[g] \/ Hides(g)'
    BY <2>1, SavedKept
  <2>3. Hides(g) => Hides(g)'
    BY <1>5, HidesGrows
  <2> QED
    BY <1>5, <2>1, <2>2, <2>3
<1>10. ASSUME NEW l \in Lib, NEW f \in Fn, <<l, f>> \in put'
       PROVE  /\ sym[f] \in Sym /\ slot'[l][sym[f]] # Original
              /\ f # slot'[l][sym[f]] => rank[f] < rank[slot'[l][sym[f]]]
              /\ \/ slot'[l][sym[f]] = f
                 \/ \E g \in Fn : /\ <<l, g>> \in put' /\ sym[g] = sym[f] /\ rank[f] < rank[g]
                                  /\ backup'[g] = f \/ Hides(g)'
  <2> DEFINE y == sym[f]
  <2>1. y \in Sym
    BY <1>3, <1>6, <1>10, HitIs DEF OrderInv, Stacked, Hooks
  <2>2. slot'[l][y] = IF l \in done THEN Top(l, y) ELSE slot[l][y]
    BY <1>4, <2>1
  <2>3. CASE slot'[l][y] = slot[l][y] /\ <<l, f>> \in put
    <3>1. slot[l][y] # Original /\ (f # slot[l][y] => rank[f] < rank[slot[l][y]])
      BY <2>3 DEF OrderInv, Stacked
    <3> QED
      BY <1>9, <2>1, <2>3, <3>1
  <2>4. CASE l \in done /\ \E t \in Hits(l) :
               /\ pending[l][t].symbol = y /\ Top(l, y) = pending[l][t].callback
               /\ \A i \in DOMAIN pending[l] : pending[l][i].symbol = y => i \in Hits(l) /\ i <= t
    <3>1. PICK t \in DOMAIN pending[l] :
            /\ pending[l][t].symbol = y /\ Top(l, y) = pending[l][t].callback
            /\ \A i \in DOMAIN pending[l] : pending[l][i].symbol = y => i \in Hits(l) /\ i <= t
      BY <2>4, HitIs
    <3>2. slot'[l][y] = pending[l][t].callback /\ slot'[l][y] \in Fn /\ slot'[l][y] # Original
      BY <1>6, <2>2, <2>4, <3>1, ApiAssumption
    <3>3. \* The first of those above f, whose backup variable has f.
          ASSUME NEW j \in DOMAIN pending[l], pending[l][j].symbol = y, Under(l, j) = f
          PROVE  \E g \in Fn : /\ <<l, g>> \in put' /\ sym[g] = sym[f] /\ rank[f] < rank[g]
                               /\ backup'[g] = f \/ Hides(g)'
      <4>0. PICK g \in Fn : g = pending[l][j].callback
        BY <1>6, <3>3
      <4>1. <<l, g>> \in put' /\ sym[g] = y
        BY <1>3, <1>6, <2>4, <3>1, <3>3, <4>0
      <4>2. rank[f] < rank[g]
        BY <3>3, <4>0, UnderLower, ApiAssumption
      <4>3. backup'[g] = f \/ Hides(g)'
        BY <2>4, <3>1, <3>3, <4>0, SavedIn
      <4> QED
        BY <4>1, <4>2, <4>3
    <3>4. CASE <<l, f>> \in put
      <4>1. rank[f] < rank[slot'[l][y]]
        BY <1>6, <3>1, <3>2, <3>4
      <4>2. CASE slot[l][y] # f
        BY <1>9, <2>1, <3>2, <3>4, <4>1, <4>2
      <4>3. CASE slot[l][y] = f
        <5> DEFINE hits == {i \in DOMAIN pending[l] : pending[l][i].symbol = y}
        <5>1. hits \subseteq Nat /\ hits # {}
          BY <1>6, <3>1
        <5>2. PICK j \in hits : \A k \in hits : j <= k
          BY <5>1, MinExists
        <5>3. j \in DOMAIN pending[l] /\ pending[l][j].symbol = y
          BY <5>2
        <5>4. \A k \in DOMAIN pending[l] : pending[l][k].symbol = y => ~(k < j)
          <6>1. \A k \in DOMAIN pending[l] : pending[l][k].symbol = y => j <= k /\ k \in Nat /\ j \in Nat
            BY <5>1, <5>2
          <6> QED
            BY <6>1
        <5>5. Under(l, j) = f
          BY <1>1, <4>3, <5>3, <5>4, UnderIs
        <5> QED
          BY <2>1, <3>2, <3>3, <4>1, <5>3, <5>5
      <4> QED
        BY <4>2, <4>3
    <3>5. CASE Hooks(l, f)
      <4>1. PICK i \in DOMAIN pending[l] : pending[l][i].callback = f
        BY <3>5, HitIs DEF Hooks
      <4>2. pending[l][i].symbol = y /\ i <= t /\ i \in Nat /\ t \in Nat
        BY <1>6, <3>1, <4>1
      <4>3. CASE i = t
        BY <2>1, <3>2, <4>1, <4>3
      <4>4. CASE i # t
        <5>1. i < t /\ rank[f] < rank[slot'[l][y]]
          <6>1. i < t
            BY <4>2, <4>4
          <6> QED
            BY <1>6, <3>1, <3>2, <4>1, <6>1
        <5> DEFINE hits == {k \in DOMAIN pending[l] : pending[l][k].symbol = y /\ i < k}
        <5>2. hits \subseteq Nat /\ hits # {}
          BY <1>6, <3>1, <5>1
        <5>3. PICK j \in hits : \A k \in hits : j <= k
          <6> HIDE DEF hits
          <6> QED
            BY <5>2, MinExists
        <5>4. j \in DOMAIN pending[l] /\ pending[l][j].symbol = y /\ i < j /\ j \in Nat
          BY <5>2, <5>3
        <5>5. \A k \in DOMAIN pending[l] : pending[l][k].symbol = y => k <= i \/ j <= k
          BY <1>6, <4>2, <5>3
        <5>6. Under(l, j) = f
          <6>1. PICK k \in DOMAIN pending[l] :
                  /\ k < j /\ pending[l][k].symbol = y /\ Under(l, j) = pending[l][k].callback
                  /\ \A n \in DOMAIN pending[l] : pending[l][n].symbol = y => n <= k \/ j <= n
            <7>1. ~(j <= i)
              BY <4>2, <5>4
            <7> QED
              BY <1>1, <4>2, <5>4, <7>1, UnderIs
          <6>2. k = i
            <7>1. k \in Nat
              BY <1>6
            <7>2. k <= i \/ j <= k
              BY <5>5, <6>1
            <7>3. i <= k \/ j <= i
              BY <4>2, <6>1
            <7> QED
              BY <4>2, <5>4, <6>1, <7>1, <7>2, <7>3
          <6> QED
            BY <4>1, <6>1, <6>2
        <5> QED
          BY <2>1, <3>2, <3>3, <5>1, <5>4, <5>6
      <4> QED
        BY <4>3, <4>4
    <3> QED
      BY <1>3, <1>10, <3>4, <3>5
  <2>5. CASE l \in done /\ Top(l, y) = slot[l][y]
             /\ \A i \in Hits(l) : pending[l][i].symbol # y
    <3>1. ~Hooks(l, f)
      BY <1>6, <2>5, HitIs DEF Hooks
    <3> QED
      BY <1>3, <1>10, <2>2, <2>3, <2>5, <3>1
  <2>6. CASE l \notin done
    BY <1>3, <1>10, <2>2, <2>3, <2>6
  <2> HIDE DEF y
  <2>7. l \in done => \/ /\ Top(l, y) = slot[l][y]
                         /\ \A i \in Hits(l) : pending[l][i].symbol # y
                      \/ \E t \in Hits(l) :
                           /\ pending[l][t].symbol = y /\ Top(l, y) = pending[l][t].callback
                           /\ \A i \in DOMAIN pending[l] :
                                pending[l][i].symbol = y => i \in Hits(l) /\ i <= t
    BY <1>1, <2>1, TopIs
  <2> QED
    BY <2>4, <2>5, <2>6, <2>7
<1> QED
  BY <1>7, <1>8, <1>10 DEF Stacked

LEMMA OrderCommitHook ==
    ASSUME ListsInv,
           NEW rank \in [Fn -> Nat], NEW sym \in [Fn -> Sym \cup {NoSymbol}], NEW bound \in Nat,
           OrderInv(rank, sym, bound), NEW m \in Module, CommitHook(m)
    PROVE  OrderInv(rank, sym, bound)'
<1>1. TypeOK /\ LockHeld
  BY DEF ListsInv
<1>2. /\ pc[m] = "commit" \/ (~ByExpression(m) /\ Idle(m))
      /\ pc' = [pc EXCEPT ![m] = "idle"]
      /\ due' = [n \in Module |-> IF n # m /\ ~Idle(n) THEN {} ELSE due[n]]
      /\ UNCHANGED <<todo, mapped, made, asked>>
      /\ \/ UNCHANGED <<pending, slot, backup, put>> /\ returned' = [returned EXCEPT ![m] = Queued = {}]
         \/ \E done \in SUBSET mapped : Commits(m, done)
  BY <1>1, CommitHookIs DEF context, engine
<1>3. Ordered(rank, sym, bound)' /\ Stacked(rank, sym)'
  <2>1. CASE UNCHANGED <<pending, slot, backup, put>>
    BY <1>2, <2>1, OrderedSame, StackedSame DEF OrderInv
  <2>2. CASE \E done \in SUBSET mapped : Commits(m, done)
    BY <1>2, <2>2, OrderedCommitHook, StackedCommitHook
  <2> QED
    BY <1>2, <2>1, <2>2
<1>4. put \subseteq put'
  <2>1. CASE \E done \in SUBSET mapped : Commits(m, done)
    BY <2>1 DEF Commits
  <2> QED
    BY <1>2, <2>1
<1>5. \* What has a slot in a library that is mapped is written if the commit returns true.
      ASSUME returned'[m] = TRUE, NEW l \in mapped, NEW f \in Fn, Hooks(l, f)
      PROVE  <<l, f>> \in put'
  <2>1. l \in Lib /\ l \in Queued /\ Hits(l) # {}
    BY <1>1, <1>5, HitIs DEF TypeOK, Waits, Hooks, Queued
  <2>2. PICK done \in SUBSET mapped : Commits(m, done)
    <3>1. Queued # {}
      BY <2>1
    <3>2. ~(returned' = [returned EXCEPT ![m] = Queued = {}])
      BY <1>1, <1>5, <3>1 DEF TypeOK
    <3> QED
      BY <1>2, <3>2
  <2>3. {k \in mapped : Hits(k) # {}} \subseteq done
    BY <1>1, <1>5, <2>2 DEF Commits, TypeOK
  <2> QED
    BY <1>1, <1>2, <1>5, <2>1, <2>2, <2>3, Committed
<1>6. DueComes(sym)'
  <2> SUFFICES ASSUME NEW n \in Module, NEW d \in due'[n]
               PROVE  /\ d[1] \in mapped /\ sym[d[2].callback] = d[2].symbol
                      /\ made[d[2].callback] # 0 /\ \A r \in asked : r.callback # d[2].callback
                      /\ pc'[n] = "idle"
                      /\ returned'[n] /\ ~Fails("maps") /\ <<d[1], d[2].symbol>> \in Found
                           => <<d[1], d[2].callback>> \in put'
    BY <1>2 DEF DueComes, Idle
  <2>1. d \in due[n] /\ (n = m \/ Idle(n))
    BY <1>2
  <2>2. /\ d[1] \in mapped /\ sym[d[2].callback] = d[2].symbol
        /\ made[d[2].callback] # 0 /\ \A r \in asked : r.callback # d[2].callback
        /\ pc[n] = "commit" /\ ~Fails("maps") => Waits(d[1], d[2].callback)
        /\ pc[n] = "idle" /\ returned[n] /\ ~Fails("maps")
           /\ <<d[1], d[2].symbol>> \in Found => <<d[1], d[2].callback>> \in put
    BY <2>1 DEF OrderInv, DueComes, Idle
  <2>3. d[2].callback \in Fn
    BY <1>1, <2>1 DEF TypeOK, Expression
  <2>4. CASE n = m
    <3>1. pc[m] = "commit" /\ pc'[m] = "idle"
      BY <1>1, <1>2, <2>1, <2>4 DEF LockHeld, TypeOK
    <3>2. returned'[m] \in BOOLEAN
      BY <1>1, TypeCommitHook DEF TypeOK
    <3>3. <<d[1], d[2].symbol>> \in Found /\ Waits(d[1], d[2].callback) => Hooks(d[1], d[2].callback)
      <4>1. \A i \in DOMAIN pending[d[1]] :
              pending[d[1]][i].callback = d[2].callback => pending[d[1]][i].symbol = d[2].symbol
        <5>1. d[1] \in Lib
          BY <1>1, <2>2 DEF TypeOK
        <5> QED
          BY <2>2, <5>1 DEF OrderInv, Ordered
      <4> QED
        BY <4>1, HitIs DEF Waits, Hooks
    <3> QED
      BY <1>5, <2>2, <2>3, <2>4, <3>1, <3>2, <3>3
  <2>5. CASE n # m
    <3>1. pc'[n] = "idle" /\ pc[n] = "idle"
      BY <1>1, <1>2, <2>1, <2>5 DEF TypeOK, Idle
    <3>2. returned'[n] = returned[n]
      BY <1>1, <1>2, <2>5 DEF TypeOK, Commits
    <3> QED
      BY <1>4, <2>2, <3>1, <3>2
  <2> QED
    BY <2>4, <2>5
<1> QED
  BY <1>3, <1>6 DEF OrderInv

---------------------------------------------------------------------------
\* A commit under the lock puts the registrations that it resolves behind all
\* callbacks that are placed, in their order.
LEMMA OrderCommit ==
    ASSUME ListsInv,
           NEW rank \in [Fn -> Nat], NEW sym \in [Fn -> Sym \cup {NoSymbol}], NEW bound \in Nat,
           OrderInv(rank, sym, bound), NEW m \in Module, plt_hook_commit(m), Once
    PROVE  \E rank2 \in [Fn -> Nat], sym2 \in [Fn -> Sym \cup {NoSymbol}], bound2 \in Nat :
             OrderInv(rank2, sym2, bound2)'
<1>1. TypeOK /\ LockHeld
  BY DEF ListsInv
<1>2. /\ hook_info_lock = {} /\ asked' = {}
      /\ pc' = [pc EXCEPT ![m] = "register"]
      /\ returned' = [returned EXCEPT ![m] = FALSE]
      /\ UNCHANGED <<register_info, put, pending, slot, backup, made, mapped>>
      /\ due' = [due EXCEPT ![m] = Due(m)]
  BY DEF plt_hook_commit, engine
<1>3. /\ asked = Range(register_info)
      /\ \A n \in Module : todo[n] = {} /\ (n # m => todo'[n] = {})
      /\ \A c \in todo'[m] :
           /\ c \in Call /\ c.place \in DOMAIN register_info
           /\ c.symbol = register_info[c.place].symbol
           /\ c.callback = register_info[c.place].callback
      /\ ~Fails("maps") =>
           \A l \in mapped, i \in DOMAIN register_info :
             /\ l \in register_info[i].match
             /\ ~Shielded(l, register_info[i], ignore_info)
             => \E c \in todo'[m] : c.file = l /\ c.callback = register_info[i].callback
      /\ \A l \in Lib, f \in Fn :
           /\ Waits(l, f)' <=> Waits(l, f)
           /\ ~Comes(l, f)
           /\ Comes(l, f)' <=> \E c \in todo'[m] : c.file = l /\ c.callback = f
  BY Resolving
<1>4. /\ Len(register_info) \in Nat
      /\ DOMAIN register_info = 1 .. Len(register_info)
      /\ \A i \in DOMAIN register_info : /\ i \in Nat /\ register_info[i].symbol \in Sym
                                         /\ register_info[i].callback \in Fn
  BY <1>1, Registrations
<1> DEFINE Read(f) == \E i \in DOMAIN register_info : register_info[i].callback = f
           PlaceOf(f) == CHOOSE i \in DOMAIN register_info : register_info[i].callback = f
<1>5. PICK rank2 : rank2 = [f \in Fn |-> IF Read(f) THEN bound + PlaceOf(f) ELSE rank[f]]
  OBVIOUS
<1>6. PICK sym2 : sym2 = [f \in Fn |-> IF Read(f) THEN register_info[PlaceOf(f)].symbol ELSE sym[f]]
  OBVIOUS
<1>7. PICK bound2 \in Nat : bound2 = bound + Len(register_info) + 1
  BY <1>4
<1>8. ASSUME NEW i \in DOMAIN register_info
      PROVE  /\ rank2[register_info[i].callback] = bound + i
             /\ sym2[register_info[i].callback] = register_info[i].symbol
  <2>1. PlaceOf(register_info[i].callback) = i
    BY OnceLists
  <2>2. Read(register_info[i].callback) /\ register_info[i].callback \in Fn
    BY <1>4
  <2> HIDE DEF Read, PlaceOf
  <2> QED
    BY <1>5, <1>6, <2>1, <2>2
<1>9. \A f \in Fn : ~Read(f) => rank2[f] = rank[f] /\ sym2[f] = sym[f]
  <2> HIDE DEF Read, PlaceOf
  <2> QED
    BY <1>5, <1>6
<1>10. rank2 \in [Fn -> Nat] /\ sym2 \in [Fn -> Sym \cup {NoSymbol}]
  <2>1. \A f \in Fn : Read(f) => PlaceOf(f) \in DOMAIN register_info
    OBVIOUS
  <2>2. \A f \in Fn : Read(f) => PlaceOf(f) \in Nat /\ register_info[PlaceOf(f)].symbol \in Sym
    <3> HIDE DEF Read, PlaceOf
    <3> QED
      BY <1>4, <2>1
  <2> HIDE DEF Read, PlaceOf
  <2>3. \A f \in Fn : (IF Read(f) THEN bound + PlaceOf(f) ELSE rank[f]) \in Nat
    BY <2>2
  <2>4. \A f \in Fn : (IF Read(f) THEN register_info[PlaceOf(f)].symbol ELSE sym[f])
                        \in Sym \cup {NoSymbol}
    BY <2>2
  <2> QED
    BY <1>5, <1>6, <2>3, <2>4
<1>11. \A l \in Lib, f \in Fn : Placed(l, f) => ~Read(f)
  <2>1. \A r \in asked, l \in Lib : ~Placed(l, r.callback)
    BY <1>2, OnceLists
  <2>2. \A i \in DOMAIN register_info : register_info[i] \in asked
    BY <1>3 DEF Range
  <2> QED
    BY <2>1, <2>2
<1>12. \A n \in Module : \A d \in due[n] : d[2].callback \in Fn /\ ~Read(d[2].callback)
  <2>1. \A n \in Module : \A d \in due[n] : d[2].callback \in Fn
    BY <1>1 DEF TypeOK, Expression
  <2>2. \A n \in Module : \A d \in due[n], r \in asked : r.callback # d[2].callback
    BY DEF OrderInv, DueComes
  <2> QED
    BY <1>3, <2>1, <2>2 DEF Range
<1>13. \A l \in Lib, f \in Fn : Placed(l, f) => rank[f] < bound /\ rank2[f] = rank[f] /\ sym2[f] = sym[f]
  BY <1>9, <1>11 DEF OrderInv, Ordered
<1>14. OrderInv(rank2, sym2, bound2)
  <2> HIDE DEF Read, PlaceOf
  <2>1. ASSUME NEW l \in Lib, NEW f \in Fn, Placed(l, f) PROVE rank2[f] < bound2 /\ sym2[f] = sym[f]
    BY <1>4, <1>7, <1>10, <1>13, <2>1
  <2>2. \A n \in Module : \A d \in due[n] : sym2[d[2].callback] = sym[d[2].callback]
    BY <1>9, <1>12
  <2>3. \A k, l \in Lib, f, g \in Fn :
          Placed(k, f) /\ Placed(l, g) /\ rank[f] < rank[g] => rank2[f] < rank2[g]
    BY <1>13
  <2> QED
    BY <1>10, <2>1, <2>2, <2>3, Reordered
<1> HIDE DEF Read, PlaceOf
<1>15. \A c \in todo'[m] : /\ c.callback \in Fn /\ c.file \in Lib /\ c.place \in Nat
                           /\ c.place <= Len(register_info)
                           /\ rank2[c.callback] = bound + c.place /\ sym2[c.callback] = c.symbol
  <2>1. \A c \in Call : c.callback \in Fn /\ c.file \in Lib /\ c.place \in Nat
    BY DEF Call
  <2> QED
    BY <1>3, <1>4, <1>8, <2>1
<1>16. Ordered(rank2, sym2, bound2)'
  <2>1. ASSUME NEW l \in Lib, NEW f \in Fn, Placed(l, f)' PROVE rank2[f] < bound2
    <3>1. CASE Placed(l, f)
      BY <1>14, <3>1 DEF OrderInv, Ordered
    <3>2. CASE Comes(l, f)'
      BY <1>3, <1>4, <1>7, <1>15, <3>2
    <3> QED
      BY <1>2, <1>3, <2>1, <3>1, <3>2 DEF Placed
  <2>2. ASSUME NEW n \in Module, NEW c \in todo'[n]
        PROVE  /\ sym2[c.callback] = c.symbol
               /\ \A f \in Fn : <<c.file, f>> \in put' \/ Waits(c.file, f)' => rank2[f] < rank2[c.callback]
               /\ \A d \in todo'[n] :
                    /\ c.place < d.place => rank2[c.callback] < rank2[d.callback]
                    /\ c.place = d.place => c.callback = d.callback
    <3>1. n = m
      BY <1>3
    <3>2. ASSUME NEW f \in Fn, <<c.file, f>> \in put' \/ Waits(c.file, f)'
          PROVE  rank2[f] < rank2[c.callback]
      <4>1. Placed(c.file, f) /\ c.file \in Lib
        BY <1>2, <1>3, <1>15, <3>1, <3>2 DEF Placed
      <4>2. rank[f] < bound /\ rank2[f] = rank[f] /\ rank[f] \in Nat
        BY <1>13, <4>1
      <4>3. rank2[c.callback] = bound + c.place /\ c.place \in Nat
        BY <1>15, <3>1
      <4> QED
        BY <4>2, <4>3
    <3>3. ASSUME NEW d \in todo'[n]
          PROVE  /\ c.place < d.place => rank2[c.callback] < rank2[d.callback]
                 /\ c.place = d.place => c.callback = d.callback
      BY <1>3, <1>15, <3>1
    <3> QED
      BY <1>15, <3>1, <3>2, <3>3
  <2>3. \A l \in Lib : \A i \in DOMAIN pending'[l] :
          /\ sym2[pending'[l][i].callback] = pending'[l][i].symbol
          /\ \A f \in Fn : <<l, f>> \in put' => rank2[f] < rank2[pending'[l][i].callback]
          /\ \A j \in DOMAIN pending'[l] :
               i < j => rank2[pending'[l][i].callback] < rank2[pending'[l][j].callback]
    BY <1>2, <1>14 DEF OrderInv, Ordered
  <2>4. \A f \in Fn : backup'[f] # Original => rank2[backup'[f]] < rank2[f]
    BY <1>2, <1>14 DEF OrderInv, Ordered
  <2> QED
    BY <2>1, <2>2, <2>3, <2>4 DEF Ordered
<1>17. Stacked(rank2, sym2)'
  BY <1>2, <1>14, StackedSame DEF OrderInv
<1>18. DueComes(sym2)'
  <2> SUFFICES ASSUME NEW n \in Module, NEW d \in due'[n]
               PROVE  /\ d[1] \in mapped /\ sym2[d[2].callback] = d[2].symbol
                      /\ made[d[2].callback] # 0
                      /\ pc'[n] = "register" /\ ~Fails("maps") =>
                           Waits(d[1], d[2].callback)' \/ Comes(d[1], d[2].callback)'
                      /\ pc'[n] = "commit" /\ ~Fails("maps") => Waits(d[1], d[2].callback)'
                      /\ pc'[n] = "idle" /\ returned'[n] /\ ~Fails("maps")
                         /\ <<d[1], d[2].symbol>> \in Found => <<d[1], d[2].callback>> \in put
    BY <1>2 DEF DueComes, Idle
  <2>1. CASE n = m
    <3>1. d \in Due(m) /\ pc'[n] = "register"
      BY <1>1, <1>2, <2>1 DEF TypeOK
    <3>2. /\ d[1] \in mapped /\ d[2] \in asked /\ d[1] \in d[2].match
          /\ <<d[1], d[2].callback, d[2].nth>> \notin shield
      BY <3>1 DEF Due
    <3>3. PICK i \in DOMAIN register_info : d[2] = register_info[i]
      BY <1>3, <3>2 DEF Range
    <3>4. d[1] \in Lib /\ d[2].callback \in Fn
      BY <1>1, <1>4, <3>2, <3>3 DEF TypeOK
    <3>5. ~Shielded(d[1], d[2], ignore_info)
      BY <1>2, <3>2, <3>4, OnceLists
    <3>6. ~Fails("maps") => Comes(d[1], d[2].callback)'
      BY <1>3, <3>2, <3>3, <3>4, <3>5
    <3>7. sym2[d[2].callback] = d[2].symbol /\ made[d[2].callback] # 0
      BY <1>8, <3>3, OnceLists
    <3> QED
      BY <3>1, <3>2, <3>6, <3>7
  <2>2. CASE n # m
    <3>1. d \in due[n] /\ pc'[n] = pc[n] /\ returned'[n] = returned[n]
      BY <1>1, <1>2, <2>2 DEF TypeOK
    <3>2. d[1] \in Lib /\ d[2].callback \in Fn
      BY <1>1, <3>1 DEF TypeOK, Expression
    <3>3. /\ d[1] \in mapped /\ sym2[d[2].callback] = d[2].symbol
          /\ made[d[2].callback] # 0
          /\ pc[n] = "register" /\ ~Fails("maps") =>
               Waits(d[1], d[2].callback) \/ Comes(d[1], d[2].callback)
          /\ pc[n] = "commit" /\ ~Fails("maps") => Waits(d[1], d[2].callback)
          /\ pc[n] = "idle" /\ returned[n] /\ ~Fails("maps")
             /\ <<d[1], d[2].symbol>> \in Found => <<d[1], d[2].callback>> \in put
      BY <1>14, <3>1 DEF OrderInv, DueComes, Idle
    <3> QED
      BY <1>3, <3>1, <3>2, <3>3
  <2> QED
    BY <2>1, <2>2
<1>19. OrderInv(rank2, sym2, bound2)'
  BY <1>16, <1>17, <1>18 DEF OrderInv
<1> QED
  BY <1>7, <1>10, <1>19

\* A callback that is registered with LSPlt directly comes behind those that
\* its library has or has queued, and before those that are about to be queued
\* there; the others make room for it.
LEMMA OrderRegisterHook ==
    ASSUME ListsInv,
           NEW rank \in [Fn -> Nat], NEW sym \in [Fn -> Sym \cup {NoSymbol}], NEW bound \in Nat,
           OrderInv(rank, sym, bound),
           NEW m \in Module, NEW l \in Lib, NEW y \in Sym, NEW f \in Fn, RegisterHook(m, l, y, f), Once'
    PROVE  \E rank2 \in [Fn -> Nat], sym2 \in [Fn -> Sym \cup {NoSymbol}], bound2 \in Nat :
             OrderInv(rank2, sym2, bound2)'
<1>1. TypeOK /\ LockHeld
  BY DEF ListsInv
<1> DEFINE e == [symbol |-> y, callback |-> f, nth |-> made[f] + 1]
           n == Len(pending[l])
<1>2. /\ made' = [made EXCEPT ![f] = @ + 1]
      /\ pending' = [pending EXCEPT ![l] = Append(@, e)]
      /\ UNCHANGED <<todo, slot, backup, put, pc, returned, due, asked, mapped>>
  BY DEF RegisterHook, context, thread
<1>3. e \in Entry /\ e.symbol = y /\ e.callback = f
  BY <1>1 DEF Entry, TypeOK
<1>4. n \in Nat /\ DOMAIN pending[l] = 1 .. n
  BY <1>1, Places
<1> HIDE DEF e
<1>5. /\ DOMAIN pending'[l] = 1 .. n + 1
      /\ \A i \in DOMAIN pending[l] : pending'[l][i] = pending[l][i]
      /\ pending'[l][n + 1] = e
      /\ \A k \in Lib : k # l => pending'[k] = pending[k]
      /\ \A k \in Lib, g \in Fn : Waits(k, g)' <=> Waits(k, g) \/ (k = l /\ g = e.callback)
  BY <1>1, <1>2, <1>3, QueueGrows
<1> HIDE DEF n
<1>6. \A k \in Lib, g \in Fn : Comes(k, g)' <=> Comes(k, g)
  BY <1>2 DEF Comes
<1>7. /\ \A k \in Lib, g \in Fn : Placed(k, g) => g # f /\ rank[g] < bound
      /\ \A g \in Fn : made[g] # 0 => g # f /\ made'[g] # 0
  <2>1. made[f] = 0 /\ made'[f] = 1 /\ \A g \in Fn : g # f => made'[g] = made[g]
    BY <1>2, RegisteredFirst
  <2>2. Once
    <3>1. \A g \in Fn : made'[g] <= 1
      BY DEF Once
    <3>2. ASSUME NEW g \in Fn PROVE made[g] <= 1
      BY <2>1, <3>1
    <3> QED
      BY <3>2 DEF Once
  <2>3. \A k \in Lib, g \in Fn : Placed(k, g) => made[g] # 0
    BY <2>2, OnceLists
  <2> QED
    BY <2>1, <2>3 DEF OrderInv, Ordered
<1>8. \A b \in Module : \A c \in todo[b] :
        /\ c.callback \in Fn /\ c.file \in Lib /\ Comes(c.file, c.callback)
        /\ c.callback # f /\ rank[c.callback] < bound
  <2>1. ASSUME NEW b \in Module, NEW c \in todo[b]
        PROVE  c.callback \in Fn /\ c.file \in Lib /\ Comes(c.file, c.callback)
    BY <1>1 DEF TypeOK, Call, Comes
  <2> QED
    BY <1>7, <2>1 DEF Placed
<1>9. PICK place \in Nat :
        /\ place <= bound
        /\ \A g \in Fn : <<l, g>> \in put \/ Waits(l, g) => rank[g] < place
        /\ \A b \in Module : \A c \in todo[b] : c.file = l => place <= rank[c.callback]
  <2> DEFINE ranks == UNION {{rank[c.callback] : c \in {d \in todo[b] : d.file = l}} : b \in Module}
  <2>1. \A b \in Module : \A c \in todo[b] : c.file = l => rank[c.callback] \in ranks
    OBVIOUS
  <2>2. ASSUME NEW k \in ranks
        PROVE  \E b \in Module : \E c \in todo[b] : c.file = l /\ k = rank[c.callback]
    OBVIOUS
  <2>3. ranks \subseteq Nat
    <3> HIDE DEF ranks
    <3> QED
      BY <1>8, <2>2
  <2>4. CASE ranks = {}
    <3> HIDE DEF ranks
    <3>1. \A g \in Fn : <<l, g>> \in put \/ Waits(l, g) => rank[g] < bound
      BY <1>7 DEF Placed
    <3> QED
      BY <2>1, <2>4, <3>1
  <2>5. CASE ranks # {}
    <3> HIDE DEF ranks
    <3>1. PICK k \in ranks : \A j \in ranks : k <= j
      BY <2>3, <2>5, MinExists
    <3>2. PICK b \in Module : \E c \in todo[b] : c.file = l /\ k = rank[c.callback]
      BY <2>2, <3>1
    <3>3. PICK c \in todo[b] : c.file = l /\ k = rank[c.callback]
      BY <3>2
    <3>4. \A g \in Fn : <<l, g>> \in put \/ Waits(l, g) => rank[g] < k
      BY <3>3 DEF OrderInv, Ordered
    <3>5. k \in Nat /\ k <= bound
      BY <1>8, <3>3
    <3> QED
      BY <2>1, <3>1, <3>4, <3>5
  <2> QED
    BY <2>4, <2>5
<1>10. PICK rank2 : rank2 = [g \in Fn |-> IF g = f THEN 2 * place ELSE 2 * rank[g] + 1]
  OBVIOUS
<1>11. PICK sym2 : sym2 = [g \in Fn |-> IF g = f THEN y ELSE sym[g]]
  OBVIOUS
<1>12. PICK bound2 \in Nat : bound2 = 2 * bound + 1
  OBVIOUS
<1>13. /\ rank2 \in [Fn -> Nat] /\ sym2 \in [Fn -> Sym \cup {NoSymbol}]
       /\ rank2[f] = 2 * place /\ sym2[f] = y
       /\ \A g \in Fn : g # f => rank2[g] = 2 * rank[g] + 1 /\ sym2[g] = sym[g]
  BY <1>10, <1>11
<1>14. OrderInv(rank2, sym2, bound2)
  <2>1. \A k \in Lib, g \in Fn : Placed(k, g) => rank2[g] < bound2 /\ sym2[g] = sym[g]
    BY <1>7, <1>12, <1>13
  <2>2. \A j, k \in Lib, g, h \in Fn :
          Placed(j, g) /\ Placed(k, h) /\ rank[g] < rank[h] => rank2[g] < rank2[h]
    BY <1>7, <1>13
  <2>3. \A b \in Module : \A d \in due[b] : sym2[d[2].callback] = sym[d[2].callback]
    <3>1. \A b \in Module : \A d \in due[b] : d[2].callback \in Fn
      BY <1>1 DEF TypeOK, Expression
    <3>2. \A b \in Module : \A d \in due[b] : made[d[2].callback] # 0
      BY DEF OrderInv, DueComes
    <3> QED
      BY <1>7, <1>13, <3>1, <3>2
  <2> QED
    BY <1>13, <2>1, <2>2, <2>3, Reordered
<1>15. \A g \in Fn : <<l, g>> \in put \/ Waits(l, g) => rank2[g] < rank2[f]
  <2>1. ASSUME NEW g \in Fn, <<l, g>> \in put \/ Waits(l, g) PROVE rank2[g] < rank2[f]
    <3>1. g # f /\ rank[g] < place
      BY <1>7, <1>9, <2>1 DEF Placed
    <3>2. rank2[g] = 2 * rank[g] + 1 /\ rank2[f] = 2 * place /\ rank[g] \in Nat
      BY <1>13, <3>1
    <3> QED
      BY <3>1, <3>2
  <2> QED
    BY <2>1
<1>16. \A b \in Module : \A c \in todo[b] : c.file = l => rank2[f] < rank2[c.callback]
  <2>1. ASSUME NEW b \in Module, NEW c \in todo[b], c.file = l PROVE rank2[f] < rank2[c.callback]
    <3>1. place <= rank[c.callback] /\ c.callback \in Fn /\ c.callback # f
      BY <1>8, <1>9, <2>1
    <3>2. rank2[c.callback] = 2 * rank[c.callback] + 1 /\ rank2[f] = 2 * place /\ rank[c.callback] \in Nat
      BY <1>13, <3>1
    <3> QED
      BY <3>1, <3>2
  <2> QED
    BY <2>1
<1>17. Ordered(rank2, sym2, bound2)'
  <2>1. ASSUME NEW k \in Lib, NEW g \in Fn, Placed(k, g)' PROVE rank2[g] < bound2
    <3>1. CASE Placed(k, g)
      BY <1>14, <3>1 DEF OrderInv, Ordered
    <3>2. CASE g = f
      BY <1>9, <1>12, <1>13, <3>2
    <3> QED
      BY <1>2, <1>3, <1>5, <1>6, <2>1, <3>1, <3>2 DEF Placed
  <2>2. ASSUME NEW k \in Lib, NEW i \in DOMAIN pending'[k]
        PROVE  /\ sym2[pending'[k][i].callback] = pending'[k][i].symbol
               /\ \A g \in Fn : <<k, g>> \in put' => rank2[g] < rank2[pending'[k][i].callback]
               /\ \A j \in DOMAIN pending'[k] :
                    i < j => rank2[pending'[k][i].callback] < rank2[pending'[k][j].callback]
    <3>1. CASE k # l
      BY <1>2, <1>5, <1>14, <3>1 DEF OrderInv, Ordered
    <3>2. CASE k = l /\ i = n + 1
      BY <1>2, <1>3, <1>4, <1>5, <1>13, <1>15, <3>2
    <3>3. CASE k = l /\ i # n + 1
      <4>1. i \in DOMAIN pending[l] /\ pending'[l][i] = pending[l][i]
        BY <1>4, <1>5, <3>3
      <4>2. /\ sym2[pending[l][i].callback] = pending[l][i].symbol
            /\ \A g \in Fn : <<l, g>> \in put => rank2[g] < rank2[pending[l][i].callback]
            /\ \A j \in DOMAIN pending[l] :
                 i < j => rank2[pending[l][i].callback] < rank2[pending[l][j].callback]
        BY <1>14, <4>1 DEF OrderInv, Ordered
      <4>3. rank2[pending[l][i].callback] < rank2[f]
        <5>1. pending[l][i].callback \in Fn /\ Waits(l, pending[l][i].callback)
          BY <1>1, <4>1, Places DEF Waits
        <5> QED
          BY <1>15, <5>1
      <4>4. \A j \in DOMAIN pending'[l] : j \in DOMAIN pending[l] \/ j = n + 1
        BY <1>4, <1>5
      <4>5. ASSUME NEW j \in DOMAIN pending'[l], i < j
            PROVE  rank2[pending[l][i].callback] < rank2[pending'[l][j].callback]
        BY <1>3, <1>5, <4>2, <4>3, <4>4, <4>5
      <4> QED
        BY <1>2, <3>3, <4>1, <4>2, <4>5
    <3> QED
      BY <3>1, <3>2, <3>3
  <2>3. ASSUME NEW b \in Module, NEW c \in todo'[b]
        PROVE  /\ sym2[c.callback] = c.symbol
               /\ \A g \in Fn : <<c.file, g>> \in put' \/ Waits(c.file, g)' => rank2[g] < rank2[c.callback]
               /\ \A d \in todo'[b] :
                    /\ c.place < d.place => rank2[c.callback] < rank2[d.callback]
                    /\ c.place = d.place => c.callback = d.callback
    <3>1. c \in todo[b] /\ c.file \in Lib
      BY <1>2, <1>8
    <3>2. /\ sym2[c.callback] = c.symbol
          /\ \A g \in Fn : <<c.file, g>> \in put \/ Waits(c.file, g) => rank2[g] < rank2[c.callback]
          /\ \A d \in todo[b] :
               /\ c.place < d.place => rank2[c.callback] < rank2[d.callback]
               /\ c.place = d.place => c.callback = d.callback
      BY <1>14, <3>1 DEF OrderInv, Ordered
    <3>3. \A g \in Fn : Waits(c.file, g)' => Waits(c.file, g) \/ (c.file = l /\ g = f)
      BY <1>3, <1>5, <3>1
    <3> QED
      BY <1>2, <1>16, <3>1, <3>2, <3>3
  <2>4. \A g \in Fn : backup'[g] # Original => rank2[backup'[g]] < rank2[g]
    BY <1>2, <1>14 DEF OrderInv, Ordered
  <2> QED
    BY <2>1, <2>2, <2>3, <2>4 DEF Ordered
<1>18. Stacked(rank2, sym2)'
  BY <1>2, <1>14, StackedSame DEF OrderInv
<1>19. DueComes(sym2)'
  <2> SUFFICES ASSUME NEW b \in Module, NEW d \in due[b]
               PROVE  /\ d[1] \in mapped /\ sym2[d[2].callback] = d[2].symbol
                      /\ made'[d[2].callback] # 0 /\ \A r \in asked : r.callback # d[2].callback
                      /\ pc[b] = "register" /\ ~Fails("maps") =>
                           Waits(d[1], d[2].callback)' \/ Comes(d[1], d[2].callback)'
                      /\ pc[b] = "commit" /\ ~Fails("maps") => Waits(d[1], d[2].callback)'
                      /\ pc[b] = "idle" /\ returned[b] /\ ~Fails("maps")
                         /\ <<d[1], d[2].symbol>> \in Found => <<d[1], d[2].callback>> \in put
    BY <1>2 DEF DueComes, Idle
  <2>1. d[1] \in Lib /\ d[2].callback \in Fn
    BY <1>1 DEF TypeOK, Expression
  <2>2. /\ d[1] \in mapped /\ sym2[d[2].callback] = d[2].symbol
        /\ made[d[2].callback] # 0 /\ \A r \in asked : r.callback # d[2].callback
        /\ pc[b] = "register" /\ ~Fails("maps") =>
             Waits(d[1], d[2].callback) \/ Comes(d[1], d[2].callback)
        /\ pc[b] = "commit" /\ ~Fails("maps") => Waits(d[1], d[2].callback)
        /\ pc[b] = "idle" /\ returned[b] /\ ~Fails("maps")
           /\ <<d[1], d[2].symbol>> \in Found => <<d[1], d[2].callback>> \in put
    BY <1>14 DEF OrderInv, DueComes, Idle
  <2>3. \A g \in Fn : /\ Waits(d[1], g) => Waits(d[1], g)'
                      /\ Comes(d[1], g) => Comes(d[1], g)'
    BY <1>5, <1>6, <2>1
  <2> QED
    BY <1>7, <2>1, <2>2, <2>3
<1>20. OrderInv(rank2, sym2, bound2)'
  BY <1>17, <1>18, <1>19 DEF OrderInv
<1> QED
  BY <1>12, <1>13, <1>20

LEMMA IInvInit == Init => IInv
<1> SUFFICES ASSUME Init PROVE IInv
  OBVIOUS
<1>1. ListsInv
  BY ListsInit
<1>2. PICK rank : rank = [f \in Fn |-> 0]
  OBVIOUS
<1>3. PICK sym : sym = [f \in Fn |-> NoSymbol]
  OBVIOUS
<1>4. \A l \in Lib, f \in Fn : ~Placed(l, f)
  BY DEF Init, Placed, Waits, Comes
<1>5. Ordered(rank, sym, 0)
  BY <1>4 DEF Init, Ordered
<1>6. Stacked(rank, sym) /\ DueComes(sym)
  BY DEF Init, Stacked, DueComes
<1>7. rank \in [Fn -> Nat] /\ sym \in [Fn -> Sym \cup {NoSymbol}]
  BY <1>2, <1>3
<1> QED
  BY <1>1, <1>5, <1>6, <1>7 DEF IInv, OrderInv

\* Registrations are counted and never taken back.
LEMMA OnceBefore == TypeOK /\ [Next]_vars /\ Once' => Once
<1> SUFFICES ASSUME TypeOK, [Next]_vars, Once' PROVE Once
  OBVIOUS
<1>1. \/ made' = made
      \/ \E f \in Fn : made' = [made EXCEPT ![f] = @ + 1]
  <2>1. CASE UNCHANGED vars
    BY <2>1 DEF vars, ghost
  <2>2. ASSUME NEW m \in Module, NEW re \in Regex, NEW y \in Sym, NEW f \in Fn,
               plt_hook_register(m, re, y, f)
        PROVE  made' = [made EXCEPT ![f] = @ + 1]
    BY <2>2 DEF plt_hook_register
  <2>3. ASSUME NEW m \in Module, NEW l \in Lib, NEW y \in Sym, NEW f \in Fn, RegisterHook(m, l, y, f)
        PROVE  made' = [made EXCEPT ![f] = @ + 1]
    BY <2>3 DEF RegisterHook
  <2>4. ASSUME NEW m \in Module, NEW e \in Exclusion, plt_hook_exclude(m, e) PROVE made' = made
    BY <2>4 DEF plt_hook_exclude
  <2>5. ASSUME NEW m \in Module, plt_hook_commit(m) \/ ProcessNext(m) \/ Release(m) \/ CommitHook(m)
        PROVE  made' = made
    BY <2>5 DEF plt_hook_commit, ProcessNext, Release, CommitHook, ghost
  <2>6. ASSUME NEW l \in Lib, Dlopen(l) PROVE made' = made
    BY <2>6 DEF Dlopen, ghost
  <2> QED
    BY <2>1, <2>2, <2>3, <2>4, <2>5, <2>6 DEF Next
<1>2. made \in [Fn -> Nat] /\ \A f \in Fn : made[f] \in Nat
  BY DEF TypeOK
<1>3. \A f \in Fn : made'[f] \in Nat /\ made[f] <= made'[f]
  <2>1. CASE made' = made
    BY <1>2, <2>1
  <2>2. ASSUME NEW f \in Fn, made' = [made EXCEPT ![f] = @ + 1], NEW g \in Fn
        PROVE  made'[g] \in Nat /\ made[g] <= made'[g]
    <3>1. made'[g] = IF g = f THEN made[g] + 1 ELSE made[g]
      BY <1>2, <2>2
    <3> QED
      BY <1>2, <3>1
  <2> QED
    BY <1>1, <2>1, <2>2
<1>4. \A f \in Fn : made'[f] <= 1
  BY DEF Once
<1>5. ASSUME NEW f \in Fn PROVE made[f] <= 1
  <2>1. made[f] \in Nat /\ made'[f] \in Nat /\ made[f] <= made'[f] /\ made'[f] <= 1
    BY <1>2, <1>3, <1>4
  <2> QED
    BY <2>1
<1> QED
  BY <1>5 DEF Once

LEMMA IInvStep == IInv /\ [Next]_vars => IInv'
<1> SUFFICES ASSUME IInv, [Next]_vars PROVE IInv'
  OBVIOUS
<1>1. ListsInv
  BY DEF IInv
<1>3. ListsInv'
  BY <1>1, ListsStep
<1> SUFFICES ASSUME Once'
             PROVE  \E rank2 \in [Fn -> Nat], sym2 \in [Fn -> Sym \cup {NoSymbol}], bound2 \in Nat :
                      OrderInv(rank2, sym2, bound2)'
  BY <1>3 DEF IInv
<1>11. Once
  BY <1>1, OnceBefore DEF ListsInv
<1>2. PICK rank \in [Fn -> Nat], sym \in [Fn -> Sym \cup {NoSymbol}], bound \in Nat :
        OrderInv(rank, sym, bound)
  BY <1>11 DEF IInv
<1>4. CASE UNCHANGED vars
  <2>1. Ordered(rank, sym, bound)' /\ Stacked(rank, sym)'
    BY <1>2, <1>4, OrderedSame, StackedSame DEF OrderInv, vars, engine, thread, ghost
  <2>2. UNCHANGED <<pending, todo, put, pc, returned, mapped, due, made, asked>>
    BY <1>4 DEF vars, engine, thread, ghost
  <2>3. \A l, f : (Waits(l, f)' <=> Waits(l, f)) /\ (Comes(l, f)' <=> Comes(l, f))
    BY <2>2 DEF Waits, Comes
  <2>4. DueComes(sym)'
    BY <1>2, <2>2, <2>3 DEF OrderInv, DueComes, Idle
  <2> QED
    BY <2>1, <2>4 DEF OrderInv
<1>5. ASSUME NEW m \in Module, NEW re \in Regex, NEW y \in Sym, NEW f \in Fn,
             plt_hook_register(m, re, y, f)
      PROVE  OrderInv(rank, sym, bound)'
  BY <1>1, <1>2, <1>5, OrderRegister
<1>6. ASSUME NEW m \in Module, NEW e \in Exclusion, plt_hook_exclude(m, e)
      PROVE  OrderInv(rank, sym, bound)'
  BY <1>1, <1>2, <1>6, OrderExclude
<1>7. ASSUME NEW m \in Module, ProcessNext(m) \/ Release(m) \/ CommitHook(m)
      PROVE  OrderInv(rank, sym, bound)'
  BY <1>1, <1>2, <1>7, OrderProcessNext, OrderRelease, OrderCommitHook
<1>8. ASSUME NEW l \in Lib, Dlopen(l) PROVE OrderInv(rank, sym, bound)'
  BY <1>1, <1>2, <1>8, OrderDlopen
<1>9. CASE \E m \in Module : plt_hook_commit(m)
  BY <1>1, <1>2, <1>9, <1>11, OrderCommit
<1>10. CASE \E m \in Module, l \in Lib, y \in Sym, f \in Fn : RegisterHook(m, l, y, f)
  BY <1>1, <1>2, <1>10, OrderRegisterHook
<1> QED
  BY <1>4, <1>5, <1>6, <1>7, <1>8, <1>9, <1>10 DEF Next

\* As long as no callback has been registered a second time, there is one order
\* of the callbacks, in which every library has them and in which each calls on
\* to one before it.  (The lists agree in any case.)
THEOREM IInvCorrect == Spec => []IInv
<1>1. Init => IInv
  BY IInvInit
<1>2. IInv /\ [Next]_vars => IInv'
  BY IInvStep
<1> QED
  BY <1>1, <1>2, PTL DEF Spec

---------------------------------------------------------------------------
\* What a call through f runs: f itself, and what each of them calls on to.
LEMMA ReachedClosed ==
    ASSUME TypeOK, NEW f \in Fn \cup {Original}
    PROVE  /\ f \in Reached(f)
           /\ \A h \in Reached(f) : h # Original => h \in Fn /\ backup[h] \in Reached(f)
<1>1. f \in Reached(f)
  BY DEF Reached
<1>2. ASSUME NEW h \in Reached(f), h # Original PROVE h \in Fn /\ backup[h] \in Reached(f)
  <2>1. h \in Fn /\ backup[h] \in Fn \cup {Original}
    BY <1>2 DEF Reached, TypeOK
  <2>2. ASSUME NEW S \in SUBSET (Fn \cup {Original}), f \in S,
               \A k \in S \ {Original} : backup[k] \in S
        PROVE  backup[h] \in S
    <3>1. h \in S
      BY <2>2 DEF Reached
    <3> QED
      BY <1>2, <2>2, <3>1
  <2> QED
    BY <2>1, <2>2 DEF Reached
<1> QED
  BY <1>1, <1>2

\* Going down the order, every chain of calls comes to the library's function.
LEMMA CallsEndFollows == IInv => CallsEnd
<1> SUFFICES ASSUME IInv, Once, NEW l \in Lib, NEW y \in Sym PROVE Original \in Run(l, y)
  BY DEF CallsEnd
<1>1. TypeOK
  BY DEF IInv, ListsInv
<1>2. PICK rank \in [Fn -> Nat], sym \in [Fn -> Sym \cup {NoSymbol}], bound \in Nat :
        OrderInv(rank, sym, bound)
  BY DEF IInv
<1>3. ASSUME NEW S \in SUBSET (Fn \cup {Original}), slot[l][y] \in S,
             \A h \in S \ {Original} : backup[h] \in S
      PROVE  Original \in S
  <2> SUFFICES ASSUME Original \notin S PROVE FALSE
    OBVIOUS
  <2>1. S \subseteq Fn /\ S # {}
    BY <1>3
  <2> DEFINE ranks == {rank[h] : h \in S}
  <2>2. ranks \subseteq Nat /\ ranks # {}
    BY <2>1
  <2>3. PICK k \in ranks : \A j \in ranks : k <= j
    <3> HIDE DEF ranks
    <3> QED
      BY <2>2, MinExists
  <2>4. PICK h \in S : k = rank[h]
    BY <2>3
  <2>5. backup[h] \in S /\ backup[h] # Original /\ backup[h] \in Fn /\ h \in Fn
    BY <1>3, <2>1
  <2>6. rank[backup[h]] < rank[h]
    BY <1>2, <2>5 DEF OrderInv, Ordered
  <2>7. rank[h] <= rank[backup[h]]
    BY <2>3, <2>4, <2>5
  <2>8. rank[h] \in Nat /\ rank[backup[h]] \in Nat
    BY <2>5
  <2> QED
    BY <2>6, <2>7, <2>8
<1> QED
  BY <1>3 DEF Run, Reached

\* module.cpp:317-327: as long as no callback has been registered a second time,
\* a call through any slot ends in the library's function.
THEOREM CallsEndCorrect == Spec => []CallsEnd
  BY IInvCorrect, CallsEndFollows, PTL

\* Of the callbacks of a symbol that a library has and no call runs, the last in
\* the order would be on top, or below one that calls run and that hides it.
LEMMA TrueMeansHookedFollows == IInv => TrueMeansHooked
<1> SUFFICES ASSUME IInv, Once, ~Fails("maps"), NEW m \in Module, Idle(m), returned[m],
                    NEW d \in due[m], <<d[1], d[2].symbol>> \in Found,
                    d[2].callback \notin Run(d[1], d[2].symbol),
                    \A f \in Run(d[1], d[2].symbol) \ {Original} : ~Hides(f)
             PROVE  FALSE
  BY DEF TrueMeansHooked
<1>1. TypeOK
  BY DEF IInv, ListsInv
<1>2. PICK rank \in [Fn -> Nat], sym \in [Fn -> Sym \cup {NoSymbol}], bound \in Nat :
        OrderInv(rank, sym, bound)
  BY DEF IInv
<1>3. PICK l, y : l = d[1] /\ y = d[2].symbol
  OBVIOUS
<1>4. l \in Lib /\ y \in Sym /\ d[2].callback \in Fn
  BY <1>1, <1>3 DEF TypeOK, Expression
<1>5. <<l, d[2].callback>> \in put /\ sym[d[2].callback] = y
  BY <1>2, <1>3 DEF OrderInv, DueComes
<1>6. slot[l][y] \in Fn \cup {Original}
  BY <1>1, <1>4 DEF TypeOK
<1>7. /\ slot[l][y] \in Run(l, y)
      /\ \A h \in Run(l, y) : h # Original => backup[h] \in Run(l, y)
  BY <1>1, <1>6, ReachedClosed DEF Run
<1> DEFINE missing == {g \in Fn : <<l, g>> \in put /\ sym[g] = y /\ g \notin Run(l, y)}
           depths == {bound - rank[g] : g \in missing}
<1>8. \A g \in missing : rank[g] \in Nat /\ rank[g] < bound
  BY <1>2, <1>4 DEF OrderInv, Ordered, Placed
<1>9. d[2].callback \in missing
  BY <1>3, <1>4, <1>5
<1>10. depths \subseteq Nat /\ depths # {}
  <2> HIDE DEF missing
  <2>1. \A g \in missing : bound - rank[g] \in Nat
    BY <1>8
  <2> QED
    BY <1>9, <2>1
<1>11. PICK k \in depths : \A j \in depths : k <= j
  <2> HIDE DEF depths
  <2> QED
    BY <1>10, MinExists
<1>12. PICK g \in missing : k = bound - rank[g]
  BY <1>11
<1>13. \A h \in missing : rank[h] <= rank[g]
  <2>1. ASSUME NEW h \in missing PROVE rank[h] <= rank[g]
    <3>1. bound - rank[h] \in depths
      OBVIOUS
    <3> HIDE DEF depths
    <3>2. bound - rank[g] <= bound - rank[h]
      BY <1>11, <1>12, <3>1
    <3>3. rank[h] \in Nat /\ rank[g] \in Nat
      BY <1>8
    <3> QED
      BY <3>2, <3>3
  <2> QED
    BY <2>1
<1>14. g \in Fn /\ <<l, g>> \in put /\ sym[g] = y /\ g \notin Run(l, y)
  BY <1>12
<1>15. PICK h \in Fn : /\ <<l, h>> \in put /\ sym[h] = y /\ rank[g] < rank[h]
                       /\ backup[h] = g \/ Hides(h)
  <2>1. \/ slot[l][sym[g]] = g
        \/ \E h \in Fn : /\ <<l, h>> \in put /\ sym[h] = sym[g] /\ rank[g] < rank[h]
                         /\ backup[h] = g \/ Hides(h)
    BY <1>2, <1>4, <1>14 DEF OrderInv, Stacked
  <2>2. slot[l][sym[g]] # g
    BY <1>7, <1>14
  <2> QED
    BY <1>14, <2>1, <2>2
<1>16. h \in Run(l, y)
  <2>1. ~(rank[h] <= rank[g])
    BY <1>14, <1>15
  <2> QED
    BY <1>13, <1>15, <2>1
<1>17. h # Original
  BY ApiAssumption
<1>18. backup[h] \in Run(l, y) /\ ~Hides(h)
  BY <1>3, <1>7, <1>16, <1>17
<1> QED
  BY <1>14, <1>15, <1>18

\* module.cpp:328: as long as no callback has been registered a second time, a
\* commit that returned true, and during which nobody else committed, has hooked
\* all that the module's expressions match and LSPlt finds a slot for.
THEOREM TrueMeansHookedCorrect == Spec => []TrueMeansHooked
  BY IInvCorrect, TrueMeansHookedFollows, PTL
=============================================================================
