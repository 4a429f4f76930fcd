--------------------------- MODULE ElfSymbolsProofs ---------------------------
(***************************************************************************)
(* Theorems about ElfSymbols, for every well-formed file: the walks over   *)
(* the hash tables find a symbol exactly if the table was made from it,    *)
(* and so the lookups find what a search through all symbols finds.        *)
(*                                                                         *)
(* A chain is what its walk visits by induction over the indices: the      *)
(* least index that is in the chain and not in the bucket has a            *)
(* predecessor in both.                                                    *)
(***************************************************************************)
EXTENDS ElfSymbols, FiniteSetTheorems, WellFoundedInduction, TLAPS

\* Of some naturals there is a least one.
LEMMA MinExists ==
    ASSUME NEW S, S \subseteq Nat, S # {}
    PROVE  \E m \in S : \A k \in S : m <= k
<1>1. IsWellFoundedOn(OpToRel(<, Nat), Nat)
  BY NatLessThanWellFounded
<1>2. PICK m \in S : \A y \in S : ~(<<y, m>> \in OpToRel(<, Nat))
  BY <1>1, WFMin
<1>3. \A y \in S : ~(y < m)
  BY <1>2 DEF OpToRel
<1> QED
  BY <1>3

-----------------------------------------------------------------------------
\* The least element of a set.
LEMMA LeastProperties ==
    ASSUME NEW S, S \subseteq Nat \ {0}
    PROVE  /\ S = {} => Least(S) = 0
           /\ S # {} => Least(S) \in S /\ \A k \in S : Least(S) <= k
<1> SUFFICES ASSUME S # {} PROVE Min(S) \in S /\ \A k \in S : Min(S) <= k
  BY DEF Least
<1>1. \E m \in S : \A k \in S : m <= k
  BY MinExists
<1> QED
  BY <1>1 DEF Min

LEMMA OnlyElement ==
    ASSUME NEW i \in Nat \ {0}, NEW S, S \subseteq {i}
    PROVE  /\ Least(S) = IF S = {} THEN 0 ELSE i
           /\ S # {} => Max(S) = i
<1>1. S # {} => S = {i}
  OBVIOUS
<1>2. S # {} => Max(S) = i
  BY <1>1 DEF Max
<1> QED
  BY <1>1, <1>2, LeastProperties

-----------------------------------------------------------------------------
\* What a well-formed file has: its symbols, and which of them are hashed.
LEMMA FileFacts ==
    ASSUME file \in File
    PROVE  /\ file.dynsym \in Seq(Symbol)
           /\ file.plt \in Seq(Reloc) /\ file.dyn \in Seq(Reloc)
           /\ file.sections \in Seq(Section)
           /\ file.nbucket \in Nat \ {0}
           /\ file.symoffset \in 1 .. Len(file.dynsym) + 1
  BY ElfAssumption DEF WellFormed

LEMMA SymbolFacts ==
    ASSUME file \in File
    PROVE  /\ DOMAIN file.dynsym = 1 .. Len(file.dynsym)
           /\ Len(file.dynsym) \in Nat
           /\ Hashed \subseteq DOMAIN file.dynsym
           /\ Hashed \subseteq Nat \ {0}
           /\ Hashed # {} => Hashed = file.symoffset .. Len(file.dynsym)
           /\ \A i \in DOMAIN file.dynsym :
                /\ Sym(i) \in Symbol /\ HashAt(i) \in Nat
                /\ BucketOf(i) \in 0 .. file.nbucket - 1
                /\ i \notin Hashed <=> Sym(i).shndx = "undef"
<1>1. /\ DOMAIN file.dynsym = 1 .. Len(file.dynsym)
      /\ Len(file.dynsym) \in Nat
  BY FileFacts
<1>2. \A i \in DOMAIN file.dynsym : Sym(i) \in Symbol
  BY FileFacts DEF Sym
<1>3. \A i \in DOMAIN file.dynsym : HashAt(i) \in Nat
  BY <1>2, ElfAssumption DEF HashAt, Symbol
<1>4. \A i \in DOMAIN file.dynsym : BucketOf(i) \in 0 .. file.nbucket - 1
  BY <1>3, FileFacts DEF BucketOf
<1>5. \A i \in DOMAIN file.dynsym : i \notin Hashed <=> Sym(i).shndx = "undef"
  BY DEF Hashed
<1>6. Hashed \subseteq DOMAIN file.dynsym /\ Hashed \subseteq Nat \ {0}
  BY <1>1 DEF Hashed
<1>7. ASSUME NEW j \in Hashed
      PROVE  Hashed = file.symoffset .. Len(file.dynsym)
  <2>1. j \in DOMAIN file.dynsym /\ Sym(j).shndx # "undef"
    BY <1>7 DEF Hashed
  <2>2. \A i \in DOMAIN file.dynsym : i < file.symoffset <=> Sym(i).shndx = "undef"
    BY <2>1, ElfAssumption DEF WellFormed, Sym
  <2>3. \A i : i \in Hashed <=> i \in 1 .. Len(file.dynsym) /\ ~(i < file.symoffset)
    BY <1>1, <2>2 DEF Hashed
  <2>4. \A i : i \in file.symoffset .. Len(file.dynsym)
                 <=> i \in 1 .. Len(file.dynsym) /\ ~(i < file.symoffset)
    BY <1>1, FileFacts
  <2> QED
    BY <2>3, <2>4
<1> QED
  BY <1>1, <1>2, <1>3, <1>4, <1>5, <1>6, <1>7

\* Names are unique in .dynsym.
LEMMA OneOfAName ==
    ASSUME file \in File,
           NEW i \in DOMAIN file.dynsym, NEW j \in DOMAIN file.dynsym,
           Sym(i).name = Sym(j).name
    PROVE  i = j
<1>1. \A k, l \in DOMAIN file.dynsym : k < l => Sym(k).name # Sym(l).name
  BY ElfAssumption DEF WellFormed, Sym
<1> QED
  BY <1>1, SymbolFacts

-----------------------------------------------------------------------------
\* The symbols of one bucket are next to each other.
LEMMA Contiguous ==
    ASSUME file \in File,
           NEW i \in Hashed, NEW j \in Hashed, NEW k \in i .. j,
           BucketOf(i) = BucketOf(j)
    PROVE  k \in Hashed /\ BucketOf(k) = BucketOf(i)
<1>1. k \in Hashed
  BY SymbolFacts, FileFacts
<1>2. CASE k = i \/ k = j
  BY <1>1, <1>2
<1>3. CASE i < k /\ k < j
  <2> DEFINE hashed == {x \in DOMAIN file.dynsym : file.dynsym[x].shndx # "undef"}
             b(x) == Hash[file.dynsym[x].name] % file.nbucket
  <2>1. \A x, y, z \in hashed : x < z /\ z < y /\ b(x) = b(y) => b(z) = b(x)
    BY ElfAssumption DEF WellFormed
  <2>2. i \in hashed /\ j \in hashed /\ k \in hashed
    BY <1>1 DEF Hashed, Sym
  <2>3. \A x : b(x) = BucketOf(x)
    BY DEF BucketOf, HashAt, Sym
  <2> HIDE DEF hashed, b
  <2> QED
    BY <1>1, <1>3, <2>1, <2>2, <2>3
<1> QED
  BY <1>1, <1>2, <1>3, SymbolFacts

\* The head of a bucket is its least symbol.
LEMMA BucketHead ==
    ASSUME file \in File, NEW b
    PROVE  LET members == {i \in Hashed : BucketOf(i) = b}
               h == GnuBucket(b)
           IN /\ NonEmpty(b) <=> members # {}
              /\ NonEmpty(b) => h \in members /\ \A i \in members : h <= i
<1> DEFINE members == {i \in Hashed : BucketOf(i) = b}
<1>1. members \subseteq Nat \ {0}
  BY SymbolFacts
<1>2. /\ members = {} => GnuBucket(b) = 0
      /\ members # {} => GnuBucket(b) \in members /\ \A i \in members : GnuBucket(b) <= i
  BY <1>1, LeastProperties DEF GnuBucket
<1>3. \A i \in members : i >= file.symoffset
  BY SymbolFacts, FileFacts
<1>4. file.symoffset > 0
  BY FileFacts
<1> QED
  BY <1>2, <1>3, <1>4, FileFacts DEF NonEmpty

\* The walk from the head of a bucket visits the symbols of the bucket.
LEMMA ChainIsBucket ==
    ASSUME file \in File, NEW b, NonEmpty(b)
    PROVE  ChainFrom(GnuBucket(b)) = {i \in Hashed : BucketOf(i) = b}
<1> DEFINE h == GnuBucket(b)
<1>1. h \in Hashed /\ BucketOf(h) = b
  BY BucketHead
<1>2. \A i \in Hashed : BucketOf(i) = b => h <= i
  BY BucketHead
<1>3. h \in Nat \ {0} /\ Hashed \subseteq Nat
  BY <1>1, SymbolFacts
<1>4. ASSUME NEW j \in Hashed, BucketOf(j) = b
      PROVE  j \in ChainFrom(h)
  <2>1. h <= j
    BY <1>2, <1>4
  <2>2. ASSUME NEW k \in h .. j - 1
        PROVE  ~EndsChain(k)
    <3>1. k \in h .. j /\ k + 1 \in h .. j
      BY <1>3, <2>1
    <3> QED
      BY <1>1, <1>4, <3>1, Contiguous DEF EndsChain
  <2> QED
    BY <2>1, <2>2 DEF ChainFrom
<1>5. ASSUME NEW j \in ChainFrom(h), BucketOf(j) # b
      PROVE  FALSE
  <2> DEFINE strays == {i \in ChainFrom(h) : BucketOf(i) # b}
  <2>1. strays \subseteq Nat /\ strays # {}
    BY <1>3, <1>5 DEF ChainFrom
  <2>2. PICK m \in strays : \A i \in strays : m <= i
    BY <2>1, MinExists
  <2>3. m \in Hashed /\ m >= h /\ m # h
    BY <1>1, <2>2 DEF ChainFrom
  <2>4. m - 1 \in h .. m - 1 /\ m - 1 \in Nat
    BY <1>3, <2>3
  <2>5. ~EndsChain(m - 1)
    BY <2>2, <2>4 DEF ChainFrom
  <2>6. m - 1 \in ChainFrom(h)
    <3>1. m - 1 \in Hashed
      BY <1>1, <1>3, <2>3, <2>4, FileFacts, SymbolFacts
    <3>2. \A k \in h .. (m - 1) - 1 : k \in h .. m - 1
      BY <1>3, <2>3, <2>4
    <3> QED
      BY <2>2, <2>4, <3>1, <3>2 DEF ChainFrom
  <2>7. BucketOf(m - 1) = b
    BY <2>1, <2>2, <2>4, <2>6
  <2>8. BucketOf((m - 1) + 1) = b
    BY <2>5, <2>7 DEF EndsChain
  <2> QED
    BY <1>3, <2>2, <2>3, <2>8
<1> QED
  BY <1>4, <1>5 DEF ChainFrom

\* Both walks find the symbol of a name that is in their table, or nothing.
LEMMA GnuWalkFinds ==
    ASSUME file \in File, NEW n \in Name
    PROVE  /\ \A i \in Hashed : Sym(i).name = n => GnuWalk(n) = i
           /\ (\A i \in Hashed : Sym(i).name # n) => GnuWalk(n) = 0
<1> DEFINE b == Hash[n] % file.nbucket
           hits == {i \in ChainFrom(GnuBucket(b)) :
                      HashAt(i) \div 2 = Hash[n] \div 2 /\ Sym(i).name = n}
<1>1. ASSUME NEW i \in Hashed, Sym(i).name = n
      PROVE  GnuWalk(n) = i
  <2>1. HashAt(i) = Hash[n] /\ BucketOf(i) = b
    BY <1>1 DEF HashAt, BucketOf
  <2>2. Bits(Hash[n]) \subseteq Bloom
    BY <2>1 DEF Bloom
  <2>3. NonEmpty(b)
    BY <2>1, BucketHead
  <2>4. i \in hits
    BY <1>1, <2>1, <2>3, ChainIsBucket
  <2>5. hits \subseteq {i}
    BY <1>1, <2>3, ChainIsBucket, OneOfAName, SymbolFacts
  <2>6. Least(hits) = i
    <3>1. i \in Nat \ {0} /\ hits = {i}
      BY <1>1, <2>4, <2>5, SymbolFacts
    <3> HIDE DEF hits
    <3> QED
      BY <3>1, OnlyElement
  <2> QED
    BY <2>2, <2>3, <2>6 DEF GnuWalk
<1>2. ASSUME \A i \in Hashed : Sym(i).name # n
      PROVE  GnuWalk(n) = 0
  <2>1. hits = {}
    BY <1>2 DEF ChainFrom
  <2> QED
    BY <2>1 DEF GnuWalk, Least
<1> QED
  BY <1>1, <1>2

LEMMA SysvWalkFinds ==
    ASSUME file \in File, NEW n \in Name
    PROVE  /\ \A i \in DOMAIN file.dynsym : Sym(i).name = n => SysvWalk(n) = i
           /\ (\A i \in DOMAIN file.dynsym : Sym(i).name # n) => SysvWalk(n) = 0
<1> DEFINE hits == {i \in DOMAIN file.dynsym : /\ BucketOf(i) = Hash[n] % file.nbucket
                                               /\ Sym(i).name = n}
<1>1. ASSUME NEW i \in DOMAIN file.dynsym, Sym(i).name = n
      PROVE  SysvWalk(n) = i
  <2>1. i \in hits
    BY <1>1 DEF HashAt, BucketOf
  <2>2. hits \subseteq {i}
    BY <1>1, OneOfAName
  <2>3. Max(hits) = i
    <3>1. i \in Nat \ {0} /\ hits = {i}
      BY <1>1, <2>1, <2>2, SymbolFacts
    <3> HIDE DEF hits
    <3> QED
      BY <3>1, OnlyElement
  <2> QED
    BY <2>1, <2>3 DEF SysvWalk
<1>2. (\A i \in DOMAIN file.dynsym : Sym(i).name # n) => SysvWalk(n) = 0
  BY DEF SysvWalk
<1> QED
  BY <1>1, <1>2

-----------------------------------------------------------------------------
(***************************************************************************)
(* elf_util.cc                                                             *)
(***************************************************************************)
\* The symbols that one of the three lookups can find, and that they do.
Findable(i) == Table = "hash" \/ i < file.symoffset \/ Sym(i).shndx # "undef"

LEMMA PltIndexFinds ==
    ASSUME file \in File, NEW n \in Name, Table # "none"
    PROVE  LET mine == {i \in DOMAIN file.dynsym : Sym(i).name = n /\ Findable(i)}
           IN /\ \A i \in mine : PltIndex(n) = i
              /\ mine = {} => PltIndex(n) = 0
<1> DEFINE below == {i \in DOMAIN file.dynsym : i < sym_offset /\ Sym(i).name = n}
           mine == {i \in DOMAIN file.dynsym : Sym(i).name = n /\ Findable(i)}
<1>1. \A i \in DOMAIN file.dynsym : i \in Nat \ {0}
  BY SymbolFacts
<1>2. ASSUME NEW i \in mine
      PROVE  PltIndex(n) = i
  <2>0. i \in DOMAIN file.dynsym /\ Sym(i).name = n
    OBVIOUS
  <2>1. CASE Table = "gnu" /\ i \in Hashed
    BY <1>1, <2>0, <2>1, GnuWalkFinds DEF PltIndex, GnuLookup
  <2>2. CASE Table = "gnu" /\ i \notin Hashed
    <3>1. \A j \in Hashed : Sym(j).name # n
      BY <2>0, <2>2, OneOfAName, SymbolFacts
    <3>2. GnuLookup(n) = 0 /\ ElfLookup(n) = 0
      BY <2>2, <3>1, GnuWalkFinds DEF GnuLookup, ElfLookup
    <3>3. i \in below
      BY <2>0, <2>2, SymbolFacts DEF sym_offset, Findable
    <3>4. below \subseteq {i}
      BY <2>0, OneOfAName
    <3>5. Least(below) = i
      BY <1>1, <3>3, <3>4, OnlyElement
    <3> QED
      BY <3>2, <3>5 DEF PltIndex, LinearLookup
  <2>3. CASE Table = "hash"
    BY <1>1, <2>0, <2>3, SysvWalkFinds DEF PltIndex, GnuLookup, ElfLookup
  <2> QED
    BY <2>1, <2>2, <2>3 DEF Table
<1>3. ASSUME mine = {}
      PROVE  PltIndex(n) = 0
  <2>1. GnuLookup(n) = 0
    <3>1. \A i \in Hashed : Sym(i).name # n
      BY <1>3, SymbolFacts DEF Findable
    <3> QED
      BY <3>1, GnuWalkFinds DEF GnuLookup
  <2>2. ElfLookup(n) = 0
    <3>1. Table = "hash" => \A i \in DOMAIN file.dynsym : Sym(i).name # n
      BY <1>3 DEF Findable
    <3> QED
      BY <3>1, SysvWalkFinds DEF ElfLookup
  <2>3. below = {}
    <3>1. \A i \in below : i \in mine
      BY <1>1 DEF Findable, sym_offset
    <3> QED
      BY <1>3, <3>1
  <2> QED
    BY <2>1, <2>2, <2>3 DEF PltIndex, LinearLookup, Least
<1> QED
  BY <1>2, <1>3

LEMMA OneJumpSlot ==
    ASSUME file \in File,
           NEW j \in DOMAIN file.plt, NEW k \in DOMAIN file.plt,
           file.plt[j].type = "jump_slot", file.plt[k].type = "jump_slot",
           file.plt[j].sym # 0, file.plt[j].sym = file.plt[k].sym
    PROVE  j = k
  BY ElfAssumption DEF WellFormed

\* The slots of one symbol are all of them, if the tables are read right.
LEMMA SlotsOfSymbol ==
    ASSUME file \in File, NEW i \in Nat \ {0},
           "android_rel" \notin Tags, is_use_rela = file.rela
    PROVE  SlotsOf(i) =
             {r.slot : r \in {q \in ToSet(file.plt) : q.sym = i /\ q.type = "jump_slot"}}
             \cup {r.slot : r \in {q \in ToSet(file.dyn) :
                                     q.sym = i /\ q.type \in {"glob_dat", "abs"}}}
<1> DEFINE hits == {k \in DOMAIN file.plt :
                      file.plt[k].sym = i /\ file.plt[k].type = "jump_slot"}
           jumps == {q \in ToSet(file.plt) : q.sym = i /\ q.type = "jump_slot"}
<1>1. /\ ReadTable("jmprel", "plt") = file.plt
      /\ ReadTable("rel", "dyn") = file.dyn
  BY ElfAssumption DEF WellFormed, Tags, ReadTable
<1>2. hits \subseteq Nat \ {0}
  BY FileFacts
<1>3. jumps = {file.plt[k] : k \in hits}
  BY DEF ToSet
<1>4. (IF Least(hits) = 0 THEN {} ELSE {file.plt[Least(hits)].slot})
        = {r.slot : r \in jumps}
  <2>1. CASE hits = {}
    <3>1. jumps = {}
      BY <1>3, <2>1
    <3> QED
      BY <2>1, <3>1, <1>2, LeastProperties
  <2>2. CASE hits # {}
    <3>1. Least(hits) \in hits /\ Least(hits) # 0
      BY <1>2, <2>2, LeastProperties
    <3>2. \A k \in hits : k = Least(hits)
      BY <3>1, OneJumpSlot
    <3>3. jumps = {file.plt[Least(hits)]}
      BY <1>3, <3>1, <3>2
    <3> QED
      BY <3>1, <3>3
  <2> QED
    BY <2>1, <2>2
<1>5. Pointers(file.dyn, i) = {r.slot : r \in {q \in ToSet(file.dyn) :
                                     q.sym = i /\ q.type \in {"glob_dat", "abs"}}}
  <2>1. {q \in ToSet(file.dyn) : q.sym = i /\ q.type \in {"abs", "glob_dat"}}
          = {q \in ToSet(file.dyn) : q.sym = i /\ q.type \in {"glob_dat", "abs"}}
    OBVIOUS
  <2> QED
    BY <2>1 DEF Pointers
<1>6. SlotsOf(i) = {r.slot : r \in jumps} \cup Pointers(file.dyn, i)
  BY <1>1, <1>4 DEF SlotsOf
<1> QED
  BY <1>5, <1>6

LEMMA FindsAllSlots ==
    ASSUME file \in File, NEW n \in Name, Valid, Table # "none",
           "android_rel" \notin Tags, is_use_rela = file.rela
    PROVE  LET mine == {i \in DOMAIN file.dynsym : Sym(i).name = n /\ Findable(i)}
           IN FindPltAddr(n) =
                {r.slot : r \in {q \in ToSet(file.plt) :
                           q.sym \in mine /\ q.type = "jump_slot"}}
                \cup {r.slot : r \in {q \in ToSet(file.dyn) :
                           q.sym \in mine /\ q.type \in {"glob_dat", "abs"}}}
<1> DEFINE mine == {i \in DOMAIN file.dynsym : Sym(i).name = n /\ Findable(i)}
<1>1. CASE mine = {}
  <2>1. PltIndex(n) = 0
    BY <1>1, PltIndexFinds
  <2> QED
    BY <1>1, <2>1 DEF FindPltAddr
<1>2. CASE mine # {}
  <2>1. PICK i \in mine : TRUE
    BY <1>2
  <2>2. mine = {i}
    BY <2>1, OneOfAName
  <2>3. PltIndex(n) = i /\ i \in Nat \ {0}
    BY <2>1, PltIndexFinds, SymbolFacts
  <2>4. FindPltAddr(n) = SlotsOf(i)
    BY <2>3 DEF FindPltAddr
  <2>5. SlotsOf(i) = {r.slot : r \in {q \in ToSet(file.plt) :
                               q.sym = i /\ q.type = "jump_slot"}}
                     \cup {r.slot : r \in {q \in ToSet(file.dyn) :
                               q.sym = i /\ q.type \in {"glob_dat", "abs"}}}
    BY <2>3, SlotsOfSymbol
  <2>6. /\ {q \in ToSet(file.plt) : q.sym = i /\ q.type = "jump_slot"}
             = {q \in ToSet(file.plt) : q.sym \in mine /\ q.type = "jump_slot"}
        /\ {q \in ToSet(file.dyn) : q.sym = i /\ q.type \in {"glob_dat", "abs"}}
             = {q \in ToSet(file.dyn) : q.sym \in mine /\ q.type \in {"glob_dat", "abs"}}
    <3> HIDE DEF mine
    <3> QED
      BY <2>2
  <2> HIDE DEF mine
  <2>7. FindPltAddr(n) = {r.slot : r \in {q \in ToSet(file.plt) :
                               q.sym \in mine /\ q.type = "jump_slot"}}
                     \cup {r.slot : r \in {q \in ToSet(file.dyn) :
                               q.sym \in mine /\ q.type \in {"glob_dat", "abs"}}}
    BY <2>4, <2>5, <2>6
  <2> QED
    BY <2>7 DEF mine
<1> QED
  BY <1>1, <1>2

-----------------------------------------------------------------------------
(***************************************************************************)
(* xdl.c                                                                   *)
(***************************************************************************)
LEMMA ResolveEmpty == \A t : Resolve(t) = <<>> <=> t.type = "tls"
  BY DEF Resolve

\* By name, in .dynsym.
LEMMA NameInDynsym ==
    ASSUME file \in File, NEW n \in Name, dynsym_loaded
    PROVE  {xdl_sym(n)} \ {<<>>} =
             {Resolve(s) : s \in {t \in ToSet(file.dynsym) :
                             t.name = n /\ t.shndx # "undef" /\ t.type # "tls"}}
<1> DEFINE gnu == IF "gnu_hash" \in Tags THEN GnuWalk(n) ELSE 0
           index == IF gnu = 0 /\ "hash" \in Tags THEN SysvWalk(n) ELSE gnu
           named == {t \in ToSet(file.dynsym) :
                       t.name = n /\ t.shndx # "undef" /\ t.type # "tls"}
<1>1. \A i \in DOMAIN file.dynsym : i # 0
  BY SymbolFacts
<1>2. ASSUME NEW i \in DOMAIN file.dynsym, Sym(i).name = n, Sym(i).shndx # "undef"
      PROVE  index = i
  <2>1. i \in Hashed
    BY <1>2, SymbolFacts
  <2>2. "gnu_hash" \in Tags => gnu = i
    BY <1>2, <2>1, GnuWalkFinds
  <2>3. SysvWalk(n) = i
    BY <1>2, SysvWalkFinds
  <2> QED
    BY <1>1, <2>2, <2>3 DEF dynsym_loaded
<1>3. index # 0 => index \in DOMAIN file.dynsym /\ Sym(index).name = n
  <2>1. GnuWalk(n) # 0 => GnuWalk(n) \in DOMAIN file.dynsym /\ Sym(GnuWalk(n)).name = n
    BY GnuWalkFinds, SymbolFacts
  <2>2. SysvWalk(n) # 0 => SysvWalk(n) \in DOMAIN file.dynsym /\ Sym(SysvWalk(n)).name = n
    BY SysvWalkFinds
  <2> QED
    BY <2>1, <2>2
<1>4. xdl_sym(n) = IF index = 0 THEN <<>>
                   ELSE IF Sym(index).shndx = "undef" THEN <<>> ELSE Resolve(Sym(index))
  BY DEF xdl_sym
<1>5. CASE index # 0 /\ Sym(index).shndx # "undef"
  <2>1. \A t \in ToSet(file.dynsym) : t.name = n /\ t.shndx # "undef" => t = Sym(index)
    BY <1>2 DEF ToSet, Sym
  <2>2. Sym(index) \in ToSet(file.dynsym) /\ Sym(index).name = n
    BY <1>3, <1>5 DEF ToSet, Sym
  <2>3. named = IF Sym(index).type = "tls" THEN {} ELSE {Sym(index)}
    BY <1>5, <2>1, <2>2
  <2>4. xdl_sym(n) = Resolve(Sym(index))
    BY <1>4, <1>5
  <2> QED
    BY <2>3, <2>4, ResolveEmpty
<1>6. CASE index = 0 \/ Sym(index).shndx = "undef"
  <2>1. xdl_sym(n) = <<>>
    BY <1>4, <1>6
  <2>2. named = {}
    BY <1>1, <1>2, <1>6 DEF ToSet, Sym
  <2> QED
    BY <2>1, <2>2
<1> QED
  BY <1>5, <1>6

\* .symtab is a list of symbols.
LEMMA SymtabType == ASSUME file \in File PROVE symtab \in Seq(Symbol)
<1> DEFINE usable == {i \in DOMAIN file.sections : Usable(file.sections[i])}
<1>1. usable \subseteq Nat \ {0}
  BY FileFacts
<1>2. Least(usable) # 0 => Least(usable) \in DOMAIN file.sections
  BY <1>1, LeastProperties
<1>3. Least(usable) # 0 => file.sections[Least(usable)] \in Section
  <2>1. \A i \in DOMAIN file.sections : file.sections[i] \in Section
    BY FileFacts
  <2> QED
    BY <1>2, <2>1
<1>4. <<>> \in Seq(Symbol)
  OBVIOUS
<1> QED
  BY <1>3, <1>4 DEF symtab, Section

LEMMA NameInSymtab ==
    ASSUME file \in File, NEW n \in Name, NEW x
    PROVE  LET named == {Resolve(s) : s \in {t \in ToSet(symtab) :
                           t.name = n /\ t.shndx = "text"}}
               exact == {Resolve(s) : s \in {t \in ToSet(symtab) :
                           <<t.name, t.suffix>> = <<n, x>> /\ t.shndx = "text"}}
               found == {xdl_dsym(n, x)} \ {<<>>}
           IN found \subseteq named /\ (exact # {} /\ <<>> \notin named => found # {})
<1> DEFINE hits == {k \in DOMAIN symtab :
                      symtab[k].shndx = "text" /\ NameMatches(symtab[k], n, x)}
           named == {Resolve(s) : s \in {t \in ToSet(symtab) :
                       t.name = n /\ t.shndx = "text"}}
<1>1. hits \subseteq Nat \ {0}
  BY SymtabType
<1>2. Least(hits) # 0 => xdl_dsym(n, x) \in named
  <2> SUFFICES ASSUME Least(hits) # 0 PROVE Resolve(symtab[Least(hits)]) \in named
    BY DEF xdl_dsym
  <2>1. Least(hits) \in hits
    BY <1>1, LeastProperties
  <2> QED
    BY <2>1 DEF ToSet, NameMatches
<1>3. Least(hits) = 0 => xdl_dsym(n, x) = <<>>
  BY DEF xdl_dsym
<1>4. ASSUME NEW t \in ToSet(symtab), <<t.name, t.suffix>> = <<n, x>>, t.shndx = "text"
      PROVE  Least(hits) # 0
  <2>1. hits # {}
    BY <1>4 DEF ToSet, NameMatches
  <2> QED
    BY <1>1, <2>1, LeastProperties
<1> QED
  BY <1>2, <1>3, <1>4

\* By address, in .dynsym: the walk over all buckets misses no symbol.
LEMMA AllBuckets ==
    ASSUME file \in File
    PROVE  UNION {ChainFrom(GnuBucket(b)) :
                    b \in {c \in 0 .. file.nbucket - 1 : NonEmpty(c)}} = Hashed
<1> DEFINE buckets == {c \in 0 .. file.nbucket - 1 : NonEmpty(c)}
<1>1. \A b \in buckets : ChainFrom(GnuBucket(b)) = {i \in Hashed : BucketOf(i) = b}
  BY ChainIsBucket
<1>2. \A i \in Hashed : BucketOf(i) \in buckets
  BY BucketHead, SymbolFacts
<1> QED
  BY <1>1, <1>2

LEMMA AddressInDynsym ==
    ASSUME file \in File, NEW a, dynsym_loaded
    PROVE  LET i == xdl_sym_by_addr(a)
               hits == {j \in DOMAIN file.dynsym : IsMatch(Sym(j), a, FALSE)}
           IN (i # 0 => i \in hits) /\ (i = 0 => hits = {})
<1> DEFINE gnu == "gnu_hash" \in Tags
           searched == IF gnu THEN Hashed ELSE DOMAIN file.dynsym
           found == {i \in searched : IsMatch(Sym(i), a, FALSE)}
           first == {i \in found : \A j \in found : BucketOf(i) <= BucketOf(j)}
           hits == {j \in DOMAIN file.dynsym : IsMatch(Sym(j), a, FALSE)}
<1>1. xdl_sym_by_addr(a) = Least(IF gnu THEN first ELSE found)
  BY AllBuckets DEF xdl_sym_by_addr
<1>2. found = hits
  <2>1. \A j \in hits : j \in Hashed
    BY SymbolFacts DEF IsMatch
  <2> QED
    BY <2>1, SymbolFacts
<1>3. found # {} => first # {}
  <2> SUFFICES ASSUME found # {} PROVE first # {}
    OBVIOUS
  <2> DEFINE buckets == {BucketOf(i) : i \in found}
  <2>0. \A i \in found : BucketOf(i) \in Nat
    BY <1>2, SymbolFacts, FileFacts
  <2>1. buckets \subseteq Nat /\ buckets # {}
    BY <2>0
  <2>2. PICK b \in buckets : \A c \in buckets : b <= c
    BY <2>1, MinExists
  <2>3. PICK i \in found : BucketOf(i) = b
    BY <2>2
  <2>4. i \in first
    BY <2>2, <2>3
  <2> QED
    BY <2>4
<1>4. found \subseteq Nat \ {0} /\ first \subseteq found
  <2>1. DOMAIN file.dynsym \subseteq Nat \ {0}
    BY FileFacts
  <2>2. hits \subseteq DOMAIN file.dynsym
    BY Zenon
  <2>3. first \subseteq found
    BY Zenon
  <2> QED
    BY <1>2, <2>1, <2>2, <2>3, Zenon
<1> DEFINE kept == IF gnu THEN first ELSE found
<1>5. kept \subseteq Nat \ {0} /\ kept \subseteq hits /\ (kept = {} => hits = {})
  BY <1>2, <1>3, <1>4
<1>6. xdl_sym_by_addr(a) = Least(kept)
  BY <1>1
<1> HIDE DEF kept
<1> QED
  BY <1>5, <1>6, LeastProperties

LEMMA AddressInSymtab ==
    ASSUME file \in File, NEW a
    PROVE  LET i == xdl_dsym_by_addr(a)
               hits == {j \in DOMAIN symtab : IsMatch(symtab[j], a, TRUE)}
           IN (i # 0 => i \in hits) /\ (i = 0 => hits = {})
<1> DEFINE hits == {j \in DOMAIN symtab : IsMatch(symtab[j], a, TRUE)}
<1>1. DOMAIN symtab \subseteq Nat \ {0}
  BY SymtabType
<1>2. hits \subseteq Nat \ {0}
  BY <1>1, Zenon
<1> QED
  BY <1>2, LeastProperties DEF xdl_dsym_by_addr

LEMMA AddressCovered ==
    ASSUME file \in File, NEW a, dynsym_loaded
    PROVE  LET covering == {s \in ToSet(file.dynsym) : IsMatch(s, a, FALSE)}
                           \cup {s \in ToSet(symtab) : IsMatch(s, a, TRUE)}
               answers == ToSet(SymbolAt(a))
           IN answers \subseteq covering /\ (answers = {} => covering = {})
<1> DEFINE covering == {s \in ToSet(file.dynsym) : IsMatch(s, a, FALSE)}
                       \cup {s \in ToSet(symtab) : IsMatch(s, a, TRUE)}
           i == xdl_sym_by_addr(a)
           j == xdl_dsym_by_addr(a)
<1>1. \A s : ToSet(<<s>>) = {s}
  BY DEF ToSet
<1>2. ToSet(<<>>) = {}
  BY DEF ToSet
<1>3. CASE i # 0
  <2>1. Sym(i) \in covering
    BY <1>3, AddressInDynsym DEF ToSet, Sym
  <2>2. ToSet(SymbolAt(a)) = {Sym(i)}
    BY <1>1, <1>3 DEF SymbolAt
  <2> QED
    BY <2>1, <2>2
<1>4. CASE i = 0 /\ j # 0
  <2>1. symtab[j] \in covering
    BY <1>4, AddressInSymtab DEF ToSet
  <2>2. ToSet(SymbolAt(a)) = {symtab[j]}
    BY <1>1, <1>4 DEF SymbolAt
  <2> QED
    BY <2>1, <2>2
<1>5. CASE i = 0 /\ j = 0
  <2>1. covering = {}
    BY <1>5, AddressInDynsym, AddressInSymtab DEF ToSet, Sym
  <2>2. ToSet(SymbolAt(a)) = {}
    BY <1>2, <1>5 DEF SymbolAt
  <2> QED
    BY <2>1, <2>2
<1> QED
  BY <1>3, <1>4, <1>5

-----------------------------------------------------------------------------
\* A behaviour has one question, and its answer is that of the algorithm.
Answered ==
    \/ query = <<>>
    \/ \E n \in Name : query = <<"FindPltAddr", n>> /\ answer = FindPltAddr(n)
    \/ \E n \in Name : query = <<"xdl_sym", n>> /\ answer = {xdl_sym(n)} \ {<<>>}
    \/ \E n \in Name, x \in Suffix :
         query = <<"xdl_dsym", n, x>> /\ answer = {xdl_dsym(n, x)} \ {<<>>}
    \/ \E a \in Address : query = <<"xdl_addr", a>> /\ answer = ToSet(SymbolAt(a))

IInv == file \in File /\ Answered

\* Operators of the file alone do not change.
LEMMA SameFile ==
    ASSUME file' = file
    PROVE  /\ \A n : FindPltAddr(n)' = FindPltAddr(n)
           /\ \A n : xdl_sym(n)' = xdl_sym(n)
           /\ \A n, x : xdl_dsym(n, x)' = xdl_dsym(n, x)
           /\ \A a : SymbolAt(a)' = SymbolAt(a)
           /\ Suffix' = Suffix
  BY DEF FindPltAddr, Valid, Aps2, Tags, PltIndex, GnuLookup, ElfLookup, LinearLookup,
         Table, sym_offset, SlotsOf, GnuWalk, SysvWalk, Bloom, Bits, NonEmpty, GnuBucket,
         ChainFrom, EndsChain, Hashed, BucketOf, HashAt, Sym, xdl_sym, xdl_dsym,
         SymbolAt, xdl_sym_by_addr, xdl_dsym_by_addr, dynsym_loaded, symtab, Usable,
         Readable, Resolve, Suffix, ReadTable, is_use_rela, Pointers

THEOREM IInvCorrect == Spec => []IInv
<1>1. Init => IInv
  BY DEF Init, IInv, Answered
<1>2. IInv /\ [Next]_vars => IInv'
  <2> SUFFICES ASSUME IInv, [Next]_vars PROVE IInv'
    OBVIOUS
  <2>1. file' = file
    BY DEF Next, Ask, vars
  <2>2. CASE UNCHANGED vars
    BY <2>1, <2>2, SameFile DEF IInv, Answered, vars
  <2>3. CASE Next
    BY <2>1, <2>3, SameFile DEF IInv, Answered, Next, Ask
  <2> QED
    BY <2>2, <2>3
<1> QED
  BY <1>1, <1>2, PTL DEF Spec

\* elf_util.cc:268-304: with any hash tables, LSPlt finds all slots of a symbol
\* that it can find, and no slot of any other, if the relocations are of the
\* size that DT_PLTREL tells and none are packed.
THEOREM SlotsAreAllCorrect == Spec => []SlotsAreAll
<1>1. IInv => SlotsAreAll
  <2> SUFFICES ASSUME IInv, Asked("FindPltAddr"), Valid, Table # "none",
                      "android_rel" \notin Tags, is_use_rela = file.rela
               PROVE  SlotsAreAll
    BY DEF SlotsAreAll
  <2>1. PICK n \in Name : query = <<"FindPltAddr", n>> /\ answer = FindPltAddr(n)
    BY DEF IInv, Answered, Asked
  <2>2. query[2] = n /\ file \in File
    BY <2>1 DEF IInv
  <2> QED
    BY <2>1, <2>2, FindsAllSlots DEF SlotsAreAll, Findable
<1> QED
  BY <1>1, IInvCorrect, PTL

\* A search by name finds the symbol that the file exports, or a local one.
THEOREM NamesFindTheirSymbolCorrect == Spec => []NamesFindTheirSymbol
<1>1. IInv => NamesFindTheirSymbol
  <2> SUFFICES ASSUME IInv PROVE NamesFindTheirSymbol
    OBVIOUS
  <2>1. ASSUME Asked("xdl_sym"), dynsym_loaded
        PROVE  answer = {Resolve(s) : s \in {t \in ToSet(file.dynsym) :
                      t.name = query[2] /\ t.shndx # "undef" /\ t.type # "tls"}}
    <3>1. PICK n \in Name : query = <<"xdl_sym", n>> /\ answer = {xdl_sym(n)} \ {<<>>}
      BY <2>1 DEF IInv, Answered, Asked
    <3> QED
      BY <2>1, <3>1, NameInDynsym DEF IInv
  <2>2. ASSUME Asked("xdl_dsym")
        PROVE  LET named == {Resolve(s) : s \in {t \in ToSet(symtab) :
                         t.name = query[2] /\ t.shndx = "text"}}
                   exact == {Resolve(s) : s \in {t \in ToSet(symtab) :
                         <<t.name, t.suffix>> = <<query[2], query[3]>> /\ t.shndx = "text"}}
               IN answer \subseteq named /\ (exact # {} /\ <<>> \notin named => answer # {})
    <3>1. PICK n \in Name, x \in Suffix :
            query = <<"xdl_dsym", n, x>> /\ answer = {xdl_dsym(n, x)} \ {<<>>}
      BY <2>2 DEF IInv, Answered, Asked
    <3> QED
      BY <3>1, NameInSymtab DEF IInv
  <2> QED
    BY <2>1, <2>2 DEF NamesFindTheirSymbol
<1> QED
  BY <1>1, IInvCorrect, PTL

\* A search by address finds a symbol that covers it, if there is one.
THEOREM AddressesFindTheirSymbolCorrect == Spec => []AddressesFindTheirSymbol
<1>1. IInv => AddressesFindTheirSymbol
  <2> SUFFICES ASSUME IInv, Asked("xdl_addr"), dynsym_loaded
               PROVE  AddressesFindTheirSymbol
    BY DEF AddressesFindTheirSymbol
  <2>1. PICK a \in Address : query = <<"xdl_addr", a>> /\ answer = ToSet(SymbolAt(a))
    BY DEF IInv, Answered, Asked
  <2> QED
    BY <2>1, AddressCovered DEF AddressesFindTheirSymbol, IInv
<1> QED
  BY <1>1, IInvCorrect, PTL
=============================================================================
