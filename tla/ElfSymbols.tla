----------------------------- MODULE ElfSymbols -----------------------------
(***************************************************************************)
(* How symbols are found in a library: the PLT slots that LSPlt hooks      *)
(* (elf_util.cc), and xDL's searches by name and by address in .dynsym and *)
(* .symtab (xdl.c).  A file is what the link editor wrote: its dynamic     *)
(* section, its symbols with the GNU and the SYSV hash table over them,    *)
(* relocations, sections.  Index 0, the null symbol, means not found.      *)
(*                                                                         *)
(* A name is a model value with a hash, and a suffix such as .llvm.123 of  *)
(* a symbol in .symtab is apart from it.                                   *)
(***************************************************************************)
EXTENDS FiniteSetsExt, SequencesExt, Naturals

CONSTANTS
    Name,       \* names without suffix
    Hash,       \* their GNU hash; the SYSV tables use it too
    Word, Shift,\* bits of a bloom word, and the shift to the second bit
    File,       \* files
    Address     \* addresses, relative to the load bias

NoSuffix == ""
Symbol == [name : Name, suffix : STRING, shndx : {"undef", "text", "reserved"},
           type : {"func", "tls", "ifunc"}, value : Address, size : Nat]
Reloc == [sym : Nat, type : {"jump_slot", "glob_dat", "abs", "other"}, slot : Nat]
Section == [kind : {"symtab", "debugdata", "other"}, offset : Nat, size : Nat,
            links : BOOLEAN, symbols : Seq(Symbol)]

Least(S) == IF S = {} THEN 0 ELSE Min(S)

\* The dynamic section of f, as far as its DT_NULL.
TagsOf(f) == LET end == Least({i \in DOMAIN f.dynamic : f.dynamic[i] = "null"})
             IN ToSet(SubSeq(f.dynamic, 1, IF end = 0 THEN Len(f.dynamic) ELSE end - 1))

\* Imports come first in .dynsym; then, from symoffset on, what the GNU table
\* has, the symbols of one bucket next to each other.  GNU ld writes symoffset
\* 1 into an empty table, below all the imports.  A symbol has one jump slot
\* at most.  The relocations of a file are all with addends or all without;
\* misread and packed are what is seen in entries of the other size, and in a
\* packed table.
WellFormed(f) ==
    /\ f.dynsym \in Seq(Symbol)
    /\ f.rela \in BOOLEAN /\ f.packed \in Seq(Reloc)
    /\ f.plt \in Seq(Reloc) /\ f.dyn \in Seq(Reloc)
    /\ f.misread \in [{"plt", "dyn"} -> Seq(Reloc)]
    /\ f.sections \in Seq(Section)
    /\ f.nbucket \in Nat \ {0} /\ f.nbloom \in Nat \ {0}
    /\ "jmprel" \notin TagsOf(f) => f.plt = <<>>
    /\ "rel" \notin TagsOf(f) => f.dyn = <<>>
    /\ \A i, j \in DOMAIN f.plt :
         f.plt[i].type = "jump_slot" /\ f.plt[j].type = "jump_slot" /\ f.plt[i].sym # 0
           => i = j \/ f.plt[i].sym # f.plt[j].sym
    /\ \A i, j \in DOMAIN f.dynsym : i < j =>
         /\ f.dynsym[i].name # f.dynsym[j].name
         /\ f.dynsym[j].shndx = "undef" => f.dynsym[i].shndx = "undef"
    /\ f.symoffset \in 1 .. Len(f.dynsym) + 1
    /\ \A i, j \in DOMAIN f.dynsym :
         f.dynsym[j].shndx # "undef" => (i < f.symoffset <=> f.dynsym[i].shndx = "undef")
    /\ LET hashed == {i \in DOMAIN f.dynsym : f.dynsym[i].shndx # "undef"}
           b(i) == Hash[f.dynsym[i].name] % f.nbucket
       IN \A i, j, k \in hashed : i < j /\ j < k /\ b(i) = b(k) => b(j) = b(i)

ASSUME ElfAssumption ==
    /\ Hash \in [Name -> Nat] /\ Word \in Nat \ {0} /\ Shift \in Nat
    /\ \A f \in File : WellFormed(f)

VARIABLES file, query, answer
vars == <<file, query, answer>>

Sym(i) == file.dynsym[i]
HashAt(i) == Hash[Sym(i).name]

-----------------------------------------------------------------------------
(***************************************************************************)
(* The dynamic section.  A table that lies below the base of the library   *)
(* makes Elf give up; xDL gives up when it misses one of its tables.       *)
(***************************************************************************)
Tags == TagsOf(file)

\* Packed relocations must begin with APS2.
Aps2 == "android_rel" \in Tags => file.aps2

Valid ==
    /\ file.header
    /\ Tags \cap file.below \cap {"strtab", "symtab", "jmprel", "rel", "android_rel"} = {}
    /\ Aps2

\* Elf: DT_HASH is ignored if there is a DT_GNU_HASH, before it or after.
Table == IF "gnu_hash" \in Tags THEN "gnu" ELSE IF "hash" \in Tags THEN "hash" ELSE "none"
sym_offset == IF Table = "gnu" THEN file.symoffset ELSE 0

\* DT_PLTREL; without it, entries have no addends.
is_use_rela == "pltrel_rela" \in Tags

\* xdl_dynsym_load
dynsym_loaded ==
    /\ {"symtab", "strtab", "strsz"} \subseteq Tags
    /\ Tags \cap {"hash", "gnu_hash"} # {}

-----------------------------------------------------------------------------
(***************************************************************************)
(* The hash tables as written, and the two walks over them, which both     *)
(* programs have.                                                          *)
(***************************************************************************)
Hashed == {i \in DOMAIN file.dynsym : Sym(i).shndx # "undef"}
BucketOf(i) == HashAt(i) % file.nbucket
Bits(h) == {<<(h \div Word) % file.nbloom, h % Word>>,
            <<(h \div Word) % file.nbloom, (h \div 2 ^ Shift) % Word>>}
Bloom == UNION {Bits(HashAt(i)) : i \in Hashed}
GnuBucket(b) == Least({i \in Hashed : BucketOf(i) = b})

NonEmpty_MStrict(b) == GnuBucket(b) > file.symoffset

\* Symbols below symoffset are not in the table: 0 stands for an empty bucket.
NonEmpty(b) == GnuBucket(b) >= file.symoffset

EndsChain(i) == i + 1 \notin Hashed \/ BucketOf(i + 1) # BucketOf(i)

\* The indices visited from the head of a bucket on.
ChainFrom(i) == {j \in Hashed : j >= i /\ \A k \in i .. j - 1 : ~EndsChain(k)}

GnuWalk(n) ==
    IF ~(Bits(Hash[n]) \subseteq Bloom) THEN 0
    ELSE LET b == Hash[n] % file.nbucket
         IN IF ~NonEmpty(b) THEN 0
            ELSE Least({i \in ChainFrom(GnuBucket(b)) :
                          HashAt(i) \div 2 = Hash[n] \div 2 /\ Sym(i).name = n})

\* A chain of the SYSV table has all symbols of a bucket, imports included,
\* the one that was added last first.
SysvWalk(n) ==
    LET hits == {i \in DOMAIN file.dynsym : /\ BucketOf(i) = Hash[n] % file.nbucket
                                            /\ Sym(i).name = n}
    IN IF hits = {} THEN 0 ELSE Max(hits)

-----------------------------------------------------------------------------
(***************************************************************************)
(* elf_util.cc                                                             *)
(***************************************************************************)
GnuLookup(n) == IF Table = "gnu" THEN GnuWalk(n) ELSE 0
ElfLookup(n) == IF Table = "hash" THEN SysvWalk(n) ELSE 0

LinearLookup_MNone(n) == 0

\* Imports are not in the GNU table.
LinearLookup(n) == Least({i \in DOMAIN file.dynsym : i < sym_offset /\ Sym(i).name = n})

PltIndex(n) ==
    IF GnuLookup(n) # 0 THEN GnuLookup(n)
    ELSE IF ElfLookup(n) # 0 THEN ElfLookup(n)
    ELSE LinearLookup(n)

\* The first jump slot of the symbol, and all its other pointers; both tables,
\* and a packed one, are taken for entries of the size that DT_PLTREL tells.
ReadTable(tag, table) ==
    IF tag \notin Tags THEN <<>>
    ELSE IF is_use_rela = file.rela THEN file[table] ELSE file.misread[table]

Pointers(table, i) ==
    {r.slot : r \in {q \in ToSet(table) : q.sym = i /\ q.type \in {"abs", "glob_dat"}}}

SlotsOf(i) ==
    LET plt == ReadTable("jmprel", "plt")
        first == Least({k \in DOMAIN plt : plt[k].sym = i /\ plt[k].type = "jump_slot"})
    IN (IF first = 0 THEN {} ELSE {plt[first].slot})
       \cup Pointers(ReadTable("rel", "dyn"), i)
       \cup (IF "android_rel" \in Tags THEN Pointers(file.packed, i) ELSE {})

FindPltAddr(n) == IF Valid /\ PltIndex(n) # 0 THEN SlotsOf(PltIndex(n)) ELSE {}

-----------------------------------------------------------------------------
(***************************************************************************)
(* xdl.c: .symtab is that of the first section that can be read, in the    *)
(* file or in the library that .gnu_debugdata holds.                       *)
(***************************************************************************)
Readable(s) == s.size > 0 /\ s.offset < file.size /\ s.size <= file.size - s.offset
Usable(s) == s.kind # "other" /\ s.links /\ Readable(s)
symtab ==
    LET first == Least({i \in DOMAIN file.sections : Usable(file.sections[i])})
    IN IF ~file.headers \/ first = 0 THEN <<>> ELSE file.sections[first].symbols

IsMatch(s, a, is_symtab) ==
    /\ s.shndx \in IF is_symtab THEN {"text"} ELSE {"text", "reserved"}
    /\ s.type # "tls"
    /\ s.value <= a /\ a < s.value + s.size

\* By address: all buckets of the GNU table in turn if there is one, else all
\* of .dynsym.
xdl_sym_by_addr(a) ==
    LET gnu == "gnu_hash" \in Tags
        searched == IF gnu THEN UNION {ChainFrom(GnuBucket(b)) :
                                  b \in {c \in 0 .. file.nbucket - 1 : NonEmpty(c)}}
                    ELSE DOMAIN file.dynsym
        hits == {i \in searched : IsMatch(Sym(i), a, FALSE)}
        first == {i \in hits : \A j \in hits : BucketOf(i) <= BucketOf(j)}
    IN IF ~dynsym_loaded THEN 0 ELSE Least(IF gnu THEN first ELSE hits)

xdl_dsym_by_addr(a) == Least({i \in DOMAIN symtab : IsMatch(symtab[i], a, TRUE)})

\* The symbol of an address, in .dynsym or else in .symtab.
SymbolAt(a) ==
    IF xdl_sym_by_addr(a) # 0 THEN <<Sym(xdl_sym_by_addr(a))>>
    ELSE IF xdl_dsym_by_addr(a) # 0 THEN <<symtab[xdl_dsym_by_addr(a)]>>
    ELSE <<>>

\* A symbol has no address if it is thread local, and that to which its
\* resolver points if it is indirect; then its size is that of what is there.
Resolve(s) ==
    CASE s.type = "tls" -> <<>>
      [] s.type = "ifunc" ->
           LET real == SymbolAt(file.resolved)
           IN <<file.resolved, IF real = <<>> THEN 0 ELSE real[1].size>>
      [] OTHER -> <<s.value, s.size>>

xdl_sym_MImports(n) ==
    LET gnu == IF "gnu_hash" \in Tags THEN GnuWalk(n) ELSE 0
        i == IF gnu = 0 /\ "hash" \in Tags THEN SysvWalk(n) ELSE gnu
    IN IF ~dynsym_loaded \/ i = 0 THEN <<>> ELSE Resolve(Sym(i))

xdl_sym(n) ==
    LET gnu == IF "gnu_hash" \in Tags THEN GnuWalk(n) ELSE 0
        i == IF gnu = 0 /\ "hash" \in Tags THEN SysvWalk(n) ELSE gnu
    IN IF ~dynsym_loaded \/ i = 0 THEN <<>>
       ELSE IF Sym(i).shndx = "undef" THEN <<>> ELSE Resolve(Sym(i))

\* xdl_dsym_is_match: the suffix is left off the name, or looked up with it.
NameMatches(s, n, x) == s.name = n /\ x \in {s.suffix, NoSuffix}

xdl_dsym(n, x) ==
    LET i == Least({k \in DOMAIN symtab :
                      symtab[k].shndx = "text" /\ NameMatches(symtab[k], n, x)})
    IN IF i = 0 THEN <<>> ELSE Resolve(symtab[i])

-----------------------------------------------------------------------------
Suffix == {s.suffix : s \in ToSet(symtab)} \cup {NoSuffix}
Init == file \in File /\ query = <<>> /\ answer = {}

Ask(q, a) == query = <<>> /\ query' = q /\ answer' = a /\ UNCHANGED file

Next ==
    \/ \E n \in Name : Ask(<<"FindPltAddr", n>>, FindPltAddr(n))
    \/ \E n \in Name : Ask(<<"xdl_sym", n>>, {xdl_sym(n)} \ {<<>>})
    \/ \E n \in Name, x \in Suffix : Ask(<<"xdl_dsym", n, x>>, {xdl_dsym(n, x)} \ {<<>>})
    \/ \E a \in Address : Ask(<<"xdl_addr", a>>, ToSet(SymbolAt(a)))

Spec == Init /\ [][Next]_vars

-----------------------------------------------------------------------------
Asked(q) == query # <<>> /\ query[1] = q

\* elf_util.cc:268-304: LSPlt finds every slot through which a library calls a
\* symbol, be it imported or its own, and no other, whichever hash tables there
\* are, in which order and with which collisions.  This is so if relocations
\* have the size DT_PLTREL tells and none are packed.  An import that lies
\* neither below symoffset nor in a SYSV table has no slots for LSPlt.
SlotsAreAll ==
    Asked("FindPltAddr") /\ Valid /\ Table # "none"
      /\ "android_rel" \notin Tags /\ is_use_rela = file.rela =>
      LET mine == {i \in DOMAIN file.dynsym :
                     /\ Sym(i).name = query[2]
                     /\ Table = "hash" \/ i < file.symoffset \/ Sym(i).shndx # "undef"}
      IN answer = {r.slot : r \in {q \in ToSet(file.plt) :
                          q.sym \in mine /\ q.type = "jump_slot"}}
                  \cup {r.slot : r \in {q \in ToSet(file.dyn) :
                          q.sym \in mine /\ q.type \in {"glob_dat", "abs"}}}

\* xdl.c, xdl_sym: a search by name finds the address of the symbol that the
\* library exports, if any; never that of an import or of a thread local.
\* xdl_dsym finds one of the name asked for whenever .symtab has one.
NamesFindTheirSymbol ==
    /\ Asked("xdl_sym") /\ dynsym_loaded =>
         answer = {Resolve(s) : s \in {t \in ToSet(file.dynsym) :
                      t.name = query[2] /\ t.shndx # "undef" /\ t.type # "tls"}}
    /\ Asked("xdl_dsym") =>
         LET named == {Resolve(s) : s \in {t \in ToSet(symtab) :
                         t.name = query[2] /\ t.shndx = "text"}}
             exact == {Resolve(s) : s \in {t \in ToSet(symtab) :
                         <<t.name, t.suffix>> = <<query[2], query[3]>> /\ t.shndx = "text"}}
         IN answer \subseteq named /\ (exact # {} /\ <<>> \notin named => answer # {})

\* xdl.c, xdl_addr4: a search by address finds a symbol that covers it, if
\* .dynsym exports one or .symtab has one, whichever hash table is used.
AddressesFindTheirSymbol ==
    Asked("xdl_addr") /\ dynsym_loaded =>
      LET covering == {s \in ToSet(file.dynsym) : IsMatch(s, query[2], FALSE)}
                      \cup {s \in ToSet(symtab) : IsMatch(s, query[2], TRUE)}
      IN answer \subseteq covering /\ (answer = {} => covering = {})
=============================================================================
