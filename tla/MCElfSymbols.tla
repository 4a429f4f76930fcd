---------------------------- MODULE MCElfSymbols ----------------------------
(***************************************************************************)
(* Files for TLC: up to three symbols, each absent, imported or defined in *)
(* .dynsym as something; one bucket or two, any mix of hash tables, and    *)
(* both forms of a table without symbols; relocations with addends, which  *)
(* DT_PLTREL says or nobody does, and packed ones; and .symtab plain,      *)
(* unreadable, compressed or missing.  The hashes of a and b differ in the *)
(* lowest bit only, those of a and c fall in one bucket.  Of three entries *)
(* without addend seen in two with one, the first is right.                *)
(***************************************************************************)
EXTENDS ElfSymbols

MCHash == [n \in Name |-> CASE n = "a" -> 4 [] n = "b" -> 5 [] OTHER -> 14]
Place == [n \in Name |-> CASE n = "a" -> 0 [] n = "b" -> 1 [] OTHER -> 4]
Roles == [Name -> {"absent", "import", "func", "tls", "ifunc"}]

SymbolOf(n, role) ==
    [name |-> n, suffix |-> "", shndx |-> IF role = "import" THEN "undef" ELSE "text",
     type |-> IF role \in {"import", "func"} THEN "func" ELSE role,
     value |-> IF role = "import" THEN 0 ELSE Place[n],
     size |-> IF role = "import" THEN 0 ELSE 2]

Before(nb, m, n) == \/ MCHash[m] % nb < MCHash[n] % nb
                    \/ MCHash[m] % nb = MCHash[n] % nb /\ MCHash[m] < MCHash[n]

MCDynamic == {
    <<"strtab", "symtab", "strsz", "pltrel_rela", "gnu_hash", "jmprel", "rel">>,
    <<"hash", "strtab", "symtab", "strsz", "jmprel", "rel", "pltrel_rela">>,
    <<"hash", "strtab", "symtab", "strsz", "gnu_hash", "rel", "null", "pltrel_rela">>,
    <<"hash", "gnu_hash", "strtab", "symtab", "rel", "pltrel_rela", "null", "jmprel">>,
    <<"gnu_hash", "strtab", "symtab", "pltrel_rela", "jmprel", "android_rel", "null">>}

Local == <<[name |-> "a", suffix |-> ".cold", shndx |-> "text", type |-> "func",
            value |-> 3, size |-> 1],
           [name |-> "a", suffix |-> "", shndx |-> "text", type |-> "func",
            value |-> 0, size |-> 2],
           [name |-> "b", suffix |-> "", shndx |-> "reserved", type |-> "func",
            value |-> 5, size |-> 1]>>
Sect(k, o, z, l) == [kind |-> k, offset |-> o, size |-> z, links |-> l,
                     symbols |-> IF k = "other" THEN <<>> ELSE Local]
MCSections == {<<>>, <<Sect("other", 0, 1, TRUE), Sect("symtab", 1, 3, TRUE)>>,
               <<Sect("symtab", 1, 4, TRUE), Sect("debugdata", 3, 1, TRUE)>>,
               <<Sect("symtab", 1, 1, FALSE), Sect("debugdata", 4, 1, TRUE)>>}

Has(d, tag) == \E i \in DOMAIN d : d[i] = tag /\ \A j \in 1 .. i : d[j] # "null"

FirstOfTwo(s) == [i \in 1 .. (Len(s) + 1) \div 2 |-> s[2 * i - 1]]

MCFile == UNION {
    LET imports == {n \in Name : r[n] = "import"}
        exports == {n \in Name : r[n] \notin {"import", "absent"}}
        names == SetToSortSeq(imports, LAMBDA m, n : Before(1, m, n))
                 \o SetToSortSeq(exports, LAMBDA m, n : Before(nb, m, n))
        Slot(type, base) == [i \in DOMAIN names |-> [sym |-> i, type |-> type, slot |-> base + i]]
        plt == IF Has(d, "jmprel") THEN Slot("jump_slot", 10) ELSE <<>>
        dyn == IF Has(d, "rel") THEN Slot("glob_dat", 20) \o Slot("other", 30) ELSE <<>>
    IN {[header |-> TRUE, headers |-> sec # <<>>, below |-> {}, aps2 |-> TRUE,
        dynamic |-> d, nbucket |-> nb, nbloom |-> 1, symoffset |-> so,
        dynsym |-> [i \in DOMAIN names |-> SymbolOf(names[i], r[names[i]])],
        rela |-> TRUE, plt |-> plt, dyn |-> dyn,
        misread |-> [plt |-> FirstOfTwo(plt), dyn |-> FirstOfTwo(dyn)],
        packed |-> <<[sym |-> 1, type |-> "abs", slot |-> 40]>>,
        size |-> 4, sections |-> sec, resolved |-> 1] :
          so \in {Cardinality(imports) + 1} \cup (IF exports = {} THEN {1} ELSE {})}
    : r \in Roles, nb \in {1, 2}, d \in MCDynamic, sec \in MCSections}
=============================================================================
