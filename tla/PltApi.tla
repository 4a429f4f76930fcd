------------------------------- MODULE PltApi -------------------------------
(***************************************************************************)
(* The PLT hooks of the module API (module.cpp): modules of API versions   *)
(* below 4 register and exclude libraries by regular expression, and what  *)
(* they gathered is resolved against the memory map when one of them       *)
(* commits; later versions register a file with LSPlt directly.  Threads   *)
(* of several modules do this at once.  The lists of the context are under *)
(* hook_info_lock and those of LSPlt under hook_mutex, never both for a    *)
(* whole commit.                                                           *)
(*                                                                         *)
(* A library is one file mapped once, with a readable private mapping of   *)
(* its offset 0, and its number is its place in the address space.  How    *)
(* LSPlt writes a slot is Lsplt; here it is written, or it is not.         *)
(***************************************************************************)
EXTENDS Naturals, Sequences, FiniteSetsExt

CONSTANTS
    Module,     \* modules, each on a thread of its own
    Version,    \* the API version of each
    Lib,        \* libraries, numbered by address
    AtStart,    \* those mapped before the modules run
    Sym,        \* symbols
    Found,      \* the library and symbol pairs for which LSPlt finds a slot:
                \* not those whose library it cannot read, does not import the
                \* symbol, or has the import where FindPltAddr does not look
    NoSymbol,   \* the symbol of an exclusion that names none
    Fn,         \* the modules' callbacks
    Owner,      \* whose each is
    Original,   \* the function a slot holds at first
    Regex,      \* regular expressions, as the set of libraries they match
    Exclusion,  \* exclusions that are made: an expression and a symbol
    Failures,   \* what may fail: maps (read for the expressions), scan (read
                \* by LSPlt), slot (a write)
    Made        \* bound: how often each callback may have been registered

ASSUME ApiAssumption ==
    /\ Version \in [Module -> 1 .. 5]
    /\ Lib \subseteq Nat /\ IsFiniteSet(Lib) /\ AtStart \subseteq Lib
    /\ Found \subseteq Lib \X Sym
    /\ Owner \in [Fn -> Module]
    /\ Original \notin Fn /\ NoSymbol \notin Sym
    /\ Regex \subseteq SUBSET Lib
    /\ Exclusion \subseteq [match : SUBSET Lib, symbol : Sym \cup {NoSymbol}]
    /\ Failures \subseteq {"maps", "scan", "slot"}
    /\ Made \subseteq [Fn -> Nat]

VARIABLES
    register_info,  \* registrations by expression, in order
    ignore_info,    \* exclusions by expression
    hook_info_lock, \* the modules inside it
    todo,           \* the RegisterHook calls that each module has yet to make
    pc,             \* where each module is: idle, register or commit
    pending,        \* LSPlt's register_info, the part of each library
    mapped,         \* libraries mapped
    slot,           \* the slots of each library
    backup,         \* what is in the backup variable of each callback
    returned,       \* what the last commit of each module returned
    \* What was asked for, to compare with:
    made,           \* how often each callback was registered
    put,            \* which callback was written into which library
    shield,         \* <<library, callback, n>>: the library was excluded, in
                    \* time, for the n-th registration of the callback
    asked,          \* registrations by expression that no commit has read
    due             \* what the last commit of a module has to hook, as long as
                    \* nobody commits in the middle of it

context == <<register_info, ignore_info, hook_info_lock>>
engine == <<pending, slot, backup>>
thread == <<todo, pc, returned>>
ghost == <<made, put, shield, asked, due>>
vars == <<context, engine, thread, ghost, mapped>>

Fails(f) == f \in Failures
ByExpression(m) == Version[m] < 4
Idle(m) == pc[m] = "idle"

Init ==
    /\ register_info = <<>> /\ ignore_info = {} /\ hook_info_lock = {}
    /\ todo = [m \in Module |-> {}] /\ pc = [m \in Module |-> "idle"]
    /\ pending = [l \in Lib |-> <<>>] /\ mapped = AtStart
    /\ slot = [l \in Lib |-> [y \in Sym |-> Original]]
    /\ backup = [f \in Fn |-> Original]
    /\ returned = [m \in Module |-> FALSE]
    /\ made = [f \in Fn |-> 0] /\ put = {} /\ shield = {} /\ asked = {}
    /\ due = [m \in Module |-> {}]

-----------------------------------------------------------------------------
Covers_MExact(e, l, y) == l \in e.match /\ e.symbol = y

\* Does an exclusion keep symbol y of library l from being hooked?
Covers(e, l, y) == l \in e.match /\ e.symbol \in {NoSymbol, y}

Shielded(l, r, exclusions) == \E e \in exclusions :
    l \in e.match /\ (e.symbol = NoSymbol \/ e.symbol = r.symbol)

\* Nothing keeps a module from registering a callback again.
plt_hook_register(m, re, y, f) ==
    /\ ByExpression(m) /\ Idle(m) /\ hook_info_lock = {}
    /\ Owner[f] = m
    /\ LET r == [match |-> re, symbol |-> y, callback |-> f, nth |-> made[f] + 1] IN
         /\ register_info' = Append(register_info, r)
         /\ asked' = asked \cup {r}
         /\ shield' = shield \cup
              {<<l, f, r.nth>> : l \in {k \in Lib : Shielded(k, r, ignore_info)}}
    /\ made' = [made EXCEPT ![f] = @ + 1] /\ made' \in Made
    /\ UNCHANGED <<ignore_info, hook_info_lock, engine, thread, mapped, put, due>>

plt_hook_exclude(m, e) ==
    /\ ByExpression(m) /\ Idle(m) /\ hook_info_lock = {}
    /\ ignore_info' = ignore_info \cup {e}
    /\ shield' = shield \cup UNION
         {{<<l, r.callback, r.nth>> : l \in {k \in Lib : Shielded(k, r, {e})}} : r \in asked}
    /\ UNCHANGED <<register_info, hook_info_lock, engine, thread, mapped, made,
                   put, asked, due>>

\* MapInfo::Scan: the libraries mapped, or none if the maps cannot be opened.
Scan(call) == {mapped} \cup IF Fails(call) THEN {{}} ELSE {}

\* plt_hook_process_regex: the calls of RegisterHook to make, one for each
\* library and each registration that matches it and is not excluded there.
Resolved(maps) ==
    LET Matches(c) == c[1] \in register_info[c[2]].match
        Covered(c) == \E e \in ignore_info : Covers(e, c[1], register_info[c[2]].symbol)
    IN {[file |-> c[1], place |-> c[2], symbol |-> register_info[c[2]].symbol,
         callback |-> register_info[c[2]].callback, nth |-> register_info[c[2]].nth] :
            c \in {d \in maps \X (DOMAIN register_info) : Matches(d) /\ ~Covered(d)}}

\* They are made library by library and for each in the order of registration.
Precedes(c, d) == c.file < d.file \/ (c.file = d.file /\ c.place < d.place)

\* What a commit of module m has to hook from now on.
Due(m) == {d \in mapped \X asked :
    Owner[d[2].callback] = m /\ d[1] \in d[2].match /\ <<d[1], d[2].callback, d[2].nth>> \notin shield}

plt_hook_commit_MUnlocked(m) ==
    /\ ByExpression(m) /\ Idle(m) /\ hook_info_lock = {}
    /\ \E maps \in Scan("maps") : todo' = [todo EXCEPT ![m] = Resolved(maps)]
    /\ pc' = [pc EXCEPT ![m] = "register"]
    /\ due' = [due EXCEPT ![m] = Due(m)]
    /\ asked' = {}
    /\ returned' = [returned EXCEPT ![m] = FALSE]
    /\ UNCHANGED <<context, engine, mapped, made, put, shield>>

\* plt_hook_commit takes the lock and reads the maps.  If they cannot be read,
\* there is nothing to register.
plt_hook_commit(m) ==
    /\ ByExpression(m) /\ Idle(m) /\ hook_info_lock = {}
    /\ hook_info_lock' = {m}
    /\ \E maps \in Scan("maps") : todo' = [todo EXCEPT ![m] = Resolved(maps)]
    /\ pc' = [pc EXCEPT ![m] = "register"]
    /\ due' = [due EXCEPT ![m] = Due(m)]
    /\ asked' = {}
    /\ returned' = [returned EXCEPT ![m] = FALSE]
    /\ UNCHANGED <<register_info, ignore_info, engine, mapped, made, put, shield>>

\* Its next call of RegisterHook.
ProcessNext(m) ==
    /\ pc[m] = "register"
    /\ \E c \in todo[m] :
         /\ \A d \in todo[m] \ {c} : Precedes(c, d)
         /\ pending' = [pending EXCEPT ![c.file] =
                          Append(@, [symbol |-> c.symbol, callback |-> c.callback, nth |-> c.nth])]
         /\ todo' = [todo EXCEPT ![m] = @ \ {c}]
    /\ UNCHANGED <<context, slot, backup, pc, returned, ghost, mapped>>

Release_MKept(m) ==
    /\ pc[m] = "register" /\ todo[m] = {}
    /\ ignore_info' = {} /\ hook_info_lock' = {}
    /\ pc' = [pc EXCEPT ![m] = "commit"]
    /\ UNCHANGED <<register_info, engine, todo, returned, ghost, mapped>>

\* Both lists are cleared, whatever LSPlt will say, and the lock released.
Release(m) ==
    /\ pc[m] = "register" /\ todo[m] = {}
    /\ register_info' = <<>> /\ ignore_info' = {} /\ hook_info_lock' = {}
    /\ pc' = [pc EXCEPT ![m] = "commit"]
    /\ UNCHANGED <<engine, todo, returned, ghost, mapped>>

-----------------------------------------------------------------------------
\* Version 4 and later: a file and a symbol, straight to LSPlt.
RegisterHook(m, l, y, f) ==
    /\ ~ByExpression(m) /\ Owner[f] = m
    /\ pending' = [pending EXCEPT ![l] =
                     Append(@, [symbol |-> y, callback |-> f, nth |-> made[f] + 1])]
    /\ made' = [made EXCEPT ![f] = @ + 1] /\ made' \in Made
    /\ UNCHANGED <<context, slot, backup, thread, mapped, put, shield, asked, due>>

\* The registrations of a library that come to a slot.
Hits(l) == {i \in DOMAIN pending[l] : <<l, pending[l][i].symbol>> \in Found}

\* The function below the i-th registration of a library, when LSPlt comes to it.
Under(l, i) ==
    LET r == pending[l][i]
        earlier == {j \in 1 .. i - 1 : pending[l][j].symbol = r.symbol}
    IN IF earlier = {} THEN slot[l][r.symbol] ELSE pending[l][Max(earlier)].callback

\* The last registration of a symbol in a library stays on top.
Top(l, y) ==
    LET hits == {i \in Hits(l) : pending[l][i].symbol = y}
    IN IF hits = {} THEN slot[l][y] ELSE pending[l][Max(hits)].callback

\* Libraries are done by rising address, so what is left in the backup variable
\* of a callback comes from the last of them in which it was written.
Saved(f, libs) ==
    LET Writes(l) == {i \in Hits(l) : pending[l][i].callback = f /\ Under(l, i) # f}
        written == {l \in libs : Writes(l) # {}}
    IN IF written = {} THEN backup[f]
       ELSE Under(Max(written), Max(Writes(Max(written))))

Queued == {l \in Lib : pending[l] # <<>>}

\* lsplt::CommitHook, of all that anybody registered for the libraries mapped.
\* In those that are bad nothing can be written.  A registration for which no
\* slot is found is dropped, and the result is none the worse for it.
CommitHook(m) ==
    /\ pc[m] = "commit" \/ (~ByExpression(m) /\ Idle(m))
    /\ pc' = [pc EXCEPT ![m] = "idle"]
    /\ due' = [n \in Module |-> IF n # m /\ ~Idle(n) THEN {} ELSE due[n]]
    /\ \/ /\ Queued = {}
          /\ returned' = [returned EXCEPT ![m] = TRUE]
          /\ UNCHANGED <<engine, put>>
       \/ /\ Queued # {} /\ {} \in Scan("scan")
          /\ returned' = [returned EXCEPT ![m] = FALSE]
          /\ UNCHANGED <<engine, put>>
       \/ /\ Queued # {}
          /\ \E bad \in SUBSET {l \in mapped : Hits(l) # {}} :
               LET done == mapped \ bad IN
               /\ Fails("slot") \/ bad = {}
               /\ slot' = [l \in Lib |-> IF l \in done THEN [y \in Sym |-> Top(l, y)] ELSE slot[l]]
               /\ backup' = [f \in Fn |-> Saved(f, done)]
               /\ put' = put \cup UNION {{<<l, pending[l][i].callback>> : i \in Hits(l)} : l \in done}
               /\ returned' = [returned EXCEPT ![m] = bad = {}]
          /\ pending' = [l \in Lib |-> IF l \in mapped THEN <<>> ELSE pending[l]]
    /\ UNCHANGED <<context, todo, mapped, made, shield, asked>>

Dlopen(l) ==
    /\ l \notin mapped
    /\ mapped' = mapped \cup {l}
    /\ UNCHANGED <<context, engine, thread, ghost>>

Next ==
    \/ \E m \in Module :
         \/ \E re \in Regex, y \in Sym, f \in Fn : plt_hook_register(m, re, y, f)
         \/ \E e \in Exclusion : plt_hook_exclude(m, e)
         \/ plt_hook_commit(m) \/ ProcessNext(m) \/ Release(m)
         \/ \E l \in Lib, y \in Sym, f \in Fn : RegisterHook(m, l, y, f)
         \/ CommitHook(m)
    \/ \E l \in Lib : Dlopen(l)

Spec == Init /\ [][Next]_vars

-----------------------------------------------------------------------------
\* What a call through f runs: f, what its backup variable holds, and so on
\* down to the library's own function.
Reached(f) ==
    {g \in Fn \cup {Original} : \A S \in SUBSET (Fn \cup {Original}) :
        f \in S /\ (\A h \in S \ {Original} : backup[h] \in S) => g \in S}
Run(l, y) == Reached(slot[l][y])

\* No callback has been registered a second time.
Once == \A f \in Fn : made[f] <= 1

\* module.cpp:317-327: as long as nobody registers a callback a second time, a
\* call through any slot ends in the library's own function.  One backup
\* variable serves a callback in every library that its expression matches, so
\* what calls on to what is decided by the write that came last, in another
\* library perhaps; callbacks do not call each other in a circle because all
\* libraries see them in one order, however commits of several threads cut the
\* registrations up.  A callback that is registered again, for another library
\* or the same, breaks that order: it may call on to one that calls it
\* (lsplt.cc:165).
CallsEnd == Once => \A l \in Lib, y \in Sym : Original \in Run(l, y)

\* module.cpp:302-307: a registration by expression never gets to LSPlt for a
\* library that was excluded, before or after it, with no commit in between,
\* whoever made the exclusion and whoever's commit resolves it, and however
\* often the callback is registered.
ExclusionsHold == \A l \in Lib : \A i \in DOMAIN pending[l] :
    <<l, pending[l][i].callback, pending[l][i].nth>> \notin shield

\* A callback hides those below it in one library when it was last written
\* into another.
Hides(f) == \E l, k \in Lib : l # k /\ <<l, f>> \in put /\ <<k, f>> \in put

\* module.cpp:328: as long as nobody registers a callback a second time, a
\* commit that returned true, and during which nobody else committed, has
\* hooked every library that the module's expressions match, no exclusion
\* covers and LSPlt finds a slot in: calls run its callback, unless another
\* callback that is in several libraries hides it.  Others may register,
\* exclude and map libraries in the middle of it, and hook the same slots
\* later.  Where LSPlt finds no slot, true says nothing (lsplt.cc:201-210),
\* though lsplt.hpp:108-109 promises false if a hook fails.
TrueMeansHooked ==
    Once /\ ~Fails("maps") =>
      \A m \in Module : Idle(m) /\ returned[m] =>
        \A d \in {e \in due[m] : <<e[1], e[2].symbol>> \in Found} :
          LET run == Run(d[1], d[2].symbol)
          IN d[2].callback \in run \/ \E f \in run \ {Original} : Hides(f)
=============================================================================
