---------------------------- MODULE RegexpCache ----------------------------
(***************************************************************************)
(* The cache of compiled regular expressions of a script object:           *)
(* init_regexp(), varnish_regmatch_command() and varnish_regsub_command()  *)
(* in src/src/script_helpers.c.  The cache is looked up under the read     *)
(* lock, the expression is compiled under no lock, and inserted under the  *)
(* write lock, unless another worker was faster.  Nothing is ever evicted. *)
(*                                                                         *)
(* Compiled expressions are cells of the heap.  What matches is left out.  *)
(***************************************************************************)
EXTENDS EngineAllocator, RwLock

CONSTANTS
    Patterns,        \* the texts of regular expressions
    InvalidPatterns, \* those that do not compile
    Vres             \* heap addresses of compiled expressions

ASSUME RegexpAssumption ==
    /\ IsFiniteSet(Patterns) /\ InvalidPatterns \subseteq Patterns
    /\ Null \notin Vres /\ Null \notin Patterns

VARIABLES
    cache,  \* state.regexps.list: where each pattern is compiled
    ncache, \* state.regexps.n
    rlock,  \* state.regexps.rwlock
    vres,   \* per address, the pattern compiled there; Null: not allocated
    re      \* per worker, the command under way

regexpVars == <<cache, ncache, rlock, vres, re>>

RegexpStages == {"none", "find", "finding", "compile", "insert", "inserting", "match"}

NoRegexp == [at |-> "none", pattern |-> Null, vre |-> Null, cached |-> FALSE]

ReAt(t, s) == re[t].at = s
Goto(t, s, v) == re' = [re EXCEPT ![t].at = s, ![t].vre = v]

\* A command starts in init_regexp().
Regexp(t, p, cached) ==
    /\ ReAt(t, "none")
    /\ re' = [re EXCEPT ![t] =
                [at |-> IF cached THEN "find" ELSE "compile",
                 pattern |-> p, vre |-> Null, cached |-> cached]]
    /\ UNCHANGED <<cache, ncache, rlock, vres>>

RdLockRegexps(t) ==
    /\ ReAt(t, "find") /\ CanRead(rlock)
    /\ rlock' = RdLock(rlock, t)
    /\ Goto(t, "finding", Null)
    /\ UNCHANGED <<cache, ncache, vres>>

Find(t) ==
    /\ ReAt(t, "finding")
    /\ rlock' = RwUnlock(rlock, t)
    /\ LET found == cache[re[t].pattern]
       IN  Goto(t, IF found = Null THEN "compile" ELSE "match", found)
    /\ UNCHANGED <<cache, ncache, vres>>

\* VRE_compile()
CompileRegexp(t) ==
    /\ ReAt(t, "compile") /\ re[t].pattern \notin InvalidPatterns
    /\ \E v \in Vres :
          /\ vres[v] = Null
          /\ vres' = [vres EXCEPT ![v] = re[t].pattern]
          /\ Goto(t, IF re[t].cached THEN "insert" ELSE "match", v)
    /\ UNCHANGED <<cache, ncache, rlock>>

\* Bug: a compilation that fails is tried again.
BugCompileRegexpFails(t) ==
    /\ ReAt(t, "compile") /\ re[t].pattern \in InvalidPatterns
    /\ Goto(t, IF re[t].cached THEN "find" ELSE "compile", Null)
    /\ UNCHANGED <<cache, ncache, rlock, vres>>

\* The command raises an error in the script.
CompileRegexpFails(t) ==
    /\ ReAt(t, "compile") /\ re[t].pattern \in InvalidPatterns
    /\ re' = [re EXCEPT ![t] = NoRegexp]
    /\ UNCHANGED <<cache, ncache, rlock, vres>>

WrLockRegexps(t) ==
    /\ ReAt(t, "insert") /\ CanWrite(rlock)
    /\ rlock' = WrLock(rlock, t)
    /\ Goto(t, "inserting", re[t].vre)
    /\ UNCHANGED <<cache, ncache, vres>>

\* Bug: nobody looks again under the write lock.
BugInsert(t) ==
    /\ ReAt(t, "inserting")
    /\ rlock' = RwUnlock(rlock, t)
    /\ cache' = [cache EXCEPT ![re[t].pattern] = re[t].vre]
    /\ ncache' = ncache + 1
    /\ Goto(t, "match", re[t].vre)
    /\ UNCHANGED vres

\* The pattern is looked up again: a worker that comes late frees its own
\* compilation and uses the one in the cache.
Insert(t) ==
    /\ ReAt(t, "inserting")
    /\ rlock' = RwUnlock(rlock, t)
    /\ LET p == re[t].pattern
           own == re[t].vre
       IN  \/ /\ cache[p] = Null
              /\ cache' = [cache EXCEPT ![p] = own] /\ ncache' = ncache + 1
              /\ Goto(t, "match", own) /\ UNCHANGED vres
           \/ /\ cache[p] # Null
              /\ vres' = [vres EXCEPT ![own] = Null]
              /\ Goto(t, "match", cache[p]) /\ UNCHANGED <<cache, ncache>>

\* The command matches, under no lock, and frees what is not in the cache.
Match(t) ==
    /\ ReAt(t, "match")
    /\ vres' = IF re[t].cached THEN vres ELSE [vres EXCEPT ![re[t].vre] = Null]
    /\ re' = [re EXCEPT ![t] = NoRegexp]
    /\ UNCHANGED <<cache, ncache, rlock>>

\* vmod_script__fini
FlushRegexps ==
    /\ \A t \in Threads : ReAt(t, "none")
    /\ vres' = [v \in Vres |-> IF \E p \in Patterns : cache[p] = v
                                 THEN Null ELSE vres[v]]
    /\ cache' = [p \in Patterns |-> Null] /\ ncache' = 0
    /\ UNCHANGED <<rlock, re>>

RegexpInit ==
    /\ cache = [p \in Patterns |-> Null] /\ ncache = 0
    /\ rlock = Unlocked
    /\ vres = [v \in Vres |-> Null]
    /\ re = [t \in Threads |-> NoRegexp]

RegexpStep(t) ==
    \/ RdLockRegexps(t) \/ Find(t) \/ CompileRegexp(t) \/ CompileRegexpFails(t)
    \/ WrLockRegexps(t) \/ Insert(t) \/ Match(t)

----------------------------------------------------------------------------
(* Properties *)

RegexpTypeOK ==
    /\ cache \in [Patterns -> Vres \cup {Null}]
    /\ ncache \in Nat
    /\ RwLockOK(rlock, Threads)
    /\ vres \in [Vres -> Patterns \cup {Null}]
    /\ re \in [Threads -> [at : RegexpStages, pattern : Patterns \cup {Null},
                           vre : Vres \cup {Null}, cached : BOOLEAN]]

\* The compilation a worker has of its own: nobody else knows of it.
Owns(t, v) ==
    /\ re[t].vre = v
    /\ re[t].at \in {"insert", "inserting", "match"}
    /\ ReAt(t, "match") => ~re[t].cached

\* A worker matches, after it has released the lock, with a live compilation
\* of the pattern it asked for: nobody frees what init_regexp() handed out.
MatchesLive ==
    \A t \in Threads : ReAt(t, "match") => vres[re[t].vre] = re[t].pattern

\* Every compilation alive has one owner: the cache, under its own pattern, or
\* one worker.  Workers that compile one pattern at once neither leak nor free
\* twice, and the cache counts each pattern once.
VresOwned ==
    /\ \A p \in Patterns : cache[p] # Null => vres[cache[p]] = p
    /\ \A v \in Vres : vres[v] # Null =>
          cache[vres[v]] = v \/ \E t \in Threads : Owns(t, v)
    /\ \A t \in Threads, v \in Vres : Owns(t, v) =>
          /\ vres[v] = re[t].pattern /\ cache[vres[v]] # v
          /\ \A u \in Threads : Owns(u, v) => u = t
    /\ ncache = Cardinality({p \in Patterns : cache[p] # Null})

\* The cache keeps what is in use, and what is not in use does not stay behind.
RegexpsSound == VresOwned /\ MatchesLive

----------------------------------------------------------------------------
(* Inductive invariant *)

\* What a command knows at each stage.
RegexpsOK ==
    \A t \in Threads :
        /\ re[t].at # "none" => re[t].pattern \in Patterns
        /\ re[t].at \in {"insert", "inserting", "match"} => re[t].vre \in Vres
        /\ re[t].at \in {"find", "finding", "insert", "inserting"} => re[t].cached
        /\ ReAt(t, "match") /\ re[t].cached => cache[re[t].pattern] = re[t].vre

=============================================================================
