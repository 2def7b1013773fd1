------------------------- MODULE ScriptStore_proofs -------------------------
(***************************************************************************)
(* What scripts share is safe: the inductive invariant StoreInv, the       *)
(* absence of circles among those that wait for locks, and the refinement  *)
(* of AtomicStore.                                                         *)
(***************************************************************************)
EXTENDS ScriptStore, FiniteSetTheorems, SequenceTheorems, TLAPS

USE DEF allocVars, sharedVars, regexpVars, objectVars

----------------------------------------------------------------------------
(* The cache of regular expressions *)

\* RegexpTypeOK but for the lock, which .stats() takes too.
CacheTypeOK ==
    /\ cache \in [Patterns -> Vres \cup {Null}]
    /\ ncache \in Nat
    /\ vres \in [Vres -> Patterns \cup {Null}]
    /\ re \in [Threads -> [at : RegexpStages, pattern : Patterns \cup {Null},
                           vre : Vres \cup {Null}, cached : BOOLEAN]]

CacheInv == CacheTypeOK /\ RegexpsOK /\ VresOwned

LEMMA CacheInit == RegexpInit => CacheInv
<1> SUFFICES ASSUME RegexpInit PROVE CacheInv
  OBVIOUS
<1>1. CacheTypeOK /\ RegexpsOK
  BY DEF RegexpInit, CacheTypeOK, RegexpsOK, NoRegexp, RegexpStages, ReAt
<1>2. {p \in Patterns : cache[p] # Null} = {}
  BY DEF RegexpInit
<1> QED
  BY <1>1, <1>2, FS_EmptySet, RegexpAssumption
     DEF RegexpInit, CacheInv, VresOwned, Owns, NoRegexp, ReAt

\* A step that leaves the tree and the compilations alone.
LEMMA CacheQuiet ==
    ASSUME CacheInv, NEW t \in Threads, UNCHANGED <<cache, ncache, vres>>,
           NEW r, re' = [re EXCEPT ![t] = r],
           r \in [at : RegexpStages, pattern : Patterns \cup {Null},
                  vre : Vres \cup {Null}, cached : BOOLEAN],
           r.at # "none" => r.pattern \in Patterns,
           r.at \in {"find", "finding", "insert", "inserting"} => r.cached,
           \/ r.at \in {"none", "find", "finding", "compile"}
              /\ re[t].at \notin {"insert", "inserting"}
              /\ (ReAt(t, "match") => re[t].cached)
           \/ r.at = "match" /\ r.cached /\ r.vre \in Vres
              /\ cache[r.pattern] = r.vre /\ ReAt(t, "finding")
           \/ r.at = "inserting" /\ r.vre = re[t].vre /\ r.pattern = re[t].pattern
              /\ ReAt(t, "insert")
    PROVE  CacheInv'
<1>1. CacheTypeOK'
  BY DEF CacheInv, CacheTypeOK
<1>2. RegexpsOK'
  BY DEF CacheInv, CacheTypeOK, RegexpsOK, ReAt
<1>3. \A u \in Threads, v \in Vres : Owns(u, v)' <=> Owns(u, v)
  BY DEF CacheInv, CacheTypeOK, RegexpsOK, Owns, ReAt
<1>4. VresOwned'
  <2>1. \A u \in Threads, v \in Vres : Owns(u, v) => re'[u].pattern = re[u].pattern
    BY <1>3 DEF CacheInv, CacheTypeOK, Owns, ReAt
  <2> QED
    BY <1>3, <2>1 DEF CacheInv, VresOwned
<1> QED
  BY <1>1, <1>2, <1>4 DEF CacheInv

LEMMA CacheQuietSteps ==
    ASSUME CacheInv, NEW t \in Threads,
           \/ \E p \in Patterns, c \in BOOLEAN : Regexp(t, p, c)
           \/ RdLockRegexps(t) \/ Find(t) \/ CompileRegexpFails(t)
           \/ WrLockRegexps(t)
           \/ (Match(t) /\ re[t].cached)
    PROVE  CacheInv'
<1> DEFINE R == [at : RegexpStages, pattern : Patterns \cup {Null},
                 vre : Vres \cup {Null}, cached : BOOLEAN]
<1> re[t] \in R
  BY DEF CacheInv, CacheTypeOK
<1>1. ASSUME NEW p \in Patterns, NEW c \in BOOLEAN, Regexp(t, p, c)
      PROVE  CacheInv'
  <2> DEFINE r == [at |-> IF c THEN "find" ELSE "compile",
                   pattern |-> p, vre |-> Null, cached |-> c]
  <2>1. r \in R
    BY DEF RegexpStages
  <2> QED
    BY <1>1, <2>1, CacheQuiet DEF Regexp, ReAt
<1>2. CASE RdLockRegexps(t)
  <2> DEFINE r == [re[t] EXCEPT !.at = "finding", !.vre = Null]
  <2>1. r \in R /\ r.at = "finding" /\ r.pattern \in Patterns /\ r.cached
    BY <1>2 DEF CacheInv, RdLockRegexps, RegexpsOK, ReAt, RegexpStages
  <2>2. re' = [re EXCEPT ![t] = r] /\ UNCHANGED <<cache, ncache, vres>>
    BY <1>2 DEF RdLockRegexps, Goto, CacheInv, CacheTypeOK
  <2>3. ReAt(t, "find")
    BY <1>2 DEF RdLockRegexps
  <2> HIDE DEF r
  <2> QED
    BY <2>1, <2>2, <2>3, CacheQuiet DEF ReAt
<1>3. CASE Find(t)
  <2> DEFINE found == cache[re[t].pattern]
             s == IF found = Null THEN "compile" ELSE "match"
             r == [re[t] EXCEPT !.at = s, !.vre = found]
  <2>0. found \in Vres \cup {Null} /\ re[t].pattern \in Patterns /\ re[t].cached
    BY <1>3 DEF CacheInv, CacheTypeOK, Find, RegexpsOK, ReAt
  <2>1. r \in R /\ r.at = s /\ r.pattern \in Patterns /\ r.cached
        /\ r.pattern = re[t].pattern /\ r.vre = found
    BY <2>0 DEF RegexpStages
  <2>2. re' = [re EXCEPT ![t] = r] /\ UNCHANGED <<cache, ncache, vres>>
    BY <1>3 DEF Find, Goto, CacheInv, CacheTypeOK
  <2>3. ReAt(t, "finding")
    BY <1>3 DEF Find
  <2>4. \/ r.at = "compile"
        \/ r.at = "match" /\ r.vre \in Vres /\ cache[r.pattern] = r.vre
    BY <2>0, <2>1
  <2> HIDE DEF r, found
  <2> QED
    BY <2>1, <2>2, <2>3, <2>4, CacheQuiet DEF ReAt
<1>4. CASE CompileRegexpFails(t) \/ (Match(t) /\ re[t].cached)
  <2>1. NoRegexp \in R /\ NoRegexp.at = "none"
    BY DEF NoRegexp, RegexpStages
  <2>2. re' = [re EXCEPT ![t] = NoRegexp] /\ UNCHANGED <<cache, ncache, vres>>
    BY <1>4 DEF CompileRegexpFails, Match
  <2>3. re[t].at \in {"compile", "match"} /\ (ReAt(t, "match") => re[t].cached)
    BY <1>4 DEF CompileRegexpFails, Match, ReAt
  <2> QED
    BY <2>1, <2>2, <2>3, CacheQuiet
<1>5. CASE WrLockRegexps(t)
  <2> DEFINE r == [re[t] EXCEPT !.at = "inserting", !.vre = re[t].vre]
  <2>1. r \in R /\ r.at = "inserting" /\ r.pattern \in Patterns /\ r.cached
        /\ r.vre = re[t].vre /\ r.pattern = re[t].pattern
    BY <1>5 DEF CacheInv, WrLockRegexps, RegexpsOK, ReAt, RegexpStages
  <2>2. re' = [re EXCEPT ![t] = r] /\ UNCHANGED <<cache, ncache, vres>>
    BY <1>5 DEF WrLockRegexps, Goto, CacheInv, CacheTypeOK
  <2>3. ReAt(t, "insert")
    BY <1>5 DEF WrLockRegexps
  <2> HIDE DEF r
  <2> QED
    BY <2>1, <2>2, <2>3, CacheQuiet
<1> QED
  BY <1>1, <1>2, <1>3, <1>4, <1>5

LEMMA CacheCompile ==
    ASSUME CacheInv, NEW t \in Threads, CompileRegexp(t)
    PROVE  CacheInv'
<1>1. PICK v \in Vres : /\ vres[v] = Null
                        /\ vres' = [vres EXCEPT ![v] = re[t].pattern]
                        /\ Goto(t, IF re[t].cached THEN "insert" ELSE "match", v)
  BY DEF CompileRegexp
<1> DEFINE s == IF re[t].cached THEN "insert" ELSE "match"
           p == re[t].pattern
<1>2. /\ ReAt(t, "compile") /\ UNCHANGED <<cache, ncache>>
      /\ p \in Patterns /\ v # Null /\ p # Null
  BY RegexpAssumption
     DEF CompileRegexp, CacheInv, CacheTypeOK, RegexpsOK, ReAt
<1>3. /\ re'[t].at = s /\ re'[t].vre = v /\ re'[t].pattern = p
      /\ re'[t].cached = re[t].cached
      /\ \A u \in Threads : u # t => re'[u] = re[u]
  BY <1>1 DEF Goto, CacheInv, CacheTypeOK
<1>4. CacheTypeOK'
  <2>1. s \in RegexpStages /\ Goto(t, s, v)
    BY <1>1 DEF RegexpStages
  <2> HIDE DEF s
  <2>2. re' \in [Threads -> [at : RegexpStages, pattern : Patterns \cup {Null},
                            vre : Vres \cup {Null}, cached : BOOLEAN]]
    BY <2>1 DEF CacheInv, CacheTypeOK, Goto
  <2> QED
    BY <1>1, <1>2, <2>2 DEF CacheInv, CacheTypeOK
<1>5. RegexpsOK'
  BY <1>2, <1>3 DEF CacheInv, RegexpsOK, ReAt
<1>6. Owns(t, v)' /\ \A w \in Vres : w # v => ~Owns(t, w)'
  BY <1>3 DEF Owns, ReAt
<1>7. \A u \in Threads, w \in Vres : u # t => (Owns(u, w)' <=> Owns(u, w))
  BY <1>3 DEF Owns, ReAt
<1>8. \A u \in Threads : ~Owns(u, v)
  BY <1>1, <1>2, RegexpAssumption DEF CacheInv, VresOwned, RegexpsOK, Owns
<1>9. \A q \in Patterns : cache[q] # v
  BY <1>1, <1>2, RegexpAssumption DEF CacheInv, VresOwned
<1>10. \A w \in Vres : w # v => ~Owns(t, w)
  BY <1>2 DEF Owns, ReAt
<1>11. vres'[v] = p /\ \A w \in Vres : w # v => vres'[w] = vres[w]
  BY <1>1 DEF CacheInv, CacheTypeOK
<1>12. VresOwned'
  <2>1. (\A q \in Patterns : cache[q] # Null => vres[cache[q]] = q)'
    BY <1>2, <1>9, <1>11 DEF CacheInv, CacheTypeOK, VresOwned
  <2>2. (\A w \in Vres : vres[w] # Null =>
            cache[vres[w]] = w \/ \E u \in Threads : Owns(u, w))'
    BY <1>2, <1>6, <1>7, <1>10, <1>11 DEF CacheInv, VresOwned
  <2>3. (\A u \in Threads, w \in Vres : Owns(u, w) =>
            /\ vres[w] = re[u].pattern /\ cache[vres[w]] # w
            /\ \A x \in Threads : Owns(x, w) => x = u)'
    BY <1>2, <1>3, <1>6, <1>7, <1>8, <1>9, <1>11 DEF CacheInv, VresOwned
  <2>4. (ncache = Cardinality({q \in Patterns : cache[q] # Null}))'
    BY <1>2 DEF CacheInv, VresOwned
  <2> QED
    BY <2>1, <2>2, <2>3, <2>4 DEF VresOwned
<1> QED
  BY <1>4, <1>5, <1>12 DEF CacheInv

\* The cache counts one pattern more.
LEMMA CacheGrows ==
    ASSUME CacheInv, NEW p \in Patterns, NEW v \in Vres, cache[p] = Null,
           cache' = [cache EXCEPT ![p] = v], ncache' = ncache + 1
    PROVE  (ncache = Cardinality({q \in Patterns : cache[q] # Null}))'
<1> DEFINE C == {q \in Patterns : cache[q] # Null}
<1>1. {q \in Patterns : cache'[q] # Null} = C \cup {p}
  BY RegexpAssumption DEF CacheInv, CacheTypeOK
<1>2. IsFiniteSet(C) /\ p \notin C
  BY FS_Subset, RegexpAssumption
<1>3. Cardinality(C \cup {p}) = Cardinality(C) + 1
  BY <1>2, FS_AddElement
<1> QED
  BY <1>1, <1>3 DEF CacheInv, VresOwned

LEMMA CacheInsert ==
    ASSUME CacheInv, NEW t \in Threads, Insert(t)
    PROVE  CacheInv'
<1> DEFINE p == re[t].pattern
           own == re[t].vre
<1>1. /\ ReAt(t, "inserting") /\ p \in Patterns /\ own \in Vres
      /\ re[t].cached /\ Owns(t, own) /\ p # Null /\ own # Null
  BY RegexpAssumption DEF Insert, CacheInv, RegexpsOK, Owns, ReAt
<1>2. vres[own] = p /\ \A u \in Threads : Owns(u, own) => u = t
  BY <1>1 DEF CacheInv, VresOwned
<1>3. CASE cache[p] = Null
  <2>1. /\ cache' = [cache EXCEPT ![p] = own] /\ ncache' = ncache + 1
        /\ Goto(t, "match", own) /\ UNCHANGED vres
    BY <1>3 DEF Insert
  <2>2. /\ re'[t].at = "match" /\ re'[t].vre = own /\ re'[t].pattern = p
        /\ re'[t].cached
        /\ \A u \in Threads : u # t => re'[u] = re[u]
    BY <1>1, <2>1 DEF Goto, CacheInv, CacheTypeOK
  <2>3. cache'[p] = own /\ \A q \in Patterns : q # p => cache'[q] = cache[q]
    BY <1>1, <2>1 DEF CacheInv, CacheTypeOK
  <2>4. CacheTypeOK'
    <3>1. re' \in [Threads -> [at : RegexpStages, pattern : Patterns \cup {Null},
                              vre : Vres \cup {Null}, cached : BOOLEAN]]
      BY <1>1, <2>1 DEF CacheInv, CacheTypeOK, Goto, RegexpStages
    <3>2. cache' \in [Patterns -> Vres \cup {Null}] /\ ncache' \in Nat
      BY <1>1, <2>1 DEF CacheInv, CacheTypeOK
    <3> QED
      BY <2>1, <3>1, <3>2 DEF CacheInv, CacheTypeOK
  <2>5. RegexpsOK'
    BY <1>1, <1>3, <2>2, <2>3, RegexpAssumption
       DEF CacheInv, CacheTypeOK, RegexpsOK, ReAt
  <2>6. \A u \in Threads, w \in Vres : Owns(u, w)' <=> u # t /\ Owns(u, w)
    BY <1>1, <2>2 DEF Owns, ReAt
  <2>7. \A w \in Vres : Owns(t, w) => w = own
    BY DEF Owns
  <2>8. (\A q \in Patterns : cache[q] # Null => vres[cache[q]] = q)'
    BY <1>2, <2>1, <2>3 DEF CacheInv, VresOwned
  <2>9. (\A w \in Vres : vres[w] # Null =>
            cache[vres[w]] = w \/ \E u \in Threads : Owns(u, w))'
    BY <1>1, <1>2, <1>3, <2>1, <2>3, <2>6, <2>7, RegexpAssumption
       DEF CacheInv, CacheTypeOK, VresOwned
  <2>10. (\A u \in Threads, w \in Vres : Owns(u, w) =>
            /\ vres[w] = re[u].pattern /\ cache[vres[w]] # w
            /\ \A x \in Threads : Owns(x, w) => x = u)'
    BY <1>1, <1>2, <2>1, <2>2, <2>3, <2>6 DEF CacheInv, VresOwned
  <2>11. (ncache = Cardinality({q \in Patterns : cache[q] # Null}))'
    BY <1>1, <1>3, <2>1, CacheGrows
  <2> QED
    BY <2>4, <2>5, <2>8, <2>9, <2>10, <2>11 DEF CacheInv, VresOwned
<1>4. CASE cache[p] # Null
  <2>1. /\ vres' = [vres EXCEPT ![own] = Null]
        /\ Goto(t, "match", cache[p]) /\ UNCHANGED <<cache, ncache>>
    BY <1>4 DEF Insert
  <2>2. /\ re'[t].at = "match" /\ re'[t].vre = cache[p] /\ re'[t].pattern = p
        /\ re'[t].cached
        /\ \A u \in Threads : u # t => re'[u] = re[u]
    BY <1>1, <2>1 DEF Goto, CacheInv, CacheTypeOK
  <2>3. vres'[own] = Null /\ \A w \in Vres : w # own => vres'[w] = vres[w]
    BY <1>1, <2>1 DEF CacheInv, CacheTypeOK
  <2>4. CacheTypeOK'
    BY <1>1, <1>4, <2>1 DEF CacheInv, CacheTypeOK, Goto, RegexpStages
  <2>5. RegexpsOK'
    BY <1>1, <1>4, <2>1, <2>2 DEF CacheInv, CacheTypeOK, RegexpsOK, ReAt
  <2>6. \A u \in Threads, w \in Vres : Owns(u, w)' <=> u # t /\ Owns(u, w)
    BY <1>1, <2>2 DEF Owns, ReAt
  <2>7. \A q \in Patterns : cache[q] # own
    BY <1>1, <1>2 DEF CacheInv, VresOwned
  <2>8. (\A q \in Patterns : cache[q] # Null => vres[cache[q]] = q)'
    BY <2>1, <2>3, <2>7 DEF CacheInv, CacheTypeOK, VresOwned
  <2>9. (\A w \in Vres : vres[w] # Null =>
            cache[vres[w]] = w \/ \E u \in Threads : Owns(u, w))'
    <3>1. \A w \in Vres : Owns(t, w) => w = own
      BY DEF Owns
    <3> QED
      BY <2>1, <2>3, <2>6, <3>1 DEF CacheInv, VresOwned
  <2>10. (\A u \in Threads, w \in Vres : Owns(u, w) =>
            /\ vres[w] = re[u].pattern /\ cache[vres[w]] # w
            /\ \A x \in Threads : Owns(x, w) => x = u)'
    BY <1>2, <2>1, <2>2, <2>3, <2>6 DEF CacheInv, VresOwned
  <2>11. (ncache = Cardinality({q \in Patterns : cache[q] # Null}))'
    BY <2>1 DEF CacheInv, VresOwned
  <2> QED
    BY <2>4, <2>5, <2>8, <2>9, <2>10, <2>11 DEF CacheInv, VresOwned
<1> QED
  BY <1>3, <1>4

\* A compilation that is not in the cache is freed by its only owner.
LEMMA CacheMatch ==
    ASSUME CacheInv, NEW t \in Threads, Match(t), ~re[t].cached
    PROVE  CacheInv'
<1> DEFINE v == re[t].vre
<1>1. /\ ReAt(t, "match") /\ vres' = [vres EXCEPT ![v] = Null]
      /\ re' = [re EXCEPT ![t] = NoRegexp] /\ UNCHANGED <<cache, ncache>>
  BY DEF Match
<1>2. v \in Vres /\ Owns(t, v)
  BY <1>1 DEF CacheInv, RegexpsOK, Owns, ReAt
<1>3. re'[t] = NoRegexp /\ \A u \in Threads : u # t => re'[u] = re[u]
  BY <1>1 DEF CacheInv, CacheTypeOK
<1>4. vres'[v] = Null /\ \A w \in Vres : w # v => vres'[w] = vres[w]
  BY <1>1, <1>2 DEF CacheInv, CacheTypeOK
<1>5. CacheTypeOK'
  BY <1>1, <1>2 DEF CacheInv, CacheTypeOK, NoRegexp, RegexpStages
<1>6. RegexpsOK'
  BY <1>1, <1>3 DEF CacheInv, RegexpsOK, ReAt, NoRegexp
<1>7. \A u \in Threads, w \in Vres : Owns(u, w)' <=> u # t /\ Owns(u, w)
  BY <1>3 DEF Owns, ReAt, NoRegexp
<1>8. \A u \in Threads : Owns(u, v) => u = t
  BY <1>2 DEF CacheInv, VresOwned
<1>9. \A q \in Patterns : cache[q] # v
  BY <1>2, RegexpAssumption DEF CacheInv, VresOwned
<1>10. (\A q \in Patterns : cache[q] # Null => vres[cache[q]] = q)'
  BY <1>1, <1>4, <1>9 DEF CacheInv, CacheTypeOK, VresOwned
<1>11. (\A w \in Vres : vres[w] # Null =>
           cache[vres[w]] = w \/ \E u \in Threads : Owns(u, w))'
  <2>1. \A w \in Vres : Owns(t, w) => w = v
    BY DEF Owns
  <2> QED
    BY <1>1, <1>4, <1>7, <2>1 DEF CacheInv, VresOwned
<1>12. (\A u \in Threads, w \in Vres : Owns(u, w) =>
          /\ vres[w] = re[u].pattern /\ cache[vres[w]] # w
          /\ \A x \in Threads : Owns(x, w) => x = u)'
  BY <1>1, <1>3, <1>4, <1>7, <1>8 DEF CacheInv, VresOwned
<1>13. (ncache = Cardinality({q \in Patterns : cache[q] # Null}))'
  BY <1>1 DEF CacheInv, VresOwned
<1> QED
  BY <1>5, <1>6, <1>10, <1>11, <1>12, <1>13 DEF CacheInv, VresOwned

LEMMA CacheFlush == CacheInv /\ FlushRegexps => CacheInv'
<1> SUFFICES ASSUME CacheInv, FlushRegexps PROVE CacheInv'
  OBVIOUS
<1>1. \A t \in Threads, v \in Vres : ~Owns(t, v) /\ ~Owns(t, v)'
  BY DEF FlushRegexps, Owns, ReAt
<1>2. {p \in Patterns : cache'[p] # Null} = {}
  BY DEF FlushRegexps
<1>3. \A v \in Vres : vres'[v] = Null
  <2> SUFFICES ASSUME NEW v \in Vres, vres[v] # Null
               PROVE  \E p \in Patterns : cache[p] = v
    BY DEF FlushRegexps
  <2> QED
    BY <1>1 DEF CacheInv, CacheTypeOK, VresOwned
<1>4. CacheTypeOK' /\ RegexpsOK'
  BY <1>3 DEF CacheInv, CacheTypeOK, RegexpsOK, FlushRegexps, ReAt
<1> QED
  BY <1>1, <1>2, <1>3, <1>4, FS_EmptySet DEF CacheInv, VresOwned, FlushRegexps

\* The cache stays sound whatever a worker does with it.
LEMMA CacheStep ==
    ASSUME CacheInv, NEW t \in Threads,
           \/ \E p \in Patterns, c \in BOOLEAN : Regexp(t, p, c)
           \/ RegexpStep(t)
    PROVE  CacheInv'
BY CacheQuietSteps, CacheCompile, CacheInsert, CacheMatch DEF RegexpStep

----------------------------------------------------------------------------
(* The variables *)

\* SharedTypeOK but for the lock, which .stats() takes too.
VarsTypeOK ==
    /\ alive \subseteq Engines /\ engine \in [Threads -> Engines \cup {Null}]
    /\ globals \in [Keys -> Values \cup {Null, Freed}]
    /\ nglobals \in Nat
    /\ isLocked \in [Engines -> BOOLEAN]
    /\ frames \in [Threads -> Seq(Frames)]
    /\ cmd \in [Threads -> [at : {"none", "lock", "locked", "freed"},
                            op : {"none", "get", "set", "unset", "eval"},
                            key : Keys \cup {Null}, value : Values \cup {Null},
                            locked : BOOLEAN]]
    /\ got \in [Threads -> [key : Keys \cup {Null},
                            value : Values \cup {Null, Freed}]]

GotOK == \A t \in Threads : got[t].value # Freed

VarsInv ==
    /\ VarsTypeOK /\ FramesOK /\ CommandsOK /\ EnginesOK /\ ValuesOK
    /\ ReadsStay /\ GotOK

\* A writer of the variables is alone.
Exclusive ==
    \A t, u \in Threads : WritesVariables(t) /\ u # t =>
        ~WritesVariables(u) /\ ~ReadsVariables(u)

LEMMA VarsInit == SharedInit => VarsInv
<1> SUFFICES ASSUME SharedInit PROVE VarsInv
  OBVIOUS
<1>1. VarsTypeOK /\ FramesOK
  BY SharedAssumption DEF SharedInit, AllocInit, VarsTypeOK, FramesOK, NoVariables,
         NoCommand, Nothing
<1>2. CommandsOK /\ EnginesOK /\ ReadsStay /\ GotOK
  BY SharedAssumption
     DEF SharedInit, AllocInit, CommandsOK, EnginesOK, ReadsStay, GotOK,
         Held, NoCommand, Nothing
<1>3. {k \in Keys : globals[k] # Null} = {}
  BY DEF SharedInit, NoVariables
<1>4. ValuesOK
  BY <1>3, FS_EmptySet, SharedAssumption
     DEF SharedInit, ValuesOK, NoCommand, NoVariables
<1> QED
  BY <1>1, <1>2, <1>4 DEF VarsInv

\* What an .eval() that ends leaves of the stack.
LEMMA FrontFacts ==
    ASSUME NEW s \in Seq(Frames), s # <<>>
    PROVE  /\ Front(s) \in Seq(Frames)
           /\ Front(s) = <<>> <=> Len(s) = 1
           /\ \A i \in DOMAIN Front(s) : i \in DOMAIN s /\ Front(s)[i] = s[i]
           /\ Len(s) \in DOMAIN s
<1>1. Len(s) \in Nat \ {0} /\ DOMAIN s = 1 .. Len(s) /\ s \in [1 .. Len(s) -> Frames]
  BY EmptySeq, LenProperties
<1>2. /\ Front(s) \in Seq(Frames) /\ Len(Front(s)) = Len(s) - 1
      /\ \A i \in 1 .. Len(s) - 1 : Front(s)[i] = s[i]
  <2> DEFINE n == Len(s)
  <2>1. n \in Nat \ {0} /\ \A i \in 1 .. n - 1 : s[i] \in Frames
    BY <1>1
  <2>2. Front(s) = SubSeq(s, 1, n - 1)
    BY DEF Front
  <2> HIDE DEF n
  <2>3. /\ SubSeq(s, 1, n - 1) \in Seq(Frames)
        /\ Len(SubSeq(s, 1, n - 1)) = IF 1 <= n - 1 THEN (n - 1) - 1 + 1 ELSE 0
        /\ \A i \in 1 .. (n - 1) - 1 + 1 : SubSeq(s, 1, n - 1)[i] = s[1 + i - 1]
    BY <2>1, SubSeqProperties
  <2>4. Len(SubSeq(s, 1, n - 1)) = n - 1
    BY <2>1, <2>3
  <2>5. \A i \in 1 .. n - 1 : SubSeq(s, 1, n - 1)[i] = s[i]
    BY <2>1, <2>3
  <2> QED
    BY <2>2, <2>3, <2>4, <2>5 DEF n
<1>3. DOMAIN Front(s) = 1 .. Len(s) - 1
  BY <1>2, LenProperties
<1>4. Front(s) = <<>> <=> Len(Front(s)) = 0
  BY <1>2, EmptySeq
<1> QED
  BY <1>1, <1>2, <1>3, <1>4

\* The outermost .eval() is the one that locks.
LEMMA AppendFacts ==
    ASSUME NEW s \in Seq(Frames), NEW b \in Frames,
           b = IF s = <<>> THEN "locks" ELSE "nested",
           \A i \in DOMAIN s : s[i] = IF i = 1 THEN "locks" ELSE "nested"
    PROVE  /\ Append(s, b) \in Seq(Frames) /\ Append(s, b) # <<>>
           /\ \A i \in DOMAIN Append(s, b) :
                 Append(s, b)[i] = IF i = 1 THEN "locks" ELSE "nested"
<1>1. /\ Append(s, b) \in Seq(Frames) /\ Append(s, b) # <<>>
      /\ Len(Append(s, b)) = Len(s) + 1
      /\ \A i \in 1 .. Len(s) : Append(s, b)[i] = s[i]
      /\ Append(s, b)[Len(s) + 1] = b
  BY AppendProperties
<1>2. /\ DOMAIN Append(s, b) = 1 .. Len(s) + 1
      /\ DOMAIN s = 1 .. Len(s) /\ Len(s) \in Nat
      /\ s = <<>> <=> Len(s) = 0
  BY <1>1, LenProperties, EmptySeq
<1> QED
  BY <1>1, <1>2

LEMMA VarsEnter ==
    ASSUME VarsInv, NEW t \in Threads, Enter(t)
    PROVE  VarsInv'
<1>1. PICK e \in Engines, drop \in SUBSET Engines :
         /\ Acquire(t, e, drop)
         /\ isLocked' = IF e \in alive \ drop THEN isLocked
                        ELSE [isLocked EXCEPT ![e] = FALSE]
  BY DEF Enter
<1>2. /\ engine[t] = Null /\ cmd[t].at = "none" /\ e # Null
      /\ engine' = [engine EXCEPT ![t] = e]
      /\ UNCHANGED <<globals, nglobals, vlock, frames, cmd, got>>
  BY <1>1, SharedAssumption DEF Acquire, Enter
<1>3. VarsTypeOK'
  BY <1>1, <1>2 DEF VarsInv, VarsTypeOK, Acquire
<1>4. FramesOK' /\ ValuesOK' /\ ReadsStay' /\ GotOK'
  BY <1>2 DEF VarsInv, FramesOK, ValuesOK, ReadsStay, GotOK
<1>5. CommandsOK'
  BY <1>2 DEF VarsInv, VarsTypeOK, CommandsOK
<1>6. Held' = Held \cup {e} /\ e \notin Held
  BY <1>1, <1>2 DEF Held, Acquire, VarsInv, VarsTypeOK
<1>7. isLocked'[e] = FALSE /\ \A x \in Held : isLocked'[x] = isLocked[x]
  BY <1>1, <1>6 DEF VarsInv, VarsTypeOK, EnginesOK
<1>8. EnginesOK'
  <2>1. Held' \subseteq alive'
    BY <1>1, <1>6 DEF Acquire, VarsInv, EnginesOK
  <2>2. (\A u, w \in Threads : engine[u] = engine[w] /\ engine[u] # Null => u = w)'
    BY <1>2, <1>6 DEF VarsInv, VarsTypeOK, EnginesOK, Held
  <2>3. (\A u \in Threads :
            engine[u] # Null => (isLocked[engine[u]] <=> frames[u] # <<>>))'
    <3>1. frames[t] = <<>> /\ engine'[t] = e
      BY <1>2 DEF VarsInv, VarsTypeOK, CommandsOK
    <3>2. ASSUME NEW u \in Threads, u # t, engine'[u] # Null
          PROVE  /\ engine'[u] = engine[u] /\ engine[u] \in Held
                 /\ (isLocked[engine[u]] <=> frames[u] # <<>>)
      BY <1>2, <3>2 DEF VarsInv, VarsTypeOK, EnginesOK, Held
    <3> QED
      BY <1>2, <1>7, <3>1, <3>2
  <2>4. (\A x \in Engines : isLocked[x] => x \in Held)'
    BY <1>1, <1>6 DEF VarsInv, VarsTypeOK, EnginesOK
  <2> QED
    BY <2>1, <2>2, <2>3, <2>4 DEF EnginesOK
<1> QED
  BY <1>3, <1>4, <1>5, <1>8 DEF VarsInv

LEMMA VarsLeave ==
    ASSUME VarsInv, NEW t \in Threads, Leave(t)
    PROVE  VarsInv'
<1>1. /\ engine[t] # Null /\ cmd[t].at = "none" /\ frames[t] = <<>>
      /\ engine' = [engine EXCEPT ![t] = Null]
      /\ got' = [got EXCEPT ![t] = Nothing]
      /\ UNCHANGED <<alive, globals, nglobals, isLocked, frames, cmd>>
  BY DEF Leave, Running, Release, Forget
<1>2. VarsTypeOK'
  BY <1>1 DEF VarsInv, VarsTypeOK, Nothing
<1>3. FramesOK' /\ ValuesOK' /\ CommandsOK'
  BY <1>1 DEF VarsInv, VarsTypeOK, FramesOK, ValuesOK, CommandsOK
<1>4. ReadsStay' /\ GotOK'
  BY <1>1, SharedAssumption DEF VarsInv, VarsTypeOK, ReadsStay, GotOK, Nothing
<1>5. EnginesOK'
  <2>1. Held' = Held \ {engine[t]}
    BY <1>1 DEF Held, VarsInv, VarsTypeOK, EnginesOK
  <2>2. ~isLocked[engine[t]]
    BY <1>1 DEF VarsInv, EnginesOK
  <2> QED
    BY <1>1, <2>1, <2>2 DEF VarsInv, VarsTypeOK, EnginesOK
<1> QED
  BY <1>2, <1>3, <1>4, <1>5 DEF VarsInv

\* A step that moves the command of t and nothing else.
LEMMA VarsMove ==
    ASSUME VarsInv, NEW t \in Threads,
           UNCHANGED <<allocVars, globals, nglobals, isLocked, frames, got>>,
           NEW c \in [at : {"none", "lock", "locked"},
                      op : {"none", "get", "set", "unset", "eval"},
                      key : Keys \cup {Null}, value : Values \cup {Null},
                      locked : BOOLEAN],
           cmd' = [cmd EXCEPT ![t] = c], cmd[t].at # "freed", engine[t] # Null,
           c.at = "none" <=> c.op = "none",
           c.op \in {"get", "set", "unset"} => c.key \in Keys,
           c.op = "set" => c.value \in Values,
           c.at # "none" => (c.locked <=> frames[t] # <<>>),
           c.at = "lock" \/ c.op = "eval" => ~c.locked
    PROVE  VarsInv'
<1>1. VarsTypeOK'
  BY DEF VarsInv, VarsTypeOK
<1>2. FramesOK' /\ EnginesOK' /\ ReadsStay' /\ GotOK'
  BY DEF VarsInv, FramesOK, EnginesOK, ReadsStay, GotOK, Held
<1>3. cmd'[t] = c /\ \A u \in Threads : u # t => cmd'[u] = cmd[u]
  BY DEF VarsInv, VarsTypeOK
<1>4. CommandsOK'
  BY <1>3 DEF VarsInv, CommandsOK
<1>5. ValuesOK'
  BY <1>3 DEF VarsInv, ValuesOK
<1> QED
  BY <1>1, <1>2, <1>4, <1>5 DEF VarsInv

\* The mark of the engine of a worker tells whether it is in an .eval().
LEMMA MarkFacts ==
    ASSUME VarsInv, NEW t \in Threads, engine[t] # Null
    PROVE  /\ engine[t] \in Engines /\ isLocked[engine[t]] \in BOOLEAN
           /\ (isLocked[engine[t]] <=> frames[t] # <<>>)
BY DEF VarsInv, VarsTypeOK, EnginesOK

LEMMA VarsCommand ==
    ASSUME VarsInv, NEW t \in Threads, Running(t),
           NEW op \in {"get", "set", "unset", "eval"},
           NEW k \in Keys \cup {Null}, NEW v \in Values \cup {Null},
           op # "eval" => k \in Keys, op = "set" => v \in Values,
           op = "eval" => ~isLocked[engine[t]],
           Command(t, op, k, v),
           UNCHANGED <<allocVars, globals, nglobals, isLocked, frames, got>>
    PROVE  VarsInv'
<1> DEFINE c == [at |-> IF isLocked[engine[t]] THEN "locked" ELSE "lock",
                 op |-> op, key |-> k, value |-> v,
                 locked |-> isLocked[engine[t]]]
<1>1. engine[t] # Null /\ cmd[t].at = "none"
  BY DEF Running
<1>2. /\ isLocked[engine[t]] \in BOOLEAN
      /\ isLocked[engine[t]] <=> frames[t] # <<>>
  BY <1>1, MarkFacts
<1>3. c \in [at : {"none", "lock", "locked"},
            op : {"none", "get", "set", "unset", "eval"},
            key : Keys \cup {Null}, value : Values \cup {Null},
            locked : BOOLEAN]
  BY <1>2
<1>4. /\ c.at # "none" /\ c.op = op /\ c.key = k /\ c.value = v
      /\ c.locked <=> frames[t] # <<>>
      /\ c.at = "lock" => ~c.locked
  BY <1>2
<1>5. c.op = "eval" => ~c.locked
  BY <1>2
<1>6. cmd' = [cmd EXCEPT ![t] = c]
  BY DEF Command
<1> HIDE DEF c
<1> QED
  BY <1>1, <1>3, <1>4, <1>5, <1>6, VarsMove

LEMMA VarsLock ==
    ASSUME VarsInv, NEW t \in Threads, LockVariables(t)
    PROVE  VarsInv'
<1> DEFINE c == [cmd[t] EXCEPT !.at = "locked"]
<1>1. cmd[t].at = "lock" /\ cmd' = [cmd EXCEPT ![t] = c]
  BY DEF LockVariables, VarsInv, VarsTypeOK
<1>2. /\ cmd[t].op # "none" /\ engine[t] # Null /\ ~cmd[t].locked
      /\ frames[t] = <<>>
  BY <1>1 DEF VarsInv, CommandsOK
<1>3. c \in [at : {"none", "lock", "locked"},
            op : {"none", "get", "set", "unset", "eval"},
            key : Keys \cup {Null}, value : Values \cup {Null},
            locked : BOOLEAN]
      /\ c.at = "locked" /\ c.op = cmd[t].op /\ c.key = cmd[t].key
      /\ c.value = cmd[t].value /\ c.locked = cmd[t].locked
  BY DEF VarsInv, VarsTypeOK
<1>4. /\ c.op \in {"get", "set", "unset"} => c.key \in Keys
      /\ c.op = "set" => c.value \in Values
  BY <1>3 DEF VarsInv, CommandsOK
<1> HIDE DEF c
<1> QED
  BY <1>1, <1>2, <1>3, <1>4, VarsMove DEF LockVariables

LEMMA VarsEval ==
    ASSUME VarsInv, NEW t \in Threads, Eval(t)
    PROVE  VarsInv'
<1>1. engine[t] # Null /\ cmd[t].at = "none"
  BY DEF Eval, Running
<1>2. CASE ~isLocked[engine[t]]
  BY <1>2, VarsCommand DEF Eval
<1>3. CASE isLocked[engine[t]]
  <2>1. frames[t] # <<>> /\ frames[t] \in Seq(Frames)
    BY <1>1, <1>3, MarkFacts DEF VarsInv, VarsTypeOK
  <2> DEFINE f == Append(frames[t], "nested")
  <2>2. /\ f \in Seq(Frames) /\ f # <<>>
        /\ \A i \in DOMAIN f : f[i] = IF i = 1 THEN "locks" ELSE "nested"
    BY <2>1, AppendFacts DEF VarsInv, FramesOK, Frames
  <2>3. /\ frames' = [frames EXCEPT ![t] = f]
        /\ UNCHANGED <<allocVars, globals, nglobals, isLocked, got, cmd>>
    BY <1>3 DEF Eval
  <2> HIDE DEF f
  <2>4. frames'[t] = f /\ \A u \in Threads : u # t => frames'[u] = frames[u]
    BY <2>3 DEF VarsInv, VarsTypeOK
  <2>5. VarsTypeOK' /\ FramesOK'
    BY <2>2, <2>3, <2>4 DEF VarsInv, VarsTypeOK, FramesOK
  <2>6. CommandsOK' /\ EnginesOK'
    BY <1>1, <2>1, <2>2, <2>3, <2>4 DEF VarsInv, CommandsOK, EnginesOK, Held
  <2>7. ValuesOK' /\ ReadsStay' /\ GotOK'
    BY <2>1, <2>3, <2>4 DEF VarsInv, ValuesOK, ReadsStay, GotOK
  <2> QED
    BY <2>5, <2>6, <2>7 DEF VarsInv
<1> QED
  BY <1>2, <1>3

LEMMA VarsEvalLocked ==
    ASSUME VarsInv, NEW t \in Threads, EvalLocked(t)
    PROVE  VarsInv'
<1>1. /\ cmd[t].at = "locked" /\ cmd[t].op = "eval"
      /\ isLocked' = [isLocked EXCEPT ![engine[t]] = TRUE]
      /\ frames' = [frames EXCEPT ![t] = Append(@, "locks")]
      /\ cmd' = [cmd EXCEPT ![t] = NoCommand]
      /\ got' = [got EXCEPT ![t] = Nothing]
      /\ UNCHANGED <<alive, engine, globals, nglobals>>
  BY DEF EvalLocked, Doing, Forget
<1>2. engine[t] # Null /\ frames[t] = <<>> /\ engine[t] \in Engines
  BY <1>1 DEF VarsInv, VarsTypeOK, CommandsOK
<1> DEFINE f == Append(frames[t], "locks")
<1>3. /\ f \in Seq(Frames) /\ f # <<>>
      /\ \A i \in DOMAIN f : f[i] = IF i = 1 THEN "locks" ELSE "nested"
  <2>1. frames[t] \in Seq(Frames)
    BY DEF VarsInv, VarsTypeOK
  <2> QED
    BY <1>2, <2>1, AppendFacts DEF VarsInv, FramesOK, Frames
<1>4. /\ frames'[t] = f /\ cmd'[t] = NoCommand /\ got'[t] = Nothing
      /\ isLocked'[engine[t]] = TRUE
      /\ \A u \in Threads : u # t =>
            frames'[u] = frames[u] /\ cmd'[u] = cmd[u] /\ got'[u] = got[u]
      /\ \A x \in Engines : x # engine[t] => isLocked'[x] = isLocked[x]
  BY <1>1, <1>2 DEF VarsInv, VarsTypeOK
<1>a. frames' = [frames EXCEPT ![t] = f]
  BY <1>1
<1> HIDE DEF f
<1>5. VarsTypeOK'
  BY <1>1, <1>2, <1>3, <1>a DEF VarsInv, VarsTypeOK, NoCommand, Nothing
<1>6. FramesOK'
  BY <1>3, <1>4 DEF VarsInv, FramesOK
<1>7. CommandsOK'
  BY <1>1, <1>2, <1>3, <1>4 DEF VarsInv, CommandsOK, NoCommand
<1>8. EnginesOK'
  <2>1. Held' = Held /\ engine[t] \in Held
    BY <1>1, <1>2 DEF Held
  <2>2. \A u \in Threads : u # t => engine[u] # engine[t]
    BY <1>2 DEF VarsInv, EnginesOK
  <2>3. \A u \in Threads : engine[u] # Null => engine[u] \in Engines
    BY DEF VarsInv, VarsTypeOK
  <2> QED
    BY <1>1, <1>2, <1>3, <1>4, <2>1, <2>2, <2>3 DEF VarsInv, EnginesOK
<1>9. ValuesOK'
  BY <1>1, <1>4 DEF VarsInv, ValuesOK, NoCommand
<1>10. ReadsStay' /\ GotOK'
  <2>1. got'[t].key = Null /\ got'[t].value # Freed
    BY <1>4, SharedAssumption DEF Nothing
  <2> QED
    BY <1>1, <1>4, <2>1 DEF VarsInv, ReadsStay, GotOK
<1> QED
  BY <1>5, <1>6, <1>7, <1>8, <1>9, <1>10 DEF VarsInv

LEMMA VarsEvalReturns ==
    ASSUME VarsInv, NEW t \in Threads, EvalReturns(t)
    PROVE  /\ VarsInv'
           /\ frames'[t] = <<>> <=> Last(frames[t]) # "nested"
<1>1. /\ engine[t] # Null /\ cmd[t].at = "none" /\ frames[t] # <<>>
      /\ frames[t] \in Seq(Frames) /\ engine[t] \in Engines
      /\ frames' = [frames EXCEPT ![t] = Front(@)]
      /\ UNCHANGED <<alive, engine, globals, nglobals, cmd, got>>
  BY DEF EvalReturns, Running, VarsInv, VarsTypeOK
<1> DEFINE f == Front(frames[t])
<1>2. /\ f \in Seq(Frames) /\ (f = <<>> <=> Len(frames[t]) = 1)
      /\ \A i \in DOMAIN f : i \in DOMAIN frames[t] /\ f[i] = frames[t][i]
      /\ Len(frames[t]) \in DOMAIN frames[t]
  BY <1>1, FrontFacts
<1>3. Last(frames[t]) = "nested" <=> f # <<>>
  <2>1. Last(frames[t]) = IF Len(frames[t]) = 1 THEN "locks" ELSE "nested"
    BY <1>2 DEF VarsInv, FramesOK, Last
  <2> HIDE DEF f
  <2> QED
    BY <1>2, <2>1 DEF f
<1>4. isLocked' = IF Last(frames[t]) = "nested" THEN isLocked
                  ELSE [isLocked EXCEPT ![engine[t]] = FALSE]
  BY DEF EvalReturns
<1>5. frames'[t] = f /\ \A u \in Threads : u # t => frames'[u] = frames[u]
  BY <1>1 DEF VarsInv, VarsTypeOK
<1> HIDE DEF f
<1>6. VarsTypeOK'
  <2>1. frames' \in [Threads -> Seq(Frames)]
    BY <1>1, <1>2 DEF VarsInv, VarsTypeOK, f
  <2>2. isLocked' \in [Engines -> BOOLEAN]
    BY <1>4 DEF VarsInv, VarsTypeOK
  <2> QED
    BY <1>1, <2>1, <2>2 DEF VarsInv, VarsTypeOK
<1>7. FramesOK'
  BY <1>2, <1>5 DEF VarsInv, FramesOK
<1>8. CommandsOK'
  BY <1>1, <1>5 DEF VarsInv, CommandsOK
<1>9. EnginesOK'
  <2>1. Held' = Held /\ isLocked[engine[t]] = TRUE
    BY <1>1, MarkFacts DEF Held
  <2>2. isLocked'[engine[t]] = (f # <<>>)
    BY <1>1, <1>3, <1>4, <2>1 DEF VarsInv, VarsTypeOK
  <2>3. \A x \in Engines : x # engine[t] => isLocked'[x] = isLocked[x]
    BY <1>4
  <2>4. \A u \in Threads : /\ u # t => engine[u] # engine[t]
                          /\ engine[u] # Null => engine[u] \in Engines
    BY <1>1 DEF VarsInv, VarsTypeOK, EnginesOK
  <2> QED
    BY <1>1, <1>5, <2>1, <2>2, <2>3, <2>4 DEF VarsInv, EnginesOK
<1>10. ValuesOK' /\ ReadsStay' /\ GotOK'
  BY <1>1, <1>5 DEF VarsInv, ValuesOK, ReadsStay, GotOK
<1> QED
  BY <1>3, <1>5, <1>6, <1>7, <1>8, <1>9, <1>10 DEF VarsInv

\* A worker that has a lock finds no value freed by another one.
LEMMA ValueThere ==
    ASSUME VarsInv, Exclusive, NEW t \in Threads,
           cmd[t].at = "locked", cmd[t].op # "eval"
    PROVE  globals[cmd[t].key] # Freed
<1>1. WritesVariables(t) \/ ReadsVariables(t)
  BY DEF VarsInv, VarsTypeOK, CommandsOK, WritesVariables, ReadsVariables
<1>2. cmd[t].key \in Keys
  BY DEF VarsInv, VarsTypeOK, CommandsOK
<1>3. ASSUME NEW u \in Threads, cmd[u].at = "freed"
      PROVE  FALSE
  <2>1. WritesVariables(u) /\ u # t
    BY <1>3 DEF VarsInv, VarsTypeOK, CommandsOK, WritesVariables
  <2> QED
    BY <1>1, <2>1 DEF Exclusive
<1> QED
  BY <1>2, <1>3 DEF VarsInv, ValuesOK

LEMMA VarsGet ==
    ASSUME VarsInv, Exclusive, NEW t \in Threads, GetGlobal(t)
    PROVE  VarsInv'
<1>1. /\ cmd[t].at = "locked" /\ cmd[t].op = "get"
      /\ cmd' = [cmd EXCEPT ![t] = NoCommand]
      /\ UNCHANGED <<allocVars, globals, nglobals, isLocked, frames>>
  BY DEF GetGlobal, Doing, Finish
<1>2. /\ cmd[t].key \in Keys /\ globals[cmd[t].key] # Freed
      /\ globals[cmd[t].key] \in Values \cup {Null, Freed}
  BY <1>1, ValueThere DEF VarsInv, VarsTypeOK, CommandsOK
<1>3. PICK g \in {Nothing, [key |-> cmd[t].key, value |-> globals[cmd[t].key]]} :
        got' = [got EXCEPT ![t] = g]
  BY DEF GetGlobal, Forget
<1>4. /\ g \in [key : Keys \cup {Null}, value : Values \cup {Null, Freed}]
      /\ g.value # Freed
      /\ g.key # Null => globals[g.key] = g.value
  BY <1>2, <1>3, SharedAssumption DEF Nothing
<1>5. /\ cmd'[t] = NoCommand /\ got'[t] = g
      /\ \A u \in Threads : u # t => cmd'[u] = cmd[u] /\ got'[u] = got[u]
  BY <1>1, <1>3 DEF VarsInv, VarsTypeOK
<1>6. VarsTypeOK'
  BY <1>1, <1>3, <1>4 DEF VarsInv, VarsTypeOK, NoCommand
<1>7. FramesOK' /\ EnginesOK'
  BY <1>1 DEF VarsInv, FramesOK, EnginesOK, Held
<1>8. CommandsOK'
  BY <1>1, <1>5 DEF VarsInv, CommandsOK, NoCommand
<1>9. ValuesOK'
  BY <1>1, <1>5 DEF VarsInv, ValuesOK, NoCommand
<1>10. ReadsStay' /\ GotOK'
  BY <1>1, <1>4, <1>5 DEF VarsInv, ReadsStay, GotOK
<1> QED
  BY <1>6, <1>7, <1>8, <1>9, <1>10 DEF VarsInv

\* One more, or one less, among the variables there are.
LEMMA Counted ==
    ASSUME VarsInv, NEW k \in Keys, NEW v,
           globals' = [globals EXCEPT ![k] = v]
    PROVE  /\ v # Null /\ globals[k] = Null =>
               Cardinality({x \in Keys : globals'[x] # Null}) = nglobals + 1
           /\ v = Null /\ globals[k] # Null =>
               Cardinality({x \in Keys : globals'[x] # Null}) = nglobals - 1
           /\ (v = Null <=> globals[k] = Null) =>
               Cardinality({x \in Keys : globals'[x] # Null}) = nglobals
<1> DEFINE G == {x \in Keys : globals[x] # Null}
           H == {x \in Keys : globals'[x] # Null}
<1>1. /\ IsFiniteSet(G) /\ Cardinality(G) = nglobals
      /\ globals'[k] = v /\ \A x \in Keys : x # k => globals'[x] = globals[x]
  BY FS_Subset, SharedAssumption DEF VarsInv, VarsTypeOK, ValuesOK
<1>2. ASSUME v # Null, globals[k] = Null
      PROVE  Cardinality(H) = nglobals + 1
  <2>1. H = G \cup {k} /\ k \notin G
    BY <1>1, <1>2
  <2> QED
    BY <1>1, <2>1, FS_AddElement
<1>3. ASSUME v = Null, globals[k] # Null
      PROVE  Cardinality(H) = nglobals - 1
  <2>1. H = G \ {k} /\ k \in G
    BY <1>1, <1>3
  <2> QED
    BY <1>1, <2>1, FS_RemoveElement
<1>4. ASSUME v = Null <=> globals[k] = Null
      PROVE  Cardinality(H) = nglobals
  <2>1. H = G
    BY <1>1, <1>4
  <2> QED
    BY <1>1, <2>1
<1> QED
  BY <1>2, <1>3, <1>4

\* A command that writes, or stops after it has freed the old value.
LEMMA VarsWrite ==
    ASSUME VarsInv, Exclusive, NEW t \in Threads,
           cmd[t].at \in {"locked", "freed"}, cmd[t].op \in {"set", "unset"},
           NEW v \in Values \cup {Null, Freed},
           NEW c,
           \/ c = NoCommand /\ v # Freed
           \/ c = [cmd[t] EXCEPT !.at = "freed"] /\ v = Freed /\ cmd[t].op = "set",
           cmd' = [cmd EXCEPT ![t] = c],
           globals' = [globals EXCEPT ![cmd[t].key] = v],
           nglobals' = Cardinality({k \in Keys : globals'[k] # Null}),
           nglobals' \in Nat,
           got' = [got EXCEPT ![t] = Nothing],
           UNCHANGED <<allocVars, isLocked, frames>>
    PROVE  VarsInv'
<1> DEFINE k == cmd[t].key
<1>1. k \in Keys /\ WritesVariables(t)
  BY DEF VarsInv, VarsTypeOK, CommandsOK, WritesVariables
<1>2. c.at \in {"none", "freed"} /\ (c.at = "freed" <=> v = Freed)
      /\ c \in [at : {"none", "lock", "locked", "freed"},
                op : {"none", "get", "set", "unset", "eval"},
                key : Keys \cup {Null}, value : Values \cup {Null},
                locked : BOOLEAN]
      /\ (c.at = "freed" => /\ c.key = k /\ c.op = "set"
                           /\ c.value = cmd[t].value /\ c.locked = cmd[t].locked)
      /\ (c.at = "none" => c = NoCommand)
  <2>1. CASE c = NoCommand /\ v # Freed
    BY <2>1 DEF NoCommand
  <2>2. CASE c = [cmd[t] EXCEPT !.at = "freed"] /\ v = Freed /\ cmd[t].op = "set"
    <3>1. cmd[t] \in [at : {"none", "lock", "locked", "freed"},
                     op : {"none", "get", "set", "unset", "eval"},
                     key : Keys \cup {Null}, value : Values \cup {Null},
                     locked : BOOLEAN]
      BY DEF VarsInv, VarsTypeOK
    <3> QED
      BY <2>2, <3>1
  <2> QED
    BY <2>1, <2>2
<1>3. /\ cmd'[t] = c /\ got'[t] = Nothing /\ globals'[k] = v
      /\ \A u \in Threads : u # t => cmd'[u] = cmd[u] /\ got'[u] = got[u]
      /\ \A x \in Keys : x # k => globals'[x] = globals[x]
  BY <1>1 DEF VarsInv, VarsTypeOK
<1>4. \A u \in Threads : u # t =>
          frames[u] = <<>> /\ (cmd[u].at \in {"locked", "freed"} => cmd[u].op = "get")
  BY <1>1 DEF Exclusive, WritesVariables
<1>5. VarsTypeOK'
  BY <1>1, <1>2 DEF VarsInv, VarsTypeOK, Nothing
<1>6. FramesOK' /\ EnginesOK'
  BY DEF VarsInv, FramesOK, EnginesOK, Held
<1>7. CommandsOK'
  BY <1>1, <1>2, <1>3 DEF VarsInv, VarsTypeOK, CommandsOK, NoCommand
<1>8. ValuesOK'
  <2>1. \A u \in Threads : u # t => cmd[u].at # "freed"
    BY <1>4 DEF VarsInv, CommandsOK
  <2>2. \A x \in Keys : x # k => globals[x] # Freed
    BY <2>1 DEF VarsInv, ValuesOK
  <2>3. (\A x \in Keys : globals[x] = Freed =>
            \E u \in Threads : cmd[u].at = "freed" /\ cmd[u].key = x)'
    BY <1>2, <1>3, <2>2
  <2>4. (\A u \in Threads : cmd[u].at = "freed" =>
            globals[cmd[u].key] = Freed /\ got[u] = Nothing)'
    BY <1>1, <1>2, <1>3, <2>1 DEF Nothing
  <2> QED
    BY <2>3, <2>4 DEF ValuesOK
<1>9. ReadsStay' /\ GotOK'
  <2>1. got'[t].key = Null /\ got'[t].value # Freed
    BY <1>3, SharedAssumption DEF Nothing
  <2> QED
    BY <1>3, <1>4, <2>1 DEF VarsInv, ReadsStay, GotOK
<1> QED
  BY <1>5, <1>6, <1>7, <1>8, <1>9 DEF VarsInv

LEMMA VarsWrites ==
    ASSUME VarsInv, Exclusive, NEW t \in Threads,
           InsertGlobal(t) \/ FreeValue(t) \/ ReplaceValue(t) \/ UnsetGlobal(t)
    PROVE  VarsInv'
<1> DEFINE k == cmd[t].key
<1>0. nglobals \in Nat /\ nglobals = Cardinality({x \in Keys : globals[x] # Null})
  BY DEF VarsInv, VarsTypeOK, ValuesOK
<1>a. cmd[t].op \in {"set", "unset"} => k \in Keys
  BY DEF VarsInv, CommandsOK
<1>b. cmd[t].op = "set" => cmd[t].value \in Values
  BY DEF VarsInv, CommandsOK
<1>1. CASE InsertGlobal(t)
  <2>1. /\ cmd[t].at = "locked" /\ cmd[t].op = "set" /\ globals[k] = Null
        /\ globals' = [globals EXCEPT ![k] = cmd[t].value]
        /\ nglobals' = nglobals + 1
        /\ cmd' = [cmd EXCEPT ![t] = NoCommand]
        /\ got' = [got EXCEPT ![t] = Nothing]
        /\ UNCHANGED <<allocVars, isLocked, frames>>
    BY <1>1 DEF InsertGlobal, Doing, Finish, Forget
  <2>2. cmd[t].value # Null /\ cmd[t].value # Freed
    BY <1>b, <2>1, SharedAssumption
  <2>3. nglobals' = Cardinality({x \in Keys : globals'[x] # Null})
    BY <1>a, <2>1, <2>2, Counted
  <2>4. nglobals' \in Nat /\ cmd[t].value \in Values \cup {Null, Freed}
    BY <1>0, <1>b, <2>1
  <2> QED
    BY <2>1, <2>2, <2>3, <2>4, VarsWrite
<1>2. CASE FreeValue(t)
  <2>1. /\ cmd[t].at = "locked" /\ cmd[t].op = "set" /\ globals[k] # Null
        /\ globals' = [globals EXCEPT ![k] = Freed]
        /\ nglobals' = nglobals
        /\ cmd' = [cmd EXCEPT ![t] = [cmd[t] EXCEPT !.at = "freed"]]
        /\ got' = [got EXCEPT ![t] = Nothing]
        /\ UNCHANGED <<allocVars, isLocked, frames>>
    BY <1>2 DEF FreeValue, Doing, Forget, VarsInv, VarsTypeOK
  <2>2. nglobals' = Cardinality({x \in Keys : globals'[x] # Null})
    BY <1>a, <2>1, Counted, SharedAssumption
  <2> QED
    BY <1>0, <2>1, <2>2, VarsWrite
<1>3. CASE ReplaceValue(t)
  <2>1. /\ cmd[t].at = "freed" /\ cmd[t].op = "set"
        /\ globals[k] = Freed /\ got[t] = Nothing
        /\ globals' = [globals EXCEPT ![k] = cmd[t].value]
        /\ nglobals' = nglobals
        /\ cmd' = [cmd EXCEPT ![t] = NoCommand]
        /\ UNCHANGED <<allocVars, isLocked, frames>>
    BY <1>3 DEF ReplaceValue, Finish, VarsInv, CommandsOK, ValuesOK
  <2>2. cmd[t].value # Null /\ cmd[t].value # Freed /\ Freed # Null
    BY <1>b, <2>1, SharedAssumption
  <2>3. nglobals' = Cardinality({x \in Keys : globals'[x] # Null})
    BY <1>a, <2>1, <2>2, Counted
  <2>4. got' = [got EXCEPT ![t] = Nothing]
    BY <1>3, <2>1 DEF ReplaceValue, VarsInv, VarsTypeOK
  <2> QED
    BY <1>0, <1>b, <2>1, <2>2, <2>3, <2>4, VarsWrite
<1>4. CASE UnsetGlobal(t)
  <2>1. /\ cmd[t].at = "locked" /\ cmd[t].op = "unset"
        /\ globals' = [globals EXCEPT ![k] = Null]
        /\ nglobals' = IF globals[k] = Null THEN nglobals ELSE nglobals - 1
        /\ cmd' = [cmd EXCEPT ![t] = NoCommand]
        /\ got' = [got EXCEPT ![t] = Nothing]
        /\ UNCHANGED <<allocVars, isLocked, frames>>
    BY <1>4 DEF UnsetGlobal, Doing, Finish, Forget
  <2>2. nglobals' = Cardinality({x \in Keys : globals'[x] # Null})
    BY <1>a, <2>1, Counted
  <2>3. nglobals' \in Nat
    <3>1. IsFiniteSet({x \in Keys : globals'[x] # Null})
      BY FS_Subset, SharedAssumption
    <3> QED
      BY <2>2, <3>1, FS_CardinalityType
  <2> QED
    BY <2>1, <2>2, <2>3, VarsWrite, SharedAssumption
<1> QED
  BY <1>1, <1>2, <1>3, <1>4

LEMMA VarsFlush == VarsInv /\ FlushVariables => VarsInv'
<1> SUFFICES ASSUME VarsInv, FlushVariables PROVE VarsInv'
  OBVIOUS
<1>1. /\ \A t \in Threads : engine[t] = Null /\ engine'[t] = Null
      /\ Held = {} /\ Held' = {} /\ alive' = {}
      /\ globals' = [k \in Keys |-> Null] /\ nglobals' = 0
      /\ UNCHANGED <<engine, isLocked, frames, cmd, got>>
  BY DEF FlushVariables, Flush, Held, NoVariables
<1>2. \A t \in Threads : cmd[t].at = "none" /\ frames[t] = <<>>
  BY <1>1 DEF VarsInv, CommandsOK
<1>3. VarsTypeOK' /\ FramesOK' /\ CommandsOK'
  BY <1>1 DEF VarsInv, VarsTypeOK, FramesOK, CommandsOK
<1>4. EnginesOK'
  BY <1>1 DEF VarsInv, EnginesOK
<1>5. ReadsStay' /\ GotOK'
  BY <1>1, <1>2 DEF VarsInv, ReadsStay, GotOK
<1>6. ValuesOK'
  <2>1. {k \in Keys : globals'[k] # Null} = {}
    BY <1>1
  <2> QED
    BY <1>1, <1>2, <2>1, FS_EmptySet, SharedAssumption DEF ValuesOK
<1> QED
  BY <1>3, <1>4, <1>5, <1>6 DEF VarsInv

----------------------------------------------------------------------------
(* The locks *)

LEMMA LockFacts ==
    ASSUME NEW l, RwLockOK(l, Threads), NEW t \in Threads
    PROVE  /\ CanRead(l) => /\ RwLockOK(RdLock(l, t), Threads)
                            /\ RdLock(l, t).readers = l.readers \cup {t}
                            /\ RdLock(l, t).writers = l.writers
           /\ CanWrite(l) => /\ RwLockOK(WrLock(l, t), Threads)
                             /\ WrLock(l, t).readers = {}
                             /\ WrLock(l, t).writers = {t}
                             /\ l.readers = {} /\ l.writers = {}
           /\ RwLockOK(RwUnlock(l, t), Threads)
           /\ RwUnlock(l, t).readers = l.readers \ {t}
           /\ RwUnlock(l, t).writers = l.writers \ {t}
BY DEF RwLockOK, RdLock, WrLock, RwUnlock, CanRead, CanWrite

LocksTypeOK ==
    /\ RwLockOK(vlock, Threads) /\ RwLockOK(rlock, Threads)
    /\ mutex \in Threads \cup {Null} /\ call \in [Threads -> Calls]

LocksInv == LocksTypeOK /\ LocksOK /\ OneThing

\* The parts of LocksOK and OneThing about one worker.
HasLocks(t) ==
    /\ t \in vlock.writers <=> WritesVariables(t)
    /\ t \in vlock.readers <=>
          ReadsVariables(t) \/ call[t] \in {"regexps", "mutex", "print"}
    /\ t \in rlock.writers <=> ReAt(t, "inserting")
    /\ t \in rlock.readers <=>
          ReAt(t, "finding") \/ call[t] \in {"mutex", "print"}
    /\ mutex = t <=> Calling(t, "print")

DoesOne(t) ==
    /\ ~Calling(t, "none") => engine[t] = Null
    /\ engine[t] = Null => ReAt(t, "none")
    /\ cmd[t].at = "none" \/ ReAt(t, "none")

\* Other workers keep their locks and stay where they are.
OthersKeep(t) ==
    \A u \in Threads : u # t =>
        /\ cmd'[u] = cmd[u] /\ frames'[u] = frames[u] /\ re'[u] = re[u]
        /\ call'[u] = call[u] /\ engine'[u] = engine[u]
        /\ u \in vlock'.writers <=> u \in vlock.writers
        /\ u \in vlock'.readers <=> u \in vlock.readers
        /\ u \in rlock'.writers <=> u \in rlock.writers
        /\ u \in rlock'.readers <=> u \in rlock.readers
        /\ mutex' = u <=> mutex = u

\* A step of t gives and takes the locks of t only.
LEMMA LocksOf ==
    ASSUME LocksInv, NEW t \in Threads, LocksTypeOK',
           OthersKeep(t),
           HasLocks(t)', DoesOne(t)'
    PROVE  LocksInv'
<1>1. ASSUME NEW u \in Threads
      PROVE  HasLocks(u)' /\ DoesOne(u)'
  <2>1. CASE u = t
    BY <2>1
  <2>2. CASE u # t
    <3>0. OthersKeep(t)
      OBVIOUS
    <3>1. HasLocks(u) /\ DoesOne(u)
      BY DEF LocksInv, LocksOK, OneThing, HasLocks, DoesOne
    <3>2. DoesOne(u)'
      BY <2>2, <3>0, <3>1 DEF DoesOne, Calling, ReAt, OthersKeep
    <3>3. HasLocks(u)'
      BY <2>2, <3>0, <3>1
         DEF HasLocks, WritesVariables, ReadsVariables, Calling, ReAt, OthersKeep
    <3> QED
      BY <3>2, <3>3
  <2> QED
    BY <2>1, <2>2
<1> QED
  BY <1>1 DEF LocksInv, LocksOK, OneThing, HasLocks, DoesOne

LEMMA LocksExclude == LocksInv => Exclusive
BY DEF LocksInv, LocksTypeOK, LocksOK, RwLockOK, Exclusive

\* What LocksOf needs to know of the types.
Typed == VarsTypeOK /\ CacheTypeOK

LEMMA LocksOfT ==
    ASSUME LocksInv, NEW t \in Threads
    PROVE  LocksTypeOK /\ HasLocks(t) /\ DoesOne(t)
BY DEF LocksInv, LocksOK, OneThing, HasLocks, DoesOne

LEMMA LocksCalls ==
    ASSUME LocksInv, Typed, NEW t \in Threads,
           Execute(t) \/ Stats(t) \/ StartScript(t) \/ EndScript(t)
    PROVE  LocksInv'
<1> USE LocksOfT
<1>1. UNCHANGED <<vlock, rlock, mutex, cmd, frames, re>>
  BY DEF Execute, Stats, StartScript, EndScript, Enter, Leave
<1>2. LocksTypeOK'
  BY <1>1 DEF LocksTypeOK, Execute, Stats, StartScript, EndScript, MoveCall, Calls
<1>3. \A u \in Threads : u # t => call'[u] = call[u] /\ engine'[u] = engine[u]
  BY DEF Execute, Stats, StartScript, EndScript, MoveCall, Enter, Leave, Acquire,
         Release, LocksTypeOK, Typed, VarsTypeOK
<1>4. CASE Execute(t) \/ Stats(t)
  <2>1. /\ call[t] = "none" /\ call'[t] \in {"engine", "variables"}
        /\ engine[t] = Null /\ UNCHANGED engine
    BY <1>4 DEF Execute, Stats, Calling, MoveCall, LocksTypeOK
  <2>2. HasLocks(t)'
    BY <1>1, <2>1
       DEF HasLocks, Calling, ReAt, WritesVariables, ReadsVariables
  <2>3. DoesOne(t)'
    BY <1>1, <2>1 DEF DoesOne, Calling, ReAt
  <2>o. OthersKeep(t)
    BY <1>1, <1>2, <1>3, <2>2, <2>3 DEF OthersKeep
  <2> QED
    BY <2>o, <1>1, <1>2, <1>3, <2>2, <2>3, LocksOf
<1>5. CASE StartScript(t) \/ EndScript(t)
  <2>1. /\ call[t] \in {"none", "engine"} /\ call'[t] = "none" /\ ReAt(t, "none")
    BY <1>5, SharedAssumption
       DEF StartScript, EndScript, Calling, MoveCall, LocksTypeOK, AtWork, DoesOne,
           Leave, Running
  <2>2. HasLocks(t)'
    BY <1>1, <2>1
       DEF HasLocks, Calling, ReAt, WritesVariables, ReadsVariables
  <2>3. DoesOne(t)'
    BY <1>1, <2>1 DEF DoesOne, Calling, ReAt
  <2>o. OthersKeep(t)
    BY <1>1, <1>2, <1>3, <2>2, <2>3 DEF OthersKeep
  <2> QED
    BY <2>o, <1>1, <1>2, <1>3, <2>2, <2>3, LocksOf
<1> QED
  BY <1>4, <1>5

\* A worker with an engine calls neither .execute() nor .stats().
LEMMA AtNone ==
    ASSUME LocksInv, NEW t \in Threads, engine[t] # Null
    PROVE  call[t] = "none"
BY LocksOfT DEF DoesOne, Calling

LEMMA LocksBegin ==
    ASSUME LocksInv, VarsInv, Typed, NEW t \in Threads,
           SharedCommand(t) \/ RegexpCommand(t)
    PROVE  LocksInv'
<1> USE LocksOfT
<1>1. /\ UNCHANGED <<engine, vlock, rlock, mutex, call>> /\ engine[t] # Null
      /\ cmd[t].at = "none" /\ ReAt(t, "none")
  BY DEF SharedCommand, RegexpCommand, Begin, Get, Set, Unset, Ask, Eval, AtWork,
         Running, Regexp
<1>2. LocksTypeOK'
  BY <1>1 DEF LocksTypeOK
<1>3. /\ engine[t] \in Engines /\ isLocked[engine[t]] \in BOOLEAN
      /\ (isLocked[engine[t]] <=> frames[t] # <<>>)
      /\ frames[t] \in Seq(Frames)
  BY <1>1, MarkFacts DEF Typed, VarsTypeOK
<1>4. CASE RegexpCommand(t)
  <2>1. /\ re'[t].at \in {"find", "compile"} /\ UNCHANGED <<cmd, frames>>
        /\ \A u \in Threads : u # t => re'[u] = re[u]
    BY <1>4 DEF RegexpCommand, Regexp, Typed, CacheTypeOK
  <2>2. HasLocks(t)' /\ DoesOne(t)'
    BY <1>1, <2>1
       DEF HasLocks, DoesOne, Calling, ReAt, WritesVariables, ReadsVariables
  <2>o. OthersKeep(t)
    BY <1>1, <1>2, <2>1, <2>2 DEF OthersKeep
  <2> QED
    BY <2>o, <1>1, <1>2, <2>1, <2>2, LocksOf
<1>5. CASE SharedCommand(t)
  <2>1. /\ UNCHANGED re
        /\ \A u \in Threads : u # t => cmd'[u] = cmd[u] /\ frames'[u] = frames[u]
    BY <1>5 DEF SharedCommand, Begin, Get, Set, Unset, Ask, Eval, Command, Typed,
                VarsTypeOK
  <2>2. \/ frames'[t] = frames[t] /\ cmd'[t].at = "lock"
        \/ /\ frames'[t] = frames[t] /\ cmd'[t].at = "locked"
           /\ frames[t] # <<>> /\ cmd'[t].locked
        \/ frames'[t] # <<>> /\ frames[t] # <<>> /\ cmd'[t] = cmd[t]
    <3>1. ASSUME NEW op, NEW k, NEW v, Command(t, op, k, v), UNCHANGED frames
          PROVE  \/ frames'[t] = frames[t] /\ cmd'[t].at = "lock"
                 \/ /\ frames'[t] = frames[t] /\ cmd'[t].at = "locked"
                    /\ frames[t] # <<>> /\ cmd'[t].locked
      BY <1>3, <3>1 DEF Command, Typed, VarsTypeOK
    <3>2. CASE Eval(t) /\ isLocked[engine[t]]
      <4>1. frames' = [frames EXCEPT ![t] = Append(@, "nested")] /\ UNCHANGED cmd
        BY <3>2 DEF Eval
      <4>2. Append(frames[t], "nested") # <<>>
        BY <1>3
      <4> QED
        BY <1>3, <3>2, <4>1, <4>2 DEF Typed, VarsTypeOK
    <3> QED
      BY <1>5, <3>1, <3>2 DEF SharedCommand, Begin, Get, Set, Unset, Ask, Eval
  <2>3. DoesOne(t)'
    BY <1>1, <2>1 DEF DoesOne, Calling, ReAt
  <2>4. HasLocks(t)'
    BY <1>1, <2>1, <2>2
       DEF HasLocks, Calling, ReAt, WritesVariables, ReadsVariables
  <2>o. OthersKeep(t)
    BY <1>1, <1>2, <2>1, <2>3, <2>4 DEF OthersKeep
  <2> QED
    BY <2>o, <1>1, <1>2, <2>1, <2>3, <2>4, LocksOf
<1> QED
  BY <1>4, <1>5

LEMMA LocksReturn ==
    ASSUME LocksInv, VarsInv, Typed, NEW t \in Threads, Return(t)
    PROVE  LocksInv'
<1> USE LocksOfT
<1>1. /\ engine[t] # Null /\ cmd[t].at = "none" /\ frames[t] # <<>>
      /\ UNCHANGED <<engine, cmd, re, rlock, mutex, call>>
      /\ \A u \in Threads : u # t => frames'[u] = frames[u]
  BY DEF Return, EvalReturns, Running, Typed, VarsTypeOK
<1>2. call[t] = "none"
  BY <1>1, AtNone
<1>3. \/ frames'[t] # <<>> /\ UNCHANGED vlock
      \/ frames'[t] = <<>> /\ vlock' = RwUnlock(vlock, t)
  <2>1. frames'[t] = <<>> <=> Last(frames[t]) # "nested"
    BY VarsEvalReturns DEF Return
  <2> QED
    BY <2>1 DEF Return, EvalReturns
<1>4. LocksTypeOK'
  BY <1>1, <1>3, LockFacts DEF LocksTypeOK
<1>5. DoesOne(t)'
  BY <1>1 DEF DoesOne, Calling, ReAt
<1>6. HasLocks(t)'
  BY <1>1, <1>2, <1>3, LockFacts
     DEF LocksTypeOK, HasLocks, Calling, ReAt, WritesVariables, ReadsVariables
<1>7. \A u \in Threads : u # t => /\ u \in vlock'.writers <=> u \in vlock.writers
                                  /\ u \in vlock'.readers <=> u \in vlock.readers
  BY <1>3, LockFacts DEF LocksTypeOK
<1>o. OthersKeep(t)
  BY <1>1, <1>4, <1>5, <1>6, <1>7 DEF OthersKeep
<1> QED
  BY <1>o, <1>1, <1>4, <1>5, <1>6, <1>7, LocksOf

LEMMA LocksShared ==
    ASSUME LocksInv, VarsInv, Typed, NEW t \in Threads, SharedStep(t)
    PROVE  LocksInv'
<1> USE LocksOfT
<1>1. /\ UNCHANGED <<engine, re, rlock, mutex, call>>
      /\ cmd[t].at # "none" /\ cmd[t].at \in {"none", "lock", "locked", "freed"}
      /\ \A u \in Threads : u # t => cmd'[u] = cmd[u] /\ frames'[u] = frames[u]
  BY DEF SharedStep, Proceed, LockVariables, GetGlobal, InsertGlobal, FreeValue,
         ReplaceValue, UnsetGlobal, EvalLocked, Doing, Finish, Typed, VarsTypeOK
<1>2. engine[t] # Null /\ call[t] = "none" /\ ReAt(t, "none")
  <2>1. engine[t] # Null
    BY <1>1 DEF VarsInv, CommandsOK
  <2> QED
    BY <1>1, <2>1, AtNone DEF DoesOne
<1>3. DoesOne(t)'
  BY <1>1, <1>2 DEF DoesOne, Calling, ReAt
<1>4. CASE LockVariables(t)
  <2>1. /\ cmd[t].at = "lock" /\ UNCHANGED frames
        /\ cmd'[t].at = "locked" /\ cmd'[t].op = cmd[t].op
        /\ cmd'[t].locked = cmd[t].locked
    BY <1>4 DEF LockVariables, Typed, VarsTypeOK
  <2>2. ~cmd[t].locked /\ frames[t] = <<>>
    BY <2>1 DEF VarsInv, CommandsOK
  <2>3. \/ cmd[t].op = "get" /\ CanRead(vlock) /\ vlock' = RdLock(vlock, t)
        \/ cmd[t].op # "get" /\ CanWrite(vlock) /\ vlock' = WrLock(vlock, t)
    BY <1>4 DEF LockVariables
  <2>4. LocksTypeOK'
    BY <1>1, <2>3, LockFacts DEF LocksTypeOK
  <2>5. /\ t \in vlock'.writers <=> cmd[t].op # "get"
        /\ t \in vlock'.readers <=> cmd[t].op = "get"
        /\ \A u \in Threads : u # t => /\ u \in vlock'.writers <=> u \in vlock.writers
                                       /\ u \in vlock'.readers <=> u \in vlock.readers
    BY <2>3, LockFacts DEF LocksTypeOK, CanRead
  <2>6. HasLocks(t)'
    BY <1>1, <1>2, <2>1, <2>2, <2>5
       DEF HasLocks, Calling, ReAt, WritesVariables, ReadsVariables
  <2>o. OthersKeep(t)
    BY <1>1, <1>3, <2>4, <2>5, <2>6 DEF OthersKeep
  <2> QED
    BY <2>o, <1>1, <1>3, <2>4, <2>5, <2>6, LocksOf
<1>5. CASE EvalLocked(t) \/ FreeValue(t)
  <2>1. /\ UNCHANGED vlock /\ cmd[t].at = "locked" /\ cmd[t].op # "get"
        /\ \/ frames'[t] # <<>> /\ cmd'[t].at = "none"
           \/ frames'[t] = frames[t] /\ cmd'[t].at = "freed" /\ cmd'[t].op # "get"
    <3>1. Append(frames[t], "locks") # <<>>
      <4>1. frames[t] \in Seq(Frames) /\ "locks" \in Frames
        BY DEF Typed, VarsTypeOK, Frames
      <4> QED
        BY <4>1, AppendProperties
    <3> QED
      BY <1>5, <3>1
         DEF EvalLocked, FreeValue, Doing, NoCommand, Typed, VarsTypeOK
  <2>2. LocksTypeOK'
    BY <1>1, <2>1 DEF LocksTypeOK
  <2>3. HasLocks(t)'
    BY <1>1, <1>2, <2>1
       DEF HasLocks, Calling, ReAt, WritesVariables, ReadsVariables
  <2>o. OthersKeep(t)
    BY <1>1, <1>3, <2>1, <2>2, <2>3 DEF OthersKeep
  <2> QED
    BY <2>o, <1>1, <1>3, <2>1, <2>2, <2>3, LocksOf
<1>6. CASE GetGlobal(t) \/ InsertGlobal(t) \/ ReplaceValue(t) \/ UnsetGlobal(t)
  <2>1. /\ cmd[t].at \in {"locked", "freed"} /\ UNCHANGED frames
        /\ cmd'[t].at = "none"
        /\ vlock' = IF cmd[t].locked THEN vlock ELSE RwUnlock(vlock, t)
    BY <1>6 DEF GetGlobal, InsertGlobal, ReplaceValue, UnsetGlobal, Doing, Finish,
                NoCommand, Typed, VarsTypeOK
  <2>2. cmd[t].locked <=> frames[t] # <<>>
    BY <2>1 DEF VarsInv, CommandsOK
  <2>3. LocksTypeOK'
    BY <1>1, <2>1, LockFacts DEF LocksTypeOK
  <2>4. \A u \in Threads : u # t => /\ u \in vlock'.writers <=> u \in vlock.writers
                                    /\ u \in vlock'.readers <=> u \in vlock.readers
    BY <2>1, LockFacts DEF LocksTypeOK
  <2>5. HasLocks(t)'
    <3>1. CASE frames[t] # <<>>
      BY <1>1, <1>2, <2>1, <2>2, <3>1
         DEF HasLocks, Calling, ReAt, WritesVariables, ReadsVariables
    <3>2. CASE frames[t] = <<>>
      <4>1. t \notin vlock'.writers /\ t \notin vlock'.readers
        BY <2>1, <2>2, <3>2, LockFacts DEF LocksTypeOK
      <4> QED
        BY <1>1, <1>2, <2>1, <3>2, <4>1
           DEF HasLocks, Calling, ReAt, WritesVariables, ReadsVariables
    <3> QED
      BY <3>1, <3>2
  <2>o. OthersKeep(t)
    BY <1>1, <1>3, <2>1, <2>3, <2>4, <2>5 DEF OthersKeep
  <2> QED
    BY <2>o, <1>1, <1>3, <2>1, <2>3, <2>4, <2>5, LocksOf
<1> QED
  BY <1>4, <1>5, <1>6 DEF SharedStep, Proceed

LEMMA LocksRegexp ==
    ASSUME LocksInv, Typed, NEW t \in Threads, ReStep(t)
    PROVE  LocksInv'
<1> USE LocksOfT
<1>1. /\ UNCHANGED <<engine, cmd, frames, vlock, mutex, call>>
      /\ re[t].at # "none"
      /\ \A u \in Threads : u # t => re'[u] = re[u]
  BY DEF ReStep, RegexpStep, RdLockRegexps, Find, CompileRegexp,
         CompileRegexpFails, WrLockRegexps, Insert, Match, ReAt, Goto, Typed,
         CacheTypeOK
<1>2. engine[t] # Null /\ cmd[t].at = "none"
  BY <1>1 DEF DoesOne, ReAt
<1>3. call[t] = "none"
  BY <1>2, AtNone
<1>4. DoesOne(t)'
  BY <1>1, <1>2, <1>3 DEF DoesOne, Calling
<1>5. \/ /\ UNCHANGED rlock /\ re[t].at \notin {"finding", "inserting"}
         /\ re'[t].at \notin {"finding", "inserting"}
      \/ /\ CanRead(rlock) /\ rlock' = RdLock(rlock, t)
         /\ re[t].at = "find" /\ re'[t].at = "finding"
      \/ /\ CanWrite(rlock) /\ rlock' = WrLock(rlock, t)
         /\ re[t].at = "insert" /\ re'[t].at = "inserting"
      \/ /\ rlock' = RwUnlock(rlock, t)
         /\ re'[t].at \notin {"finding", "inserting"}
  <2>1. CASE RdLockRegexps(t) \/ WrLockRegexps(t)
    BY <2>1 DEF RdLockRegexps, WrLockRegexps, ReAt, Goto, Typed, CacheTypeOK
  <2>2. CASE Find(t) \/ Insert(t)
    BY <2>2 DEF Find, Insert, ReAt, Goto, Typed, CacheTypeOK
  <2>3. CASE CompileRegexp(t) \/ CompileRegexpFails(t) \/ Match(t)
    BY <2>3 DEF CompileRegexp, CompileRegexpFails, Match, ReAt, Goto, NoRegexp,
                Typed, CacheTypeOK
  <2> QED
    BY <2>1, <2>2, <2>3 DEF ReStep, RegexpStep
<1>6. LocksTypeOK'
  BY <1>1, <1>5, LockFacts DEF LocksTypeOK
<1>7. /\ t \in rlock'.writers <=> re'[t].at = "inserting"
      /\ t \in rlock'.readers <=> re'[t].at = "finding"
      /\ \A u \in Threads : u # t => /\ u \in rlock'.writers <=> u \in rlock.writers
                                     /\ u \in rlock'.readers <=> u \in rlock.readers
  <2>1. t \in rlock.writers => re[t].at = "inserting"
    BY DEF HasLocks, ReAt
  <2>2. t \in rlock.readers => re[t].at = "finding"
    BY <1>3 DEF HasLocks, ReAt
  <2> QED
    <3>0. RwLockOK(rlock, Threads)
      BY DEF LocksTypeOK
    <3>1. CASE UNCHANGED rlock /\ re[t].at \notin {"finding", "inserting"}
      BY <1>5, <2>1, <2>2, <3>1, <3>0, LockFacts DEF CanRead, CanWrite
    <3>2. CASE CanRead(rlock) /\ rlock' = RdLock(rlock, t) /\ re'[t].at = "finding"
      BY <2>1, <2>2, <3>0, <3>2, LockFacts DEF CanRead
    <3>3. CASE CanWrite(rlock) /\ rlock' = WrLock(rlock, t) /\ re'[t].at = "inserting"
      BY <2>1, <2>2, <3>0, <3>3, LockFacts
    <3>4. CASE /\ rlock' = RwUnlock(rlock, t)
               /\ re'[t].at \notin {"finding", "inserting"}
      BY <3>0, <3>4, LockFacts
    <3> QED
      BY <1>5, <3>1, <3>2, <3>3, <3>4
<1>8. HasLocks(t)'
  BY <1>1, <1>3, <1>7 DEF HasLocks, Calling, ReAt, WritesVariables, ReadsVariables
<1>o. OthersKeep(t)
  BY <1>1, <1>4, <1>6, <1>7, <1>8 DEF OthersKeep
<1> QED
  BY <1>o, <1>1, <1>4, <1>6, <1>7, <1>8, LocksOf

LEMMA LocksStats ==
    ASSUME LocksInv, VarsInv, Typed, NEW t \in Threads, StatsStep(t)
    PROVE  LocksInv'
<1> USE LocksOfT
<1>1. UNCHANGED <<engine, cmd, frames, re>> /\ call[t] # "none"
  BY DEF StatsStep, StatsLock, StatsPrint, Calling
<1>2. /\ engine[t] = Null /\ cmd[t].at = "none" /\ frames[t] = <<>>
      /\ re[t].at = "none"
  BY <1>1 DEF DoesOne, Calling, ReAt, VarsInv, CommandsOK
<1>3. /\ t \notin vlock.writers /\ t \notin rlock.writers
      /\ t \in vlock.readers <=> call[t] \in {"regexps", "mutex", "print"}
      /\ t \in rlock.readers <=> call[t] \in {"mutex", "print"}
  BY <1>2 DEF HasLocks, WritesVariables, ReadsVariables, ReAt
<1>4. \A u \in Threads : u # t => call'[u] = call[u]
  BY DEF StatsStep, StatsLock, StatsPrint, MoveCall, LocksTypeOK
<1>5. DoesOne(t)'
  BY <1>1, <1>2 DEF DoesOne, ReAt
<1>6. CASE StatsLock(t)
  <2>1. \/ /\ call[t] = "variables" /\ call'[t] = "regexps"
           /\ CanRead(vlock) /\ vlock' = RdLock(vlock, t)
           /\ UNCHANGED <<rlock, mutex>>
        \/ /\ call[t] = "regexps" /\ call'[t] = "mutex"
           /\ CanRead(rlock) /\ rlock' = RdLock(rlock, t)
           /\ UNCHANGED <<vlock, mutex>>
        \/ /\ call[t] = "mutex" /\ call'[t] = "print"
           /\ mutex = Null /\ mutex' = t
           /\ UNCHANGED <<vlock, rlock>>
    BY <1>6 DEF StatsLock, Calling, MoveCall, LocksTypeOK
  <2>2. LocksTypeOK'
    <3>1. call' \in [Threads -> Calls]
      BY <1>6 DEF StatsLock, MoveCall, LocksTypeOK, Calls
    <3> QED
      BY <2>1, <3>1, LockFacts DEF LocksTypeOK
  <2>3. /\ vlock'.writers = vlock.writers /\ rlock'.writers = rlock.writers
        /\ vlock'.readers = IF call[t] = "variables" THEN vlock.readers \cup {t}
                            ELSE vlock.readers
        /\ rlock'.readers = IF call[t] = "regexps" THEN rlock.readers \cup {t}
                            ELSE rlock.readers
    <3>1. RwLockOK(vlock, Threads) /\ RwLockOK(rlock, Threads)
      BY DEF LocksTypeOK
    <3>2. CASE call[t] = "variables"
      BY <2>1, <3>1, <3>2, LockFacts
    <3>3. CASE call[t] = "regexps"
      BY <2>1, <3>1, <3>3, LockFacts
    <3>4. CASE call[t] = "mutex"
      BY <2>1, <3>4
    <3> QED
      BY <2>1, <3>2, <3>3, <3>4
  <2>4. HasLocks(t)'
    BY <1>1, <1>2, <1>3, <2>1, <2>3, StoreAssumption
       DEF HasLocks, Calling, ReAt, WritesVariables, ReadsVariables
  <2>5. \A u \in Threads : u # t => (mutex' = u <=> mutex = u)
    BY <2>1, StoreAssumption
  <2>o. OthersKeep(t)
    BY <1>1, <1>4, <1>5, <2>2, <2>3, <2>4, <2>5 DEF OthersKeep
  <2> QED
    BY <2>o, <1>1, <1>4, <1>5, <2>2, <2>3, <2>4, <2>5, LocksOf
<1>7. CASE StatsPrint(t)
  <2>1. /\ call[t] = "print" /\ call'[t] = "none" /\ mutex = t /\ mutex' = Null
        /\ vlock' = RwUnlock(vlock, t) /\ rlock' = RwUnlock(rlock, t)
    BY <1>7 DEF StatsPrint, Calling, MoveCall, LocksTypeOK, HasLocks
  <2>2. LocksTypeOK'
    <3>1. call' \in [Threads -> Calls]
      BY <1>7 DEF StatsPrint, MoveCall, LocksTypeOK, Calls
    <3> QED
      BY <2>1, <3>1, LockFacts DEF LocksTypeOK
  <2>3. /\ vlock'.writers = vlock.writers \ {t}
        /\ vlock'.readers = vlock.readers \ {t}
        /\ rlock'.writers = rlock.writers \ {t}
        /\ rlock'.readers = rlock.readers \ {t}
    BY <2>1, LockFacts DEF LocksTypeOK
  <2>4. HasLocks(t)'
    BY <1>1, <1>2, <2>1, <2>3, StoreAssumption
       DEF HasLocks, Calling, ReAt, WritesVariables, ReadsVariables
  <2>5. \A u \in Threads : u # t => (mutex' = u <=> mutex = u)
    BY <2>1, StoreAssumption
  <2>o. OthersKeep(t)
    BY <1>1, <1>4, <1>5, <2>2, <2>3, <2>4, <2>5 DEF OthersKeep
  <2> QED
    BY <2>o, <1>1, <1>4, <1>5, <2>2, <2>3, <2>4, <2>5, LocksOf
<1> QED
  BY <1>6, <1>7 DEF StatsStep

----------------------------------------------------------------------------
(* The inductive invariant *)

LEMMA StoreParts == StoreInv <=> VarsInv /\ CacheInv /\ LocksInv
<1> USE DEF VarsInv, CacheInv, LocksInv, LocksTypeOK, VarsTypeOK, CacheTypeOK,
            StoreInv, StoreTypeOK, SharedTypeOK, RegexpTypeOK
<1>1. ASSUME StoreInv
      PROVE  VarsInv /\ CacheInv /\ LocksInv
  BY <1>1 DEF NoFreedValue, GotOK
<1>2. ASSUME VarsInv, CacheInv, LocksInv
      PROVE  StoreInv
  <2>1. NoFreedValue
    BY <1>2, ValueThere, LocksExclude DEF NoFreedValue, GotOK
  <2> QED
    BY <1>2, <2>1
<1> QED
  BY <1>1, <1>2

LEMMA StoreInit == Init => StoreInv
<1> SUFFICES ASSUME Init PROVE StoreInv
  OBVIOUS
<1>1. VarsInv /\ CacheInv
  BY VarsInit, CacheInit DEF Init
<1>2. LocksInv
  <2>1. LocksTypeOK
    BY DEF Init, SharedInit, RegexpInit, LocksTypeOK, RwLockOK, Unlocked, Calls
  <2>2. ASSUME NEW t \in Threads
        PROVE  HasLocks(t) /\ DoesOne(t)
    BY StoreAssumption
       DEF Init, SharedInit, RegexpInit, AllocInit, HasLocks, DoesOne, Calling,
           ReAt, WritesVariables, ReadsVariables, NoCommand, NoRegexp, Unlocked
  <2> QED
    BY <2>1, <2>2 DEF LocksInv, LocksOK, OneThing, HasLocks, DoesOne
<1> QED
  BY <1>1, <1>2, StoreParts

LEMMA VarsKept ==
    ASSUME VarsInv,
           UNCHANGED <<allocVars, globals, nglobals, isLocked, frames, cmd, got>>
    PROVE  VarsInv'
BY DEF VarsInv, VarsTypeOK, FramesOK, CommandsOK, EnginesOK, ValuesOK, ReadsStay,
       GotOK, Held

LEMMA CacheKept ==
    ASSUME CacheInv, UNCHANGED <<cache, ncache, vres, re>>
    PROVE  CacheInv'
BY DEF CacheInv, CacheTypeOK, RegexpsOK, VresOwned, Owns, ReAt

LEMMA VarsStep ==
    ASSUME VarsInv, Exclusive, NEW t \in Threads, Starts(t) \/ Goes(t)
    PROVE  VarsInv'
<1>1. CASE Execute(t) \/ Stats(t) \/ RegexpCommand(t) \/ ReStep(t) \/ StatsStep(t)
  BY <1>1, VarsKept DEF Execute, Stats, RegexpCommand, ReStep, StatsStep
<1>2. CASE StartScript(t) \/ EndScript(t) \/ Return(t)
  BY <1>2, VarsEnter, VarsLeave, VarsEvalReturns DEF StartScript, EndScript, Return
<1>3. CASE SharedCommand(t)
  <2>1. CASE Eval(t)
    BY <2>1, VarsEval
  <2>2. ASSUME NEW op \in {"get", "set", "unset"}, NEW k \in Keys,
               NEW v \in Values \cup {Null}, op = "set" => v \in Values,
               Ask(t, op, k, v)
        PROVE  VarsInv'
    BY <2>2, VarsCommand DEF Ask
  <2> QED
    BY <1>3, <2>1, <2>2 DEF SharedCommand, Begin, Get, Set, Unset
<1>4. CASE SharedStep(t)
  BY <1>4, VarsLock, VarsGet, VarsWrites, VarsEvalLocked DEF SharedStep, Proceed
<1> QED
  BY <1>1, <1>2, <1>3, <1>4 DEF Starts, Goes

LEMMA CacheAllSteps ==
    ASSUME CacheInv, NEW t \in Threads, Starts(t) \/ Goes(t)
    PROVE  CacheInv'
<1>1. CASE RegexpCommand(t) \/ ReStep(t)
  BY <1>1, CacheStep DEF RegexpCommand, ReStep
<1>2. CASE ~RegexpCommand(t) /\ ~ReStep(t)
  BY <1>2, CacheKept
     DEF Starts, Goes, Execute, Stats, SharedCommand, StartScript, SharedStep,
         StatsStep, Return, EndScript
<1> QED
  BY <1>1, <1>2

LEMMA LocksStep ==
    ASSUME LocksInv, VarsInv, CacheInv, NEW t \in Threads, Starts(t) \/ Goes(t)
    PROVE  LocksInv'
<1>1. Typed
  BY DEF Typed, VarsInv, CacheInv
<1> QED
  BY <1>1, LocksCalls, LocksBegin, LocksReturn, LocksShared, LocksRegexp, LocksStats
     DEF Starts, Goes

LEMMA LocksDiscard ==
    ASSUME LocksInv, VarsInv, Discard
    PROVE  LocksInv'
<1>1. /\ UNCHANGED <<engine, cmd, frames, re, vlock, rlock, mutex, call>>
  BY DEF Discard, FlushVariables, FlushRegexps, Flush
<1>2. LocksTypeOK'
  BY <1>1 DEF LocksInv, LocksTypeOK
<1>3. LocksOK' /\ OneThing'
  BY <1>1 DEF LocksInv, LocksOK, OneThing, WritesVariables, ReadsVariables,
              Calling, ReAt
<1> QED
  BY <1>2, <1>3 DEF LocksInv

LEMMA StoreStep == StoreInv /\ [Next]_objectVars => StoreInv'
<1> SUFFICES ASSUME VarsInv, CacheInv, LocksInv, [Next]_objectVars
             PROVE  VarsInv' /\ CacheInv' /\ LocksInv'
  <2>1. StoreInv => VarsInv /\ CacheInv /\ LocksInv
    BY StoreParts
  <2>2. (VarsInv /\ CacheInv /\ LocksInv => StoreInv)'
    BY StoreParts, PTL
  <2> QED
    BY <2>1, <2>2
<1>1. CASE UNCHANGED objectVars
  <2>1. LocksInv'
    BY <1>1 DEF LocksInv, LocksTypeOK, LocksOK, OneThing, WritesVariables,
                ReadsVariables, Calling, ReAt
  <2> QED
    BY <1>1, <2>1, VarsKept, CacheKept
<1>2. CASE Discard
  BY <1>2, VarsFlush, CacheFlush, LocksDiscard DEF Discard
<1>3. ASSUME NEW t \in Threads, Starts(t) \/ Goes(t)
      PROVE  VarsInv' /\ CacheInv' /\ LocksInv'
  BY <1>3, VarsStep, CacheAllSteps, LocksStep, LocksExclude
<1> QED
  BY <1>1, <1>2, <1>3 DEF Next

\* The inductive invariant of what scripts share holds for any number of
\* workers, engines, variables and patterns.
THEOREM StoreInvariance == Spec => []StoreInv
<1> QED
  BY StoreInit, StoreStep, PTL DEF Spec

\* No mark of an .eval() outlives it: an engine is marked exactly while its
\* worker has the write lock for an .eval().
THEOREM MarksSound == Spec => []MarkMeansLock
<1>1. StoreInv => MarkMeansLock
  <2> SUFFICES ASSUME StoreInv, NEW e \in Engines
               PROVE  isLocked[e] <=> \E t \in Threads : /\ engine[t] = e
                          /\ frames[t] # <<>> /\ t \in vlock.writers
    BY DEF MarkMeansLock
  <2>1. EnginesOK /\ LocksOK /\ e # Null /\ isLocked[e] \in BOOLEAN
    BY SharedAssumption DEF StoreInv, StoreTypeOK, SharedTypeOK
  <2>2. \A t \in Threads : frames[t] # <<>> => t \in vlock.writers
    BY <2>1 DEF LocksOK, WritesVariables
  <2>3. \A t \in Threads : engine[t] = e => (isLocked[e] <=> frames[t] # <<>>)
    BY <2>1 DEF EnginesOK
  <2>4. isLocked[e] => \E t \in Threads : engine[t] = e
    BY <2>1 DEF EnginesOK, Held
  <2> QED
    BY <2>2, <2>3, <2>4
<1> QED
  BY <1>1, StoreInvariance, PTL

\* No worker reads what an .eval() of another one has half done, and no value
\* got inside of an .eval() changes under it.
THEOREM ReadsSound == Spec => []ReadsHold
<1>1. StoreInv => ReadsHold
  BY DEF StoreInv, ReadsHold
<1> QED
  BY <1>1, StoreInvariance, PTL

\* Compilations neither leak nor are freed twice.
THEOREM RegexpsOwned == Spec => []VresOwned
<1>1. StoreInv => VresOwned
  BY DEF StoreInv
<1> QED
  BY <1>1, StoreInvariance, PTL

\* The compilation a worker matches with is alive, and of its pattern.
THEOREM MatchesSound == Spec => []MatchesLive
<1>1. StoreInv => MatchesLive
  <2> SUFFICES ASSUME StoreInv, NEW t \in Threads, ReAt(t, "match")
               PROVE  vres[re[t].vre] = re[t].pattern
    BY DEF MatchesLive
  <2>1. RegexpsOK /\ VresOwned
    BY DEF StoreInv
  <2>2. re[t].vre \in Vres /\ re[t].pattern \in Patterns
    BY <2>1 DEF RegexpsOK, ReAt
  <2>3. CASE re[t].cached
    BY <2>1, <2>2, <2>3, RegexpAssumption DEF RegexpsOK, VresOwned
  <2>4. CASE ~re[t].cached
    BY <2>1, <2>2, <2>4 DEF VresOwned, Owns, ReAt
  <2> QED
    BY <2>3, <2>4
<1> QED
  BY <1>1, StoreInvariance, PTL

\* Workers that compile one pattern at once, or match with what another one put
\* in the cache, neither leak expressions nor use freed ones.
THEOREM CacheSound == Spec => []RegexpsSound
BY RegexpsOwned, MatchesSound, PTL DEF RegexpsSound

----------------------------------------------------------------------------
(* Nobody waits in a circle: the documented order of the locks *)

\* How far a worker is in the order, by what it waits for.
Rank(t) ==
    IF Calling(t, "engine") THEN 0
    ELSE IF cmd[t].at = "lock" \/ Calling(t, "variables") THEN 1
    ELSE IF re[t].at \in {"find", "insert"} \/ Calling(t, "regexps") THEN 2
    ELSE IF Calling(t, "mutex") THEN 3
    ELSE 4

LEMMA RankGrows ==
    ASSUME StoreInv, NEW t \in Threads, NEW u \in Threads, WaitsFor(t, u)
    PROVE  Rank(u) > Rank(t)
<1>0. VarsInv /\ LocksInv
  BY StoreParts
<1>1. /\ HasLocks(t) /\ DoesOne(t) /\ HasLocks(u) /\ DoesOne(u)
      /\ call[u] # "none" => /\ engine[u] = Null /\ cmd[u].at = "none"
                             /\ frames[u] = <<>> /\ re[u].at = "none"
      /\ cmd[t].at = "lock" => call[t] = "none" /\ re[t].at = "none"
      /\ re[t].at # "none" => call[t] = "none" /\ cmd[t].at = "none"
      /\ re[u].at # "none" => call[u] = "none" /\ cmd[u].at = "none"
      /\ cmd[u].at = "lock" => frames[u] = <<>>
  BY <1>0, LocksOfT DEF DoesOne, Calling, ReAt, VarsInv, CommandsOK
<1>2. CASE Calling(t, "engine") /\ engine[u] # Null
  BY <1>1, <1>2 DEF Rank, Calling
<1>3. CASE call[t] \in {"engine", "mutex"} /\ mutex = u
  <2>1. call[u] = "print" /\ cmd[t].at # "lock" /\ re[t].at = "none"
    BY <1>1, <1>3 DEF HasLocks, Calling
  <2> QED
    BY <1>1, <1>3, <2>1 DEF Rank, Calling
<1>4. CASE /\ cmd[t].at = "lock" \/ Calling(t, "variables")
           /\ HoldsLock(vlock, u)
  <2>1. /\ cmd[u].at # "lock" /\ call[u] \notin {"engine", "variables"}
    BY <1>1, <1>4
       DEF HoldsLock, HasLocks, WritesVariables, ReadsVariables, Calling
  <2>2. Rank(t) <= 1
    BY <1>4 DEF Rank
  <2> QED
    BY <2>1, <2>2 DEF Rank, Calling
<1>5. CASE /\ re[t].at \in {"find", "insert"} \/ Calling(t, "regexps")
           /\ HoldsLock(rlock, u)
  <2>1. /\ cmd[u].at # "lock" /\ re[u].at \notin {"find", "insert"}
        /\ call[u] \notin {"engine", "variables", "regexps"}
    BY <1>1, <1>5 DEF HoldsLock, HasLocks, ReAt, Calling
  <2>2. Rank(t) = 2
    BY <1>1, <1>5 DEF Rank, Calling, DoesOne
  <2> QED
    BY <2>1, <2>2 DEF Rank, Calling
<1> QED
  BY <1>2, <1>3, <1>4, <1>5 DEF WaitsFor

\* Workers never wait for one another in a circle, be it for an engine, for
\* the variables, for the regular expressions or for the mutex.
THEOREM NobodyStuck == Spec => []NoCircle
<1>1. StoreInv => NoCircle
  <2> SUFFICES ASSUME StoreInv, NEW S \in (SUBSET Threads) \ {{}}
               PROVE  \E t \in S : \A u \in S : ~WaitsFor(t, u)
    BY DEF NoCircle
  <2>1. \A t \in S : Rank(t) \in 0 .. 4
    BY DEF Rank
  <2>2. \E t \in S : \A u \in S : ~(Rank(u) > Rank(t))
    <3>1. ASSUME NEW t \in S, Rank(t) = 4
          PROVE  \A u \in S : ~(Rank(u) > Rank(t))
      BY <2>1, <3>1
    <3>2. ASSUME NEW t \in S, Rank(t) = 3, \A u \in S : Rank(u) # 4
          PROVE  \A u \in S : ~(Rank(u) > Rank(t))
      BY <2>1, <3>2
    <3>3. ASSUME NEW t \in S, Rank(t) = 2, \A u \in S : Rank(u) \notin {3, 4}
          PROVE  \A u \in S : ~(Rank(u) > Rank(t))
      BY <2>1, <3>3
    <3>4. ASSUME NEW t \in S, Rank(t) = 1, \A u \in S : Rank(u) \notin {2, 3, 4}
          PROVE  \A u \in S : ~(Rank(u) > Rank(t))
      BY <2>1, <3>4
    <3>5. ASSUME NEW t \in S, \A u \in S : Rank(u) \notin {1, 2, 3, 4}
          PROVE  \A u \in S : ~(Rank(u) > Rank(t))
      BY <2>1, <3>5
    <3> DEFINE at(n) == \E t \in S : Rank(t) = n
    <3>6. CASE at(4)
      BY <3>1, <3>6
    <3>7. CASE at(3) /\ ~at(4)
      BY <3>2, <3>7
    <3>8. CASE at(2) /\ ~at(3) /\ ~at(4)
      BY <3>3, <3>8
    <3>9. CASE at(1) /\ ~at(2) /\ ~at(3) /\ ~at(4)
      BY <3>4, <3>9
    <3>10. CASE ~at(1) /\ ~at(2) /\ ~at(3) /\ ~at(4)
      <4>1. PICK t \in S : TRUE
        OBVIOUS
      <4> QED
        BY <3>5, <3>10, <4>1
    <3> HIDE DEF at
    <3> QED
      BY <3>6, <3>7, <3>8, <3>9, <3>10
  <2> QED
    BY <2>2, RankGrows
<1> QED
  BY <1>1, StoreInvariance, PTL

----------------------------------------------------------------------------
(* The refinement of AtomicStore *)

LEMMA WriterFacts ==
    ASSUME LocksInv, NEW t \in Threads, t \in vlock.writers
    PROVE  vlock.writers = {t} /\ Writer = t
BY DEF LocksInv, LocksTypeOK, RwLockOK, Writer

\* The worker in an .eval() is the owner of the store.
LEMMA OwnerFacts ==
    ASSUME LocksInv, VarsInv
    PROVE  /\ \A t \in Threads : frames[t] # <<>> => InEval = t
           /\ (\A t \in Threads : frames[t] = <<>>) => InEval = Null
           /\ \A t \in Threads : WritesVariables(t) => InEval \in {t, Null}
           /\ \A t \in Threads : ReadsVariables(t) => InEval = Null
<1>1. ASSUME NEW t \in Threads, frames[t] # <<>>
      PROVE  InEval = t
  <2>1. t \in vlock.writers
    BY <1>1 DEF LocksInv, LocksOK, WritesVariables
  <2> QED
    BY <1>1, <2>1, WriterFacts DEF InEval
<1>2. ASSUME \A t \in Threads : frames[t] = <<>>
      PROVE  InEval = Null
  <2>1. CASE vlock.writers = {}
    BY <2>1 DEF InEval
  <2>2. CASE vlock.writers # {}
    <3>1. PICK t \in Threads : t \in vlock.writers
      BY <2>2 DEF LocksInv, LocksTypeOK, RwLockOK
    <3> QED
      BY <1>2, <3>1, WriterFacts DEF InEval
  <2> QED
    BY <2>1, <2>2
<1>3. ASSUME NEW t \in Threads, WritesVariables(t) \/ ReadsVariables(t)
      PROVE  \A u \in Threads : u # t => frames[u] = <<>>
  BY <1>3, LocksExclude DEF Exclusive, WritesVariables
<1>4. ASSUME NEW t \in Threads, ReadsVariables(t)
      PROVE  frames[t] = <<>>
  BY <1>4 DEF ReadsVariables, VarsInv, CommandsOK
<1> QED
  BY <1>1, <1>2, <1>3, <1>4

\* A value being replaced is the new one; other values are those in the tree.
LEMMA StoredFacts ==
    ASSUME LocksInv, VarsInv
    PROVE  /\ (\A t \in Threads : cmd[t].at # "freed") => StoredValue = globals
           /\ \A t \in Threads : cmd[t].at = "freed" =>
                 StoredValue = [globals EXCEPT ![cmd[t].key] = cmd[t].value]
<1>0. globals \in [Keys -> Values \cup {Null, Freed}]
  BY DEF VarsInv, VarsTypeOK
<1>1. ASSUME \A t \in Threads : cmd[t].at # "freed"
      PROVE  StoredValue = globals
  <2>1. \A k \in Keys : globals[k] # Freed
    BY <1>1 DEF VarsInv, ValuesOK
  <2> QED
    BY <1>0, <2>1 DEF StoredValue
<1>2. ASSUME NEW t \in Threads, cmd[t].at = "freed"
      PROVE  StoredValue = [globals EXCEPT ![cmd[t].key] = cmd[t].value]
  <2>1. WritesVariables(t) /\ globals[cmd[t].key] = Freed /\ cmd[t].key \in Keys
    BY <1>2 DEF VarsInv, VarsTypeOK, CommandsOK, ValuesOK, WritesVariables
  <2>2. Writer = t
    BY <2>1, WriterFacts DEF LocksInv, LocksOK
  <2>3. \A u \in Threads : cmd[u].at = "freed" => u = t
    BY <2>1, LocksExclude DEF Exclusive, WritesVariables, VarsInv, CommandsOK
  <2>4. \A k \in Keys : k # cmd[t].key => globals[k] # Freed
    BY <2>3 DEF VarsInv, ValuesOK
  <2> QED
    BY <1>0, <2>1, <2>2, <2>4 DEF StoredValue
<1> QED
  BY <1>1, <1>2

\* The same of the next state.
LEMMA OwnerFactsNext ==
    ASSUME LocksInv', VarsInv'
    PROVE  /\ \A t \in Threads : frames'[t] # <<>> => InEval' = t
           /\ (\A t \in Threads : frames'[t] = <<>>) => InEval' = Null
<1>1. (LocksInv /\ VarsInv =>
         /\ \A t \in Threads : frames[t] # <<>> => InEval = t
         /\ (\A t \in Threads : frames[t] = <<>>) => InEval = Null)'
  BY OwnerFacts, PTL
<1> QED
  BY <1>1

LEMMA StoredFactsNext ==
    ASSUME LocksInv', VarsInv'
    PROVE  /\ (\A t \in Threads : cmd'[t].at # "freed") => StoredValue' = globals'
           /\ \A t \in Threads : cmd'[t].at = "freed" =>
                 StoredValue' = [globals' EXCEPT ![cmd'[t].key] = cmd'[t].value]
<1>1. (LocksInv /\ VarsInv =>
         /\ (\A t \in Threads : cmd[t].at # "freed") => StoredValue = globals
         /\ \A t \in Threads : cmd[t].at = "freed" =>
               StoredValue = [globals EXCEPT ![cmd[t].key] = cmd[t].value])'
  BY StoredFacts, PTL
<1> QED
  BY <1>1

USE DEF Atomic!storeVars

LEMMA OwnerKept ==
    ASSUME LocksInv, VarsInv, LocksInv', VarsInv', UNCHANGED frames
    PROVE  InEval' = InEval
<1>1. CASE \E t \in Threads : frames[t] # <<>>
  <2>1. PICK t \in Threads : frames[t] # <<>>
    BY <1>1
  <2>2. InEval = t
    BY <2>1, OwnerFacts
  <2>3. InEval' = t
    BY <2>1, OwnerFactsNext
  <2> QED
    BY <2>2, <2>3
<1>2. CASE \A t \in Threads : frames[t] = <<>>
  BY <1>2, OwnerFacts, OwnerFactsNext
<1> QED
  BY <1>1, <1>2

\* What a step leaves alone of the abstract store.
LEMMA StoreUnseen ==
    ASSUME LocksInv, VarsInv, LocksInv', VarsInv',
           UNCHANGED <<globals, frames, got>>,
           \A t \in Threads : cmd[t].at = "freed" \/ cmd'[t].at = "freed"
                              => cmd'[t] = cmd[t]
    PROVE  UNCHANGED (Atomic!storeVars)
<1>1. InEval' = InEval
  BY OwnerKept
<1>2. StoredValue' = StoredValue
  <2>1. CASE \E t \in Threads : cmd[t].at = "freed"
    <3>1. PICK t \in Threads : cmd[t].at = "freed"
      BY <2>1
    <3> QED
      BY <3>1, StoredFacts, StoredFactsNext
  <2>2. CASE \A t \in Threads : cmd[t].at # "freed"
    BY <2>2, StoredFacts, StoredFactsNext
  <2> QED
    BY <2>1, <2>2
<1> QED
  BY <1>1, <1>2


LEMMA RefineWrites ==
    ASSUME LocksInv, VarsInv, LocksInv', VarsInv', NEW t \in Threads,
           InsertGlobal(t) \/ FreeValue(t) \/ UnsetGlobal(t)
    PROVE  \E k \in Keys, v \in Values \cup {Null} : Atomic!Write(t, k, v)
<1> DEFINE k == cmd[t].key
           v == IF cmd[t].op = "set" THEN cmd[t].value ELSE Null
<1>1. /\ cmd[t].at = "locked" /\ cmd[t].op \in {"set", "unset"}
      /\ got' = [got EXCEPT ![t] = Nothing] /\ UNCHANGED frames
      /\ \A u \in Threads : u # t => cmd'[u] = cmd[u]
  BY DEF InsertGlobal, FreeValue, UnsetGlobal, Doing, Forget, Finish, VarsInv,
         VarsTypeOK
<1>2. k \in Keys /\ v \in Values \cup {Null} /\ WritesVariables(t)
  BY <1>1 DEF VarsInv, CommandsOK, WritesVariables
<1>3. \A u \in Threads : cmd[u].at # "freed"
  BY <1>1, <1>2, LocksExclude DEF Exclusive, WritesVariables, VarsInv, CommandsOK
<1>4. StoredValue = globals
  BY <1>3, StoredFacts
<1>5. StoredValue' = [globals EXCEPT ![k] = v]
  <2>1. CASE FreeValue(t)
    <3>1. /\ globals' = [globals EXCEPT ![k] = Freed]
          /\ cmd'[t] = [cmd[t] EXCEPT !.at = "freed"] /\ cmd[t].op = "set"
      BY <2>1 DEF FreeValue, Doing, VarsInv, VarsTypeOK
    <3>2. cmd'[t].at = "freed" /\ cmd'[t].key = k /\ cmd'[t].value = cmd[t].value
      BY <3>1 DEF VarsInv, VarsTypeOK
    <3>3. StoredValue' = [globals' EXCEPT ![k] = cmd[t].value]
      BY <3>2, StoredFactsNext
    <3> QED
      BY <1>2, <3>1, <3>3 DEF VarsInv, VarsTypeOK
  <2>2. CASE InsertGlobal(t) \/ UnsetGlobal(t)
    <3>1. globals' = [globals EXCEPT ![k] = v] /\ cmd'[t] = NoCommand
      BY <2>2 DEF InsertGlobal, UnsetGlobal, Doing, Finish, VarsInv, VarsTypeOK
    <3>2. \A u \in Threads : cmd'[u].at # "freed"
      BY <1>1, <1>3, <3>1 DEF NoCommand
    <3> QED
      BY <3>1, <3>2, StoredFactsNext
  <2> QED
    BY <2>1, <2>2
<1>6. InEval' = InEval /\ InEval \in {t, Null}
  BY <1>1, <1>2, OwnerKept, OwnerFacts
<1>7. Atomic!Write(t, k, v)
  BY <1>1, <1>4, <1>5, <1>6
     DEF Atomic!Write, Atomic!May, Atomic!Forgets, Atomic!Unread, Nothing
<1> HIDE DEF k, v
<1> QED
  BY <1>2, <1>7

LEMMA RefineGet ==
    ASSUME LocksInv, VarsInv, LocksInv', VarsInv', NEW t \in Threads, GetGlobal(t)
    PROVE  Atomic!Forgotten(t) \/ \E k \in Keys : Atomic!Read(t, k)
<1> DEFINE k == cmd[t].key
<1>1. /\ cmd[t].at = "locked" /\ cmd[t].op = "get"
      /\ UNCHANGED <<globals, frames>>
      /\ cmd'[t] = NoCommand /\ \A u \in Threads : u # t => cmd'[u] = cmd[u]
  BY DEF GetGlobal, Doing, Finish, VarsInv, VarsTypeOK
<1>2. k \in Keys /\ (WritesVariables(t) \/ ReadsVariables(t))
  BY <1>1 DEF VarsInv, VarsTypeOK, CommandsOK, WritesVariables, ReadsVariables
<1>3. \A u \in Threads : cmd[u].at # "freed"
  BY <1>1, <1>2, LocksExclude DEF Exclusive, WritesVariables, VarsInv, CommandsOK
<1>4. \A u \in Threads : cmd'[u].at # "freed"
  BY <1>1, <1>3 DEF NoCommand
<1>5. StoredValue = globals /\ StoredValue' = globals
  BY <1>1, <1>3, <1>4, StoredFacts, StoredFactsNext
<1>6. InEval' = InEval /\ InEval \in {t, Null}
  BY <1>1, <1>2, OwnerKept, OwnerFacts
<1>7. CASE got' = [got EXCEPT ![t] = [key |-> k, value |-> globals[k]]]
  BY <1>2, <1>5, <1>6, <1>7 DEF Atomic!Read, Atomic!May
<1>8. CASE Forget(t)
  BY <1>5, <1>6, <1>8
     DEF Forget, Nothing, Atomic!Forgotten, Atomic!Forgets, Atomic!Unread
<1> QED
  BY <1>7, <1>8 DEF GetGlobal

LEMMA RefineEval ==
    ASSUME LocksInv, VarsInv, LocksInv', VarsInv', NEW t \in Threads
    PROVE  /\ EvalLocked(t) => Atomic!BeginEval(t)
           /\ EvalReturns(t) => Atomic!EndEval(t) \/ UNCHANGED (Atomic!storeVars)
<1>1. ASSUME EvalLocked(t)
      PROVE  Atomic!BeginEval(t)
  <2>1. /\ cmd[t].at = "locked" /\ cmd[t].op = "eval"
        /\ frames' = [frames EXCEPT ![t] = Append(@, "locks")]
        /\ cmd'[t] = NoCommand /\ \A u \in Threads : u # t => cmd'[u] = cmd[u]
        /\ got' = [got EXCEPT ![t] = Nothing] /\ UNCHANGED globals
    BY <1>1 DEF EvalLocked, Doing, Forget, VarsInv, VarsTypeOK
  <2>2. frames[t] = <<>> /\ WritesVariables(t)
    BY <2>1 DEF VarsInv, CommandsOK, WritesVariables
  <2>3. \A u \in Threads : frames[u] = <<>> /\ cmd[u].at # "freed"
    BY <2>1, <2>2, LocksExclude DEF Exclusive, WritesVariables, VarsInv, CommandsOK
  <2>4. frames'[t] # <<>>
    <3>1. frames[t] \in Seq(Frames) /\ "locks" \in Frames
      BY DEF VarsInv, VarsTypeOK, Frames
    <3>2. Append(frames[t], "locks") # <<>>
      BY <3>1, AppendProperties
    <3> QED
      BY <2>1, <3>2 DEF VarsInv, VarsTypeOK
  <2>5. InEval = Null /\ InEval' = t
    BY <2>3, <2>4, OwnerFacts, OwnerFactsNext
  <2>6. \A u \in Threads : cmd'[u].at # "freed"
    BY <2>1, <2>3 DEF NoCommand
  <2>7. StoredValue' = StoredValue
    BY <2>1, <2>3, <2>6, StoredFacts, StoredFactsNext
  <2> QED
    BY <2>1, <2>5, <2>7
       DEF Atomic!BeginEval, Atomic!Forgets, Atomic!Unread, Nothing
<1>2. ASSUME EvalReturns(t)
      PROVE  Atomic!EndEval(t) \/ UNCHANGED (Atomic!storeVars)
  <2>1. /\ frames[t] # <<>> /\ UNCHANGED <<globals, cmd, got>>
        /\ \A u \in Threads : u # t => frames'[u] = frames[u]
    BY <1>2 DEF EvalReturns, VarsInv, VarsTypeOK
  <2>2. InEval = t
    BY <2>1, OwnerFacts
  <2>3. \A u \in Threads : u # t => frames[u] = <<>>
    <3>1. WritesVariables(t)
      BY <2>1 DEF WritesVariables
    <3> QED
      BY <3>1, LocksExclude DEF Exclusive, WritesVariables
  <2>4. StoredValue' = StoredValue
    <3>1. CASE \E u \in Threads : cmd[u].at = "freed"
      BY <2>1, <3>1, StoredFacts, StoredFactsNext
    <3>2. CASE \A u \in Threads : cmd[u].at # "freed"
      BY <2>1, <3>2, StoredFacts, StoredFactsNext
    <3> QED
      BY <3>1, <3>2
  <2>5. CASE frames'[t] = <<>>
    <3>1. InEval' = Null
      BY <2>1, <2>3, <2>5, OwnerFactsNext
    <3> QED
      BY <2>1, <2>2, <2>4, <3>1 DEF Atomic!EndEval
  <2>6. CASE frames'[t] # <<>>
    <3>1. InEval' = t
      BY <2>6, OwnerFactsNext
    <3> QED
      BY <2>1, <2>2, <2>4, <3>1
  <2> QED
    BY <2>5, <2>6
<1> QED
  BY <1>1, <1>2

LEMMA RefineStep ==
    ASSUME LocksInv, VarsInv, LocksInv', VarsInv', [Next]_objectVars
    PROVE  [Atomic!StoreNext]_(Atomic!storeVars)
<1>1. CASE UNCHANGED objectVars
  BY <1>1, StoreUnseen
<1>2. CASE Discard
  <2>1. /\ \A t \in Threads : engine[t] = Null
        /\ globals' = [k \in Keys |-> Null] /\ UNCHANGED <<frames, cmd, got>>
    BY <1>2 DEF Discard, FlushVariables, Flush, Held, NoVariables
  <2>2. \A t \in Threads : cmd[t].at = "none" /\ frames[t] = <<>>
    BY <2>1 DEF VarsInv, CommandsOK
  <2>3. InEval = Null /\ InEval' = Null /\ StoredValue' = globals'
    BY <2>1, <2>2, OwnerFacts, OwnerFactsNext, StoredFactsNext
  <2>4. Atomic!Clear
    BY <2>1, <2>3 DEF Atomic!Clear, Atomic!Empty
  <2> QED
    BY <2>4 DEF Atomic!StoreNext
<1>3. ASSUME NEW t \in Threads, Starts(t) \/ Goes(t)
      PROVE  [Atomic!StoreNext]_(Atomic!storeVars)
  <2>1. CASE \/ Execute(t) \/ Stats(t) \/ StartScript(t) \/ RegexpCommand(t)
             \/ ReStep(t) \/ StatsStep(t)
    <3>1. UNCHANGED <<globals, frames, got, cmd>>
      BY <2>1 DEF Execute, Stats, StartScript, Enter, RegexpCommand, ReStep, StatsStep
    <3> QED
      BY <3>1, StoreUnseen
  <2>2. CASE EndScript(t)
    <3>1. /\ UNCHANGED <<globals, frames, cmd>>
          /\ got' = [got EXCEPT ![t] = Nothing]
      BY <2>2 DEF EndScript, Leave, Forget
    <3>2. InEval' = InEval
      BY <3>1, OwnerKept
    <3>3. StoredValue' = StoredValue
      <4>1. CASE \E u \in Threads : cmd[u].at = "freed"
        BY <3>1, <4>1, StoredFacts, StoredFactsNext
      <4>2. CASE \A u \in Threads : cmd[u].at # "freed"
        BY <3>1, <4>2, StoredFacts, StoredFactsNext
      <4> QED
        BY <4>1, <4>2
    <3>4. Atomic!Forgotten(t)
      BY <3>1, <3>2, <3>3
         DEF Atomic!Forgotten, Atomic!Forgets, Atomic!Unread, Nothing
    <3> QED
      BY <3>4 DEF Atomic!StoreNext
  <2>3. CASE SharedCommand(t)
    <3>1. CASE Eval(t) /\ isLocked[engine[t]]
      <4>1. /\ UNCHANGED <<globals, cmd, got>> /\ engine[t] # Null
            /\ frames' = [frames EXCEPT ![t] = Append(@, "nested")]
        BY <3>1 DEF Eval, Running
      <4>2. frames[t] # <<>> /\ frames[t] \in Seq(Frames)
        BY <3>1, <4>1, MarkFacts DEF VarsInv, VarsTypeOK
      <4>3. frames'[t] # <<>>
        <5>1. Append(frames[t], "nested") # <<>>
          BY <4>2
        <5> QED
          BY <4>1, <5>1 DEF VarsInv, VarsTypeOK
      <4>4. InEval = t /\ InEval' = t
        BY <4>2, <4>3, OwnerFacts, OwnerFactsNext
      <4>5. StoredValue' = StoredValue
        <5>1. CASE \E u \in Threads : cmd[u].at = "freed"
          BY <4>1, <5>1, StoredFacts, StoredFactsNext
        <5>2. CASE \A u \in Threads : cmd[u].at # "freed"
          BY <4>1, <5>2, StoredFacts, StoredFactsNext
        <5> QED
          BY <5>1, <5>2
      <4> QED
        BY <4>1, <4>4, <4>5
    <3>2. ASSUME NEW op, NEW k, NEW v, Command(t, op, k, v), cmd[t].at = "none",
                 UNCHANGED <<globals, frames, got>>
          PROVE  UNCHANGED (Atomic!storeVars)
      <4>1. cmd'[t].at # "freed" /\ \A u \in Threads : u # t => cmd'[u] = cmd[u]
        BY <3>2 DEF Command, VarsInv, VarsTypeOK
      <4> QED
        BY <3>2, <4>1, StoreUnseen
    <3> QED
      BY <2>3, <3>1, <3>2
         DEF SharedCommand, AtWork, Running, Begin, Get, Set, Unset, Ask, Eval
  <2>4. CASE Return(t)
    <3>1. EvalReturns(t)
      BY <2>4 DEF Return
    <3> QED
      BY <3>1, RefineEval DEF Atomic!StoreNext
  <2>5. CASE SharedStep(t)
    <3>1. CASE LockVariables(t)
      <4>1. /\ UNCHANGED <<globals, frames, got>> /\ cmd[t].at = "lock"
            /\ cmd'[t].at = "locked" /\ \A u \in Threads : u # t => cmd'[u] = cmd[u]
        BY <3>1 DEF LockVariables, VarsInv, VarsTypeOK
      <4> QED
        BY <4>1, StoreUnseen
    <3>2. CASE GetGlobal(t)
      BY <3>2, RefineGet DEF Atomic!StoreNext
    <3>3. CASE InsertGlobal(t) \/ FreeValue(t) \/ UnsetGlobal(t)
      BY <3>3, RefineWrites DEF Atomic!StoreNext
    <3>4. CASE EvalLocked(t)
      BY <3>4, RefineEval DEF Atomic!StoreNext
    <3>5. CASE ReplaceValue(t)
      <4>1. /\ cmd[t].at = "freed" /\ UNCHANGED <<frames, got>>
            /\ globals' = [globals EXCEPT ![cmd[t].key] = cmd[t].value]
            /\ cmd'[t] = NoCommand /\ \A u \in Threads : u # t => cmd'[u] = cmd[u]
        BY <3>5 DEF ReplaceValue, Finish, VarsInv, VarsTypeOK
      <4>2. WritesVariables(t)
        BY <4>1 DEF WritesVariables, VarsInv, CommandsOK
      <4>3. \A u \in Threads : u # t => cmd[u].at # "freed"
        BY <4>2, LocksExclude DEF Exclusive, WritesVariables, VarsInv, CommandsOK
      <4>4. \A u \in Threads : cmd'[u].at # "freed"
        BY <4>1, <4>3 DEF NoCommand
      <4>5. StoredValue = globals' /\ StoredValue' = globals'
        BY <4>1, <4>4, StoredFacts, StoredFactsNext
      <4>6. InEval' = InEval
        BY <4>1, OwnerKept
      <4> QED
        BY <4>1, <4>5, <4>6
    <3> QED
      BY <2>5, <3>1, <3>2, <3>3, <3>4, <3>5 DEF SharedStep, Proceed
  <2> QED
    BY <1>3, <2>1, <2>2, <2>3, <2>4, <2>5 DEF Starts, Goes
<1> QED
  BY <1>1, <1>2, <1>3 DEF Next

\* The global variables of a script object are an atomic store, and an .eval()
\* is a transaction on it, for any number of workers, engines and variables.
THEOREM StoreIsAtomic == Spec => ImplementsAtomicStore
<1>1. Init => Atomic!StoreInit
  <2> SUFFICES ASSUME Init PROVE Atomic!StoreInit
    OBVIOUS
  <2>1. VarsInv /\ LocksInv
    BY StoreInit, StoreParts
  <2>2. \A t \in Threads : cmd[t].at # "freed" /\ frames[t] = <<>>
    BY DEF Init, SharedInit, NoCommand
  <2>3. StoredValue = globals /\ InEval = Null
    BY <2>1, <2>2, StoredFacts, OwnerFacts
  <2> QED
    BY <2>3 DEF Init, SharedInit, NoVariables, Nothing, Atomic!StoreInit,
                Atomic!Empty, Atomic!Unread
<1>2. StoreInv /\ StoreInv' /\ [Next]_objectVars
        => [Atomic!StoreNext]_(Atomic!storeVars)
  <2>1. (StoreInv => VarsInv /\ LocksInv) /\ (StoreInv => VarsInv /\ LocksInv)'
    BY StoreParts, PTL
  <2> QED
    BY <2>1, RefineStep
<1> QED
  BY <1>1, <1>2, StoreInvariance, PTL
     DEF Spec, ImplementsAtomicStore, Atomic!StoreSpec

=============================================================================
