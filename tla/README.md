# libvmod-cfg: a TLA+ verification project

[libvmod-cfg](../src/README.rst) is a Varnish module. VCL creates *objects*
(`cfg.file()`, `cfg.rules()`, `cfg.script()`, `cfg.env()`) that load a document
from a location, keep it fresh while requests are served by many worker
threads, and answer from it. This directory holds TLA+ models of the parts of
the module in which threads, files and failures meet, the TLC runs that check
them on small instances, and theorems about them that TLAPS checks for every
value of the constants.

    tlc -config file_periodic.cfg MCFile     # one run
    tlapm Remote_proofs.tla                  # the proofs of one module

`PROJECT.json` lists the runs, which lines of the source each definition stands
for, the hazards and which properties cover them, and the theorems.

## 1. Inventory

| component | state | operations | shared with |
|---|---|---|---|
| **remote** `remote.c` | `contents`, `tst`, `reloading` under a mutex; the backup file on disk | `check_remote()`, `inspect_remote()`, `new_remote()`, `free_remote()` | every object owns one; calls back into its object while loading |
| **file object** `vmod_cfg_file.c` | a tree of variables behind a read/write lock | `__init`, `__fini`, `.reload()`, `.inspect()`, `.dump()`, `.is_set()`, `.get()` | remote, variables, the two parsers |
| **rules object** `vmod_cfg_rules.c` | a list of regular expressions and values behind a read/write lock | `__init`, `__fini`, `.reload()`, `.inspect()`, `.get()` | remote |
| **script object** `vmod_cfg_script.c` | the code and name of a function, statistics, an engines pool, a cache of regexps, shared variables | `__init`, `__fini`, `.reload()`, `.inspect()`, `.init()`, `.push()`, `.execute()`, getters of results, `.stats()`, `.counter()` | remote, pool, task state, back ends |
| **engines pool** `script_helpers.c` | lists of free and busy engines, their number, a condition variable | `lock_engine()`, `unlock_engine()`, `flush_engines()` | every worker that executes a script of the object |
| **task state** `script_helpers.c` | arguments, result, variables of one task | `get_task_state()`, `reset_task_state()` | all script objects a task uses |
| **regexps cache, shared variables** `script_helpers.c` | trees behind read/write locks; a mark in the engine that says "the lock is mine" | `varnish.regexp.*`, `varnish.shared.*` commands, `.eval()`, `.incr()`; `.stats()` | called from inside an engine |
| **back ends** `script_lua.c`, `script_javascript.c` | an interpreter per engine, with the functions it has compiled | `execute_*()`, `varnish.*` commands | pool, task state |
| **variables** `variables.c` | a tree | find, set, dump, flush | file and env objects, task state |
| **ini and JSON parsers** `ini.c`, `cJSON.c`, `vmod_cfg_file.c` | local: what was read, section, name, the path in the tree | lines or a JSON tree to entries | file objects |
| **parser of rules** `vmod_cfg_rules.c` | local; it writes NULs into the document and puts back what was there | lines to rules | rules objects; the document is published afterwards |
| **env object** `vmod_cfg_env.c` | a tree that never changes after `__init` | `.is_set()`, `.get()`, `.dump()` | variables |
| **VMOD events** `vmod_cfg.c` | the count of loaded VCLs, the class of the mutexes | LOAD, DISCARD, WARM | Varnish, script objects |

How they interact: a method of an object first calls `check_remote()` on its
remote. If the document is too old, or the call is a `.reload()`, the thread
elects itself to load it, reads the location (or the backup when that fails),
hands the document to the *callback* of the object, publishes it and writes the
backup; all other threads go on with the old document. The callback of a file
or rules object parses the document and swaps a pointer under a write lock; the
callback of a script object compiles the document on an engine of the pool and
replaces the function.

What is hard here, and what correct means:

* **remote.** The election reads the age and the flag without the mutex;
  `.reload()` skips the election, so two loads can overlap each other and a
  periodical one; buffers change hands between a thread and the object; a load
  fails in four different places; the backup is written in place and survives a
  crash. Correct: one winner, the flag always given back; no buffer leaked or
  freed twice; only accepted documents published; the last good document kept;
  the backup equal to the document in use; never back in time; fresh in the end.
* **file and rules objects.** Readers hold pointers that a callback replaces and
  frees, and a reload touches two pieces of state under two locks. Correct: one
  answer comes from one live document; `.get()` and `.inspect()` agree at rest;
  seen from outside, an atomic cell.
* **engines pool.** Workers wait on a condition variable; newcomers may take an
  engine before the worker that was woken up for it; engines are dropped, and
  counted, far from where they were created. Correct: no engine is shared,
  leaked or overused; the bound holds; nobody sleeps while there is work to
  pick up.
* **script object.** Code and name travel apart, through the object and through
  engines that remember functions. Correct: what is called is what was asked
  for, and it did compile; every path gives its engine back.
* **task state.** Results are stored over earlier ones; variables are copied to
  a workspace that may be full, and so are results. Correct: getters tell about
  the last execution, scripts get the arguments pushed, and an execution leaves
  nothing on the stack of its engine.
* **regexps cache, shared variables.** Three locks with a documented order
  (`script_helpers.h:16`), one of them kept over a whole `.eval()` in which
  other commands must not take it again; a cache that is looked up and filled
  under different locks. Correct: single commands and `.eval()`s are atomic;
  no value or expression is used after it was freed; no cycle of waits.
* **parsers.** A reader that hands out long lines in pieces, values that
  continue on the next line, names flattened from a tree, a document that is
  written to while it is parsed. Correct: the variables and rules are what the
  document says, and the document is as it was.
* **env object, dumps.** JSON printed by hand into a room that may be too small.
  Correct: what is dumped reads back as the variables, or nothing is.
* **VMOD events.** VCLs are loaded and discarded in overlapping order. Correct:
  the class of locks lives as long as some script.

## 2. Modules

| module | models | state and actions |
|---|---|---|
| `Remote` | `remote.c`, life of an object | one action per section under `remote->state.mutex`, and the code outside of it split wherever another thread can tell |
| `Settings` | what file and rules objects share: callback, read lock, life cycle | every step is one of `Remote`, or leaves its variables alone |
| `File`, `Rules` | the methods that read: `get()`, `is_set()`, `dump()`; `get()` | `Rules` copies the value *after* the unlock, as the code does |
| `SettingsCell` | *abstract*: a cell replaced at once, never by an older document | `File!ImplementsCell` is the refinement |
| `EnginePool` | `lock_engine()`, `unlock_engine()`, `flush_engines()` | one action per critical section; the loop that drops expired engines is part of the action that takes, creates or waits |
| `EngineAllocator` | *abstract*: a bounded set of engines, each with at most one owner | `EnginePool!ImplementsAllocator` is the refinement; `SharedVariables` is built on it |
| `Script` | function of the object, `script_check_callback()`, `.execute()`, `execute_lua()` | extends `EnginePool`: each step of an execution is a step of the pool or leaves it alone |
| `ScriptTask` | `task_state_t`, `.init()`, `.push()`, `.execute()`, `.free_result()`, getters, the variables of the task | one task, one action per method or command and per way it ends; the workspace may be full at `.push()`, `.execute()`, a result, an element of a result, a variable |
| `RwLock` | a `pthread_rwlock_t` as this code uses it | operators on a record of readers and writers |
| `SharedVariables` | global variables, `.eval()`, `.incr()`, the mark `is_locked` | a command is asking for the lock, touching the tree, giving the lock back; replacing a value frees the old one in a step of its own |
| `RegexpCache` | `init_regexp()` and the commands that match | find under the read lock, compile without one, insert under the write lock, match after it |
| `AtomicStore` | *abstract*: a store with atomic commands and transactions | `ScriptStore!ImplementsAtomicStore` is the refinement |
| `ScriptStore` | a script object whose workers run such commands, nested in `.eval()`s, while others call `.stats()` | composes the three above with the mutex of the object; all locks at once |
| `Text` | characters, blanks, line ends | operators on sequences |
| `IniFile` | `file_ini_stream_reader()`, `ini_parse_stream()`, `file_parse_ini_handler()` | one step reads one (piece of a) line |
| `JsonFile` | `file_parse_json_walk()`, `_emit()` | one step handles one item; the recursion is a stack |
| `RulesText` | `rules_parse()` | one step parses one line in place |
| `EnvObject` | `load_env()`, `dump_variables()` | one step per string of the environment; a dump is a function of variables, prefix and room |
| `VmodEvents` | LOAD and DISCARD, the class of locks, scripts made and gone | one action per event |
| `MCRemote`, `MCFile`, `MCRules`, `MCObjects`, `MCScript`, `MCTask`, `MCStore`, `MCSequential` | TLC instances | symmetry sets, the documents to parse, and in two of them the choice of which of several parts runs |
| `Remote_proofs`, `Settings_proofs` (file and rules objects), `EnginePool_proofs`, `Script_proofs`, `ScriptTask_proofs` (and the events), `ScriptStore_proofs`, `Documents_proofs` (ini and rules), `Variables_proofs` (JSON and dumps) | theorems | |

    Remote <- Settings <- File, Rules        File  => SettingsCell
    EnginePool <- Script                     EnginePool => EngineAllocator
    EngineAllocator, RwLock <- SharedVariables;  RwLock <- RegexpCache
    SharedVariables, RegexpCache <- ScriptStore  => AtomicStore

(`<-`: is extended by; `=>`: implements.) `ScriptStore` needs nothing of the pool
but what `EngineAllocator` promises, hence stands on the abstract module; the
theorem `PoolImplementsAllocator` is what allows it.

Definitions named `Bug...` are plausible mistakes in the code they stand next
to. No specification uses them; each one, put in the place of the definition it
is named after, makes a property fail.

### Abstractions

* **Documents** are the number of the version the location served. `Broken`
  versions do not parse; `Torn` is a file cut or mixed by a crash or by two
  writers, which may parse or not; `Empty` is an empty file. Whether a `Torn`
  document parses is left open.
* **Memory** is explicit where it matters: buffers (`heap`), parsed settings
  (`store`), engines (`cycles`) are cells that are `Freed` or not, so that
  leaks, double frees and uses after free are facts about the state. Only as
  many addresses exist as threads can hold at once. `malloc()` does not fail:
  the code aborts when it does.
* **Time** is the age of the document, capped at `Period + 1`, since the code
  only compares it with the period. The clock is read before `tst`; as both can
  only make the difference smaller, one action reads age and flag. `time()`
  does not go back.
* **The disk**: `fopen()` truncates the file in a step of its own. With
  `DiskFaults` any operation on the backup may fail or stop half way. A crash
  ends the process and keeps the file. Two VCLs that share a backup file are
  not modelled.
* **Pool**: `ncycles` is tracked only when `max_cycles` is not zero. Counters
  are kept modulo `Width` (2^64 in the code). Waits on the condition variable
  may end without a signal, and whoever asks for the mutex first gets it.
* **Script**: what a script computes is left out. A code is its identity and
  whether it compiles. Any worker may hand any document to the callback, as a
  call of `.reload()` does; a name is the digest of the code and stands for one
  code only. The mutex sections that only count (executions) are actions; the
  counters `unknown`, `failed`, `gc` and `blocked` are left out.
  `execute_javascript()` takes the same steps as `execute_lua()`.
* **Task**: booleans, numbers and strings are all a "value". The state is
  shared by all scripts of a task, whatever their language. Storing at
  `values[-1]` (`script_javascript.c:171`) is modelled by what the layout of
  `task_state_t` makes of it: the last of `argv` loses its bytes. Of the stack of
  the engine there is what an execution of JavaScript leaves on it (`engineStack`),
  from the bottom: the `varnish` object, the result, an element of it. When a
  string of a table finds no room in the workspace, `post_execute()` returns with
  `nvalues` set and the element on the stack. JavaScript goes on and tells a table
  cut short (`ExecuteTableFails`). Lua pops one value too few, sets a field of its
  error handler for the `varnish` table (`script_lua.c:303`), and dies of an error
  no call protects: `ExecutePanics` ends the task, as the process ends with it. A
  request that fails may go on here, since its task does in `vcl_synth`.
* **Shared variables and regexps**: an engine has one worker, as the allocator
  promises. A script is any sequence of commands, `.eval()`s nested up to
  `MaxDepth`; a function given to `.eval()` may raise an error. A lock goes to
  whoever asks for it when nobody is in the way. `.stats()` is its three locks.
* **Parsers**: characters are strings of length one, and a document has those
  that the parser tells apart. `IniFile` leaves out the byte order mark, tabs
  and the marks that behave like the ones it has. `JsonFile` starts from the
  tree that cJSON returns; numbers with a fraction are left out. Which regular
  expression compiles is an input.
* **Dumps**: the order of the tree and the control characters JSON escapes with
  a letter are left out. The two marks JSON escapes are called "QUOTE" and
  "BACKSLASH". `load_env()` starts from the strings of `environ`.

## 3. Runs

Sizes are distinct states. `objects_forced` takes less than three minutes, the
others less than one and a half.

| run | instance | what it shows |
|---|---|---|
| `objects_forced` (1 863 000) | a file or a rules object, 2 threads, both forcing reloads, a disk that fails, crashes | `Inv`, `OneWinner`, `BuffersOwned`, `PublishedParses`, `SettingsOwned`, `LockedSettingsLive`: what survives overlapping loads. |
| `file_periodic` (617 000) | 3 threads, periodical reloads, automated backups, a broken version, crashes | `BackupFromPublished`, `BackupCurrent`, `NoRegress`, `LastGoodKept`: the backup is written from live memory and follows the document, and no load goes back in time, crashes included. `FileAnswers`, `AgreeAtRest`, `ImplementsCell`: a file object is an atomic cell. |
| `file_live` (48 000) | 2 threads, periodical reloads, backups, a lock that lets readers in first | `CallsReturn`, `EventuallyFresh`: the callback gets the write lock, every call ends, the object converges to the last document. |
| `script_safe` (737 000) | 3 workers, 2 engines of 2 cycles, 3 codes of which one does not compile | the pool: `EnginesOwned`, `PoolBounded`, `NoLostWakeup`, `WithinCycles`, `ImplementsAllocator`; the object: `RightFunction`, `FunctionCompiles`; the counters of both: `StatsAddUp`. |
| `script_live` (117 000) | 3 workers for 1 engine | `EveryCallReturns`: executions and reloads, those that wait and those that fail included. |
| `store` (244 000) | 2 workers, 2 engines, one variable, `.eval()` in `.eval()`, two patterns of which one does not compile, 3 expressions | `ReadsHold`, `MarkMeansLock`, `ImplementsAtomicStore`: commands and `.eval()`s are atomic. `RegexpsSound`: each compiled expression has one owner and is alive when used. `NoCircle`, `CallsEnd`: nobody waits in a circle, every call ends. |
| `sequential` (143 000) | what one thread runs alone, see below | the task: `FirstResultTold`, `ArgumentsKept`; parsers: `SaysWhatItMeans`, `LostAtTheBound` (ini), `VariablePerScalar` (JSON), `RulesAsWritten`, `ContentsPutBack` (rules); dumps: `DumpSound`; events: `LocksHaveClass`. |
| `remote_backup_dangling` | 2 forced reloads | violates `BackupFromPublished`, see below. |
| `file_disagree` | 2 forced reloads | violates `AgreeAtRest`. |
| `rules_freed_value` | a periodical reload | violates `AnswerFromOneDocument`. |
| `task_result_hidden` | 2 executions per `.init()` | violates `ErrorTold`. |
| `task_stack` | a table and a full workspace | violates `StackAsSaid`. |

Two runs hold several parts side by side that have nothing to do with one
another: `objects_forced` picks the `kind` of the object, `sequential` the `part`
that takes steps, in the initial state; the other parts stay as they begin. The
states of such a run are the sum of those of its parts, not their product.

**Bounds.** *Objects*: three versions are one to be replaced, one broken in the
middle and one to converge to. Three threads are a winner, a thread that lost
the election and a reader; with forced reloads two threads already give every
overlap of two loads, which the violations need. There is one more buffer
(object) than loading (retiring) threads, for the one in use. Ages above
`Period + 1` behave alike. *Pool*: three workers and two engines give one that
runs, one that waits and one that comes in between; two cycles make an engine
expire while another does not; `Width` makes the counters wrap around.
*Store*: two workers are enough for every pair of sections to overlap; one
variable, since each command touches one; depth 2 is an `.eval()` in an
`.eval()`; three expressions are one in the cache and one being compiled by each
worker. *Task*: a result of two values can be too short, exact or too long; two
executions per `.init()`. *Ini documents*: up to three of fifteen lines, one per
case of the parser (pair, comment, empty, continuation, section closed or not,
malformed, too long a line, too long a name), ended by NL or CR, and up to five
of five lines, enough for a section to come between a value and its
continuation and another after it; `MaxLine` 9 and `MaxName` 3 put the buffers'
ends inside the lines. *JSON*: objects of two items, three deep, with keys that
clash when joined; `MaxInt` 7. *Rules*: up to three of eleven lines. *Dumps*: up
to two strings in the environment and rooms around the lengths of their dumps.
*Events*: two VCLs and two scripts. Addresses, workers and arguments are
interchangeable: symmetry is used in the runs that check safety only, never with
liveness.

**Fairness.** `file_live`: each thread inside a method keeps running (`WF` of
`Running`): threads are scheduled, and reads of a location end, which
`curl_transfer_timeout` ensures when it is not 0. The callback gets the write
lock if the lock is free again and again (`SF` of `Install`): the default kind of
`pthread_rwlock_t` lets readers in before a writer that waits. Both properties
have the premise `RequestsPause`, that the requests that read do not overlap for
ever. It is needed with such a lock: two readers that take turns, one always
inside, would keep the callback of a third thread waiting and the flag set, so
that nobody else reloads. `EventuallyFresh` also needs requests that keep arriving
after the period (`WF` of `Tick` and of `CheckStale`) and a location that can be
read again and again (`SF` of a successful read). `script_live`: `WF` of each
worker's steps. A mutex is given to whoever asks for it, and scripts end; nothing
in the code forces the latter. The condition variable is not fair and a newcomer
may always be faster than a worker in line, hence the liveness of the pool is
about what happens once no more work comes in. `store`: `WF` of what a worker goes
on with (`Goes`), never of starting something; so locks are given when nobody is
in the way, and scripts end.

`sequential` and the violations may stop, and say so or stop at the violation;
`sequential` checks no deadlock because a parsed document is the end.

## 4. What the code does otherwise

* `remote.c:215` writes the backup from a buffer it has published and unlocked.
  Another forced reload may have freed it (`remote_backup_dangling`). Without
  forced reloads it cannot happen: theorem `BackupSound`.
* `remote.c:204` publishes the document in a critical section other than the one
  in which the callback replaced the settings. Two forced reloads may leave
  `.get()` and `.inspect()` on different documents for good (`file_disagree`).
  Without forced reloads they agree: theorem `FileAgrees`.
* `vmod_cfg_rules.c:331` copies the value of the rule after it has released the
  lock; a reload may have freed it (`rules_freed_value`). What is read under the
  lock is sound: theorem `RulesLockedLive`.
* `script_lua.c:291` stores an error in `values[0]` but leaves `nvalues` as the
  last execution left it: after a table the error is not seen
  (`task_result_hidden`). After `.init()` it is: theorem `FirstResultSound`.
* `script_javascript.c:171` stores the error of an object that is no array at
  `values[-1]` when no table came before: the getters go on telling the scalar of
  an earlier execution, and the last of the arguments is overwritten
  (`ExecuteObject`). `FirstResultSound` says that the first execution is told all
  the same, and `ArgumentsSound` that no other argument is touched. No run is about
  what is told of the second.
* `script_javascript.c:153` and `script_lua.c:148` give up on a table whose string
  finds no room in the workspace, and leave its element on the stack. The comment
  at the end of `execute_javascript()` says that only the `varnish` object is there
  (`task_stack`); for Lua see *Abstractions*. In both `nvalues` says a table by
  then: `FirstResultTold` allows that in a request that fails, and nothing else.
* `script_helpers.c:624` inserts a variable of the task before it copies the
  value: with a full workspace the variable stays with a NULL, and one that was
  there has lost its value. The request fails in the same step; `SetVariableFails`
  models it and no property is about it.
* `vmod_cfg_file.c:63` skips the character a piece of a line stopped at: a line
  longer than `INI_MAX_LINE` loses one character per piece. `LostAtTheBound` says
  that nothing else is ever lost.
* `vmod_cfg_file.c:198` and `vmod_cfg_env.c` assert that a name is new: JSON keys
  that flatten to one name, an empty name, or a variable that is twice in the
  environment stop the process. The parsers' properties say that only these do.
* `variables.c:216`: the room of the workspace is counted without the final NUL,
  so a dump exactly as long as the room has its NUL one past it, and a character
  that does not fit is written before the check (lines 118-119). The model ends in
  `"overrun"` and in `"cut"`; `DumpSound` says exactly when each happens, and that
  nothing else is lost.
* `remote.c:213` truncates the backup before it writes it. What a crash leaves may
  parse, and the next process loads it when the location fails: the model has that
  outcome, and no property excludes it, as the code cannot tell. `NoRegress` says
  that it never replaces a newer document, under the conditions of section 5. Two
  forced reloads that write the backup at once may also mix it; periodical ones
  are never two.
* Names longer than `MAX_NAME` are cut for the continuations of their value, which
  become a variable of another name (`ini.c`).
* Met while reading, and not the subject of a run: two threads that both found a
  document stale may load it one right after the other, as the age is not tested
  again under the mutex (`remote.c:189`); `free_remote()` leaks the path of the
  backup; unsetting a global variable leaks it; the cache of regexps never
  evicts; the WARM event is ignored although `vmod_cfg.vcc:125` mentions it;
  `.execute()` never checks the location, so the period has no effect on a script
  that is only executed.

## 5. Proofs

**Objects.** `Remote_proofs` shows that `Inv` is inductive for any number of
threads, buffers and versions, forced reloads, disk faults and crashes included.
It is more than the properties read off it: `Life` says who may be where in each
phase of the object, `Results` that a result is only set once a document is about
to be published, `AcceptedParses` that what waits to be published was accepted,
`BackupHandled` that files are only read once written. From it follow
`OneWinner`, `BuffersOwned`, `PublishedParses` and the action property
`LastGoodKept`. With periodical reloads only (`OnlyPeriodical`) there is a sole
loader, and `BackupFromPublished` follows; with automated backups on a disk that
works (`BackupWorks`) `PeriodicInv` adds `Follows`, which orders the location, the
buffers in flight, the document and the backup, and gives `BackupCurrent` and
`NoRegress`.

`Settings_proofs` first shows that each step of a file or rules object is a step
of `Remote` or a stutter, so all of the above holds for them
(`FileImplementsRemote`, `RulesImplementsRemote`); then that `SettingsInv` and
`FileAnswers` are inductive, and that a file object implements `SettingsCell`
(`FileImplementsCell`, for periodical reloads with a backup that works).

**Scripts.** `EnginePool_proofs` shows `PoolInv`: the ownership of engines first,
then the count, then `NoLostWakeup`, which says that engines one could have, free
or yet to be created, do not outnumber the workers woken up for them while anyone
waits; and `PoolImplementsAllocator`, each section of the pool being a step of
`EngineAllocator` or a stutter. `EnginesAddUp` counts the engines created and
dropped. `Script_proofs` shows that a script object implements the pool, hence the
allocator (`ScriptImplementsAllocator`), and `ScriptInv`: names stand for the code
they were made from (`NamesMatch`) in the object, in workers and in engines, and
nothing refused gets past the compiler (`Compiled`); `RightFunction` follows.
`StatsSound` relates the executions counted to the cycles of the engines alive and
of those dropped, for counters of any width: a sum over a set of engines is
changed one engine at a time, and each step keeps both sides equal modulo `Width`.
`ScriptTask_proofs` shows `TaskInv`, where `Clean` carries what `.init()` promises
to the first execution, for every way an execution ends, the full workspace
included; one lemma (`RunKeeps`) says what any of them must give.

**What scripts share.** `ScriptStore_proofs` shows `StoreInv` for any number of
workers, engines, variables and patterns and any depth of `.eval()`: who has which
lock is told by where workers are and by the marks in their engines
(`MarkMeansLock`), and what a worker read stays while it has the lock
(`ReadsHold`); every expression is in the cache, compiled by one worker or freed
(`RegexpsSound`). `NobodyStuck` excludes circles of waits by a rank: a worker is given
a number by what it waits for (an engine, the variables, the expressions, the
mutex, in the documented order, then nothing), and whoever it waits for has a
higher one, so in any set of workers one of highest rank waits for none of them.
`StoreIsAtomic` is the refinement of `AtomicStore`: a
write happens when the tree is touched, and a value that is being replaced is only
seen by the worker with the write lock.

**Documents.** `Documents_proofs` is about documents of any length.
* *ini*: what was not read is the end of the document (`LeftInv`), which gives
  `NothingElseLost`. `VariablesAsSaid` shows the parser against what the document
  says. Its invariant `ReadSoFar` ties each thing the parser carries from line to
  line to the lines above the one it is at: the section to the last one opened,
  the name to the last line that is not indented (`NameKept`, which says what
  it is after a pair and after a section and nothing after a malformed line), the
  error to a line that is amiss, the variables to those gathered so far. The
  crux is `Agrees`: the code, which looks at a name and a blank, and the document,
  told by its lines, agree on which lines continue a value, unless a line above was
  malformed.
* *rules*: the parser gives the document back as it was (`ContentsRestored`),
  however the places of its NULs coincide; the lemmas are about overwriting and
  restoring positions of a sequence in the opposite order. `RulesParsed` shows that
  the cursors of `rules_parse()`, which move over a string cut by NULs, find
  the rule that is written on the line; the invariant says of each phase which
  characters of the buffer are NUL.

**Variables.** `Variables_proofs`:
* *dumps* (`DumpsSound`): a reader of JSON is resumed after each string dumped
  (`ReadOn`), and reading an escaped string from inside of one gives the string.
* *JSON* (`VariablesPerScalar`): the stack of the walk is told by a position in each
  object on the path to where it is (`StackOf`), and the scalars still to come are
  those after it in the order of the walk (`Pending`); going down, on and up
  (`Descended`, `Passed`, `Ascended`) keep that, so that names clash when the walk
  says so and every scalar is found once.

**Events**, in `ScriptTask_proofs`: the count is that of the VCLs loaded, hence the
class lives when a script does.

The recursive definitions these properties are stated with (the item at the end of
a path, its name, a string as it is dumped, values that are joined) are functions
on an interval of naturals. The induction principles of the library cannot be used
here (they take an operator), so the proofs argue by a least counterexample, which
exists because `<` on the naturals is well-founded: first that such a function
exists, then that two agree where both are defined, then what a step more gives.

The assumptions are those on the constants (`RemoteAssumption`,
`SettingsAssumption`, `PoolAssumption`, `ScriptAssumption`, `TaskAssumption`,
`SharedAssumption`, `RegexpAssumption`, `StoreAssumption`, `EventsAssumption`,
`IniAssumption`, `RulesAssumption`, `EnvAssumption`, `JsonAssumption`), which say what
is finite and which model values differ, that documents are sequences of characters
(those of rules without a NUL, which ends a C string), that letters are not the
marks JSON escapes, that the buffers hold a character, and that the bounds on items
and depth hold every JSON document; and the conditions named above, which are
hypotheses of the theorems.

Every safety property and refinement the passing runs check is stated by a theorem.
Only model-checked are the liveness properties `CallsReturn`, `EventuallyFresh`,
`EveryCallReturns` and `CallsEnd`: liveness under fairness is out of the prover's
reach. What stands on trust in both are the models of what is not in this code: the
tree of cJSON, the locks and the condition variable.

## 6. Not modelled, and what is left

Not modelled: the vendored interpreters and libraries (Duktape, cJSON, the
red-black tree), which are nineteen lines out of twenty of `src/src` and appear
as what the module gets from them; what scripts compute, the memory of engines
and their garbage collection; the commands on headers, logs and responses; the
getters that turn a result into a VCL type and the formatting of numbers;
`.counter()`, which reads one number without a lock; the wording of logs and of
`.stats()`; two VCLs that share a backup file.

Left to do, in this order:

1. `Script` over `Remote`: the load callback as a step of `check_remote()`, as
   `File` does. Today any worker of `Script` may hand any document to the
   callback, which covers more behaviours than the composition has, but says
   nothing about the age of the function.
2. `.init()` with a code of its own over that composition, and the abstract promise
   of an execution: it runs one document the object had during the call.
3. The getters of results as functions from values to strings, with three
   decimals.
