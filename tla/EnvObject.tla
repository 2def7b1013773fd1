----------------------------- MODULE EnvObject -----------------------------
(***************************************************************************)
(* An env object: the variables of the process it is made with             *)
(* (src/src/vmod_cfg_env.c), and .dump(), which env and file objects share *)
(* (dump_variables() in src/src/variables.c).  A dump goes to the body of  *)
(* a synthetic response, or to what is left of the workspace.              *)
(*                                                                         *)
(* A dump is made of variables in any order: that of the tree is left out, *)
(* and so are the control characters JSON escapes with a letter.  The two  *)
(* marks it escapes are called "QUOTE" and "BACKSLASH".                    *)
(***************************************************************************)
EXTENDS Integers, Sequences, SequencesExt

CONSTANTS
    Environments, \* sequences of pairs of a name and a value, or of Nameless
    Nameless,     \* a string of environ without "="
    DumpPrefixes,     \* prefixes given to .dump()
    Rooms,        \* bytes left in the workspace
    Letters       \* the characters JSON takes as they are

ASSUME EnvAssumption ==
    /\ Environments \subseteq Seq((Seq(STRING) \X Seq(STRING)) \cup {Nameless})
    /\ Rooms \subseteq Nat
    /\ Letters \cap {"QUOTE", "BACKSLASH"} = {}

VARIABLES
    environ, \* what was not read yet
    env,     \* the variables, from name to value
    envEnd,  \* "loading", "aborted", "loaded", "dumping"; "dumped" or "failed";
             \* "cut" or "overrun": with a byte written past what was reserved
    prefix,  \* of the dump
    room,    \* bytes reserved in the workspace
    stream,  \* the dump goes to the body of the response
    out,     \* what was written there
    todo     \* the names that were not dumped yet

dumpVars == <<prefix, room, stream, out, todo>>
envVars == <<environ, env, envEnd, dumpVars>>

----------------------------------------------------------------------------
(* load_env() *)

\* One string of the environment.  The insertion asserts that the name is new.
LoadVariable ==
    /\ envEnd = "loading" /\ environ # <<>>
    /\ environ' = Tail(environ)
    /\ IF Head(environ) = Nameless THEN UNCHANGED <<env, envEnd>>
       ELSE IF Head(environ)[1] \in DOMAIN env THEN envEnd' = "aborted" /\ UNCHANGED env
       ELSE /\ env' = [n \in DOMAIN env \cup {Head(environ)[1]} |->
                           IF n = Head(environ)[1] THEN Head(environ)[2] ELSE env[n]]
            /\ UNCHANGED envEnd
    /\ UNCHANGED dumpVars

EndLoad ==
    /\ envEnd = "loading" /\ environ = <<>>
    /\ envEnd' = "loaded"
    /\ UNCHANGED <<environ, env, dumpVars>>

----------------------------------------------------------------------------
(* dump_variables() *)

\* Bug: a backslash is written as it is.
BugEscaped(c) ==
    IF c \in Letters \cup {"BACKSLASH"} THEN <<c>>
    ELSE IF c = "QUOTE" THEN <<"BACKSLASH", c>>
    ELSE <<"BACKSLASH", "u", "0", "0", c, c>>

\* DUMP_STRING: a letter, an escaped mark, or any other byte by its two digits,
\* which stand here as the byte itself.
Escaped(c) ==
    IF c \in Letters THEN <<c>>
    ELSE IF c \in {"QUOTE", "BACKSLASH"} THEN <<"BACKSLASH", c>>
    ELSE <<"BACKSLASH", "u", "0", "0", c, c>>
Mark == <<"QUOTE">>
Quoted(s) ==
    LET quoted[i \in 0 .. Len(s)] == IF i = 0 THEN Mark ELSE quoted[i - 1] \o Escaped(s[i])
    IN  quoted[Len(s)] \o Mark

\* What was written fits in what was reserved; a body takes everything.  That a
\* character does not fit is seen once it was written, past the end, and the
\* request fails.
FitsRoom(text) == stream \/ Len(text) <= room

BeginDump(p, bytes, streamed) ==
    /\ envEnd = "loaded"
    /\ prefix' = p /\ room' = bytes /\ stream' = streamed
    /\ out' = <<"{">>
    /\ todo' = {n \in DOMAIN env : IsPrefix(p, n)}
    /\ envEnd' = IF bytes = 0 THEN "failed" ELSE "dumping"
    /\ UNCHANGED <<environ, env>>

DumpVariable(n) ==
    /\ envEnd = "dumping" /\ n \in todo
    /\ LET comma == IF out = <<"{">> THEN <<>> ELSE <<",">>
           text == out \o comma \o Quoted(n) \o <<":">> \o Quoted(env[n])
       IN  /\ out' = text
           /\ envEnd' = IF FitsRoom(text) THEN "dumping" ELSE "cut"
    /\ todo' = todo \ {n}
    /\ UNCHANGED <<environ, env, prefix, room, stream>>

\* The brace, then a NUL for which nobody checked that there is room.
EndDump ==
    /\ envEnd = "dumping" /\ todo = {}
    /\ out' = Append(out, "}")
    /\ envEnd' = IF ~FitsRoom(Append(out, "}")) THEN "cut"
                 ELSE IF ~FitsRoom(out \o <<"}", "NUL">>) THEN "overrun"
                 ELSE "dumped"
    /\ UNCHANGED <<environ, env, prefix, room, stream, todo>>

----------------------------------------------------------------------------
(* The specification *)

EnvStart(strings) ==
    /\ environ = strings
    /\ env = <<>> /\ envEnd = "loading"
    /\ prefix = <<>> /\ room = 0 /\ stream = FALSE /\ out = <<>> /\ todo = {}

EnvInit == \E strings \in Environments : EnvStart(strings)

EnvNext ==
    \/ LoadVariable \/ EndLoad
    \/ \E p \in DumpPrefixes, bytes \in Rooms, streamed \in BOOLEAN : BeginDump(p, bytes, streamed)
    \/ \E n \in todo : DumpVariable(n)
    \/ EndDump

EnvSpec == EnvInit /\ [][EnvNext]_envVars

----------------------------------------------------------------------------
(* What a reader of JSON makes of a dump: the strings in it, in order.     *)

ReadChar(reader, c) ==
    CASE reader.mode = "out" ->
             IF c = "QUOTE" THEN [reader EXCEPT !.mode = "in", !.read = Append(@, <<>>)] ELSE reader
      [] reader.mode = "in" ->
             IF c = "BACKSLASH" THEN [reader EXCEPT !.mode = "escape"]
             ELSE IF c = "QUOTE" THEN [reader EXCEPT !.mode = "out"]
             ELSE [reader EXCEPT !.read[Len(reader.read)] = Append(@, c)]
      [] reader.mode = "escape" ->
             IF c = "u" THEN [reader EXCEPT !.mode = "digits", !.left = 4]
             ELSE [reader EXCEPT !.mode = "in", !.read[Len(reader.read)] = Append(@, c)]
      [] reader.mode = "digits" ->
             IF reader.left > 1 THEN [reader EXCEPT !.left = @ - 1]
             ELSE [reader EXCEPT !.mode = "in", !.read[Len(reader.read)] = Append(@, c)]
NothingRead == [mode |-> "out", read |-> <<>>, left |-> 0]
Reading(text) ==
    LET reader[i \in 0 .. Len(text)] ==
            IF i = 0 THEN NothingRead ELSE ReadChar(reader[i - 1], text[i])
    IN  reader[Len(text)]
Strings == Reading(out).read

\* The names a dump is about.
Chosen == {n \in DOMAIN env : IsPrefix(prefix, n)}

\* A dump that is returned reads back as the variables whose names begin with the
\* prefix, each once and with its value, whatever marks are in them.
\* (dump_variables(); a byte that is no letter is read as one character.)
DumpReadsBack ==
    envEnd = "dumped" =>
        /\ Len(Strings) = 2 * Cardinality(Chosen)
        /\ {<<Strings[2 * i - 1], Strings[2 * i]>> : i \in 1 .. Cardinality(Chosen)}
               = {<<n, env[n]>> : n \in Chosen}

\* A dump in the workspace is returned with its NUL when the two fit, and is cut
\* when it does not fit itself; between the two, where it is as long as what was
\* reserved, it is returned with a NUL past the end.  Nothing else fails but a dump
\* that finds no byte at all.  (dump_variables(), which counts the bytes left but
\* for that of the NUL.)
DumpFitsOrFails ==
    /\ envEnd = "dumped" => stream \/ Len(out) < room
    /\ envEnd = "overrun" => ~stream /\ Len(out) = room
    /\ envEnd = "cut" => ~stream /\ Len(out) > room
    /\ envEnd = "failed" => room = 0

\* What a dump returns can be read, and fitted.
DumpSound == DumpReadsBack /\ DumpFitsOrFails

=============================================================================
