---------------------------- MODULE MCSequential ----------------------------
(* TLC instances of the parts one thread runs alone, in one run: one part   *)
(* takes steps and the others stay as they begin.  Documents are few lines, *)
(* of all the kinds a parser tells apart.                                   *)
EXTENDS ScriptTask, IniFile, JsonFile, RulesText, EnvObject, VmodEvents, TLC

AnyArg == Permutations(Args)

\* Documents of up to n lines, each but the last one ended by one of some ends.
Documents(lines, ends, n) ==
    LET ended == {l \o <<e>> : l \in lines, e \in ends}
    IN  {FlattenSeq(ls) \o l : ls \in SeqOf(ended, n - 1), l \in lines}

MCIniDocuments ==
    Documents({ <<>>, <<";", "x">>,
                <<"x", "=", "v">>, <<" ", "x", ":", " ", "w", " ", ";", "c">>, <<"x", "=">>,
                <<"y", " ", "=", ";", "v">>, <<"=", "v">>, <<"x", "y", "z", "=", "v">>,
                <<"x", "=", "v", "v", "v", "v", "v", "w", "w", "w">>,
                <<" ", "v", " ", ";", "c">>, <<"y">>,
                <<"[", "s", "]">>, <<"[", "s">>, <<" ", "[", "t", " ", ";", "]">>, <<"[", "]">> },
              {"NL", "CR"}, 3)
    \cup Documents({ <<>>, <<"x", "=", "v">>, <<" ", "v">>, <<"[", "s", "]">>, <<"[", "]">> },
                   {"NL"}, 5)

Objects(vals, n) ==
    LET keys == {<<>>, <<"a">>, <<"b">>, <<"a", ":", "b">>}
    IN  {[kind |-> "object", items |-> is] : is \in SeqOf(keys \X vals, n)}
MCJsonDocuments ==
    LET flat == { [kind |-> "literal", value |-> "true"], [kind |-> "string", value |-> "v"],
                  [kind |-> "number", number |-> 9], [kind |-> "number", number |-> -9],
                  [kind |-> "null"], [kind |-> "array"] }
    IN  Objects(flat \cup Objects({[kind |-> "number", number |-> 1]}, 1), 2)
        \cup Objects(Objects(Objects(flat, 1), 1), 1)
        \cup flat \cup {[kind |-> "error"]}

MCRulesDocuments ==
    Documents({ <<>>, <<" ">>, <<"r", "-", ">", "v">>, <<"r", " ", "-", ">", " ", "v">>,
                <<" ", "r", "-", "r", " ", "-", ">", "v", "-", ">", "v", " ", "CR">>,
                <<"r", "-", ">">>, <<"s", "-", ">", " ">>,
                <<"-", ">", "v">>, <<"r">>, <<"r", "-">>, <<"B", "-", ">", "v">> },
              {"NL"}, 3)

MCEnvironments ==
    SeqOf({<<"a">>, <<"a", "b">>, <<"b", "QUOTE">>}
          \X {<<>>, <<"a", "T">>, <<"QUOTE">>, <<"BACKSLASH", "a">>} \cup {Nameless}, 2)
MCPrefixes == {<<>>, <<"a">>}

Colon == <<":">>
Semicolon == <<";">>

VARIABLE part \* the one that takes steps

PartsInit ==
    /\ part \in {"task", "ini", "json", "rules", "env", "events"}
    /\ IF part = "ini" THEN IniInit ELSE IniStart(<<>>)
    /\ IF part = "json" THEN JsonInit ELSE JsonStart(Unparsed)
    /\ IF part = "rules" THEN RulesInit ELSE RulesStart(<<>>)
    /\ IF part = "env" THEN EnvInit ELSE EnvStart(<<>>)
    /\ TaskInit /\ EventsInit

PartsNext ==
    /\ \/ part = "task" /\ TaskNext
          /\ UNCHANGED <<iniVars, jsonVars, rulesVars, envVars, eventVars>>
       \/ part = "ini" /\ IniNext
          /\ UNCHANGED <<taskVars, jsonVars, rulesVars, envVars, eventVars>>
       \/ part = "json" /\ JsonNext
          /\ UNCHANGED <<taskVars, iniVars, rulesVars, envVars, eventVars>>
       \/ part = "rules" /\ RulesNext
          /\ UNCHANGED <<taskVars, iniVars, jsonVars, envVars, eventVars>>
       \/ part = "env" /\ EnvNext
          /\ UNCHANGED <<taskVars, iniVars, jsonVars, rulesVars, eventVars>>
       \/ part = "events" /\ EventsNext
          /\ UNCHANGED <<taskVars, iniVars, jsonVars, rulesVars, envVars>>
    /\ UNCHANGED part

PartsSpec ==
    PartsInit /\ [][PartsNext]_<<taskVars, iniVars, jsonVars, rulesVars, envVars, eventVars, part>>

=============================================================================
