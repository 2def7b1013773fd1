----------------------------- MODULE RulesText -----------------------------
(***************************************************************************)
(* A rules object parses a document: rules_parse() in                      *)
(* src/src/vmod_cfg_rules.c.  It cuts the document into strings in place,  *)
(* with up to three NULs, and puts back what it wrote over: the remote     *)
(* writes the same buffer to the backup once it was parsed.                *)
(*                                                                         *)
(* Positions are counted from 1; the one after the last character holds    *)
(* the NUL the document ends with, which nothing is ever written over.     *)
(***************************************************************************)
EXTENDS Text, SequencesExt

CONSTANTS
    RulesDocuments, \* the documents that may be parsed
    Bad             \* VRE_compile() fails on a regexp with this character

\* A document is a C string.
ASSUME RulesAssumption ==
    /\ RulesDocuments \subseteq Seq(STRING)
    /\ \A text \in RulesDocuments : \A i \in DOMAIN text : text[i] # "NUL"

VARIABLES
    rulesText, \* the document
    buf,       \* the buffer, which begins as the document
    line,      \* the position of the line being parsed
    lineCut,   \* what was written over at line_end,
    regexpCut, \* at regexp_end
    valueCut,  \* and at value_end
    starts,    \* where the regexp and the value of the line begin
    rules,     \* the rules so far
    rulesEnd   \* "lines", "line" or "rule"; "parsed" or "rejected"

cuts == <<lineCut, regexpCut, valueCut>>
rulesVars == <<rulesText, buf, line, cuts, starts, rules, rulesEnd>>

Char(i) == IF i \in DOMAIN buf THEN buf[i] ELSE "NUL"
WithNul(positions) == [i \in DOMAIN buf |-> IF i \in positions THEN "NUL" ELSE buf[i]]

\* What to put back at a position; nothing, at position 0.
Saved(i) == [at |-> i, char |-> Char(i)]
NoCut == [at |-> 0, char |-> "NUL"]
PutBack(b, cut) == [i \in DOMAIN b |-> IF i = cut.at THEN cut.char ELSE b[i]]

\* Bug: the line is put back before the strings in it.
BugRestored == PutBack(PutBack(PutBack(buf, lineCut), regexpCut), valueCut)

\* The buffer once everything was put back: the strings, then the line.
Restored == PutBack(PutBack(PutBack(buf, regexpCut), valueCut), lineCut)

----------------------------------------------------------------------------
(* A line, while it is a string of its own: where the regexp begins and    *)
(* ends, the arrow after it, and where the value begins and ends.          *)

LineEnd == FirstOf({i \in line .. Len(buf) : buf[i] \in {"NL", "NUL"}}, buf)
SolidIn(from, to) == {i \in from .. to : buf[i] \notin Blanks}

IsEmpty == SolidIn(line, LineEnd - 1) = {}
RegexpStart == Min(SolidIn(line, LineEnd - 1))
Arrows == {i \in RegexpStart .. LineEnd - 2 : buf[i] = "-" /\ buf[i + 1] = ">"}

\* Bug: the last arrow of the line.
BugArrow == Max(Arrows)

\* strstr() finds the first.
Arrow == Min(Arrows)
HasRegexp == Arrows # {} /\ Arrow # RegexpStart
RegexpEnd == Max(SolidIn(RegexpStart, Arrow - 1)) + 1

ValueSolid == SolidIn(Arrow + 2, LineEnd - 1)
ValueStart == IF ValueSolid = {} THEN LineEnd ELSE Min(ValueSolid)
ValueEnd == IF ValueSolid = {} THEN LineEnd ELSE Max(ValueSolid) + 1

\* A string of the buffer, up to its NUL.
StrAt(i) == SubSeq(buf, i, FirstOf({j \in i .. Len(buf) : buf[j] = "NUL"}, buf) - 1)

----------------------------------------------------------------------------
(* The parser *)

IsolateLine ==
    /\ rulesEnd = "lines" /\ line <= Len(buf)
    /\ lineCut' = Saved(LineEnd)
    /\ buf' = WithNul({LineEnd})
    /\ rulesEnd' = "line"
    /\ UNCHANGED <<rulesText, line, regexpCut, valueCut, starts, rules>>

\* The line is put back, and the next one begins after it.
NextLine ==
    /\ buf' = Restored
    /\ lineCut' = NoCut /\ regexpCut' = NoCut /\ valueCut' = NoCut
    /\ line' = IF lineCut.char = "NL" THEN lineCut.at + 1 ELSE lineCut.at
    /\ rulesEnd' = "lines"
    /\ UNCHANGED <<rulesText, starts>>

\* An error: the rules so far are freed.
Fail ==
    /\ buf' = Restored
    /\ lineCut' = NoCut /\ regexpCut' = NoCut /\ valueCut' = NoCut
    /\ rules' = <<>>
    /\ rulesEnd' = "rejected"
    /\ UNCHANGED <<rulesText, line, starts>>

SkipEmpty == rulesEnd = "line" /\ IsEmpty /\ NextLine /\ UNCHANGED rules

NoRule == rulesEnd = "line" /\ ~IsEmpty /\ ~HasRegexp /\ Fail

\* The regexp and the value become strings of their own.
CutRule ==
    /\ rulesEnd = "line" /\ ~IsEmpty /\ HasRegexp
    /\ regexpCut' = Saved(RegexpEnd) /\ valueCut' = Saved(ValueEnd)
    /\ buf' = WithNul({RegexpEnd, ValueEnd})
    /\ starts' = [regexp |-> RegexpStart, value |-> ValueStart]
    /\ rulesEnd' = "rule"
    /\ UNCHANGED <<rulesText, line, lineCut, rules>>

Regexp == StrAt(starts.regexp)
Value == StrAt(starts.value)
Compiles(regexp) == \A i \in DOMAIN regexp : regexp[i] # Bad

AddRule ==
    /\ rulesEnd = "rule" /\ Compiles(Regexp)
    /\ rules' = Append(rules, [regexp |-> Regexp, value |-> Value])
    /\ NextLine

BadRegexp == rulesEnd = "rule" /\ ~Compiles(Regexp) /\ Fail

EndRules ==
    /\ rulesEnd = "lines" /\ line > Len(buf)
    /\ rulesEnd' = "parsed"
    /\ UNCHANGED <<rulesText, buf, line, cuts, starts, rules>>

----------------------------------------------------------------------------
(* The specification *)

RulesStart(text) ==
    /\ rulesText = text
    /\ buf = text
    /\ line = 1
    /\ lineCut = NoCut /\ regexpCut = NoCut /\ valueCut = NoCut
    /\ starts = [regexp |-> 1, value |-> 1]
    /\ rules = <<>>
    /\ rulesEnd = "lines"

RulesInit == \E text \in RulesDocuments : RulesStart(text)

RulesNext ==
    \/ IsolateLine \/ SkipEmpty \/ NoRule \/ CutRule \/ AddRule \/ BadRegexp
    \/ EndRules

RulesSpec == RulesInit /\ [][RulesNext]_rulesVars

----------------------------------------------------------------------------
(* What a document says: its lines, each known by the position before it.  *)

RuleLines == {0} \cup {i \in DOMAIN rulesText : rulesText[i] = "NL"}
Written(p) ==
    LET rest == After(rulesText, p)
    IN  Trim(Before(rest, FirstOf({i \in DOMAIN rest : rest[i] = "NL"}, rest)))
ArrowIn(s) == FirstOf({i \in 1 .. Len(s) - 1 : s[i] = "-" /\ s[i + 1] = ">"}, s)
RuleOf(s) ==
    [regexp |-> Trim(Before(s, ArrowIn(s))), value |-> Trim(After(s, ArrowIn(s) + 1))]
NoRuleIn(s) == ArrowIn(s) \in {1, Len(s) + 1} \/ ~Compiles(RuleOf(s).regexp)

\* The lines that are rules, and which rule one is.
Ruling == {p \in RuleLines : Written(p) # <<>>}
Place(p) == Cardinality({q \in Ruling : q <= p})

\* The rules are those of the lines of the document, in their order, blanks around
\* the arrow or not; one wrong line and there are none.  (rules_parse(), which
\* reads its strings from a buffer it writes to.)
RulesAsWritten ==
    /\ rulesEnd = "parsed" =>
           /\ Len(rules) = Cardinality(Ruling)
           /\ \A p \in Ruling : rules[Place(p)] = RuleOf(Written(p)) /\ ~NoRuleIn(Written(p))
    /\ rulesEnd = "rejected" => rules = <<>> /\ \E p \in Ruling : NoRuleIn(Written(p))

\* What rules_parse() wrote over is put back whenever it goes to another line and
\* when it returns, after an error too: what the backup gets is the document.
ContentsPutBack == rulesEnd \in {"lines", "parsed", "rejected"} => buf = rulesText

=============================================================================
