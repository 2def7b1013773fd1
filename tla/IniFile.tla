------------------------------ MODULE IniFile ------------------------------
(***************************************************************************)
(* A file object parses a document in the ini format: file_parse_ini() and *)
(* its reader and handler in src/src/vmod_cfg_file.c, and                  *)
(* ini_parse_stream() in src/src/ini.c.  One step reads one line.          *)
(*                                                                         *)
(* Left out: the byte order mark a document may begin with, and the blanks *)
(* and marks that behave like the ones listed (tabs; see Separators).      *)
(***************************************************************************)
EXTENDS Text

CONSTANTS
    IniDocuments,   \* the documents that may be parsed
    MaxLine,        \* INI_MAX_LINE
    MaxName,        \* MAX_SECTION, MAX_NAME
    NameDelimiter,  \* name_delimiter of the object
    ValueDelimiter  \* value_delimiter of the object

ASSUME IniAssumption ==
    /\ IniDocuments \subseteq Seq(STRING)
    /\ MaxLine \in Nat \ {0, 1} /\ MaxName \in Nat \ {0}
    /\ NameDelimiter \in Seq(STRING)

VARIABLES
    iniText,   \* the document
    left,      \* what was not read yet
    section,   \* the section the line is in, cut to MaxName - 1 characters
    prevName,  \* the name a continuation is of; empty for none
    entries,   \* the variables, from name to value
    iniError,  \* a line was malformed
    iniEnd     \* "reading", "parsed", "rejected" or "aborted"

iniVars == <<iniText, left, section, prevName, entries, iniError, iniEnd>>

LineEnds == {"NL", "CR"}
Separators == {"=", ":"}
CommentMarks == {";", "#"}

----------------------------------------------------------------------------
(* The reader *)

\* Bug: room for the NUL is left twice.
BugRoom == MaxLine - 2

\* Characters the buffer takes.
Room == MaxLine - 1

\* file_ini_stream_reader(): a line, or as much as the buffer takes.  The
\* character it stopped at is skipped, a line end or not; and so is a line end
\* that repeats the one found.
LineLength(s) ==
    Min({Room, FirstOf({i \in DOMAIN s : s[i] \in LineEnds}, s) - 1})
Consumed(s) ==
    LET n == LineLength(s)
        twice == n < Room /\ n + 2 <= Len(s) /\ s[n + 2] = s[n + 1]
    IN  IF twice THEN n + 2 ELSE n + 1

----------------------------------------------------------------------------
(* The parser *)

IsComment(s) == s # <<>> => s[1] \in CommentMarks
Indented(s) == s # <<>> /\ s[1] \in Blanks

\* ini_find_chars_or_comment(): the first of some characters, or of the mark of
\* a comment after a blank.
Stop(s, chars) ==
    FirstOf({i \in DOMAIN s : s[i] \in chars \/ (s[i] = ";" /\ i > 1 /\ s[i - 1] \in Blanks)}, s)

IsSection(s) == s # <<>> /\ s[1] = "["
SectionEnd(s) == Stop(Tail(s), {"]"}) + 1
SectionClosed(s) == SectionEnd(s) <= Len(s) /\ s[SectionEnd(s)] = "]"
SectionName(s) == SubSeq(s, 2, SectionEnd(s) - 1)

NameEnd(s) == Stop(s, Separators)
IsPair(s) == NameEnd(s) <= Len(s) /\ s[NameEnd(s)] \in Separators
PairName(s) == Trim(Before(s, NameEnd(s)))
WithoutComment(s) == Trim(Before(s, Stop(s, {})))
PairValue(s) == WithoutComment(After(s, NameEnd(s)))

\* ini_strncpy0() to a buffer of MaxName characters.
Truncated(s) == SubSeq(s, 1, Min({Len(s), MaxName - 1}))

FullName(sec, name) == IF sec = <<>> THEN name ELSE sec \o NameDelimiter \o name

\* A value that was empty gets no delimiter.
Joined(old, value) == IF old = <<>> THEN value ELSE old \o ValueDelimiter \o value

\* file_parse_ini_handler(): a name met again has its values joined.  It asserts
\* that the full name is not empty.
Define(name, value) ==
    LET full == FullName(section, name)
    IN  IF full = <<>>
        THEN iniEnd' = "aborted" /\ UNCHANGED entries
        ELSE /\ entries' = [n \in DOMAIN entries \cup {full} |->
                     IF n # full THEN entries[n]
                     ELSE IF full \in DOMAIN entries THEN Joined(entries[full], value)
                     ELSE value]
             /\ UNCHANGED iniEnd

Line == SubSeq(left, 1, LineLength(left))
Start == Trim(Line)

\* A non-blank line that begins with blanks continues the value above.
Continues == prevName # <<>> /\ Indented(Line) /\ ~IsComment(Start)

Read ==
    /\ iniEnd = "reading" /\ left # <<>>
    /\ left' = After(left, Consumed(left))
    /\ UNCHANGED iniText

SkipLine ==
    /\ Read /\ IsComment(Start)
    /\ UNCHANGED <<section, prevName, entries, iniError, iniEnd>>

ContinueValue ==
    /\ Read /\ Continues
    /\ Define(prevName, WithoutComment(Start))
    /\ UNCHANGED <<section, prevName, iniError>>

\* Bug: the name of the section above still has continuations.
BugOpenSection ==
    /\ Read /\ ~IsComment(Start) /\ ~Continues /\ IsSection(Start) /\ SectionClosed(Start)
    /\ section' = Truncated(SectionName(Start))
    /\ UNCHANGED <<prevName, entries, iniError, iniEnd>>

OpenSection ==
    /\ Read /\ ~IsComment(Start) /\ ~Continues /\ IsSection(Start) /\ SectionClosed(Start)
    /\ section' = Truncated(SectionName(Start))
    /\ prevName' = <<>>
    /\ UNCHANGED <<entries, iniError, iniEnd>>

DefinePair ==
    /\ Read /\ ~IsComment(Start) /\ ~Continues /\ ~IsSection(Start) /\ IsPair(Start)
    /\ prevName' = Truncated(PairName(Start))
    /\ Define(PairName(Start), PairValue(Start))
    /\ UNCHANGED <<section, iniError>>

\* A section that is not closed or a line that is no pair; reading goes on.
Malformed ==
    /\ Read /\ ~IsComment(Start) /\ ~Continues
    /\ IF IsSection(Start) THEN ~SectionClosed(Start) ELSE ~IsPair(Start)
    /\ iniError' = TRUE
    /\ UNCHANGED <<section, prevName, entries, iniEnd>>

\* The end of file_parse_ini(): all the variables, or none.
EndIni ==
    /\ iniEnd = "reading" /\ left = <<>>
    /\ iniEnd' = IF iniError THEN "rejected" ELSE "parsed"
    /\ entries' = IF iniError THEN <<>> ELSE entries
    /\ UNCHANGED <<iniText, left, section, prevName, iniError>>

----------------------------------------------------------------------------
(* The specification *)

IniStart(text) ==
    /\ iniText = text
    /\ left = text
    /\ section = <<>> /\ prevName = <<>> /\ entries = <<>>
    /\ iniError = FALSE
    /\ iniEnd = "reading"

IniInit == \E text \in IniDocuments : IniStart(text)

IniNext ==
    \/ SkipLine \/ ContinueValue \/ OpenSection \/ DefinePair \/ Malformed
    \/ EndIni

IniSpec == IniInit /\ [][IniNext]_iniVars

----------------------------------------------------------------------------
(* What a document says, told by the lines it is made of: a line is known  *)
(* by the position before its first character.                             *)

Lines == {0} \cup {i \in DOMAIN iniText : iniText[i] \in LineEnds}
TextOf(p) == LET rest == After(iniText, p)
             IN  Before(rest, FirstOf({i \in DOMAIN rest : rest[i] \in LineEnds}, rest))
Bare(p) == Trim(TextOf(p))

Said == {p \in Lines : ~IsComment(Bare(p))}
Above(p) == {q \in Said : q < p /\ ~Indented(TextOf(q))}

SectionsAbove(p) == {q \in Above(p) : IsSection(Bare(q)) /\ SectionClosed(Bare(q))}
SectionOf(p) ==
    IF SectionsAbove(p) = {} THEN <<>> ELSE SectionName(Bare(Max(SectionsAbove(p))))

\* An indented line continues the last line above that is not, unless that one
\* opens a section.
Continued(p) == Indented(TextOf(p)) /\ Above(p) # {} /\ ~IsSection(Bare(Max(Above(p))))
Amiss(p) ==
    /\ ~Continued(p)
    /\ IF IsSection(Bare(p)) THEN ~SectionClosed(Bare(p)) ELSE ~IsPair(Bare(p))

NameOf(p) == FullName(SectionOf(p), PairName(Bare(IF Continued(p) THEN Max(Above(p)) ELSE p)))
ValueOf(p) == IF Continued(p) THEN WithoutComment(Bare(p)) ELSE PairValue(Bare(p))
Defining == {p \in Said : Continued(p) \/ ~IsSection(Bare(p))}

\* The documents that are told this way: every line and name fits its buffer; what
\* an indented line continues is a named pair, and where it continues nothing it
\* is the first line, or the first of its section, and opens none itself.
Fits ==
    \A p \in Lines :
        /\ Len(TextOf(p)) < MaxLine
        /\ p \in Said /\ ~Continued(p) =>
               Len(IF IsSection(Bare(p)) THEN SectionName(Bare(p)) ELSE PairName(Bare(p))) < MaxName
WellLaid ==
    \A p \in Said : Indented(TextOf(p)) =>
        IF Continued(p)
        THEN LET above == Bare(Max(Above(p))) IN IsPair(above) /\ PairName(above) # <<>>
        ELSE /\ ~IsSection(Bare(p))
             /\ \A q \in Said : q < p => Above(p) # {} /\ q <= Max(Above(p))

\* Values at some positions, joined in their order, up to a position.
JoinedBefore(values, end) ==
    LET joined[k \in 0 .. end] ==
            IF k = 0 THEN <<>>
            ELSE IF k - 1 \in DOMAIN values THEN Joined(joined[k - 1], values[k - 1])
            ELSE joined[k - 1]
    IN  joined[end]

ValuesOf(name) == [p \in {q \in Defining : NameOf(q) = name} |-> ValueOf(p)]
Meaning ==
    [n \in {NameOf(p) : p \in Defining} |-> JoinedBefore(ValuesOf(n), Len(iniText) + 1)]

\* The variables are those the document says: each line is read whole, a section
\* ends at the next one, an indented line continues the pair above, and the
\* values of one name are joined in their order.  A document with a malformed
\* line gives none, and one with an unnamed value stops the process.
\* (file_parse_ini() with lines shorter than INI_MAX_LINE and names shorter than
\* MAX_NAME; beyond that see LostAtTheBound.)
SaysWhatItMeans ==
    iniEnd # "reading" /\ Fits /\ WellLaid =>
        CASE iniEnd = "rejected" -> \E p \in Said : Amiss(p)
          [] iniEnd = "aborted" -> \E p \in Defining : ~Amiss(p) /\ NameOf(p) = <<>>
          [] iniEnd = "parsed" -> (\A p \in Said : ~Amiss(p)) /\ entries = Meaning

\* Only a line that does not fit the buffer loses characters: one after each
\* MaxLine - 1 of them.  (file_ini_stream_reader() skips the character it stopped
\* at whatever it is.)
LostAtTheBound ==
    LET at == Len(iniText) - Len(left)
    IN  left # <<>> /\ at > 0 /\ iniText[at] \notin LineEnds =>
            \A i \in at - (MaxLine - 1) .. at - 1 : i > 0 /\ iniText[i] \notin LineEnds

=============================================================================
