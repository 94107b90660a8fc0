---------------------------- MODULE RecordFormats ----------------------------
(***************************************************************************)
(* What the record dialog makes of a value: the content it builds from the *)
(* field the user typed in, and the field it shows when the record is      *)
(* opened again (zoneDetailModel, recordContent, luaRecord).  A text is a  *)
(* sequence of characters; only those a format treats specially differ.    *)
(* Flag, tag and target type of a value are left out: they stand before    *)
(* the text and are read back as they are.                                 *)
(***************************************************************************)
EXTENDS Naturals, Sequences, SequencesExt

CONSTANT TextBound   \* bound: characters of a text

Quote == "quote"
Slash == "backslash"
Space == "space"
Tick1 == "apostrophe"
Brace == "("
Ecarb == ")"
Dot == "."
Chars == {Quote, Slash, Space, Tick1, Brace, Ecarb, Dot, "x"}

\* RDATA stands for every type whose value is one text, also an unknown one;
\* CNAME and MX for those that name a host.
Types == {"CNAME", "MX", "TXT", "CAA", "LUA", "RDATA"}

VARIABLES
    type,     \* the type chosen in the dialog
    text,     \* its text field
    stored    \* the content of the record in PowerDNS, << >> if there is none

formatVars == <<type, text, stored>>

-----------------------------------------------------------------------------
\* Helpers on texts.

Has(s, c) == \E i \in DOMAIN s : s[i] = c
Quoted(s) == <<Quote>> \o s \o <<Quote>>
Inside(s) == SubSeq(s, 2, Len(s) - 1)
Starts(s) == Len(s) > 0 /\ s[1] = Quote
Ends(s) == Len(s) > 0 /\ s[Len(s)] = Quote

\* trim
Trim(s) ==
    LET keep == {i \in DOMAIN s : s[i] # Space}
    IN  IF keep = {} THEN << >>
        ELSE SubSeq(s, CHOOSE i \in keep : \A j \in keep : i <= j,
                       CHOOSE i \in keep : \A j \in keep : i >= j)

Escape(s, c) == FlattenSeq([i \in DOMAIN s |-> IF s[i] = c THEN <<Slash, c>> ELSE <<s[i]>>])

\* Positions of s read as an escaped character: the one after a backslash that
\* is not itself escaped.
Escaped(s) ==
    LET esc[i \in 0..Len(s)] == i > 1 /\ s[i - 1] = Slash /\ ~esc[i - 1]
    IN  {i \in DOMAIN s : esc[i]}

\* The quotes of s that open or close a section.
Fences(s) == {i \in DOMAIN s : s[i] = Quote /\ i \notin Escaped(s)}

Rank(S, i) == LET below[n \in 0..i] ==
                    IF n = 0 THEN 0 ELSE below[n - 1] + (IF n \in S THEN 1 ELSE 0)
              IN  below[i]

\* One or more sections in quotes, separated by spaces (CHUNKS_RE; also what
\* PowerDNS takes for a text).
Sections(s) ==
    LET F == Fences(s)
    IN  /\ F # {} /\ Starts(s) /\ Ends(s) /\ Len(s) \in F
        /\ Rank(F, Len(s)) % 2 = 0
        /\ \A i \in DOMAIN s :
              Rank(F, i) % 2 = 0 /\ i \notin F => s[i] = Space
        /\ \A i \in F : Rank(F, i) % 2 = 1 /\ i > 1 => s[i - 1] = Space

-----------------------------------------------------------------------------
\* CAA.  (Mutant: the backslashes are doubled last, so those of the escaped
\* quotes are doubled again.)
EscapedValue_last(s) == Escape(Escape(s, Quote), Slash)
EscapedValue(s) == Escape(Escape(s, Slash), Quote)

Unescape(s) == LET esc == Escaped(s)
               IN  FlattenSeq([i \in DOMAIN s |->
                     IF s[i] = Slash /\ i \notin esc /\ i < Len(s) THEN << >> ELSE <<s[i]>>])

BuildCaa(s) == Quoted(EscapedValue(s))
ParseCaa(c) ==
    LET v == Trim(c)
    IN  Unescape(IF Len(v) >= 2 /\ Starts(v) /\ Ends(v) THEN Inside(v) ELSE v)

-----------------------------------------------------------------------------
\* LUA: one section holding the code on one line.

BuildLua(code) == Quoted(Trim(code))

\* The sections joined by a space; not in sections: the rest as it stands.
ParseLua(c) ==
    IF ~Sections(c) THEN c
    ELSE LET F == Fences(c)
         IN  FlattenSeq([i \in DOMAIN c |->
               IF i \in F THEN (IF Rank(F, i) % 2 = 1 /\ i > 1 THEN <<Space>> ELSE << >>)
               ELSE IF Rank(F, i) % 2 = 1 THEN <<c[i]>> ELSE << >>])

\* checkLuaBrackets: strings in apostrophes are skipped, brackets match.
Brackets(code) ==
    LET \* state after i characters: depth, and what an open string waits for
        run[i \in 0..Len(code)] ==
          IF i = 0 THEN [depth |-> 0, in |-> FALSE, skip |-> FALSE, bad |-> FALSE]
          ELSE LET r == run[i - 1]
                   c == code[i]
               IN  IF r.skip THEN [r EXCEPT !.skip = FALSE]
                   ELSE IF r.in THEN [r EXCEPT !.in = c # Tick1, !.skip = c = Slash]
                   ELSE [r EXCEPT !.in = c = Tick1,
                                  !.bad = @ \/ (c = Ecarb /\ r.depth = 0),
                                  !.depth = CASE c = Brace -> @ + 1
                                              [] c = Ecarb /\ @ > 0 -> @ - 1
                                              [] OTHER -> @]
        end == run[Len(code)]
    IN  ~end.bad /\ ~end.in /\ ~end.skip /\ end.depth = 0

\* analyzeLuaCode finds no error.
CodeAccepted(code) ==
    /\ Trim(code) # << >>
    /\ ~Has(code, Quote)
    /\ Brackets(Trim(code))

-----------------------------------------------------------------------------
\* TXT and host names.

BuildTxt(s) == IF Starts(s) THEN s ELSE Quoted(s)
ParseTxt(c) == IF Starts(c) /\ Ends(c) THEN Inside(c) ELSE c

BuildHost(s) == IF Len(s) > 0 /\ s[Len(s)] = Dot THEN s ELSE Append(s, Dot)

BuildRdata(s) == Trim(s)

\* classifyHostname, as far as these characters go: labels that are not empty.
HostAccepted(s) ==
    LET h == Trim(s)
    IN  /\ h # << >> /\ h # <<Dot>> /\ h[1] # Dot
        /\ \A i \in DOMAIN h : h[i] \in {Dot, "x"}
        /\ \A i \in 1..(Len(h) - 1) : ~(h[i] = Dot /\ h[i + 1] = Dot)

-----------------------------------------------------------------------------
\* The dialog.

Build(ty, s) == CASE ty \in {"CNAME", "MX"} -> BuildHost(s)
                  [] ty = "RDATA" -> BuildRdata(s)
                  [] ty = "TXT" -> BuildTxt(s)
                  [] ty = "CAA" -> BuildCaa(s)
                  [] ty = "LUA" -> BuildLua(s)

Parse(ty, c) == CASE ty \in {"CNAME", "MX", "RDATA"} -> c
                  [] ty = "TXT" -> ParseTxt(c)
                  [] ty = "CAA" -> ParseCaa(c)
                  [] ty = "LUA" -> ParseLua(c)

\* The field is filled and its validator reports no error.
Accepted(ty, s) == /\ Trim(s) # << >>
                   /\ CASE ty = "CNAME" -> HostAccepted(s)
                        [] ty = "MX" -> HostAccepted(s) \/ Trim(s) = <<Dot>>
                        [] ty = "LUA" -> CodeAccepted(s)
                        [] OTHER -> TRUE

\* What PowerDNS takes (external).
Taken(ty, c) == CASE ty \in {"CNAME", "MX"} -> ~Has(c, Space)
                  [] ty = "CAA" -> Sections(c)
                  [] ty = "TXT" -> Sections(c)
                  [] OTHER -> TRUE

FormatTypeOK == type \in Types /\ text \in Seq(Chars) /\ stored \in Seq(Chars)

FormatInit == type \in Types /\ text = << >> /\ stored = << >>

TypeChar(c) ==
    /\ Len(text) < TextBound /\ stored = << >>
    /\ text' = Append(text, c)
    /\ UNCHANGED <<type, stored>>

\* Another type starts with its defaults.
ChangeRecordType(ty) ==
    /\ stored = << >> /\ ty # type
    /\ type' = ty /\ text' = << >>
    /\ UNCHANGED stored

Save ==
    /\ Accepted(type, text) /\ Taken(type, Build(type, text))
    /\ stored' = Build(type, text)
    /\ UNCHANGED <<type, text>>

\* The record is opened for editing.
Reopen ==
    /\ stored # << >>
    /\ text' = Parse(type, stored)
    /\ UNCHANGED <<type, stored>>

FormatNext ==
    \/ \E c \in Chars : TypeChar(c)
    \/ \E ty \in Types : ChangeRecordType(ty)
    \/ Save \/ Reopen

FormatSpec == FormatInit /\ [][FormatNext]_formatVars

-----------------------------------------------------------------------------
\* Opening a record and saving it unchanged either leaves its content as it
\* was or is refused: what the dialog shows never silently becomes another
\* value.  (A TXT whose first section is empty is the exception: `"" ""' is
\* taken for a text that brings its own quotes.)
UnchangedStays ==
    LET shown == Parse(type, stored)
    IN  /\ stored # << >>
        /\ Accepted(type, shown)
        /\ Taken(type, Build(type, shown))
        /\ ~(type = "TXT" /\ Starts(shown))
        => Build(type, shown) = stored

\* An accepted CAA value or LUA code is shown again as it was typed (a LUA code
\* on one line), or cannot be saved as it is shown.
TypedIsShown ==
    /\ type = "CAA" => ParseCaa(BuildCaa(text)) = text
    /\ type = "LUA" /\ CodeAccepted(text) =>
          LET shown == ParseLua(BuildLua(text))
          IN  shown = Trim(text) \/ ~CodeAccepted(shown)

\* No content is changed by showing it, in either direction.
FormatsRoundTrip == UnchangedStays /\ TypedIsShown

===============================================================================
