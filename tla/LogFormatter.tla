---------------------------- MODULE LogFormatter ----------------------------
(***************************************************************************)
(* LogFormatter (log.cpp): the pattern of a log line and the text it gives.*)
(* A pattern and a text are sequences of one-character strings.            *)
(***************************************************************************)
EXTENDS Integers, Sequences, SequencesExt

\* The keys of s_format_items with the item each makes.
s_format_items ==
    [m |-> "Message", p |-> "Level", c |-> "LoggerName", r |-> "Elapse", f |-> "FileName",
     l |-> "Line", T |-> "Tab", n |-> "NewLine"]
Item(c) == IF c = "%" THEN "PercentSign" ELSE s_format_items[c]
Known(c) == c = "%" \/ c \in DOMAIN s_format_items

\* The format DateTimeFormatItem falls back on.
DefaultDate == <<"%", "Y">>

\* The first i (from 0) at or after `from` where p holds c, or the size of p.
FindFrom(p, c, from) ==
    LET hits == {i \in from..(Len(p) - 1) : p[i + 1] = c}
    IN  IF hits = {} THEN IF from > Len(p) THEN from ELSE Len(p)
        ELSE CHOOSE i \in hits : \A j \in hits : i <= j

\* "%d" was read: the braces after it, if any, hold the date format.  A pattern that ends
\* in "%d" is read one byte past its terminator: `past` is what is found there.
DateFormat(p, s, i, past) ==
    LET close == FindFrom(p, "}", i + 1)
        end == CASE close < Len(p) -> "}" [] close = Len(p) -> "NUL" [] OTHER -> past
    IN  IF i < Len(p) /\ p[i + 1] # "{" THEN [s EXCEPT !.i = i]
        ELSE [s EXCEPT !.dateformat = @ \o SubSeq(p, i + 2, close), !.i = close + 1,
                       !.error = end # "}"]

\* Text collected so far becomes an item of its own.
Flushed(s) == IF s.tmp = <<>> THEN s
              ELSE [s EXCEPT !.patterns = Append(@, <<0, s.tmp>>), !.tmp = <<>>]

\* One turn of the loop over the pattern.
Turn(p, s, past) ==
    LET c == p[s.i + 1]
        item == [s EXCEPT !.patterns = Append(@, <<1, c>>), !.parsing_string = TRUE,
                          !.i = @ + 1]
    IN  CASE s.parsing_string /\ c = "%" ->
               [Flushed(s) EXCEPT !.parsing_string = FALSE, !.i = @ + 1]
          [] s.parsing_string /\ c # "%" -> [s EXCEPT !.tmp = Append(@, c), !.i = @ + 1]
          [] ~s.parsing_string /\ c # "d" -> item
          [] OTHER -> DateFormat(p, item, s.i + 1, past)

RECURSIVE Scan(_, _, _)
Scan(p, s, past) ==
    IF s.error \/ s.i >= Len(p) THEN s ELSE Scan(p, Turn(p, s, past), past)

\* Mutant: the text after the last item is forgotten.
ScannedCut(p, past) ==
    Scan(p, [i |-> 0, parsing_string |-> TRUE, tmp |-> <<>>, dateformat |-> <<>>,
             patterns |-> <<>>, error |-> FALSE], past)

Scanned(p, past) == Flushed(ScannedCut(p, past))

\* LogFormatter::Init: m_items and m_error.  The items before an unknown one are kept,
\* and every date has the one dateformat that all the braces were collected in.
FormatItem(v, dateformat) ==
    CASE v[1] = 0 -> <<"String", v[2]>>
      [] v[1] = 1 /\ v[2] = "d" ->
           <<"DateTime", IF dateformat = <<>> THEN DefaultDate ELSE dateformat>>
      [] OTHER -> <<Item(v[2])>>

Bad(v) == v[1] = 1 /\ v[2] # "d" /\ ~Known(v[2])

Built(s) ==
    LET bad == SelectInSeq(s.patterns, Bad)
        kept == IF bad = 0 THEN s.patterns ELSE SubSeq(s.patterns, 1, bad - 1)
    IN  IF s.error THEN [m_items |-> <<>>, m_error |-> TRUE]
        ELSE [m_items |-> [k \in DOMAIN kept |-> FormatItem(kept[k], s.dateformat)],
              m_error |-> bad # 0]

InitPattern(p, past) == Built(Scanned(p, past))

\* What an item writes for an event.
Written(item, event) ==
    CASE item[1] = "String" -> item[2]
      [] item[1] = "DateTime" -> event.Time[item[2]]
      [] item[1] = "PercentSign" -> <<"%">>
      [] item[1] = "Tab" -> <<"TAB">>
      [] item[1] = "NewLine" -> <<"LF">>
      [] OTHER -> event[item[1]]

Format(items, event) == FlattenSeq([k \in DOMAIN items |-> Written(items[k], event)])

-----------------------------------------------------------------------------
(* What a pattern means: it is written as a list of parts, each a text, an *)
(* item or a date with or without a format.                                *)

Spelled(part) ==
    CASE part[1] = "text" -> part[2]
      [] part[1] = "item" -> <<"%", part[2]>>
      [] part[1] = "date" -> <<"%", "d">> \o (IF part[2] = <<>> THEN <<>>
                                              ELSE <<"{">> \o part[2] \o <<"}">>)
Pattern(parts) == FlattenSeq([k \in DOMAIN parts |-> Spelled(parts[k])])

Meant(part, event) ==
    CASE part[1] = "text" -> part[2]
      [] part[1] = "item" -> Written(<<Item(part[2])>>, event)
      [] part[1] = "date" -> event.Time[IF part[2] = <<>> THEN DefaultDate ELSE part[2]]

\* Parts the loop can tell apart: one date at most, and when it has no braces it is
\* followed by something that does not begin with one.
IsDate(part) == part[1] = "date"
Bare(part) == part = <<"date", <<>>>>
Clear(parts) ==
    /\ Len(SelectSeq(parts, IsDate)) <= 1
    /\ \A k \in DOMAIN parts :
         Bare(parts[k]) => k < Len(parts) /\ Spelled(parts[k + 1])[1] # "{"

\* A pattern made of known parts gives the text its parts mean; one with an unknown item
\* or an open brace is refused, and what stood before the unknown item is still written.
PatternRight(parts, event) ==
    \A past \in {"}", "NUL"} : \A f \in {InitPattern(Pattern(parts), past)} :
      Clear(parts) =>
        LET unknown == {k \in DOMAIN parts : parts[k][1] = "item" /\ ~Known(parts[k][2])}
            kept == {k \in DOMAIN parts : \A u \in unknown : k < u}
        IN  /\ f.m_error = (unknown # {})
            /\ Format(f.m_items, event) = FlattenSeq([k \in kept |-> Meant(parts[k], event)])
=============================================================================
