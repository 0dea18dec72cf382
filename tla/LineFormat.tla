----------------------------- MODULE LineFormat -----------------------------
(***************************************************************************)
(* The text of a point: how a TSM key is taken apart (internal/series) and *)
(* how the point is written as a line of line protocol (internal/lp).      *)
(* Escaping is what can go wrong here, so this module, unlike the others,  *)
(* works on characters: a text is a sequence of them.                      *)
(*                                                                         *)
(* InfluxDB stores a point (external), the tool parses the stored key and  *)
(* writes the line, the importer reads the line (external).                *)
(***************************************************************************)
EXTENDS Integers, SequencesExt

CONSTANTS
  Points   \* the points InfluxDB may hold, each of the form
           \* [measurement : Text, tags : Seq(<<Text, Text>>),
           \*  fields : Seq([name : Text, type : Types, text : Text])],
           \* where type "number" is a float or a boolean

VARIABLES
  stage,   \* "stored", "parsed" or "written"
  point,   \* the point InfluxDB was given
  parsed,  \* for each field, the key ParseKey returned
  line     \* what AppendPoint wrote

vars == <<stage, point, parsed, line>>

Backslash == "\\"
Quote == "\""
FieldSeparator == "#!~#"   \* as one character

-----------------------------------------------------------------------------
(* Escaping.                                                               *)

Escape(s, special) ==
  FlattenSeq([i \in DOMAIN s |-> IF s[i] \in special THEN <<Backslash, s[i]>> ELSE <<s[i]>>])

EscapeMeasurement(s) == Escape(s, {",", " "})

EscapeTag(s) == Escape(s, {",", " ", "="})

EscapeStringField(s) == Escape(s, {Quote, Backslash})

\* ReplaceAll of each `\c` by `c`: a backslash before any other character is
\* data.  A backslash that is dropped never makes a new sequence, so the
\* order of the replacements does not matter.
Unescape(s, special) ==
  LET Dropped(i) == s[i] = Backslash /\ i < Len(s) /\ s[i + 1] \in special
  IN  FlattenSeq([i \in DOMAIN s |-> IF Dropped(i) THEN <<>> ELSE <<s[i]>>])

UnescapeMeasurement(s) == Unescape(s, {",", " "})

UnescapeTagAny(s) == SelectSeq(s, LAMBDA c : c # Backslash)   \* Slip: greedy
UnescapeTag(s) == Unescape(s, {",", " ", "="})

-----------------------------------------------------------------------------
(* Splitting.                                                              *)

Pieces(s, cuts) ==
  LET at == <<0>> \o SetToSortSeq(cuts, <) \o <<Len(s) + 1>>
  IN  [n \in 1 .. Len(at) - 1 |-> SubSeq(s, at[n] + 1, at[n + 1] - 1)]

BackslashesBefore(s, i) == i - 1 - Max({0} \cup {j \in 1 .. i - 1 : s[j] # Backslash})

\* A backslash takes the next character with it, another backslash included.
Escaped(s, i) == BackslashesBefore(s, i) % 2 = 1

SplitUnescaped(s, sep) == Pieces(s, {i \in DOMAIN s : s[i] = sep /\ ~Escaped(s, i)})

\* A token that is not key=value keeps its text as a key with no value.
SplitTag(token) ==
  LET kv == SplitUnescaped(token, "=")
  IN  IF Len(kv) = 2 THEN <<UnescapeTag(kv[1]), UnescapeTag(kv[2])>>
      ELSE <<UnescapeTag(token), <<>>>>

SplitSeries(s) ==
  LET parts == SplitUnescaped(s, ",")
  IN  [measurement |-> UnescapeMeasurement(Head(parts)),
       tags        |-> [n \in 1 .. Len(parts) - 1 |-> SplitTag(parts[n + 1])]]

\* The first separator ends the series; a key without one is an error, which
\* no stored key meets.
ParseKey(raw) ==
  LET sep == Min({i \in DOMAIN raw : raw[i] = FieldSeparator})
  IN  [series |-> SplitSeries(SubSeq(raw, 1, sep - 1)),
       field  |-> SubSeq(raw, sep + 1, Len(raw))]

-----------------------------------------------------------------------------
(* Writing.                                                                *)

FieldValue(f) ==
  CASE f.type = "integer"  -> f.text \o <<"i">>
    [] f.type = "unsigned" -> f.text \o <<"u">>
    [] f.type = "string"   -> <<Quote>> \o EscapeStringField(f.text) \o <<Quote>>
    [] OTHER               -> f.text

Assignments(pairs) ==
  FlattenSeq([n \in DOMAIN pairs |-> <<",">> \o pairs[n][1] \o <<"=">> \o pairs[n][2]])

\* The line without its time stamp, which has no text to escape.
AppendPoint(series, fields) ==
  EscapeMeasurement(series.measurement)
  \o Assignments([n \in DOMAIN series.tags |->
                    <<EscapeTag(series.tags[n][1]), EscapeTag(series.tags[n][2])>>])
  \o <<" ">>
  \o Tail(Assignments([n \in DOMAIN fields |->
                         <<EscapeTag(fields[n].name), FieldValue(fields[n])>>]))

-----------------------------------------------------------------------------
(* InfluxDB and the importer (external).                                   *)

\* The key InfluxDB stores for one field of a point: names are escaped with
\* line protocol's rules, a backslash that escapes nothing is left alone.
StoredKey(p, f) ==
  Escape(p.measurement, {",", " "})
  \o Assignments([n \in DOMAIN p.tags |-> <<Escape(p.tags[n][1], {",", " ", "="}),
                                            Escape(p.tags[n][2], {",", " ", "="})>>])
  \o <<FieldSeparator>> \o f.name

\* Where a reader of line protocol cuts: at a separator with no backslash
\* directly before it.
Bare(s, sep) == {i \in DOMAIN s : s[i] = sep /\ ~(i > 1 /\ s[i - 1] = Backslash)}

\* A string opens right after the "=" of its field and ends at the next
\* quote that is not escaped; elsewhere a quote is a plain character.
Inside(s) ==
  LET inside[i \in 0 .. Len(s)] ==
        IF i = 0 THEN FALSE
        ELSE IF inside[i - 1] THEN s[i] # Quote \/ Escaped(s, i)
        ELSE s[i] = Quote /\ (i - 1) \in Bare(s, "=")
  IN  inside

ReadSeries(s) ==
  LET parts == Pieces(s, Bare(s, ","))
      Tag(t) == LET kv == Pieces(t, Bare(t, "="))
                IN  <<Unescape(kv[1], {",", " ", "="}), Unescape(kv[2], {",", " ", "="})>>
  IN  [measurement |-> Unescape(Head(parts), {",", " "}),
       tags        |-> [n \in 1 .. Len(parts) - 1 |-> Tag(parts[n + 1])]]

\* A string's value ends at its closing quote; its escapes are `\"` and `\\`.
ReadString(s) ==
  LET body == SubSeq(s, 2, Len(s) - 1)
  IN  FlattenSeq([i \in DOMAIN body |->
                    IF body[i] = Backslash /\ ~Escaped(body, i) THEN <<>> ELSE <<body[i]>>])

ReadField(s) ==
  LET eq   == Min(Bare(s, "="))
      text == SubSeq(s, eq + 1, Len(s))
      type == CASE Head(text) = Quote -> "string" [] Last(text) = "i" -> "integer"
                [] Last(text) = "u" -> "unsigned" [] OTHER -> "number"
  IN  [name |-> Unescape(SubSeq(s, 1, eq - 1), {",", " ", "="}),
       type |-> type,
       text |-> CASE type = "string" -> ReadString(text)
                  [] type = "number" -> text
                  [] OTHER           -> Front(text)]

ReadLine(s) ==
  LET blank  == Min(Bare(s, " "))
      rest   == SubSeq(s, blank + 1, Len(s))
      inside == Inside(rest)
      fields == Pieces(rest, {i \in Bare(rest, ",") : ~inside[i]})
      series == ReadSeries(SubSeq(s, 1, blank - 1))
  IN  [measurement |-> series.measurement, tags |-> series.tags,
       fields |-> [n \in DOMAIN fields |-> ReadField(fields[n])]]
-----------------------------------------------------------------------------
(* The life of one point.                                                  *)

Init == /\ stage = "stored" /\ point \in Points
        /\ parsed = <<>> /\ line = <<>>

Parse == /\ stage = "stored"
         /\ stage' = "parsed"
         /\ parsed' = [n \in DOMAIN point.fields |-> ParseKey(StoredKey(point, point.fields[n]))]
         /\ UNCHANGED <<point, line>>

\* The fields of a row all come from keys with the same series.
Write == /\ stage = "parsed"
         /\ stage' = "written"
         /\ line' = AppendPoint(parsed[1].series,
                       [n \in DOMAIN parsed |-> [point.fields[n] EXCEPT !.name = parsed[n].field]])
         /\ UNCHANGED <<point, parsed>>

Next == Parse \/ Write

Spec == Init /\ [][Next]_vars

-----------------------------------------------------------------------------
(* Properties.                                                             *)

Special == {",", " ", "="}

\* No backslash stands right before a character that will be escaped.  Line
\* protocol cannot tell such a backslash from its own.
Unambiguous(t) == \A i \in 1 .. Len(t) - 1 : t[i] = Backslash => t[i + 1] \notin Special

NamesOf(p) == {p.measurement} \cup UNION {{tag[1], tag[2]} : tag \in ToSet(p.tags)}
              \cup {f.name : f \in ToSet(p.fields)}

\* What was stored is what the importer reads: measurement, tags in their
\* order, field names, types and values, whatever commas, blanks, equal
\* signs, quotes and backslashes they hold, short of the ambiguous ones.
LineReadsBack ==
  stage = "written" /\ (\A t \in NamesOf(point) : Unambiguous(t)) => ReadLine(line) = point

\* Splitting ignores a comma that has a backslash before it and no other, so
\* a key yields a tag for each of the rest ("ignoring sep preceded by a
\* backslash", internal/series/series.go:79).
SplitsAsDocumented ==
  \A n \in DOMAIN parsed :
    LET key    == StoredKey(point, point.fields[n])
        series == SubSeq(key, 1, Min({i \in DOMAIN key : key[i] = FieldSeparator}) - 1)
    IN  Len(parsed[n].series.tags) = Cardinality(Bare(series, ","))
=============================================================================
