---------------------------------- MODULE Uci ----------------------------------
(***************************************************************************)
(* The text of the configuration file: how parseUCI reads it and how       *)
(* renderUCI writes it, between which an edit happens (editConfig).  The   *)
(* letters are the ones the tokenizer tells apart, and the words config,   *)
(* option and list count as a letter each.  Which types, options and       *)
(* values make sense is not looked at here (see Sections).                 *)
(***************************************************************************)
EXTENDS Integers, SequencesExt

CONSTANTS
  Written,   \* the texts there may be, written by hand
  Keys,      \* names of options and lists
  Values,    \* what the edits write
  MaxWrites

Letters == {"config", "option", "list", "letter", "space", "hash",
            "quote", "doublequote", "backslash", "newline"}
Quotes == {"quote", "doublequote"}

NoQuote == "none"

(* The code has no line break in the name of an option.                    *)
ASSUME UciConstants ==
  /\ MaxWrites \in Nat
  /\ Written \subseteq Seq(Letters) /\ Values \subseteq Seq(Letters)
  /\ Keys \subseteq Seq(Letters \ {"newline"})

(* What a function returns: a value, or an error without one.              *)
Got(value) == [ok |-> TRUE, value |-> value]
Failed == [ok |-> FALSE, value |-> << >>]

-----------------------------------------------------------------------------
(* tokenizeUCI: the tokens of a line.                                      *)

Put(st, ch) == [st EXCEPT !.current = Append(@, ch), !.inToken = TRUE]

(* Between quotes; only double ones have escapes.                          *)
Quoted(st, ch) ==
  CASE st.quote = "doublequote" /\ ch = "backslash" -> [st EXCEPT !.escaped = TRUE]
    [] ch = st.quote -> [st EXCEPT !.quote = NoQuote]
    [] OTHER -> Put(st, ch)

(* A comment ends the line; a token it follows immediately takes its hash. *)
Unquoted(st, ch) ==
  CASE ch = "hash" -> [IF st.inToken THEN Put(st, ch) ELSE st EXCEPT !.finished = TRUE]
    [] ch \in Quotes -> [st EXCEPT !.quote = ch, !.inToken = TRUE]
    [] ch = "space" ->
         IF st.inToken
         THEN [st EXCEPT !.tokens = Append(@, st.current), !.current = << >>, !.inToken = FALSE]
         ELSE st
    [] OTHER -> Put(st, ch)

Scan(st, ch) ==
  CASE st.finished -> st
    [] ~st.finished /\ st.escaped -> [Put(st, ch) EXCEPT !.escaped = FALSE]
    [] ~st.finished /\ ~st.escaped /\ st.quote # NoQuote -> Quoted(st, ch)
    [] OTHER -> Unquoted(st, ch)

LineStart == [tokens |-> << >>, current |-> << >>, inToken |-> FALSE,
              quote |-> NoQuote, escaped |-> FALSE, finished |-> FALSE]

(* A line must not end between quotes.                                     *)
LineEnd(st) ==
  IF st.escaped \/ st.quote # NoQuote THEN Failed
  ELSE Got(IF st.inToken THEN Append(st.tokens, st.current) ELSE st.tokens)

TokenizeUCI(line) == LineEnd(FoldLeft(Scan, LineStart, line))

-----------------------------------------------------------------------------
(* parseUCI: the sections of a text.                                       *)

AddLetter(lines, ch) ==
  IF ch = "newline" THEN Append(lines, << >>)
  ELSE ReplaceAt(lines, Len(lines), Append(lines[Len(lines)], ch))

Lines(letters) == FoldLeft(AddLetter, << << >> >>, letters)

NoEntries == [k \in {} |-> << >>]
With(map, key, value) == [k \in DOMAIN map \cup {key} |-> IF k = key THEN value ELSE map[k]]

Section(typ, name) == [typ |-> typ, name |-> name, options |-> NoEntries, lists |-> NoEntries]

SetOption(sec, key, value) == [sec EXCEPT !.options = With(@, key, value)]

AddToList(sec, key, value) ==
  [sec EXCEPT !.lists =
     With(@, key, Append(IF key \in DOMAIN @ THEN @[key] ELSE << >>, value))]

(* What the tokens of one line do to the sections so far, of which the     *)
(* last is open.                                                           *)
ReadDirective(secs, t) ==
  LET open == secs[Len(secs)]
      Goes(sec) == Got(ReplaceAt(secs, Len(secs), sec))
  IN CASE t[1] = <<"config">> /\ Len(t) \in {2, 3} ->
            Got(Append(secs, Section(t[2], IF Len(t) = 3 THEN t[3] ELSE << >>)))
       [] t[1] = <<"option">> /\ Len(t) = 3 /\ secs # << >> /\ t[2] \notin DOMAIN open.options ->
            Goes(SetOption(open, t[2], t[3]))
       [] t[1] = <<"list">> /\ Len(t) = 3 /\ secs # << >> -> Goes(AddToList(open, t[2], t[3]))
       [] OTHER -> Failed

ReadTokens(read, tokens) ==
  IF ~read.ok \/ ~tokens.ok THEN Failed
  ELSE IF tokens.value = << >> THEN read
  ELSE ReadDirective(read.value, tokens.value)

ParseLine(read, line) == ReadTokens(read, TokenizeUCI(line))

ParseUCI(letters) == FoldLeft(ParseLine, Got(<< >>), Lines(letters))

-----------------------------------------------------------------------------
(* renderUCI: the keys come in a fixed order.                              *)

(* Defect: a double quote is escaped, a backslash is not.                  *)
QuoteOnly(value) ==
  LET Escape(ch) == IF ch = "doublequote" THEN <<"backslash", ch>> ELSE <<ch>>
  IN <<"doublequote">> \o FlattenSeq([i \in DOMAIN value |-> Escape(value[i])]) \o <<"doublequote">>

QuoteUCI(value) ==
  LET Escape(ch) == IF ch \in {"backslash", "doublequote"} THEN <<"backslash", ch>> ELSE <<ch>>
  IN <<"doublequote">> \o FlattenSeq([i \in DOMAIN value |-> Escape(value[i])]) \o <<"doublequote">>

Line(word, key, value) ==
  <<"space", word, "space">> \o QuoteUCI(key) \o <<"space">> \o QuoteUCI(value) \o <<"newline">>

RenderSection(sec) ==
  LET options == SetToSeq(DOMAIN sec.options)
      lists == SetToSeq(DOMAIN sec.lists)
      List(key) == FlattenSeq([i \in DOMAIN sec.lists[key] |-> Line("list", key, sec.lists[key][i])])
  IN <<"config", "space">> \o QuoteUCI(sec.typ)
       \o (IF sec.name = << >> THEN << >> ELSE <<"space">> \o QuoteUCI(sec.name)) \o <<"newline">>
       \o FlattenSeq([i \in DOMAIN options |-> Line("option", options[i], sec.options[options[i]])])
       \o FlattenSeq([i \in DOMAIN lists |-> List(lists[i])])

RenderUCI(secs) ==
  FlattenSeq([i \in DOMAIN secs |-> (IF i = 1 THEN << >> ELSE <<"newline">>) \o RenderSection(secs[i])])

-----------------------------------------------------------------------------
VARIABLES
  text,   \* of the file
  meant,  \* history: what was to be read from it
  writes  \* the edits that the bound MaxWrites leaves
textVars == <<text, meant, writes>>

(* What an edit may make of the sections: an option set, an entry added to *)
(* a list, a section added or removed.                                     *)
Edits(secs, v) ==
  {ReplaceAt(secs, i, SetOption(secs[i], k, v)) : i \in DOMAIN secs, k \in Keys}
    \cup {ReplaceAt(secs, i, AddToList(secs[i], k, v)) : i \in DOMAIN secs, k \in Keys}
    \cup {Append(secs, SetOption(Section(k, v), k, v)) : k \in Keys}
    \cup {RemoveAt(secs, i) : i \in DOMAIN secs}

(* editConfig; a file that cannot be read is left alone.                   *)
EditConfig ==
  /\ writes > 0 /\ writes' = writes - 1
  /\ ParseUCI(text).ok
  /\ \E v \in Values : \E next \in Edits(ParseUCI(text).value, v) :
       text' = RenderUCI(next) /\ meant' = Got(next)

TextInit ==
  /\ text \in Written
  /\ meant = ParseUCI(text)
  /\ writes = MaxWrites

TextNext == EditConfig

TextSpec == TextInit /\ [][TextNext]_textVars

-----------------------------------------------------------------------------
(* Properties.                                                             *)

SectionWords(sec) ==
  {sec.typ, sec.name} \cup {sec.options[k] : k \in DOMAIN sec.options}
    \cup UNION {ToSet(sec.lists[k]) : k \in DOMAIN sec.lists}

HasLineBreak(secs) ==
  \E i \in DOMAIN secs : \E w \in SectionWords(secs[i]) : Contains(w, "newline")

(* What is read back is what was meant to be written, whatever quotes,     *)
(* backslashes, hashes and blanks the values hold, over any edits; except  *)
(* for a line break, which renderUCI writes as it is and parseUCI, that    *)
(* goes line by line, cannot read: the file is then lost to every edit.    *)
RoundTrip == ParseUCI(text) = IF HasLineBreak(meant.value) THEN Failed ELSE meant
=============================================================================
