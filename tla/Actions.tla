------------------------------- MODULE Actions -------------------------------
(***************************************************************************)
(* The parser of action buttons in their simple format, e.g.               *)
(*    view, "Look, commas", https://ntfy.sh; action=broadcast, label=Go    *)
(* (server/actions.go).  It advances pos through the input, one section    *)
(* ("key=value") after the other, and validates the actions at the end.    *)
(*                                                                         *)
(* A character of the model stands for one of the input, but keywords are  *)
(* shortened to a letter: the keys a(ction), l(abel), u(rl), m(ethod),     *)
(* b(ody), c(lear) and e for any headers. or extras. key; the actions      *)
(* v(iew), h(ttp), d (broadcast); the method g(et); t and f for booleans.  *)
(* The JSON format is encoding/json's.                                     *)
(***************************************************************************)
EXTENDS Naturals, Sequences, SequencesExt

CONSTANTS Buttons,   \* lists of buttons, each as its fields and how they are written
          None

VARIABLES meant,     \* history: the buttons that the input was written for
          input, pos,
          section,   \* the number of the section in its action
          action,    \* the action that is being parsed
          actions,   \* those before it
          outcome    \* "parsing", "ok" or "error"

vars == <<meant, input, pos, section, action, actions, outcome>>

Keys == {"a", "l", "u", "m", "b", "c", "e"}
Letters == Keys \cup {"v", "h", "d", "g", "t", "f", "x", "y"}
Quotes == {"\"", "'"}
NUL == "NUL"

actionsMax == 3
actionsWithURL == {<<"v">>, <<"h">>}
actionsAll == actionsWithURL \cup {<<"d">>}
newAction == [k \in Keys |-> <<>>]

-----------------------------------------------------------------------------
(* Helpers of the parser *)

\* The character at a position.  At the end of the input peek returns NUL, of width 0.
peek(p) == IF p <= Len(input) THEN input[p] ELSE NUL
Past(p) == IF p <= Len(input) THEN p + 1 ELSE p

SectionEnds == {NUL, ";", ","}
isSectionEnd(r) == r \in SectionEnds
isLastSection(r) == r \in {NUL, ";"}

\* The first position from p on with one of the characters, or with another one; the end
\* has NUL.
FirstIn(p, chars) ==
  CHOOSE q \in p .. Len(input) + 1 : peek(q) \in chars /\ \A i \in p .. q - 1 : peek(i) \notin chars
FirstNotIn(p, chars) ==
  CHOOSE q \in p .. Len(input) + 1 : peek(q) \notin chars /\ \A i \in p .. q - 1 : peek(i) \in chars

slurpSpaces(p) == FirstNotIn(p, {" "})

Trim(s) ==
  LET kept == {i \in DOMAIN s : s[i] # " "}
  IN SubSeq(s, CHOOSE i \in kept \cup {1} : \A j \in kept : i <= j,
               CHOOSE i \in kept \cup {0} : \A j \in kept : i >= j)

\* ReplaceAll of an escaped quote by the quote.
Unescape(s, quote) ==
  LET kept == SelectSeq([i \in DOMAIN s |-> i],
                        LAMBDA i : ~ (s[i] = "\\" /\ i < Len(s) /\ s[i + 1] = quote))
  IN [i \in DOMAIN kept |-> s[kept[i]]]

-----------------------------------------------------------------------------
(* A section: key, value, whether it is the last one, and where the next begins *)

\* The key at p and the position after "=", or no key and p itself.
parseKey(p) ==
  LET word == FirstNotIn(p, Letters)
      eq == slurpSpaces(word)
  IN IF word > p /\ peek(eq) = "="
     THEN [key |-> SubSeq(input, p, word - 1), next |-> slurpSpaces(eq + 1)]
     ELSE [key |-> <<>>, next |-> p]

Failed == [ok |-> FALSE, value |-> <<>>, last |-> TRUE, next |-> 0]

parseValue(p) ==
  LET end == FirstIn(p, SectionEnds)
  IN [ok |-> TRUE, value |-> Trim(SubSeq(input, p, end - 1)),
      last |-> isLastSection(peek(end)), next |-> Past(end)]

\* Mutant: the closing quote is the first one, escaped or not.
parseQuotedValueShort(p) ==
  LET quote == peek(p)
      close == FirstIn(p + 1, {NUL, quote})
      end == slurpSpaces(close + 1)
  IN IF peek(close) = NUL \/ ~ isSectionEnd(peek(end)) THEN Failed
     ELSE [ok |-> TRUE, value |-> Unescape(SubSeq(input, p + 1, close - 1), quote),
           last |-> isLastSection(peek(end)), next |-> Past(end)]

\* From the opening quote at p to the first one that is not escaped.  Nothing but spaces
\* may follow before the end of the section.
parseQuotedValue(p) ==
  LET quote == peek(p)
      closes(q) == peek(q) = NUL \/ (peek(q) = quote /\ (q = p + 1 \/ peek(q - 1) # "\\"))
      close == CHOOSE q \in p + 1 .. Len(input) + 1 : closes(q) /\ \A i \in p + 1 .. q - 1 : ~ closes(i)
      end == slurpSpaces(close + 1)
  IN IF peek(close) = NUL \/ ~ isSectionEnd(peek(end)) THEN Failed
     ELSE [ok |-> TRUE, value |-> Unescape(SubSeq(input, p + 1, close - 1), quote),
           last |-> isLastSection(peek(end)), next |-> Past(end)]

\* The value at p, which may be missing.
Value(p) ==
  IF isSectionEnd(peek(p))
  THEN [ok |-> TRUE, value |-> <<>>, last |-> isLastSection(peek(p)), next |-> Past(p)]
  ELSE IF peek(p) \in Quotes THEN parseQuotedValue(p) ELSE parseValue(p)

\* populateAction: keys may be left out in the first two sections, and in the third of an
\* action with a URL.
ExpandKey(key) ==
  IF key # <<>> THEN key
  ELSE IF section = 0 THEN <<"a">>
  ELSE IF section = 1 THEN <<"l">>
  ELSE IF section = 2 /\ action["a"] \in actionsWithURL THEN <<"u">>
  ELSE <<>>

Unknown(key, value) ==
  \/ key \notin {<<k>> : k \in Keys}
  \/ key = <<"c">> /\ value \notin {<<"t">>, <<"f">>}

parseSection ==
  /\ outcome = "parsing" /\ (section > 0 \/ pos <= Len(input))
  /\ LET k == parseKey(slurpSpaces(pos))
         v == Value(k.next)
         key == ExpandKey(k.key)
         populated == [action EXCEPT ![key[1]] = v.value]
     IN \/ /\ ~ v.ok \/ Unknown(key, v.value)
           /\ outcome' = "error"
           /\ UNCHANGED <<pos, section, action, actions>>
        \/ /\ v.ok /\ ~ Unknown(key, v.value)
           /\ pos' = slurpSpaces(v.next)
           /\ section' = IF v.last THEN 0 ELSE section + 1
           /\ action' = IF v.last THEN newAction ELSE populated
           /\ actions' = IF v.last THEN Append(actions, populated) ELSE actions
           /\ UNCHANGED outcome
  /\ UNCHANGED <<meant, input>>

\* The checks of parseActions on one action.
Valid(a) ==
  /\ a["a"] \in actionsAll /\ a["l"] # <<>>
  /\ a["a"] \in actionsWithURL => a["u"] # <<>>
  /\ ~ (a["a"] = <<"h">> /\ a["m"] = <<"g">> /\ a["b"] # <<>>)

Finish ==
  /\ outcome = "parsing" /\ section = 0 /\ pos > Len(input)
  /\ outcome' = IF Len(actions) <= actionsMax /\ \A i \in DOMAIN actions : Valid(actions[i])
                THEN "ok" ELSE "error"
  /\ UNCHANGED <<meant, input, pos, section, action, actions>>

-----------------------------------------------------------------------------
(* Inputs: buttons written down the way the documentation describes *)

\* A value in quotes, or as it is.
Written(v, quote) ==
  IF quote = None THEN v
  ELSE <<quote>>
       \o FlattenSeq([i \in DOMAIN v |-> IF v[i] = quote THEN <<"\\", quote>> ELSE <<v[i]>>])
       \o <<quote>>

\* A value that must be quoted: it has separators, or would be taken for a key or a quote,
\* or begins or ends with a space.
NeedsQuotes(v, keyed) ==
  \/ \E i \in DOMAIN v : isSectionEnd(v[i])
  \/ v # <<>> /\ (v[1] \in Quotes \cup {" "} \/ v[Len(v)] = " ")
  \/ ~ keyed /\ "=" \in {v[i] : i \in DOMAIN v}

\* A button has its fields, the order they are written in, and for each of them whether
\* its key is written, its quotes, and the spaces around it.
SectionText(b, i) ==
  LET f == b.order[i]
      s == b.style[i]
  IN s.space \o (IF s.keyed THEN <<f>> \o s.space \o <<"=">> \o s.space ELSE <<>>)
             \o Written(b.fields[f], s.quote) \o s.space

ButtonText(b) ==
  FlattenSeq([i \in DOMAIN b.order |-> (IF i = 1 THEN <<>> ELSE <<",">>) \o SectionText(b, i)])

Text(list) == FlattenSeq([i \in DOMAIN list |-> (IF i = 1 THEN <<>> ELSE <<";">>) \o ButtonText(list[i])])

Init ==
  /\ \E list \in Buttons :
       /\ meant = [i \in DOMAIN list |-> list[i].fields]
       /\ input = Trim(Text(list))
  /\ pos = 1 /\ section = 0 /\ action = newAction /\ actions = <<>> /\ outcome = "parsing"

Next == parseSection \/ Finish

Spec == Init /\ [][Next]_vars

-----------------------------------------------------------------------------

\* Buttons that are written as docs/publish.md:1296 describes are read as they were meant,
\* whatever commas, semicolons, quotes, spaces and "=" their values have and whichever
\* quotes are around them, and are refused exactly if there are too many or one is not
\* valid.  (Values have no backslash: one before a quote or at the end of a quoted value
\* cannot be written.)
ReadAsWritten ==
  outcome # "parsing" =>
    /\ outcome = "ok" <=> Len(meant) <= actionsMax /\ \A i \in DOMAIN meant : Valid(meant[i])
    /\ outcome = "ok" => actions = meant
==============================================================================
