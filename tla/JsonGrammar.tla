---------------------------- MODULE JsonGrammar ----------------------------
(***************************************************************************)
(* The JSON grammar of RFC 8259 as a pushdown automaton that reads one     *)
(* byte at a time: the reference the push parser is compared with.  Bytes  *)
(* are one-character strings.  Besides the grammar, the automaton notes    *)
(* whether every high surrogate escape was directly followed by a low one, *)
(* and, on request, the decoded spelling of the current object key.        *)
(***************************************************************************)
EXTENDS Integers, Sequences, SequencesExt

Quote == "\""
Backslash == "\\"
NonZero == {"1", "2", "3", "4", "5", "6", "7", "8", "9"}
Digits == NonZero \cup {"0"}
Spaces == {" ", "\t", "\n", "\r"}
Controls == {"\t", "\n", "\r", "\f"}
SimpleEscapes == {Quote, Backslash, "/", "b", "f", "n", "r", "t"}

LowerHex == <<"0", "1", "2", "3", "4", "5", "6", "7", "8", "9",
              "a", "b", "c", "d", "e", "f">>
UpperHex == <<"A", "B", "C", "D", "E", "F">>
HexDigits == Range(LowerHex) \cup Range(UpperHex)
HexValue(c) ==
  CHOOSE v \in 0..15 : LowerHex[v + 1] = c \/ (v > 9 /\ UpperHex[v - 9] = c)

IsHigh(cp) == 55296 <= cp /\ cp <= 56319     \* D800..DBFF
IsLow(cp)  == 56320 <= cp /\ cp <= 57343     \* DC00..DFFF

Literals == [true  |-> <<"t", "r", "u", "e">>,
             false |-> <<"f", "a", "l", "s", "e">>,
             null  |-> <<"n", "u", "l", "l">>]
LiteralOf(c) == {l \in DOMAIN Literals : Head(Literals[l]) = c}

\* What decoded text is made of: a byte itself, or one symbol for a control
\* character, for a code point written as an escape, for an unpaired
\* surrogate.  Of the letters an instance writes the letter a alone as an
\* escape.
Unescape(c) == IF c \in {Quote, Backslash, "/"} THEN c ELSE "control"
CodePoint == "codepoint"
Unpaired == "surrogate"
DecodedPoint(cp) == IF cp = 97 THEN "a" ELSE CodePoint

\* A document not yet begun; spell: keep the spelling of object keys.
GrammarStart(spell) ==
  [ctl |-> "root", stack |-> <<>>, want |-> <<>>, left |-> 0, cp |-> 0,
   key |-> FALSE, spell |-> spell, text |-> <<>>, high |-> FALSE,
   paired |-> TRUE, past |-> FALSE]

Dead(g) == [GrammarStart(g.spell) EXCEPT !.ctl = "dead", !.paired = g.paired,
                                          !.past = g.past]

Spell(g, sym) == IF g.key /\ g.spell THEN [g EXCEPT !.text = Append(@, sym)] ELSE g

\* A high surrogate that no low surrogate followed.
BreakPair(g) ==
  IF g.high THEN Spell([g EXCEPT !.high = FALSE, !.paired = FALSE], Unpaired) ELSE g

EndValue(g) == [g EXCEPT !.ctl = IF g.stack = <<>> THEN "done" ELSE "after"]
Close(g) == EndValue([g EXCEPT !.stack = Front(@)])

StartString(g, isKey) ==
  [g EXCEPT !.ctl = "string", !.key = isKey, !.high = FALSE, !.text = <<>>]

StartValue(g, c) ==
  LET h == [g EXCEPT !.text = <<>>] IN
  CASE c = "{"       -> [h EXCEPT !.ctl = "firstKey", !.stack = Append(@, "object")]
    [] c = "["       -> [h EXCEPT !.ctl = "firstItem", !.stack = Append(@, "array")]
    [] c = Quote     -> StartString(g, FALSE)
    [] c = "-"       -> [h EXCEPT !.ctl = "minus"]
    [] c = "0"       -> [h EXCEPT !.ctl = "zero"]
    [] c \in NonZero -> [h EXCEPT !.ctl = "int"]
    [] LiteralOf(c) # {} ->
         [h EXCEPT !.ctl = "literal",
                   !.want = Tail(Literals[CHOOSE l \in LiteralOf(c) : TRUE])]
    [] OTHER         -> Dead(g)

NumberStates == {"minus", "zero", "int", "dot", "frac", "exp", "sign", "power"}

\* Where a byte takes an unfinished number, "end" if it is not part of it.
NumberStep(s, c) ==
  CASE s = "minus" /\ c = "0"                                -> "zero"
    [] s = "minus" /\ c \in NonZero                          -> "int"
    [] s = "int" /\ c \in Digits                             -> "int"
    [] s \in {"zero", "int"} /\ c = "."                      -> "dot"
    [] s \in {"dot", "frac"} /\ c \in Digits                 -> "frac"
    [] s \in {"zero", "int", "frac"} /\ c \in {"e", "E"}     -> "exp"
    [] s = "exp" /\ c \in {"+", "-"}                         -> "sign"
    [] s \in {"exp", "sign", "power"} /\ c \in Digits        -> "power"
    [] OTHER                                                 -> "end"

NumberEnds == {"zero", "int", "frac", "power"}

\* A byte inside a string.
StringStep(g, c) ==
  CASE g.ctl = "string" /\ c = Quote ->
         IF g.key THEN [BreakPair(g) EXCEPT !.ctl = "colon"]
                  ELSE EndValue(BreakPair(g))
    [] g.ctl = "string" /\ c = Backslash -> [g EXCEPT !.ctl = "escape"]
    [] g.ctl = "string" /\ c \notin Controls \cup {Quote, Backslash} ->
         Spell(BreakPair(g), c)
    [] g.ctl = "escape" /\ c = "u" ->
         [g EXCEPT !.ctl = "hex", !.left = 4, !.cp = 0]
    [] g.ctl = "escape" /\ c \in SimpleEscapes ->
         Spell([BreakPair(g) EXCEPT !.ctl = "string"], Unescape(c))
    [] g.ctl = "hex" /\ c \in HexDigits ->
         LET cp == g.cp * 16 + HexValue(c)
             h  == [g EXCEPT !.cp = IF g.left = 1 THEN 0 ELSE cp, !.left = @ - 1,
                             !.ctl = IF g.left = 1 THEN "string" ELSE "hex"] IN
         CASE g.left > 1 -> h
           [] g.left = 1 /\ IsHigh(cp) -> [BreakPair(h) EXCEPT !.high = TRUE]
           [] g.left = 1 /\ IsLow(cp) /\ g.high ->
                Spell([h EXCEPT !.high = FALSE], CodePoint)
           [] g.left = 1 /\ IsLow(cp) /\ ~g.high ->
                Spell([h EXCEPT !.paired = FALSE], Unpaired)
           [] OTHER -> Spell(BreakPair(h), DecodedPoint(cp))
    [] OTHER -> Dead(g)

\* A byte between the tokens of a container.
ContainerStep(g, c) ==
  CASE g.ctl \in {"firstKey", "key"} /\ c = Quote -> StartString(g, TRUE)
    [] g.ctl = "firstKey" /\ c = "}"              -> Close(g)
    [] g.ctl = "colon" /\ c = ":"                 -> [g EXCEPT !.ctl = "value"]
    [] g.ctl = "firstItem" /\ c = "]"             -> Close(g)
    [] g.ctl \in {"value", "item"}                -> StartValue(g, c)
    [] g.ctl = "firstItem" /\ c # "]"             -> StartValue(g, c)
    [] g.ctl = "after" /\ c = "," ->
         [g EXCEPT !.ctl = IF Last(g.stack) = "object" THEN "key" ELSE "item"]
    [] g.ctl = "after" /\ c = (IF Last(g.stack) = "object" THEN "}" ELSE "]") ->
         Close(g)
    [] OTHER -> Dead(g)

\* A byte where no token is open.
BetweenStep(g, c) ==
  CASE g.ctl = "done" ->
         [(IF c \in Spaces THEN g ELSE Dead(g)) EXCEPT !.past = TRUE]
    [] g.ctl # "done" /\ c \in Spaces -> g
    [] g.ctl = "root" /\ c \notin Spaces -> StartValue(g, c)
    [] OTHER -> ContainerStep(g, c)

GrammarStep(g, c) ==
  CASE g.ctl = "dead" -> g
    [] g.ctl \in {"string", "escape", "hex"} -> StringStep(g, c)
    [] g.ctl = "literal" ->
         IF c # Head(g.want) THEN Dead(g)
         ELSE IF Len(g.want) = 1 THEN EndValue([g EXCEPT !.want = <<>>])
         ELSE [g EXCEPT !.want = Tail(@)]
    [] g.ctl \in NumberStates ->
         LET s == NumberStep(g.ctl, c) IN
         IF s # "end" THEN [g EXCEPT !.ctl = s]
         ELSE IF g.ctl \in NumberEnds THEN BetweenStep(EndValue(g), c)
         ELSE Dead(g)
    [] OTHER -> BetweenStep(g, c)

\* The automaton after a run of bytes.
GrammarRun(g, bytes) ==
  LET run[k \in 0..Len(bytes)] == IF k = 0 THEN g ELSE GrammarStep(run[k - 1], bytes[k])
  IN  run[Len(bytes)]

\* Some continuation is JSON; the bytes read are a JSON document.
Alive(g) == g.ctl # "dead"
Complete(g) == g.ctl = "done" \/ (g.stack = <<>> /\ g.ctl \in NumberEnds)

=============================================================================
