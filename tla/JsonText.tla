------------------------------ MODULE JsonText ------------------------------
(***************************************************************************)
(* What the readers and the writers of the library do alike to the text    *)
(* of a JSON value: judge a number, decode an escape, escape decoded text. *)
(* Bytes are one-character strings; Bs and Soh stand for the bytes 8 and   *)
(* 1, and the bytes of a UTF-8 sequence longer than one byte are "lead"    *)
(* and "cont".                                                             *)
(***************************************************************************)
EXTENDS JsonGrammar

NumberBytes == Digits \cup {"+", "-", ".", "e", "E"}

\* The index after the digits of t that start at i.
AfterDigits(t, i) ==
  CHOOSE j \in i..(Len(t) + 1) : /\ \A k \in i..(j - 1) : t[k] \in Digits
                                 /\ j = Len(t) + 1 \/ t[j] \notin Digits

ByteAt(t, i, set) == i <= Len(t) /\ t[i] \in set

\* t is, from i on, what may follow in a number: digits to the end, an
\* exponent, a fraction, an integer.
DigitsAt(t, i) == ByteAt(t, i, Digits) /\ AfterDigits(t, i) = Len(t) + 1

IsExponentAt(t, i) ==
  \/ i = Len(t) + 1
  \/ /\ ByteAt(t, i, {"e", "E"})
     /\ DigitsAt(t, IF ByteAt(t, i + 1, {"+", "-"}) THEN i + 2 ELSE i + 1)

IsFractionAt(t, i) ==
  IF ByteAt(t, i, {"."})
  THEN ByteAt(t, i + 1, Digits) /\ IsExponentAt(t, AfterDigits(t, i + 1))
  ELSE IsExponentAt(t, i)

IsIntegerAt(t, i) ==
  /\ ByteAt(t, i, Digits)
  /\ IsFractionAt(t, IF t[i] = "0" THEN i + 1 ELSE AfterDigits(t, i))

\* Mutant: any run of number bytes with a digit is a number.
IsValidJsonNumber_AnyRun(t) == \E i \in DOMAIN t : t[i] \in Digits

\* is_valid_json_number.
IsValidJsonNumber(t) == IsIntegerAt(t, IF ByteAt(t, 1, {"-"}) THEN 2 ELSE 1)

\* lonejson__generator_emit_escape: a control byte without a short escape is
\* written as a \u escape.
Soh == "soh"
Bs == "bs"
EscapeLetter == [c \in Controls \cup {Bs} |->
                   CASE c = "\t" -> "t" [] c = "\n" -> "n" [] c = "\r" -> "r"
                     [] c = "\f" -> "f" [] c = Bs   -> "b"]
NeedsEscape(c) == c \in {Quote, Backslash, Soh, Bs} \cup Controls
EscapeOf(c) ==
  CASE c \in {Quote, Backslash}  -> <<Backslash, c>>
    [] c \in Controls \cup {Bs}  -> <<Backslash, EscapeLetter[c]>>
    [] c = Soh                   -> <<Backslash, "u", "0", "0", "0", "1">>
    [] OTHER                     -> <<c>>

\* The byte an escape of one letter stands for.
DecodeEscape(c) ==
  IF c \in {Quote, Backslash, "/"} THEN c
  ELSE CHOOSE b \in DOMAIN EscapeLetter : EscapeLetter[b] = c

\* lonejson__utf8_append.  Of the code points of one byte an instance writes
\* as an escape only 1 and 97, the letter a.
Utf8(cp) ==
  CASE cp = 1     -> <<Soh>>
    [] cp = 97    -> <<"a">>
    [] cp \in 128..2047    -> <<"lead", "cont">>
    [] cp \in 2048..65535  -> <<"lead", "cont", "cont">>
    [] cp > 65535          -> <<"lead", "cont", "cont", "cont">>

\* lonejson__emit_escaped_bytes and _fragment.
Escaped(data) == FoldLeft(LAMBDA acc, c : acc \o EscapeOf(c), <<>>, data)

=============================================================================
