--------------------------- MODULE MCParserEngine ---------------------------
(***************************************************************************)
(* Instances of ParserEngine: a map with an integer `a` and a fixed        *)
(* integer array `n`; one stream that cuts numbers, literals and           *)
(* containers everywhere, one that does the same to keys and strings.      *)
(***************************************************************************)
EXTENDS ParserEngine, TLC

MCFieldKind == <<"a">> :> "i64" @@ <<"n">> :> "i64_array"
MCRequired == {<<"a">>}

Bytes(set) == {<<c>> : c \in set}

Outline ==
  Bytes({"{", "}", "[", "]", ":", ",", "0", "8", "-", ".", "e", "n", " "})
    \cup {<<Quote, "a", Quote, ":">>, <<Quote, "n", Quote, ":", "[">>,
          <<Quote, "n", Quote>>, <<Quote, "x", Quote>>, <<"8", ",">>,
          <<"8", "8", ",">>, <<"8", "8", "]">>, <<"8", "e", "}">>,
          <<"t", "r", "u", "e">>, <<"u", "l">>, <<"l">>}

HighEscape == <<Backslash, "u", "d", "8", "0", "0">>
LowEscape == <<Backslash, "u", "d", "C", "0", "0">>
PlainEscape == <<Backslash, "u", "0", "0", "6", "1">>

Text ==
  Bytes({"{", Quote, Backslash, "a", "\n"})
    \cup {<<":", "8", "}">>, <<"a", Quote>>, <<Backslash, "n">>,
          <<"u", "d", "8", "0">>, <<"u", "d", "C", "0">>, <<"u", "0", "0", "6">>,
          HighEscape, LowEscape, PlainEscape,
          HighEscape \o LowEscape, HighEscape \o PlainEscape}

MCStreams == {Outline, Text}

=============================================================================
