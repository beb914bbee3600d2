------------------------------ MODULE MCOutput ------------------------------
(***************************************************************************)
(* Instances of Output: few arguments for each call, one of each kind that *)
(* the code treats differently, and documents that make the streamed       *)
(* values of a mapped generator share its I/O buffer.                      *)
(***************************************************************************)
EXTENDS Output

MCKeys == {<<>>}
MCStrings == {<<Quote>>}
MCNumbers == {<<"-">>, <<"7">>}
MCScalars == {<<"1", "2">>}

Str(data) == [kind |-> "string", data |-> data]
Num(data) == [kind |-> "scalar", data |-> data]
Txt(source, data) == [kind |-> "text", source |-> source, data |-> data]
B64(source, bytes) == [kind |-> "base64", source |-> source, bytes |-> bytes]
Json(text) == [kind |-> "json", data |-> text, null |-> FALSE, reader |-> FALSE,
               failAt |-> Len(text) + 2]
JsonFails(text, at) == [Json(text) EXCEPT !.failAt = at, !.reader = TRUE]
JsonRead(text) == [Json(text) EXCEPT !.reader = TRUE]
JsonNull == [kind |-> "json", data |-> <<>>, null |-> TRUE, reader |-> FALSE, failAt |-> 2]
Arr(items) == [kind |-> "array", items |-> items]
Obj(items) == [kind |-> "map", items |-> items]
Member(key, val) == [key |-> key, omit |-> FALSE, val |-> val]
Omitted(key) == [key |-> key, omit |-> TRUE, val |-> [kind |-> "null"]]

MCReaders == {[data |-> <<"[", "1", "]">>, fails |-> FALSE],
              [data |-> <<"\n">>, fails |-> TRUE]}

Child(val) == [val |-> val, pretty |-> FALSE]
MCChildren ==
  {Child(Txt("fd", <<"a", Soh>>)), Child(B64("spooled", <<255>>)),
   Child(Json(<<"[", " ", "7", "]">>)), Child(Txt("fail", <<>>)),
   [val |-> Obj(<<Member(<<"m">>, Num(<<"1">>))>>), pretty |-> TRUE]}

MCPieces == {<<"[">>, <<Quote, Backslash>>, <<"n", Quote>>, <<",", " ", "t", "r">>,
             <<"u", "e", "]">>, <<"{", Quote, "k", Quote, ":", "2", "}">>}

MCItemLists == {[items |-> <<<<"1">>, <<"{", "}">>>>, end |-> "eof"],
                [items |-> <<<<"[", "]">>>>, end |-> "fail"]}

Doc(val, pretty, good) == [val |-> val, pretty |-> pretty, good |-> good]
Wide == Obj(<<Member(<<"a">>, Txt("fd", <<"x", Quote, "y">>)), Omitted(<<"o">>),
              Member(<<"b">>, B64("fd", <<1, 2, 3, 4>>)),
              Member(<<"c">>, Txt("file", <<"z", Soh>>)),
              Member(<<"d">>, B64("spooled", <<250, 251>>))>>)
Deep == Obj(<<Member(<<"a">>, Arr(<<Obj(<<Member(<<"b">>, Num(<<"1">>))>>), Obj(<<>>)>>)),
              Member(<<"c">>, Arr(<<>>)), Member(<<"d">>, [kind |-> "null"]),
              Member(<<"e">>, Arr(<<Str(<<Backslash, "\n">>), Str(<<>>)>>))>>)
Nested == Obj(<<Member(<<"a">>, Json(<<" ", "{", Quote, "k", Quote, " ", ":", "[", "1", "0",
                                       ",", "n", "u", "l", "l", "]", "}", " ">>)),
                Member(<<"b">>, JsonNull),
                Member(<<"c">>, Json(<<Quote, Backslash, "u", "d", "8", "0", "0",
                                       Backslash, "u", "d", "C", "0", "0", " ", Quote>>))>>)
Buried == Obj(<<Member(<<"a">>,
                  Arr(<<Obj(<<Member(<<"b">>, Json(<<"[", "]">>)),
                              Member(<<"c">>, Json(<<"[", "1", ",", "{", Quote, "k", Quote, ":",
                                                     "{", "}", "}", "]">>))>>)>>))>>)
Bad(text) == Obj(<<Member(<<"a">>, Json(text))>>)

MCDocuments ==
  {Doc(Wide, FALSE, TRUE), Doc(Wide, TRUE, TRUE), Doc(Deep, FALSE, TRUE),
   Doc(Deep, TRUE, TRUE), Doc(Nested, FALSE, TRUE), Doc(Nested, TRUE, TRUE),
   Doc(Buried, FALSE, TRUE), Doc(Buried, TRUE, TRUE),
   Doc(Bad(<<"[", "1", " ", "2", "]">>), FALSE, FALSE),
   Doc(Bad(<<"{", Quote, "k", Quote, "}">>), FALSE, FALSE),
   Doc(Bad(<<Quote, "a">>), FALSE, FALSE), Doc(Bad(<<"0", "1">>), FALSE, FALSE),
   Doc(Bad(<<"t", "r", "e">>), FALSE, FALSE), Doc(Bad(<<"1", ",">>), FALSE, FALSE),
   Doc(Bad(<<"[", "1", "2", "3", "4", "]">>), FALSE, FALSE),
   Doc(Bad(<<Quote, Backslash, "u", "d", "C", "0", "0", Quote>>), FALSE, FALSE),
   Doc(Obj(<<Member(<<"a">>, JsonFails(<<"[", "1", "]">>, 3))>>), FALSE, FALSE),
   Doc(Obj(<<Member(<<"a">>, Arr(<<Obj(<<Member(<<"b">>, JsonRead(<<"7">>))>>)>>))>>),
       FALSE, TRUE),
   Doc(Obj(<<Member(<<"a">>, Txt("fail", <<>>))>>), FALSE, FALSE)}

\* Every value above, and the values in them.
Inner(v) ==
  CASE v.kind = "array" -> Range(v.items)
    [] v.kind = "map"   -> {m.val : m \in Range(v.items)}
    [] OTHER            -> {}
WithInner(vals) == vals \cup UNION {Inner(v) : v \in vals}
MCValues == WithInner(WithInner(WithInner({d.val : d \in MCDocuments \cup MCChildren})))

\* One-shot calls: every room from none to one too many, every policy.
Fixed(text, room, policy, good) ==
  [into |-> "buffer", text |-> text, room |-> room, policy |-> policy, good |-> good]
Owned(text, max, good) ==
  [into |-> "owned", text |-> text, room |-> max, policy |-> "none", good |-> good]
Short3 == Obj(<<Member(<<"a">>, Str(<<Quote>>))>>)
Lines == JsonLines(<<Short3, Obj(<<>>)>>, FALSE)
MCShots ==
  {Fixed(Serialized(Short3, FALSE), r, p, TRUE) : r \in 0..11, p \in {"fail", "truncate", "silent"}}
    \cup {Fixed(Lines, r, p, g) : r \in {5, 14}, p \in {"fail", "truncate", "silent"}, g \in BOOLEAN}
    \cup {Owned(t, max, g) : t \in {Lines, Serialized(Short3, TRUE), <<>>},
                            max \in {3, 8, 13, 14, 15, SizeMax}, g \in BOOLEAN}

=============================================================================
