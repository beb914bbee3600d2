------------------------------ MODULE MCValues ------------------------------
(***************************************************************************)
(* Instances of Values.  Spooled: chunks that end below, at and beyond the *)
(* memory limit.  Reading: documents whose strings, numbers, escapes and   *)
(* containers the source cuts everywhere, limits met exactly and by one    *)
(* too little, selectors that select, fan out, miss and are malformed.     *)
(* Streams: documents with the selected array first, last, twice, missing  *)
(* and of another type, and inputs of several objects.                     *)
(***************************************************************************)
EXTENDS Values, MCMultipart, TLC

MCByte == 1..3
MCChunks == {<<1>>, <<2, 3>>, <<1, 2, 3>>}

Key(c) == PlainStr(<<c>>)
N(c) == Num(<<c>>)
Text(tree, gap) == SourceText(tree, gap) \o gap
None == <<>>
Space == <<" ">>

\* The sequence with every f[x] in place of x.
Each(seq, f(_)) == Flat([i \in DOMAIN seq |-> f(seq[i])])

\* Escapes: a pair of surrogates, a control byte, a letter, a short one.
PairEscape == <<Backslash, "u", "d", "8", "3", "d", Backslash, "u", "D", "c", "0", "1">>
Escapes == Str(<<"x">> \o PairEscape \o <<"y", Backslash, "n", Backslash, "u", "0", "0", "0", "1">>,
               <<"x", "lead", "cont", "cont", "cont", "y", "\n", Soh>>)

Mixed == Obj(<<Member(PlainStr(<<"k", "k">>),
                      Arr(<<Num(<<"-", "1", ".", "5">>), PlainStr(<<"a", "b", "c", "d">>),
                            Lit("null")>>)),
               Member(Str(<<Backslash, "t">>, <<"\t">>), Obj(<<>>))>>)
Nested == Arr(<<Arr(<<>>), Obj(<<Member(PlainStr(<<>>), Arr(<<N("1"), Lit("true")>>))>>),
                N("0")>>)

VisitJob(tree, gap, from, limits, paths, faulty) ==
  [op |-> "visit", tree |-> tree, text |-> Text(tree, gap), from |-> from,
   limits |-> limits, paths |-> paths, faulty |-> faulty]

\* Each limit of a document met exactly, and with one less.
Sized(tree) ==
  [depth |-> Depth(tree), string |-> Longest(tree, "string"), key |-> LongestKey(tree),
   number |-> Longest(tree, "number"), total |-> Len(Text(tree, None))]
Tight(tree) ==
  LET l == Sized(tree) IN
  <<l, [l EXCEPT !.depth = @ - 1], [l EXCEPT !.string = @ - 1], [l EXCEPT !.key = @ - 1],
    [l EXCEPT !.number = @ - 1], [l EXCEPT !.total = @ - 1], [l EXCEPT !.total = @ - 3]>>

VisitJobs ==
  Each(<<Mixed, Nested, Escapes>>, LAMBDA t :
    <<VisitJob(t, Space, "reader", NoLimits, TRUE, TRUE),
      VisitJob(t, None, "file", NoLimits, FALSE, TRUE),
      VisitJob(t, None, "buffer", NoLimits, TRUE, FALSE)>>)
  \o Each(Tight(Mixed), LAMBDA l :
       <<VisitJob(Mixed, None, "reader", l, TRUE, FALSE),
         VisitJob(Mixed, None, "buffer", l, FALSE, FALSE)>>)
  \o <<VisitJob(Escapes, None, "reader", [NoLimits EXCEPT !.string = 7], TRUE, FALSE),
       VisitJob(Num(<<"1", "e", "5">>), Space, "reader", NoLimits, FALSE, TRUE)>>

FreeJobs ==
  Each(<<"outline", "text">>, LAMBDA a : Each(<<"visit", "transcode">>, LAMBDA m :
    <<[op |-> "free", mode |-> m, alphabet |-> a, faulty |-> FALSE,
       limits |-> [NoLimits EXCEPT !.depth = 3]]>>))

MCFreeBytes ==
  [outline |-> {<<c>> : c \in {"{", "}", "[", "]", ":", ",", "0", "8", "-", ".", "e", " "}}
                 \cup {<<Quote, "a", Quote>>, <<"n", "u", "l", "l">>},
   text |-> {<<c>> : c \in {Quote, Backslash, "a", "\n", "n"}}
              \cup {<<"u", "d", "8", "0", "0">>, <<"u", "d", "c", "0", "0">>,
                    <<"u", "0", "0", "6", "1">>, <<"u", "0">>, <<"[", Quote>>}]

\* The handle.
HandleJobs ==
  Each(<<Mixed, Escapes, Lit("false")>>, LAMBDA t :
    <<[op |-> "set", tree |-> t, text |-> Text(t, Space), good |-> TRUE],
      [op |-> "set", tree |-> t, text |-> Front(Text(t, None)), good |-> FALSE],
      [op |-> "attach", tree |-> t, text |-> Text(t, Space), from |-> "reader", good |-> TRUE],
      [op |-> "attach", tree |-> t, text |-> Text(t, None), from |-> "file", good |-> TRUE]>>)
  \o <<[op |-> "write", pretty |-> FALSE, faulty |-> TRUE],
       [op |-> "write", pretty |-> TRUE, faulty |-> TRUE]>>

\* Arrays.
Seg(c) == <<c>>
Fan(c) == <<c, "[", "]">>
Options(item, parents, append, reject) ==
  [item |-> item, parents |-> parents, append |-> append, reject |-> reject]

ArrayJob(tree, path, options, legal, faulty) ==
  [op |-> "arrays", tree |-> tree, text |-> Text(tree, None), path |-> path,
   options |-> options, limits |-> NoLimits, legal |-> legal, faulty |-> faulty,
   repeats |-> FALSE]

Board(items) == Obj(<<Member(Key("n"), N("2")), Member(Key("i"), Arr(items))>>)
Boards == Obj(<<Member(Key("b"), Arr(<<Board(<<N("3"), Obj(<<Member(Key("q"), N("4"))>>)>>),
                                      N("6"), Board(<<>>)>>)),
                Member(Key("z"), Lit("null"))>>)
Rows == Obj(<<Member(Key("p"), Obj(<<Member(Key("o"), N("1")),
                                     Member(Key("r"), Arr(<<Obj(<<>>), Str(<<Backslash, "n">>, <<"\n">>)>>))>>)),
              Member(Key("y"), Arr(<<Obj(<<>>)>>))>>)
Repeats == Obj(<<Member(Key("r"), Arr(<<N("1")>>)), Member(Key("r"), Arr(<<N("2")>>))>>)

\* One level more than frames[] has.
Deep == LET nest[n \in 0..MaxFrames] == IF n = 0 THEN Arr(<<>>) ELSE Arr(<<nest[n - 1]>>)
        IN  nest[MaxFrames]

\* Arrays below a key that does not match, in an array that is no fanout, in
\* an array among the items of a fanout, and where an object was expected.
Row(c) == Obj(<<Member(Key("r"), Arr(<<N(c)>>))>>)
Hidden == Obj(<<Member(Key("z"), Row("1")), Member(Key("y"), Arr(<<Arr(<<Row("2")>>), N("0")>>)),
                Member(Key("r"), Arr(<<Row("3")>>))>>)
Strewn == Obj(<<Member(Key("b"), Arr(<<Arr(<<Obj(<<Member(Key("b"), Arr(<<Row("1")>>))>>), Row("2")>>),
                                      Obj(<<Member(Key("z"), Row("3"))>>)>>))>>)
Listed == Obj(<<Member(Key("p"), Arr(<<Obj(<<Member(Key("p"), Row("1"))>>), Row("2")>>))>>)

ArrayJobs ==
  <<ArrayJob(Boards, <<Fan("b"), Seg("i")>>, Options("value", <<<<"b">>>>, <<>>, FALSE), TRUE, FALSE),
    ArrayJob(Boards, <<Fan("b"), Seg("i")>>, Options("none", <<<<"b">>>>, <<<<"9">>>>, TRUE), TRUE, TRUE),
    ArrayJob(Rows, <<Seg("p"), Seg("r")>>, Options("value", <<>>, <<<<"9">>, <<"5">>>>, FALSE), TRUE, FALSE),
    ArrayJob(Rows, <<Seg("p"), Seg("r")>>, Options("map", <<>>, <<>>, TRUE), TRUE, FALSE),
    ArrayJob(Rows, <<Seg("p"), Seg("o")>>, Options("value", <<>>, <<>>, FALSE), TRUE, FALSE),
    ArrayJob(Rows, <<Seg("p"), Seg("m")>>, Options("value", <<>>, <<>>, FALSE), TRUE, FALSE),
    ArrayJob(Rows, <<Fan("p"), Seg("r")>>, Options("value", <<>>, <<>>, FALSE), TRUE, FALSE),
    ArrayJob(Rows, <<Seg("p"), <<>>>>, Options("value", <<>>, <<>>, FALSE), FALSE, FALSE),
    ArrayJob(Rows, <<Fan("p")>>, Options("value", <<>>, <<>>, FALSE), FALSE, FALSE),
    ArrayJob(Arr(<<N("1"), Lit("true"), Arr(<<N("2")>>)>>), <<>>,
             Options("value", <<>>, <<>>, FALSE), TRUE, TRUE),
    ArrayJob(Hidden, <<Seg("r")>>, Options("none", <<>>, <<<<"9">>>>, FALSE), TRUE, FALSE),
    ArrayJob(Obj(<<Member(Key("z"), Row("1"))>>), <<Seg("r")>>, Options("value", <<>>, <<>>, FALSE), TRUE, FALSE),
    ArrayJob(Strewn, <<Fan("b"), Seg("r")>>, Options("none", <<<<"b">>>>, <<<<"9">>>>, FALSE), TRUE, FALSE),
    ArrayJob(Deep, <<>>, Options("none", <<>>, <<>>, FALSE), TRUE, FALSE),
    ArrayJob(Rows, <<Seg("p"), Seg("r"), Seg("r")>>, Options("none", <<>>, <<>>, FALSE), FALSE, FALSE),
    ArrayJob(Listed, <<Seg("p"), Seg("r")>>, Options("none", <<>>, <<<<"9">>>>, FALSE), TRUE, FALSE),
    [ArrayJob(Repeats, <<Seg("r")>>, Options("value", <<>>, <<>>, FALSE), TRUE, FALSE)
       EXCEPT !.repeats = TRUE],
    [ArrayJob(Repeats, <<Seg("r")>>, Options("value", <<>>, <<>>, TRUE), TRUE, FALSE)
       EXCEPT !.repeats = TRUE]>>

\* Values.
TargetJob(tree, path, action, legal, faulty) ==
  [op |-> "target", tree |-> tree, text |-> Text(tree, None), path |-> path,
   action |-> action, limits |-> NoLimits, legal |-> legal, faulty |-> faulty]

Tree == Obj(<<Member(Key("a"), Obj(<<Member(PlainStr(<<"b", ".">>),
                                            Arr(<<N("1"), Obj(<<Member(Key("a"), N("7"))>>),
                                                  Str(<<Backslash, "n">>, <<"\n">>)>>)),
                                     Member(Key("0"), Lit("true"))>>)),
              Member(Key("c"), Obj(<<Member(Key("a"), Lit("null"))>>))>>)
Dotted == <<"a", ".", "b", Backslash, ".">>
Paths == <<Dotted, Dotted \o <<".", "1">>, Dotted \o <<".", "1", ".", "a">>,
           Dotted \o <<".", "2">>, Dotted \o <<".", "3">>,
           <<"a", ".", "0">>, <<"a", ".", "x">>, <<"a", ".", "x", ".", "y">>,
           <<"a", ".", "x", ".", "0">>, <<"c", ".", "a">>, <<"c", ".", "1">>,
           <<"c", ".", "a", ".", "a">>, <<"d">>, <<>>>>

TargetJobs ==
  Each(Paths, LAMBDA p : Each(<<"keep", "drop", "replace", "replace_with">>, LAMBDA a :
    <<TargetJob(Tree, p, a, ~(p = <<>> /\ a = "drop"), p = Dotted)>>))
  \o Each(<<<<"a", ".">>, <<"a", Backslash>>, <<".", "a">>>>, LAMBDA p :
       <<TargetJob(Tree, p, "replace", FALSE, FALSE)>>)
  \o <<TargetJob(Arr(<<N("1"), Arr(<<N("2")>>)>>), <<"1", ".", "0">>, "replace_with", TRUE, TRUE)>>

MCJobs == Range(VisitJobs \o FreeJobs \o HandleJobs \o ArrayJobs \o TargetJobs)

-----------------------------------------------------------------------------

\* Streams.
ArrayTask(op, tree, gap, path, reject, dsts, faulty) ==
  [op |-> op, tree |-> tree, gap |-> gap, text |-> Text(tree, gap), path |-> path,
   reject |-> reject, dsts |-> dsts, faulty |-> faulty, good |-> TRUE,
   repeats |-> FALSE, limits |-> NoLimits]

Rec(c) == Obj(<<Member(Key("n"), N(c))>>)
Long == Obj(<<Member(Key("s"), PlainStr(<<"a", "b", "c">>))>>)

\* The selected member k, whose name may be written with an escape.
K == Key("k")
EscapedK == Str(<<"a", Backslash, "n">>, <<"a", "\n">>)
Pair == Str(PairEscape, <<"lead", "cont", "cont", "cont">>)

Front3 == Obj(<<Member(K, Arr(<<Rec("1"), Rec("2")>>)), Member(Key("z"), N("7"))>>)
Back3 == Obj(<<Member(Pair, Arr(<<N("0")>>)), Member(K, Arr(<<N("5"), Arr(<<>>), Lit("true")>>))>>)
Strings == Arr(<<PlainStr(<<"a", "b">>), Str(<<"x", Backslash, "n">>, <<"x", "\n">>), PlainStr(<<>>)>>)
Cuts == Arr(<<Long, Rec("1")>>)
Twice == Obj(<<Member(K, Arr(<<N("1")>>)), Member(K, Arr(<<N("2")>>))>>)
Inner == Arr(<<Obj(<<Member(Key("n"), N("1")), Member(Key("n"), N("2"))>>)>>)
Path == <<"k">>
Root == <<>>

ArrayTasks ==
  <<ArrayTask("array", Front3, None, Path, FALSE, {"d1", "d2", "item"}, TRUE),
    ArrayTask("array", Back3, None, Path, TRUE, {"item", "sink"}, TRUE),
    ArrayTask("array", Obj(<<Member(EscapedK, Arr(<<>>))>>), Space, <<"a", "\n">>, FALSE, {"item"}, TRUE),
    ArrayTask("array", Cuts, Space, Root, TRUE, {"d1"}, TRUE),
    [ArrayTask("array", Cuts, None, Root, FALSE, {"sink"}, FALSE)
       EXCEPT !.text = @ \o <<"x">>, !.good = FALSE],
    [ArrayTask("array", Twice, None, Path, FALSE, {"item"}, FALSE) EXCEPT !.repeats = TRUE],
    [ArrayTask("array", Twice, None, Path, TRUE, {"item"}, FALSE) EXCEPT !.repeats = TRUE],
    [ArrayTask("array", Inner, None, Root, TRUE, {"d1", "item", "sink"}, FALSE)
       EXCEPT !.repeats = TRUE],
    [ArrayTask("array", Inner, None, Root, FALSE, {"d1", "item", "sink"}, FALSE)
       EXCEPT !.repeats = TRUE],
    ArrayTask("array", Front3, None, <<"m">>, FALSE, {"item"}, FALSE),
    ArrayTask("array", Front3, None, <<"z">>, FALSE, {"item"}, TRUE),
    ArrayTask("array", Front3, None, Root, FALSE, {"item"}, TRUE),
    ArrayTask("array", Strings, None, Path, FALSE, {"item"}, FALSE),
    ArrayTask("array", Front3, None, <<"k", ".", "n">>, FALSE, {"item"}, FALSE),
    ArrayTask("push", Cuts, None, Root, FALSE, {"d1", "d2"}, TRUE),
    ArrayTask("push", Arr(<<Rec("3"), PlainStr(<<"a">>)>>), Space, Root, TRUE, {"d1", "string"}, FALSE),
    ArrayTask("push", Strings, None, Root, FALSE, {"string"}, TRUE),
    [ArrayTask("push", Strings, None, Root, FALSE, {"string"}, FALSE)
       EXCEPT !.limits.string = 1],
    [ArrayTask("push", Front3, None, Path, TRUE, {"d1"}, FALSE)
       EXCEPT !.text = @ \o <<"]">>, !.good = FALSE],
    ArrayTask("curl", Cuts, None, Root, TRUE, {"d2"}, FALSE),
    ArrayTask("curl", Strings, Space, Root, FALSE, {"string"}, FALSE),
    ArrayTask("curl", Arr(<<Rec("4"), N("5")>>), None, Root, FALSE, {"d1"}, TRUE),
    ArrayTask("curl", Front3, None, <<"k", ".", "n">>, FALSE, {"d1"}, FALSE)>>

LooseTasks ==
  Each(<<Root, Path>>, LAMBDA p :
    <<[op |-> "loose", text |-> <<>>, path |-> p, reject |-> FALSE, dsts |-> {"item"},
       faulty |-> FALSE, limits |-> NoLimits]>>)

MCLooseTokens ==
  {<<c>> : c \in {"{", "}", "[", "]", ":", ",", "0", "-", " "}}
    \cup {<<Quote, "k", Quote>>, <<Quote, Backslash>>, <<"n", Quote>>}

ObjectTask(texts, gap, tail, faulty) ==
  [op |-> "objects", objects |-> texts, text |-> Flat([i \in DOMAIN texts |-> texts[i] \o gap]) \o tail,
   dsts |-> {"d1", "d2"}, faulty |-> faulty, good |-> tail = <<>>, limits |-> NoLimits]

ObjectTasks ==
  LET one == Text(Obj(<<>>), None)
      two == Text(Long, None) IN
  <<ObjectTask(<<one, two, one>>, None, <<>>, TRUE),
    ObjectTask(<<two, one>>, <<"\n", " ">>, <<>>, FALSE),
    ObjectTask(<<one>>, Space, <<"[", "]">>, TRUE),
    ObjectTask(<<one>>, None, <<"{", "x">> \o two, FALSE),
    ObjectTask(<<>>, None, <<>>, TRUE)>>

MCTasks == Range(ArrayTasks \o LooseTasks \o ObjectTasks)

=============================================================================
