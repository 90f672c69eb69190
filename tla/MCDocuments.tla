----------------------------- MODULE MCDocuments -----------------------------
(***************************************************************************)
(* One small file or two of every format, with the cases that format makes *)
(* hard: a byte order mark, fences and markers, entities and attributes,   *)
(* formatted runs, deletions, shared strings and formulas, inline tags.    *)
(***************************************************************************)
EXTENDS Documents

File(kind, body) == [kind |-> kind, body |-> body]
Plain(text) == Node("text", "plain", text)
Bold(text) == Node("text", "b", text)

TextFiles ==
    {File("txt", <<"BOM", "a", ".", " ", "b", "\n", " ", "\n", "\t", "c", "\n">>),
     File("txt", <<"\n", "a", "\n", "b", " ", ".", "\n">>),
     File("md", <<"#", " ", "a", ".", " ", "b", "\n", "c", " ", "*", "d", "*", " ", "tick", "x", "tick", " ", "e">>),
     File("md", <<"ticks", "\n", "x", "\n", "ticks", "\n", "-", " ", "[", "a", "]", "(", "u", ")", " ", "b">>),
     File("md", <<"a", ".", " ", "b">>)}

HtmlFiles ==
    {File("html", <<"<p>", "a", " ", "&amp;", ".", " ", "<b>", "c", "</b>", "</p>", "<code>", "x", "</code>">>),
     File("html", <<"a", ".", " ", "b", "<img alt=", "\"", "d", "&quot;", "\"", ">", "<br>", "e">>)}

OfficeFiles ==
    {File("docx", <<<< <<Plain(<<"a", ".", " ">>), Bold(<<"b">>)>>,
                       <<Node("del", "plain", <<"x">>), Plain(<<"c", ".">>), Plain(<<" ", "d", " ">>)>>,
                       <<Plain(<<" ">>)>> >>,
                    << <<Plain(<<"n">>)>> >> >>),
     File("pptx", <<<< <<Plain(<<"a", ".">>), Node("tab", "plain", <<"\n">>), Plain(<<" ", "b">>)>> >> >>),
     File("xlsx", [shared |-> << <<Plain(<<"a">>), Bold(<<"b">>)>>, <<Plain(<<"c", ".", " ", "d">>)>> >>,
                   cells |-> <<Cell("shared", 1, <<>>), Cell("shared", 2, <<>>), Cell("formula", 0, <<"f">>),
                               Cell("shared", 2, <<>>), Cell("inline", 0, <<Plain(<<"e">>), Plain(<<"f">>)>>)>>])}

BilingualFiles ==
    {File("bilingual-docx", << << <<Plain(<<"Source">>)>>, <<Plain(<<"Target">>)>> >>,
                               << <<Plain(<<"a">>)>>, <<Plain(<<"b">>), Bold(<<"c">>)>> >> >>),
     File("bilingual-xlsx", [shared |-> << <<Plain(<<"a">>)>> >>,
                             cells |-> <<Cell("shared", 1, <<>>), Cell("inline", 0, <<Plain(<<"b">>)>>),
                                         Cell("inline", 0, <<Plain(<<"c">>)>>), Cell("shared", 1, <<>>)>>])}

XliffFiles ==
    {File("xliff", <<TransUnit(<<"a", "<g>", "b", "</g>", "c">>, "none", <<>>),
                     TransUnit(<<"a">>, "pair", <<"<mrk>", "b", "&amp;", "</mrk>">>)>>),
     File("xliff", <<TransUnit(<<"a">>, "pair", <<>>), TransUnit(<<"<x/>", "b">>, "none", <<>>)>>)}

GoodFiles == TextFiles \cup HtmlFiles \cup OfficeFiles \cup BilingualFiles \cup XliffFiles

\* Files whose translations do not come back: see the README.
TabbedFiles == {File("docx", << << <<Plain(<<"a">>), Node("tab", "plain", <<"\t">>), Plain(<<"b">>)>> >> >>)}
EmptyTargets == {File("xliff", <<TransUnit(<<"a">>, "empty", <<>>)>>)}

Typed == {<<>>, <<"A">>, <<"B", " ", "<", "\"">>}

BreakRules == {{"."}, {"a", ".", " "}}
=============================================================================
