------------------------------ MODULE MCCQCode ------------------------------
(* CQCode on every short text and URL, and on the strings put together from  *)
(* codes, parts of codes and characters that mean something.                 *)
EXTENDS CQCode

AllWords == {"x", "y"}
AllSymbols == Marks \cup Names \cup AllWords
Special == (Marks \ {"="}) \cup {"x"}
Contents == BoundedSeq(Special, 3)
Urls == BoundedSeq(Special, 2)

\* A text, a text between two others, a video between texts, two videos and a
\* forward message.
AllSent ==
    {<<Text(a)>> : a \in Contents}
    \cup {<<Text(<<"[">>), Text(a), Text(<<"]">>)>> : a \in Urls}
    \cup {<<Text(a), Video(<<"x">>, b), Text(<<"&">>)>> : a \in Urls, b \in Urls}
    \cup {<<Video(<<"x">>, a), Video(<<"x">>, <<"y">>)>> : a \in Contents}
    \cup {<<Text(a), Forward(<<"x">>), Text(a)>> : a \in Urls}

Fragments ==
    {<<"[", "CQ:", "video", ",", "file", "=", "x", "]">>,
     <<"[", "CQ:", "video", "]">>,
     <<"[", "CQ:", "text", ",", "text", "=", "&", "#44;", "]">>,
     <<"[", "CQ:", "forward", ",", "id", "=", "x", "]">>,
     <<"[", "CQ:", "forward">>, <<"[", "CQ:">>, <<",", "id", "=">>,
     <<"[">>, <<"]">>, <<",">>, <<"=">>, <<"x">>, <<"&", "#91;">>}

AllTyped == {FlattenSeq(fragments) : fragments \in BoundedSeq(Fragments, 4)}
=============================================================================
