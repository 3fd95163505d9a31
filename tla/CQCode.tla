------------------------------ MODULE CQCode ------------------------------
(***************************************************************************)
(* The two formats of a message (coolq/cqcode.go): the string with CQ      *)
(* codes that ToStringMessage writes and ConvertStringMessage parses, a    *)
(* label S1 to S4 at a time, and the array of ToArrayMessage and           *)
(* ConvertObjectMessage.                                                   *)
(*                                                                         *)
(* A string is a sequence of symbols: a character that means something, an *)
(* entity without its "&", "CQ:" (the magic is "[" and "CQ:"), or a word.  *)
(* Whether the file of a video is found, and fit to be sent, is left open. *)
(*                                                                         *)
(* A definition marked "Mutation" is no part of the model: it is a faulty  *)
(* version of the definition after it, which a property must reject.       *)
(***************************************************************************)
EXTENDS Naturals, Sequences, FiniteSets, SequencesExt

CONSTANTS
    Symbols,    \* the symbols that strings consist of
    Words,      \* those in the names of videos and the numbers of messages
    Sent,       \* the messages that are shown and come back
    Typed       \* the strings that somebody writes

Marks == {"&", "[", "]", ",", "=", "CQ:", "amp;", "#91;", "#93;", "#44;"}
Names == {"text", "forward", "video", "id", "file", "url"}

\* The elements of a message: [type, data]
Texts == [type : {<<"text">>}, data : [{<<"text">>} -> Seq(Symbols)]]
Forwards == [type : {<<"forward">>}, data : [{<<"id">>} -> Seq(Words)]]
Videos == [type : {<<"video">>}, data : [{<<"file">>, <<"url">>} -> Seq(Symbols)]]

ASSUME ConstantsAssumption ==
    /\ Marks \cup Names \cup Words \subseteq Symbols
    /\ {"&", ",", "]"} \cap Words = {}
    /\ \A x \in Typed : x \in Seq(Symbols)
    /\ \A m \in Sent :
          /\ m \in Seq(Texts \cup Forwards \cup Videos)
          /\ \A n \in DOMAIN m :
                m[n].type = <<"video">> => m[n].data[<<"file">>] \in Seq(Words) \ {<<>>}

VARIABLES
    sent, raw,  \* the message shown, isRaw; or NoMessage
    s,          \* the string to parse
    ignore,     \* IgnoreInvalidCQCode
    pc,         \* the label, "End" or "done"
    i, j,       \* the next symbol, and the first one of what is being read
    CQBegin,    \* where the last code begins
    t, key, d,  \* of the code that is being read: type, key, parameters
    r,          \* the result; a ghost field of each element says where it was read
    gone,       \* ghost: codes and elements that are not in the result
    refused     \* ghost: ToElement has returned an error

given == <<sent, raw, s, ignore>>
code == <<CQBegin, t, key, d>>
vars == <<given, pc, i, j, code, r, gone, refused>>

NoMessage == <<>>
NoParams == <<>>

----------------------------------------------------------------------------
(* Escapes.  No entity overlaps another one.                               *)

\* ReplaceAll of a character by an entity, and of an entity by a character
Escape(text, char, entity) ==
    FlattenSeq([n \in DOMAIN text |->
        IF text[n] = char THEN <<"&", entity>> ELSE <<text[n]>>])

Unescape(text, entity, char) ==
    LET At(n) == /\ n \in DOMAIN text /\ n + 1 \in DOMAIN text
                 /\ text[n] = "&" /\ text[n + 1] = entity
    IN FlattenSeq([n \in DOMAIN text |->
           IF At(n) THEN <<char>> ELSE IF At(n - 1) THEN <<>> ELSE <<text[n]>>])

CQCodeEscapeText(text) ==
    Escape(Escape(Escape(text, "&", "amp;"), "[", "#91;"), "]", "#93;")

CQCodeEscapeValue(value) == Escape(CQCodeEscapeText(value), ",", "#44;")

\* Mutation: "&amp;" comes first, and what it yields is looked at again.
AmpersandFirst(text) ==
    Unescape(Unescape(Unescape(text, "amp;", "&"), "#91;", "["), "#93;", "]")

CQCodeUnescapeText(text) ==
    Unescape(Unescape(Unescape(text, "#91;", "["), "#93;", "]"), "amp;", "&")

CQCodeUnescapeValue(value) == CQCodeUnescapeText(Unescape(value, "#44;", ","))

----------------------------------------------------------------------------
(* Elements: [type, data], as in an array message                          *)

Element(type, data) == [type |-> <<type>>, data |-> data]
Text(content) == Element("text", [k \in {<<"text">>} |-> content])
Forward(id) == Element("forward", [k \in {<<"id">>} |-> id])
Video(name, url) ==
    Element("video", [k \in {<<"file">>, <<"url">>} |->
                        IF k = <<"file">> THEN name ELSE url])

\* LocalVideoElement, the video to send that is made from the file so named.  It
\* has no place for a URL, and neither format can show it.
LocalVideo(name) == Element("LocalVideo", [k \in {<<"file">>} |-> name])

\* A raw message does not say where its videos are.
Shown(e) ==
    IF raw /\ e.type = <<"video">>
    THEN Element("video", [k \in {<<"file">>} |-> e.data[k]])
    ELSE e

ToArrayMessage(message) == [n \in DOMAIN message |-> Shown(message[n])]

\* The name of a video and the number of a forward message are not escaped.
Rendered(e) ==
    CASE e.type = <<"text">> -> CQCodeEscapeText(e.data[<<"text">>])
      [] e.type = <<"forward">> ->
            <<"[", "CQ:", "forward", ",", "id", "=">> \o e.data[<<"id">>] \o <<"]">>
      [] OTHER -> <<"[", "CQ:", "video", ",", "file", "=">> \o e.data[<<"file">>]
                  \o (IF raw THEN <<>>
                      ELSE <<",", "url", "=">> \o CQCodeEscapeValue(e.data[<<"url">>]))
                  \o <<"]">>

ToStringMessage(message) == FlattenSeq([n \in DOMAIN message |-> Rendered(message[n])])

\* The element a code or an array member stands for; none: an error.  Of a video
\* only the file counts, and one without a name cannot be read.
ToElement(type, data) ==
    CASE type = <<"text">> ->
            {Text(IF <<"text">> \in DOMAIN data THEN data[<<"text">>] ELSE <<>>)}
      [] type = <<"video">> /\ <<"file">> \in DOMAIN data /\ data[<<"file">>] # <<>> ->
            {LocalVideo(data[<<"file">>])}
      [] OTHER -> {}

MayFail(type) == type # <<"text">>

\* An array message, when no video is refused.  A forward message replaces all
\* that comes before it.
convertElem(elements, e) ==
    IF e.type = <<"forward">> THEN <<e>>
    ELSE elements \o SetToSeq(ToElement(e.type, e.data))

ConvertObjectMessage(array) == FoldLeft(convertElem, <<>>, array)

----------------------------------------------------------------------------
(* ConvertStringMessage                                                    *)

Init ==
    /\ \/ raw \in BOOLEAN /\ sent \in Sent /\ s = ToStringMessage(sent)
       \/ raw = FALSE /\ sent = NoMessage /\ s \in Typed
    /\ ignore \in BOOLEAN
    /\ pc = "S1" /\ i = 1 /\ j = 1 /\ CQBegin = 1
    /\ t = <<>> /\ key = <<>> /\ d = NoParams
    /\ r = <<>> /\ gone = {} /\ refused = FALSE

\* s[from:to]
Part(from, to) == SubSeq(s, from, to)
Span(from, to) == [from |-> from, to |-> to]

Piece(e, span, isCode) == [element |-> e, span |-> span, code |-> isCode]

\* What is read up to position k becomes a text.
WithText(k) ==
    IF k > j
    THEN Append(r, Piece(Text(CQCodeUnescapeText(Part(j, k - 1))), Span(j, k - 1), FALSE))
    ELSE r

\* The first position from i on with one of the symbols, if there is one
Finds(symbols, k) ==
    /\ k \in i .. Len(s) /\ s[k] \in symbols
    /\ \A n \in i .. k - 1 : s[n] \notin symbols

Ends(symbols) ==
    /\ \A n \in i .. Len(s) : s[n] \notin symbols
    /\ pc' = "End" /\ i' = Len(s) + 1
    /\ UNCHANGED <<given, j, code, r, gone, refused>>

\* The magic is followed by something.
Magic(k) == s[k] = "[" /\ k + 2 \in DOMAIN s /\ s[k + 1] = "CQ:"

\* Mutation: the parameters of the last code are kept.
Kept == d

Cleared == NoParams

S1 ==
    /\ pc = "S1"
    /\ \/ /\ \A k \in i .. Len(s) : ~Magic(k)
          /\ pc' = "End" /\ i' = Len(s) + 1
          /\ UNCHANGED <<given, j, code, r, gone, refused>>
       \/ \E k \in i .. Len(s) :
             /\ Magic(k) /\ \A n \in i .. k - 1 : ~Magic(n)
             /\ r' = WithText(k)
             /\ CQBegin' = k /\ d' = Cleared
             /\ i' = k + 2 /\ j' = k + 2
             /\ pc' = "S2"
             /\ UNCHANGED <<given, t, key, gone, refused>>

Reads(k, label) == i' = k + 1 /\ j' = k + 1 /\ pc' = label

\* saveCQCode, with the code read up to position k
SaveCQCode(type, params, k) ==
    LET span == Span(CQBegin, k)
        Result(e) == Piece(e, span, TRUE)
    IN \/ /\ type = <<"forward">> /\ <<"id">> \in DOMAIN params
          /\ r' = <<Result(Forward(params[<<"id">>]))>>
          /\ gone' = gone \cup {r[n].span : n \in DOMAIN r}
          /\ UNCHANGED refused
       \/ \E e \in ToElement(type, params) :
             r' = Append(r, Result(e)) /\ UNCHANGED <<gone, refused>>
       \/ /\ MayFail(type) /\ ~(type = <<"forward">> /\ <<"id">> \in DOMAIN params)
          /\ refused' = TRUE
          /\ IF ignore THEN UNCHANGED r /\ gone' = gone \cup {span}
             ELSE /\ r' = Append(r, Piece(Text(Part(CQBegin, k)), span, FALSE))
                  /\ UNCHANGED gone

S2 ==
    /\ pc = "S2"
    /\ \/ Ends({",", "]"})
       \/ \E k \in i .. Len(s) :
             /\ Finds({",", "]"}, k)
             /\ t' = Part(j, k - 1)
             /\ \/ s[k] = "," /\ Reads(k, "S3") /\ UNCHANGED <<r, gone, refused>>
                \/ s[k] = "]" /\ Reads(k, "S1") /\ SaveCQCode(t', d, k)
             /\ UNCHANGED <<given, CQBegin, key, d>>

S3 ==
    /\ pc = "S3"
    /\ \/ Ends({"="})
       \/ \E k \in i .. Len(s) :
             /\ Finds({"="}, k)
             /\ key' = Part(j, k - 1) /\ Reads(k, "S4")
             /\ UNCHANGED <<given, CQBegin, t, d, r, gone, refused>>

S4 ==
    /\ pc = "S4"
    /\ \/ Ends({",", "]"})
       \/ \E k \in i .. Len(s) :
             /\ Finds({",", "]"}, k)
             /\ d' = [x \in DOMAIN d \cup {key} |->
                        IF x = key THEN CQCodeUnescapeValue(Part(j, k - 1)) ELSE d[x]]
             /\ \/ s[k] = "," /\ Reads(k, "S3") /\ UNCHANGED <<r, gone, refused>>
                \/ s[k] = "]" /\ Reads(k, "S1") /\ SaveCQCode(t, d', k)
             /\ UNCHANGED <<given, CQBegin, t, key>>

\* Of a code that does not end, the part being read is taken for a text.
End ==
    /\ pc = "End" /\ pc' = "done"
    /\ r' = WithText(i)
    /\ UNCHANGED <<given, i, j, code, gone, refused>>

Next == S1 \/ S2 \/ S3 \/ S4 \/ End

Spec == Init /\ [][Next]_vars

----------------------------------------------------------------------------
(* Properties                                                              *)

\* Messages are alike when they differ in how their texts are cut up.
Join(elements, e) ==
    IF e = Text(<<>>) THEN elements
    ELSE IF elements # <<>> /\ e.type = <<"text">> /\ Last(elements).type = <<"text">>
         THEN Append(Front(elements),
                     Text(Last(elements).data[<<"text">>] \o e.data[<<"text">>]))
         ELSE Append(elements, e)

Merged(message) == FoldLeft(Join, <<>>, message)

\* The last forward message and what follows it, or the whole message.
FromForward(message) ==
    LET at == {n \in DOMAIN message : message[n].type = <<"forward">>}
    IN IF at = {} THEN message
       ELSE SubSeq(message, CHOOSE n \in at : \A m \in at : m <= n, Len(message))

\* What becomes of an element that is shown and sent again: a video is made anew
\* from its file.
Back(e) == IF e.type = <<"video">> THEN LocalVideo(e.data[<<"file">>]) ELSE e

\* A message that is shown as a string, and whose codes are accepted when it
\* comes back, has the texts, the forward message and the files of videos it had,
\* in their order, whatever its texts and URLs contain; the URLs themselves are
\* lost.  In the other format it comes to the same (ToStringMessage,
\* ConvertStringMessage; ToArrayMessage, ConvertObjectMessage).
RoundTrip ==
    pc = "done" /\ sent # NoMessage /\ ~refused =>
        LET shown == Merged(FromForward([n \in DOMAIN sent |-> Back(sent[n])]))
        IN /\ Merged([n \in DOMAIN r |-> r[n].element]) = shown
           /\ Merged(ConvertObjectMessage(ToArrayMessage(sent))) = shown

Pieces == {r[n].span : n \in DOMAIN r} \cup gone
Covered(x) == \E p \in Pieces : x \in p.from .. p.to

\* What has been read for good: up to a code that is still being read.
Finished == IF pc = "S1" THEN 1 .. j - 1
            ELSE IF pc = "done" THEN DOMAIN s ELSE 1 .. CQBegin - 1

\* The parameter was written in the piece p.
Own(p, param) ==
    \E a, b, c \in p.span.from + 1 .. p.span.to :
        /\ c < a /\ a <= b
        /\ s[c - 1] = "," /\ s[a - 1] = "=" /\ s[b] \in {",", "]"}
        /\ param = Part(c, a - 2)
        /\ p.element.data[param] = CQCodeUnescapeValue(Part(a, b - 1))

\* Every symbol of the string is in one piece and no other, pieces keep their
\* order, and a code has no parameters but its own (the map d is used again for
\* every code).  Only of a code that does not end is a part lost, the first.
PiecesExact ==
    LET lost == {x \in Finished : ~Covered(x)}
    IN /\ \A x \in Finished : Cardinality({p \in Pieces : x \in p.from .. p.to}) <= 1
       /\ lost # {} => pc = "done" /\ \E m \in CQBegin .. Len(s) : lost = CQBegin .. m
       /\ \A m, n \in DOMAIN r : m < n => r[m].span.to < r[n].span.from
       /\ \A n \in DOMAIN r : r[n].code /\ r[n].element.data # Text(<<>>).data =>
             \A param \in DOMAIN r[n].element.data : Own(r[n], param)
=============================================================================
