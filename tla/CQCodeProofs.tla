---------------------------- MODULE CQCodeProofs ----------------------------
(***************************************************************************)
(* The parser of CQ codes on strings of any length: what it does to any    *)
(* string, and that it reads what ToStringMessage shows.                   *)
(***************************************************************************)
EXTENDS CQCode, TLAPS, Integers, SequenceTheorems, WellFoundedInduction,
        FiniteSetTheorems

(***************************************************************************)
(* Induction over sets of numbers: the library's rules are about formulas  *)
(* with a parameter, which cannot be instantiated.                         *)
(***************************************************************************)

Less == {p \in Nat \X Nat : p[1] < p[2]}

LEMMA LessIsWellFounded == IsWellFoundedOn(Less, Nat)
<1>1. IsWellFoundedOn({p \in Nat \X Nat : p[1] < p[2]}, Nat)
  BY NatLessThanWellFounded, Zenon DEF OpToRel
<1> QED  BY <1>1 DEF Less

LEMMA Induction ==
    ASSUME NEW S, 0 \in S, \A n \in Nat : n \in S => n + 1 \in S
    PROVE  Nat \subseteq S
<1> DEFINE T == Nat \ S
<1> SUFFICES ASSUME T # {} PROVE FALSE
  OBVIOUS
<1>1. PICK x \in T : \A y \in T : <<y, x>> \notin Less
  BY LessIsWellFounded, WFMin
<1>2. x \in Nat /\ x # 0
  OBVIOUS
<1>3. x - 1 \in Nat /\ x - 1 < x /\ (x - 1) + 1 = x
  BY <1>2
<1>4. x - 1 \notin T
  BY <1>1, <1>2, <1>3 DEF Less
<1> QED  BY <1>3, <1>4

\* f[n] is what a loop over the sequence q has computed after n elements.
IsIteration(f, X, op, base, q) ==
    /\ f \in [0 .. Len(q) -> X] /\ f[0] = base
    /\ \A k \in 1 .. Len(q) : f[k] = op[<<f[k - 1], q[k]>>]

LEMMA Iterates ==
    ASSUME NEW X, NEW Y, NEW op \in [X \X Y -> X], NEW base \in X, NEW q \in Seq(Y)
    PROVE  \E f : IsIteration(f, X, op, base, q)
<1> DEFINE Upto(n, f) == f[0] = base /\ \A k \in 1 .. n : f[k] = op[<<f[k - 1], q[k]>>]
           S == {n \in Nat : n <= Len(q) => \E f \in [0 .. n -> X] : Upto(n, f)}
<1>1. 0 \in S
  <2> DEFINE f == [k \in 0 .. 0 |-> base]
  <2>1. f \in [0 .. 0 -> X] /\ Upto(0, f)
    OBVIOUS
  <2> QED  BY <2>1
<1>2. ASSUME NEW n \in Nat, n \in S PROVE n + 1 \in S
  <2> SUFFICES ASSUME n + 1 <= Len(q)
               PROVE  \E g \in [0 .. n + 1 -> X] : Upto(n + 1, g)
    OBVIOUS
  <2>1. PICK f \in [0 .. n -> X] : Upto(n, f)
    BY <1>2
  <2> DEFINE g == [k \in 0 .. n + 1 |-> IF k = n + 1 THEN op[<<f[n], q[n + 1]>>] ELSE f[k]]
  <2>2. q[n + 1] \in Y /\ f[n] \in X
    OBVIOUS
  <2>3. op[<<f[n], q[n + 1]>>] \in X
    BY <2>2
  <2>4. g \in [0 .. n + 1 -> X]
    BY <2>3
  <2>5. \A k \in 0 .. n : g[k] = f[k]
    OBVIOUS
  <2>6. g[n + 1] = op[<<f[n], q[n + 1]>>]
    OBVIOUS
  <2> HIDE DEF g
  <2>7. ASSUME NEW k \in 1 .. n + 1 PROVE g[k] = op[<<g[k - 1], q[k]>>]
    <3>1. CASE k = n + 1
      <4>1. k - 1 = n /\ n \in 0 .. n
        BY <3>1
      <4> QED  BY <2>5, <2>6, <3>1, <4>1
    <3>2. CASE k # n + 1
      <4>1. k \in 1 .. n /\ k \in 0 .. n /\ k - 1 \in 0 .. n
        BY <3>2
      <4> QED  BY <2>1, <2>5, <4>1
    <3> QED  BY <3>1, <3>2
  <2>8. Upto(n + 1, g)
    BY <2>1, <2>5, <2>7
  <2> QED  BY <2>4, <2>8
<1> HIDE DEF S
<1>3. Nat \subseteq S
  BY <1>1, <1>2, Induction
<1>4. Len(q) \in S /\ Len(q) <= Len(q)
  BY <1>3
<1> QED  BY <1>4 DEF S, IsIteration

(***************************************************************************)
(* FlattenSeq                                                              *)
(***************************************************************************)

\* Concatenation, which the provers had better not look into.
Cat(a, b) == a \o b

LEMMA CatType == ASSUME NEW S, NEW a \in Seq(S), NEW b \in Seq(S)
                 PROVE  Cat(a, b) \in Seq(S) /\ Cat(<<>>, a) = a /\ Cat(a, <<>>) = a
BY DEF Cat

LEMMA FlattenIs ==
    ASSUME NEW S, NEW ss \in Seq(Seq(S)), NEW f \in [0 .. Len(ss) -> Seq(S)],
           f[0] = <<>>, \A k \in 1 .. Len(ss) : f[k] = Cat(f[k - 1], ss[k])
    PROVE  FlattenSeq(ss) = f[Len(ss)]
<1>1. CASE Len(ss) = 0
  BY <1>1 DEF FlattenSeq
<1>2. CASE Len(ss) # 0
  <2> DEFINE Flat(g) == g = [k \in 1 .. Len(ss) |->
                               IF k = 1 THEN ss[k] ELSE Cat(g[k - 1], ss[k])]
             g == CHOOSE g : Flat(g)
             h == [k \in 1 .. Len(ss) |-> f[k]]
  <2>1. f[1] = ss[1]
    <3>1. 1 \in 1 .. Len(ss) /\ ss[1] \in Seq(S)
      BY <1>2
    <3>2. f[1] = Cat(f[0], ss[1])
      BY <3>1
    <3> QED  BY <3>1, <3>2, CatType
  <2>2. \A k \in 1 .. Len(ss) : k # 1 => k - 1 \in 1 .. Len(ss)
    OBVIOUS
  <2>3. Flat(h)
    BY <2>1, <2>2
  <2>4. Flat(g)
    BY <2>3, Zenon
  <2>5. FlattenSeq(ss) = g[Len(ss)]
    BY <1>2, Zenon DEF FlattenSeq, Cat
  <2> HIDE DEF g
  <2> DEFINE T == {n \in Nat : n \in 1 .. Len(ss) => g[n] = f[n]}
  <2>6. 0 \in T
    OBVIOUS
  <2>7. ASSUME NEW n \in Nat, n \in T PROVE n + 1 \in T
    <3> SUFFICES ASSUME n + 1 \in 1 .. Len(ss) PROVE g[n + 1] = f[n + 1]
      OBVIOUS
    <3>1. CASE n = 0
      BY <2>1, <2>4, <3>1
    <3>2. CASE n # 0
      <4>1. g[n] = f[n] /\ (n + 1) - 1 = n /\ n + 1 # 1
        BY <2>7, <3>2
      <4>2. f[n + 1] = Cat(f[n], ss[n + 1])
        BY <4>1
      <4>3. g[n + 1] = Cat(g[n], ss[n + 1])
        BY <2>4, <4>1
      <4> QED  BY <4>1, <4>2, <4>3
    <3> QED  BY <3>1, <3>2
  <2> HIDE DEF T
  <2>8. Nat \subseteq T
    BY <2>6, <2>7, Induction
  <2>9. Len(ss) \in Nat /\ Len(ss) \in 1 .. Len(ss)
    BY <1>2
  <2> QED  BY <2>5, <2>8, <2>9 DEF T
<1> QED  BY <1>1, <1>2

\* The concatenation of one more sequence.
LEMMA Flattens ==
    ASSUME NEW S, NEW ss \in Seq(Seq(S))
    PROVE  /\ FlattenSeq(ss) \in Seq(S)
           /\ Len(ss) = 0 => FlattenSeq(ss) = <<>>
           /\ \A x \in Seq(S) : FlattenSeq(Append(ss, x)) = Cat(FlattenSeq(ss), x)
<1> DEFINE Q == Seq(S)
           op == [p \in Q \X Q |-> Cat(p[1], p[2])]
           base == <<>>
<1>1. op \in [Q \X Q -> Q] /\ base \in Q /\ ss \in Seq(Q)
  BY CatType
<1>2. \A a, b \in Seq(S) : op[<<a, b>>] = Cat(a, b)
  OBVIOUS
<1> HIDE DEF op, base, Q
<1>3. PICK f : IsIteration(f, Q, op, base, ss)
  BY <1>1, Iterates
<1> USE DEF base, Q
<1>4. f \in [0 .. Len(ss) -> Seq(S)] /\ f[0] = <<>>
  BY <1>3 DEF IsIteration
<1>5. \A k \in 1 .. Len(ss) : f[k] = op[<<f[k - 1], ss[k]>>]
  BY <1>3 DEF IsIteration
<1>6. ASSUME NEW k \in 1 .. Len(ss) PROVE f[k] = Cat(f[k - 1], ss[k])
  <2>1. k - 1 \in 0 .. Len(ss) /\ ss[k] \in Seq(S)
    OBVIOUS
  <2>2. f[k - 1] \in Seq(S)
    BY <1>4, <2>1
  <2> QED  BY <1>2, <1>5, <2>1, <2>2
<1>7. FlattenSeq(ss) = f[Len(ss)]
  BY <1>4, <1>6, FlattenIs
<1>8. FlattenSeq(ss) \in Seq(S)
  <2>1. Len(ss) \in 0 .. Len(ss)
    OBVIOUS
  <2> QED  BY <1>4, <1>7, <2>1
<1>9. Len(ss) = 0 => FlattenSeq(ss) = <<>>
  BY <1>4, <1>7
<1>10. ASSUME NEW x \in Seq(S) PROVE FlattenSeq(Append(ss, x)) = Cat(FlattenSeq(ss), x)
  <2> DEFINE tt == Append(ss, x)
             g == [k \in 0 .. Len(ss) + 1 |->
                     IF k = Len(ss) + 1 THEN Cat(f[Len(ss)], x) ELSE f[k]]
  <2>1. tt \in Seq(Seq(S)) /\ Len(tt) = Len(ss) + 1 /\ tt[Len(ss) + 1] = x
        /\ \A k \in 1 .. Len(ss) : tt[k] = ss[k]
    OBVIOUS
  <2>2. \A k \in 0 .. Len(ss) : g[k] = f[k]
    OBVIOUS
  <2>3. g[Len(ss) + 1] = Cat(f[Len(ss)], x)
    OBVIOUS
  <2>4. Cat(f[Len(ss)], x) \in Seq(S)
    BY <1>4, CatType
  <2>5. g \in [0 .. Len(tt) -> Seq(S)]
    BY <1>4, <2>1, <2>4
  <2> HIDE DEF g, tt
  <2>6. ASSUME NEW k \in 1 .. Len(tt) PROVE g[k] = Cat(g[k - 1], tt[k])
    <3>1. CASE k = Len(ss) + 1
      <4>1. k - 1 = Len(ss) /\ Len(ss) \in 0 .. Len(ss)
        BY <3>1
      <4> QED  BY <2>1, <2>2, <2>3, <3>1, <4>1
    <3>2. CASE k # Len(ss) + 1
      <4>1. k \in 1 .. Len(ss) /\ k \in 0 .. Len(ss) /\ k - 1 \in 0 .. Len(ss)
        BY <2>1, <3>2
      <4> QED  BY <1>6, <2>1, <2>2, <4>1
    <3> QED  BY <3>1, <3>2
  <2>7. FlattenSeq(tt) = g[Len(tt)]
    <3>1. g[0] = <<>>
      BY <1>4, <2>2
    <3> QED  BY <2>1, <2>5, <2>6, <3>1, FlattenIs
  <2> QED  BY <1>7, <2>1, <2>3, <2>7 DEF tt
<1> QED  BY <1>8, <1>9, <1>10

(***************************************************************************)
(* Types                                                                   *)
(***************************************************************************)

Strings == Seq(Symbols)
Params == UNION {[D -> Strings] : D \in SUBSET Strings}
Elements == [type : Strings \cup {<<"LocalVideo">>}, data : Params]
Spans == [from : Nat, to : Nat]
PieceType == [element : Elements, span : Spans, code : BOOLEAN]

TypeOK ==
    /\ s \in Strings /\ ignore \in BOOLEAN
    /\ pc \in {"S1", "S2", "S3", "S4", "End", "done"}
    /\ i \in 1 .. Len(s) + 1 /\ j \in 1 .. Len(s) + 1 /\ CQBegin \in 1 .. Len(s) + 1
    /\ t \in Strings /\ key \in Strings /\ d \in Params
    /\ r \in Seq(PieceType) /\ gone \subseteq Spans /\ refused \in BOOLEAN

LEMMA ParamsAre ==
    /\ \A D \in SUBSET Strings : \A f \in [D -> Strings] : f \in Params
    /\ \A f \in Params : DOMAIN f \in SUBSET Strings /\ f \in [DOMAIN f -> Strings]
BY DEF Params

LEMMA SymbolTypes ==
    /\ \A c \in Marks \cup Names : c \in Symbols /\ <<c>> \in Strings
    /\ <<>> \in Strings
<1>1. \A c \in Marks \cup Names : c \in Symbols
  BY ConstantsAssumption
<1>2. \A c \in Symbols : <<c>> \in Strings
  BY DEF Strings
<1>3. <<>> \in Strings
  BY DEF Strings
<1> QED  BY <1>1, <1>2, <1>3

LEMMA EscapeType ==
    ASSUME NEW x \in Strings, NEW char, NEW entity \in Marks
    PROVE  Escape(x, char, entity) \in Strings
<1> DEFINE ss == [n \in DOMAIN x |-> IF x[n] = char THEN <<"&", entity>> ELSE <<x[n]>>]
<1>1. \A n \in DOMAIN x : x[n] \in Symbols
  BY DEF Strings
<1>2. "&" \in Symbols /\ entity \in Symbols
  BY SymbolTypes DEF Marks
<1>3. \A n \in DOMAIN x : ss[n] \in Strings
  BY <1>1, <1>2 DEF Strings
<1>4. DOMAIN x = 1 .. Len(x) /\ Len(x) \in Nat
  BY DEF Strings
<1>5. ss \in Seq(Strings)
  BY <1>3, <1>4
<1> HIDE DEF ss
<1>6. FlattenSeq(ss) \in Strings
  BY <1>5, Flattens DEF Strings
<1> QED  BY <1>6 DEF Escape, ss

LEMMA UnescapeType ==
    ASSUME NEW x \in Strings, NEW char \in Marks, NEW entity
    PROVE  Unescape(x, entity, char) \in Strings
<1> DEFINE At(n) == /\ n \in DOMAIN x /\ n + 1 \in DOMAIN x
                    /\ x[n] = "&" /\ x[n + 1] = entity
           ss == [n \in DOMAIN x |->
                    IF At(n) THEN <<char>> ELSE IF At(n - 1) THEN <<>> ELSE <<x[n]>>]
<1>1. \A n \in DOMAIN x : x[n] \in Symbols
  BY DEF Strings
<1>2. <<char>> \in Strings
  BY SymbolTypes
<1> HIDE DEF At
<1>3. \A n \in DOMAIN x : ss[n] \in Strings
  BY <1>1, <1>2 DEF Strings
<1>4. DOMAIN x = 1 .. Len(x) /\ Len(x) \in Nat
  BY DEF Strings
<1>5. ss \in Seq(Strings)
  BY <1>3, <1>4
<1> HIDE DEF ss
<1>6. FlattenSeq(ss) \in Strings
  BY <1>5, Flattens DEF Strings
<1> QED  BY <1>6 DEF Unescape, ss, At

LEMMA EscapesType ==
    ASSUME NEW x \in Strings
    PROVE  /\ CQCodeEscapeText(x) \in Strings /\ CQCodeEscapeValue(x) \in Strings
           /\ CQCodeUnescapeText(x) \in Strings /\ CQCodeUnescapeValue(x) \in Strings
<1>1. \A y \in Strings : CQCodeEscapeText(y) \in Strings
  BY EscapeType DEF CQCodeEscapeText, Marks
<1>2. \A y \in Strings : CQCodeUnescapeText(y) \in Strings
  BY UnescapeType DEF CQCodeUnescapeText, Marks
<1>3. CQCodeEscapeValue(x) \in Strings
  BY <1>1, EscapeType DEF CQCodeEscapeValue, Marks
<1>4. CQCodeUnescapeValue(x) \in Strings
  BY <1>2, UnescapeType DEF CQCodeUnescapeValue, Marks
<1> QED  BY <1>1, <1>2, <1>3, <1>4

LEMMA ElementTypes ==
    ASSUME NEW x \in Strings
    PROVE  Text(x) \in Elements /\ Forward(x) \in Elements /\ LocalVideo(x) \in Elements
<1>1. /\ <<"text">> \in Strings /\ <<"forward">> \in Strings
      /\ <<"id">> \in Strings /\ <<"file">> \in Strings
  BY SymbolTypes DEF Names
<1>2. [k \in {<<"text">>} |-> x] \in Params
  BY <1>1, ParamsAre
<1>3. [k \in {<<"id">>} |-> x] \in Params
  BY <1>1, ParamsAre
<1>4. [k \in {<<"file">>} |-> x] \in Params
  BY <1>1, ParamsAre
<1> QED  BY <1>1, <1>2, <1>3, <1>4 DEF Text, Forward, LocalVideo, Element, Elements

LEMMA WordTypes == \A x \in Seq(Words) : x \in Strings
<1>1. Words \subseteq Symbols
  BY ConstantsAssumption
<1> QED  BY <1>1 DEF Strings

LEMMA HeadTypes ==
    /\ <<"[", "CQ:", "forward", ",", "id", "=">> \in Strings
    /\ <<"[", "CQ:", "video", ",", "file", "=">> \in Strings
    /\ <<",", "url", "=">> \in Strings /\ <<"]">> \in Strings /\ <<>> \in Strings
<1>1. /\ "[" \in Symbols /\ "CQ:" \in Symbols /\ "," \in Symbols /\ "=" \in Symbols
      /\ "forward" \in Symbols /\ "id" \in Symbols /\ "video" \in Symbols
      /\ "file" \in Symbols /\ "url" \in Symbols /\ "]" \in Symbols
  BY SymbolTypes DEF Marks, Names
<1>2. \A a, b, c, x, y, z \in Symbols : <<a, b, c, x, y, z>> \in Strings
  BY DEF Strings
<1>3. \A a, b, c \in Symbols : <<a, b, c>> \in Strings /\ <<a>> \in Strings
  BY DEF Strings
<1>4. <<>> \in Strings
  BY DEF Strings
<1> QED  BY <1>1, <1>2, <1>3, <1>4, Zenon

LEMMA OtherTypes == /\ <<"forward">> # <<"text">> /\ <<"video">> # <<"text">>
                    /\ <<"video">> # <<"forward">> /\ <<"file">> # <<"url">>
                    /\ <<"LocalVideo">> \notin {<<"text">>, <<"forward">>, <<"video">>}
OBVIOUS

LEMMA LocalVideoIs ==
    \A x : LocalVideo(x) = [type |-> <<"LocalVideo">>, data |-> [k \in {<<"file">>} |-> x]]
BY DEF LocalVideo, Element

LEMMA Joins == \A a, b \in Strings : a \o b \in Strings
BY DEF Strings

LEMMA RenderedType ==
    ASSUME NEW e \in Texts \cup Forwards \cup Videos
    PROVE  Rendered(e) \in Strings
<1>1. CASE e \in Texts
  <2>1. e.type = <<"text">> /\ e.data[<<"text">>] \in Strings
    BY <1>1 DEF Texts, Strings
  <2> QED  BY <2>1, EscapesType DEF Rendered
<1>2. CASE e \in Forwards
  <2>1. e.type = <<"forward">> /\ e.data[<<"id">>] \in Strings
    BY <1>2, WordTypes DEF Forwards
  <2>2. Rendered(e) = <<"[", "CQ:", "forward", ",", "id", "=">> \o e.data[<<"id">>] \o <<"]">>
    BY <2>1, OtherTypes, Zenon DEF Rendered
  <2>3. <<"[", "CQ:", "forward", ",", "id", "=">> \o e.data[<<"id">>] \o <<"]">> \in Strings
    BY <2>1, HeadTypes, Joins, Zenon
  <2> QED  BY <2>2, <2>3, Zenon
<1>3. CASE e \in Videos
  <2>1. /\ e.type = <<"video">>
        /\ e.data[<<"file">>] \in Strings /\ e.data[<<"url">>] \in Strings
    BY <1>3 DEF Videos, Strings
  <2>2. CQCodeEscapeValue(e.data[<<"url">>]) \in Strings
    BY <2>1, EscapesType
  <2>3. (IF raw THEN <<>>
         ELSE <<",", "url", "=">> \o CQCodeEscapeValue(e.data[<<"url">>])) \in Strings
    BY <2>2, HeadTypes, Joins
  <2>4. Rendered(e) = <<"[", "CQ:", "video", ",", "file", "=">> \o e.data[<<"file">>]
                  \o (IF raw THEN <<>>
                      ELSE <<",", "url", "=">> \o CQCodeEscapeValue(e.data[<<"url">>]))
                  \o <<"]">>
    BY <2>1, OtherTypes, Zenon DEF Rendered
  <2>5. (<<"[", "CQ:", "video", ",", "file", "=">> \o e.data[<<"file">>]
         \o (IF raw THEN <<>>
             ELSE <<",", "url", "=">> \o CQCodeEscapeValue(e.data[<<"url">>]))
         \o <<"]">>) \in Strings
    BY <2>1, <2>3, HeadTypes, Joins, Zenon
  <2> QED  BY <2>4, <2>5, Zenon
<1> QED  BY <1>1, <1>2, <1>3

LEMMA ToStringType ==
    ASSUME NEW m \in Seq(Texts \cup Forwards \cup Videos)
    PROVE  ToStringMessage(m) \in Strings
<1> DEFINE ss == [n \in DOMAIN m |-> Rendered(m[n])]
<1>1. DOMAIN m = 1 .. Len(m) /\ Len(m) \in Nat
  OBVIOUS
<1>2. \A n \in DOMAIN m : ss[n] \in Strings
  BY RenderedType
<1>3. ss \in Seq(Strings)
  BY <1>1, <1>2
<1> HIDE DEF ss
<1>4. FlattenSeq(ss) \in Strings
  BY <1>3, Flattens DEF Strings
<1> QED  BY <1>4 DEF ToStringMessage, ss

LEMMA InitType == Init => TypeOK
<1> SUFFICES ASSUME Init PROVE TypeOK
  OBVIOUS
<1>1. s \in Strings
  BY ToStringType, ConstantsAssumption DEF Init, Strings
<1>2. NoParams \in Params
  <2>1. NoParams = [x \in {} |-> x] /\ NoParams \in [{} -> Strings]
    BY DEF NoParams
  <2> QED  BY <2>1, ParamsAre
<1>3. Len(s) \in Nat
  BY <1>1 DEF Strings
<1>4. 1 \in 1 .. Len(s) + 1 /\ <<>> \in Seq(PieceType)
  BY <1>3
<1> QED  BY <1>1, <1>2, <1>4, SymbolTypes DEF Init, TypeOK

(***************************************************************************)
(* What is read, and where                                                 *)
(***************************************************************************)

InCode == pc \in {"S2", "S3", "S4"}

\* The places that the variables name.
ReadOK ==
    /\ pc = "S1" => i = j /\ CQBegin <= j
    /\ InCode => i = j /\ CQBegin + 2 <= j
    /\ pc = "End" => i = Len(s) + 1 /\ CQBegin <= j

\* The pieces in P are not empty, do not overlap, and make up the positions A.
Exact(P, A) ==
    /\ \A p \in P : p.from <= p.to /\ p.from .. p.to \subseteq A
    /\ \A x \in A : \E p \in P : x \in p.from .. p.to
    /\ \A p, q \in P : \A x \in A :
          x \in p.from .. p.to /\ x \in q.from .. q.to => p = q

\* All that has been read is in the pieces, up to what is being read; at the end
\* the beginning of a code that does not end is missing.
TileOK ==
    /\ pc = "S1" => Exact(Pieces, 1 .. j - 1)
    /\ InCode => Exact(Pieces, 1 .. CQBegin - 1)
    /\ pc = "End" => \/ Exact(Pieces, 1 .. j - 1)
                     \/ CQBegin < j /\ Exact(Pieces, 1 .. CQBegin - 1)
    /\ pc = "done" => \/ Exact(Pieces, 1 .. Len(s))
                      \/ \E m \in CQBegin .. Len(s) :
                            Exact(Pieces, (1 .. Len(s)) \ (CQBegin .. m))

OrderOK == \A m, n \in DOMAIN r : m < n => r[m].span.to < r[n].span.from

\* The parameter of f was written between two positions.
Written(f, from, to, param) ==
    \E a, b, c \in from + 1 .. to :
        /\ c < a /\ a <= b
        /\ s[c - 1] = "," /\ s[a - 1] = "=" /\ s[b] \in {",", "]"}
        /\ param = Part(c, a - 2)
        /\ f[param] = CQCodeUnescapeValue(Part(a, b - 1))

\* The map d has the parameters read so far of the code that is being read.
ParamsOK ==
    /\ pc = "S2" => DOMAIN d = {}
    /\ pc \in {"S3", "S4"} => \A x \in DOMAIN d : Written(d, CQBegin, j - 1, x)
    /\ pc = "S3" => s[j - 1] = ","
    /\ pc = "S4" => /\ s[j - 1] = "="
                    /\ \E c \in CQBegin + 1 .. j - 1 :
                          s[c - 1] = "," /\ key = Part(c, j - 2)

OwnParams(p) ==
    p.code /\ p.element.data # Text(<<>>).data =>
        \A x \in DOMAIN p.element.data : Own(p, x)

OwnOK == \A n \in DOMAIN r : OwnParams(r[n])

IInv == TypeOK /\ ReadOK /\ TileOK /\ OrderOK /\ ParamsOK /\ OwnOK

LEMMA ExactMore ==
    ASSUME NEW P \in SUBSET Spans, NEW A \in SUBSET Nat, Exact(P, A),
           NEW a \in Nat, NEW b \in Nat, a <= b, (a .. b) \cap A = {}
    PROVE  Exact(P \cup {Span(a, b)}, A \cup (a .. b))
<1>1. Span(a, b).from = a /\ Span(a, b).to = b
  BY DEF Span
<1> DEFINE n == Span(a, b)
<1> HIDE DEF n
<1> SUFFICES ASSUME n.from = a, n.to = b
             PROVE  Exact(P \cup {n}, A \cup (a .. b))
  BY <1>1 DEF n
<1> QED  BY DEF Exact, Spans

\* The result and its pieces, when something is appended.
LEMMA PiecesMore ==
    ASSUME TypeOK, NEW p \in PieceType, r' = Append(r, p)
    PROVE  /\ r' \in Seq(PieceType) /\ Len(r') = Len(r) + 1
           /\ DOMAIN r = 1 .. Len(r) /\ DOMAIN r' = 1 .. Len(r) + 1
           /\ r'[Len(r) + 1] = p /\ \A n \in DOMAIN r : r'[n] = r[n]
           /\ gone' = gone => Pieces' = Pieces \cup {p.span}
<1>1. r \in Seq(PieceType) /\ Len(r) \in Nat
  BY DEF TypeOK
<1>2. /\ r' \in Seq(PieceType) /\ Len(r') = Len(r) + 1
      /\ DOMAIN r = 1 .. Len(r) /\ DOMAIN r' = 1 .. Len(r) + 1
      /\ r'[Len(r) + 1] = p /\ \A n \in DOMAIN r : r'[n] = r[n]
  BY <1>1
<1>3. {r'[n].span : n \in DOMAIN r'} = {r[n].span : n \in DOMAIN r} \cup {p.span}
  <2>1. DOMAIN r' = DOMAIN r \cup {Len(r) + 1}
    BY <1>1, <1>2
  <2>2. \A n \in DOMAIN r : r'[n].span = r[n].span
    BY <1>2
  <2>3. r'[Len(r) + 1].span = p.span
    BY <1>2
  <2> QED  BY <2>1, <2>2, <2>3
<1> QED  BY <1>2, <1>3 DEF Pieces

\* The places of the pieces are numbers.
LEMMA PiecesType == TypeOK => Pieces \subseteq Spans
<1> SUFFICES ASSUME TypeOK, NEW n \in DOMAIN r PROVE r[n].span \in Spans
  BY DEF TypeOK, Pieces
<1>1. r[n] \in PieceType
  BY DEF TypeOK
<1> QED  BY <1>1 DEF PieceType

LEMMA PartType ==
    ASSUME TypeOK, NEW a \in Int, NEW b \in Int, 1 <= a, b <= Len(s)
    PROVE  Part(a, b) \in Strings
<1>1. s \in Seq(Symbols) /\ Len(s) \in Nat
  BY DEF TypeOK, Strings
<1>2. \A n \in a .. b : s[n] \in Symbols
  BY <1>1
<1> QED  BY <1>2, SubSeqProperties DEF Part, Strings

LEMMA OwnStays == s' = s /\ (\A n \in DOMAIN r' : OwnParams(r'[n])) => OwnOK'
<1> SUFFICES ASSUME s' = s, NEW n \in DOMAIN r', OwnParams(r'[n]) PROVE OwnParams(r[n])'
  BY DEF OwnOK
<1>1. \A x : Own(r'[n], x) => Own(r[n], x)'
  BY Zenon DEF Own, Part
<1> QED  BY <1>1, Zenon DEF OwnParams

\* What one more piece leaves to be shown.
LEMMA OneMore ==
    ASSUME TypeOK, OrderOK, OwnOK, NEW A \in SUBSET Nat, Exact(Pieces, A),
           NEW p \in PieceType, \A x \in A : x < p.span.from,
           p.span.from <= p.span.to,
           OwnParams(p), r' = Append(r, p), gone' = gone, s' = s
    PROVE  /\ r' \in Seq(PieceType) /\ OrderOK' /\ OwnOK'
           /\ Exact(Pieces', A \cup (p.span.from .. p.span.to))
<1>1. /\ r' \in Seq(PieceType) /\ Len(r') = Len(r) + 1 /\ Len(r) \in Nat
      /\ DOMAIN r = 1 .. Len(r) /\ DOMAIN r' = 1 .. Len(r) + 1
      /\ r'[Len(r) + 1] = p /\ \A n \in DOMAIN r : r'[n] = r[n]
      /\ Pieces' = Pieces \cup {p.span}
  BY PiecesMore DEF TypeOK
<1>2. \A n \in DOMAIN r' : n = Len(r) + 1 \/ n \in DOMAIN r
  BY <1>1
<1>3. ASSUME NEW n \in DOMAIN r PROVE r[n].span.to < p.span.from
  <2>1. r[n].span \in Pieces /\ r[n].span \in Spans
    BY PiecesType DEF Pieces
  <2>2. r[n].span.to \in r[n].span.from .. r[n].span.to
    BY <2>1 DEF Exact, Spans
  <2>3. r[n].span.to \in A
    BY <2>1, <2>2 DEF Exact
  <2> QED  BY <2>3
<1>4. OrderOK'
  <2> SUFFICES ASSUME NEW m \in DOMAIN r', NEW n \in DOMAIN r', m < n
               PROVE  r'[m].span.to < r'[n].span.from
    BY DEF OrderOK
  <2>1. m \in DOMAIN r
    BY <1>1, <1>2
  <2>2. CASE n = Len(r) + 1
    BY <1>1, <1>3, <2>1, <2>2
  <2>3. CASE n \in DOMAIN r
    BY <1>1, <2>1, <2>3 DEF OrderOK
  <2> QED  BY <1>2, <2>2, <2>3
<1>5. OwnOK'
  <2>1. \A n \in DOMAIN r' : OwnParams(r'[n])
    BY <1>1, <1>2 DEF OwnOK
  <2> QED  BY <2>1, OwnStays
<1>6. Exact(Pieces', A \cup (p.span.from .. p.span.to))
  <2>1. /\ p.span \in Spans /\ p.span = Span(p.span.from, p.span.to)
        /\ p.span.from \in Nat /\ p.span.to \in Nat
    BY DEF PieceType, Spans, Span
  <2>2. (p.span.from .. p.span.to) \cap A = {}
    BY <2>1
  <2>3. Pieces \in SUBSET Spans
    BY PiecesType
  <2> QED  BY <1>1, <2>1, <2>2, <2>3, ExactMore
<1> QED  BY <1>1, <1>4, <1>5, <1>6

LEMMA TextStep ==
    ASSUME TypeOK, OrderOK, OwnOK, NEW A \in SUBSET Nat, Exact(Pieces, A),
           \A x \in A : x < j, NEW k \in Nat, k <= Len(s) + 1,
           r' = WithText(k), gone' = gone, s' = s
    PROVE  /\ r' \in Seq(PieceType) /\ OrderOK' /\ OwnOK'
           /\ Exact(Pieces', A \cup (j .. k - 1))
<1>1. j \in Nat /\ 1 <= j /\ Len(s) \in Nat
  BY DEF TypeOK, Strings
<1>2. CASE k > j
  <2> DEFINE p == Piece(Text(CQCodeUnescapeText(Part(j, k - 1))), Span(j, k - 1), FALSE)
  <2>1. Part(j, k - 1) \in Strings
    BY <1>1, PartType
  <2>2. Text(CQCodeUnescapeText(Part(j, k - 1))) \in Elements
    BY <2>1, EscapesType, ElementTypes
  <2>3. /\ p \in PieceType /\ p.span.from = j /\ p.span.to = k - 1 /\ ~p.code
    BY <1>1, <1>2, <2>2 DEF PieceType, Piece, Span, Spans
  <2>4. r' = Append(r, p)
    BY <1>2 DEF WithText
  <2> HIDE DEF p
  <2>5. OwnParams(p) /\ p.span.from <= p.span.to
    BY <1>1, <1>2, <2>3 DEF OwnParams
  <2>6. \A x \in A : x < p.span.from
    BY <2>3
  <2> QED  BY <2>3, <2>4, <2>5, <2>6, OneMore
<1>3. CASE ~(k > j)
  <2>1. r' = r /\ j .. k - 1 = {}
    BY <1>1, <1>3 DEF WithText
  <2>2. Pieces' = Pieces
    BY <2>1 DEF Pieces
  <2>3. A \cup (j .. k - 1) = A
    BY <2>1
  <2>4. OwnOK'
    BY <2>1, OwnStays DEF OwnOK
  <2>5. OrderOK' /\ r' \in Seq(PieceType)
    BY <2>1 DEF OrderOK, TypeOK
  <2> QED  BY <2>2, <2>3, <2>4, <2>5
<1> QED  BY <1>2, <1>3

\* A parameter of an element was written where the code of its piece is.
LEMMA OwnFrom ==
    ASSUME NEW p, NEW params, NEW x, NEW k,
           p.span.from = CQBegin, p.span.to = k, p.element.data[x] = params[x],
           Written(params, CQBegin, k, x)
    PROVE  Own(p, x)
<1>1. PICK a \in CQBegin + 1 .. k, b \in CQBegin + 1 .. k, c \in CQBegin + 1 .. k :
        /\ c < a /\ a <= b
        /\ s[c - 1] = "," /\ s[a - 1] = "=" /\ s[b] \in {",", "]"}
        /\ x = Part(c, a - 2)
        /\ params[x] = CQCodeUnescapeValue(Part(a, b - 1))
  BY Zenon DEF Written
<1>2. /\ a \in p.span.from + 1 .. p.span.to /\ b \in p.span.from + 1 .. p.span.to
      /\ c \in p.span.from + 1 .. p.span.to
      /\ p.element.data[x] = CQCodeUnescapeValue(Part(a, b - 1))
  BY <1>1
<1> QED  BY <1>1, <1>2, Zenon DEF Own

\* What an element that stands for a code has in it.
LEMMA ToElementIs ==
    ASSUME NEW type \in Strings, NEW params \in Params, NEW e \in ToElement(type, params)
    PROVE  /\ e \in Elements
           /\ e.data # Text(<<>>).data =>
                 \A x \in DOMAIN e.data : x \in DOMAIN params /\ e.data[x] = params[x]
<1>1. CASE type = <<"text">>
  <2>1. e = Text(IF <<"text">> \in DOMAIN params THEN params[<<"text">>] ELSE <<>>)
    BY <1>1, Zenon DEF ToElement
  <2>2. CASE <<"text">> \in DOMAIN params
    <3>1. e = Text(params[<<"text">>]) /\ params[<<"text">>] \in Strings
      BY <2>1, <2>2, ParamsAre
    <3>2. \A x \in DOMAIN e.data : x = <<"text">> /\ e.data[x] = params[<<"text">>]
      BY <3>1 DEF Text, Element
    <3> QED  BY <2>2, <3>1, <3>2, ElementTypes
  <2>3. CASE <<"text">> \notin DOMAIN params
    <3>1. e = Text(<<>>) /\ <<>> \in Strings
      BY <2>1, <2>3, SymbolTypes
    <3> QED  BY <3>1, ElementTypes
  <2> QED  BY <2>2, <2>3
<1>2. CASE type = <<"video">>
  <2>1. <<"file">> \in DOMAIN params /\ e = LocalVideo(params[<<"file">>])
    BY <1>2, OtherTypes, Zenon DEF ToElement
  <2>2. params[<<"file">>] \in Strings
    BY <2>1, ParamsAre
  <2>3. \A x \in DOMAIN e.data : x = <<"file">> /\ e.data[x] = params[<<"file">>]
    BY <2>1, LocalVideoIs
  <2> QED  BY <2>1, <2>2, <2>3, ElementTypes
<1>3. CASE type # <<"text">> /\ type # <<"video">>
  BY <1>3, Zenon DEF ToElement
<1> QED  BY <1>1, <1>2, <1>3

LEMMA SaveStep ==
    ASSUME TypeOK, OrderOK, OwnOK, NEW type \in Strings, NEW params \in Params,
           NEW k \in Nat, CQBegin <= k, Exact(Pieces, 1 .. CQBegin - 1), k <= Len(s),
           \A x \in DOMAIN params : Written(params, CQBegin, k, x),
           SaveCQCode(type, params, k), s' = s
    PROVE  /\ r' \in Seq(PieceType) /\ gone' \subseteq Spans /\ refused' \in BOOLEAN
           /\ OrderOK' /\ OwnOK' /\ Exact(Pieces', 1 .. k)
<1> DEFINE A == 1 .. CQBegin - 1
           span == Span(CQBegin, k)
<1>1. CQBegin \in Nat /\ 1 <= CQBegin /\ Len(s) \in Nat
  BY DEF TypeOK, Strings
<1>2. span \in Spans /\ span.from = CQBegin /\ span.to = k
  BY <1>1 DEF Span, Spans
<1>3. A \cup (CQBegin .. k) = 1 .. k /\ (CQBegin .. k) \cap A = {} /\ A \subseteq Nat
  BY <1>1
<1>4. Exact(Pieces \cup {span}, 1 .. k)
  <2>1. Pieces \in SUBSET Spans /\ A \in SUBSET Nat
    BY <1>3, PiecesType
  <2>2. Exact(Pieces \cup {Span(CQBegin, k)}, A \cup (CQBegin .. k))
    BY <1>1, <1>3, <2>1, ExactMore
  <2> QED  BY <1>3, <2>2
<1> HIDE DEF span, A
<1>5. ASSUME NEW p \in PieceType, p.span = span, OwnParams(p),
             r' = Append(r, p), gone' = gone
      PROVE  r' \in Seq(PieceType) /\ OrderOK' /\ OwnOK' /\ Exact(Pieces', 1 .. k)
  <2>1. /\ p.span.from = CQBegin /\ p.span.to = k /\ p.span.from <= p.span.to
        /\ \A x \in A : x < p.span.from
    BY <1>1, <1>2, <1>5 DEF A
  <2>2. A \in SUBSET Nat /\ Exact(Pieces, A)
    BY <1>3 DEF A
  <2>3. /\ r' \in Seq(PieceType) /\ OrderOK' /\ OwnOK'
        /\ Exact(Pieces', A \cup (p.span.from .. p.span.to))
    BY <1>5, <2>1, <2>2, OneMore
  <2> QED  BY <1>3, <2>1, <2>3
<1>6. \/ /\ type = <<"forward">> /\ <<"id">> \in DOMAIN params
         /\ r' = <<Piece(Forward(params[<<"id">>]), span, TRUE)>>
         /\ gone' = gone \cup {r[n].span : n \in DOMAIN r} /\ refused' = refused
      \/ \E e \in ToElement(type, params) :
            r' = Append(r, Piece(e, span, TRUE)) /\ gone' = gone /\ refused' = refused
      \/ refused' = TRUE /\ r' = r /\ gone' = gone \cup {span}
      \/ /\ refused' = TRUE /\ gone' = gone
         /\ r' = Append(r, Piece(Text(Part(CQBegin, k)), span, FALSE))
  BY Zenon DEF SaveCQCode, span
<1>7. CASE /\ <<"id">> \in DOMAIN params
           /\ r' = <<Piece(Forward(params[<<"id">>]), span, TRUE)>>
           /\ gone' = gone \cup {r[n].span : n \in DOMAIN r} /\ refused' = refused
  <2> DEFINE x == params[<<"id">>]
             p == Piece(Forward(x), span, TRUE)
  <2>1. x \in Strings
    BY <1>7, ParamsAre
  <2>2. p \in PieceType /\ p.span = span /\ p.element.data = [y \in {<<"id">>} |-> x]
    BY <1>2, <2>1, ElementTypes DEF PieceType, Piece, Forward, Element
  <2>3. OwnParams(p)
    <3>1. p.element.data[<<"id">>] = params[<<"id">>] /\ DOMAIN p.element.data = {<<"id">>}
      BY <2>2
    <3>2. Written(params, CQBegin, k, <<"id">>)
      BY <1>7
    <3>3. Own(p, <<"id">>)
      BY <1>2, <2>2, <3>1, <3>2, OwnFrom
    <3> QED  BY <3>1, <3>3 DEF OwnParams
  <2> HIDE DEF p, x
  <2>4. r' = <<p>>
    BY <1>7 DEF p, x
  <2>5. r' \in Seq(PieceType) /\ DOMAIN r' = {1} /\ r'[1] = p
    BY <2>2, <2>4
  <2>6. OrderOK'
    <3> SUFFICES \A m, n \in DOMAIN r' : m < n => r'[m].span.to < r'[n].span.from
      BY DEF OrderOK
    <3> QED  BY <2>5
  <2>7. OwnOK'
    BY <2>3, <2>5, OwnStays
  <2>8. Pieces' = Pieces \cup {span}
    <3>1. {r'[n].span : n \in DOMAIN r'} = {span}
      BY <2>2, <2>5
    <3> QED  BY <1>7, <3>1 DEF Pieces
  <2>9. gone' \subseteq Spans
    <3>1. gone' = Pieces
      BY <1>7 DEF Pieces
    <3> QED  BY <3>1, PiecesType
  <2>10. refused' \in BOOLEAN
    BY <1>7 DEF TypeOK
  <2> QED  BY <1>4, <2>5, <2>6, <2>7, <2>8, <2>9, <2>10
<1>8. ASSUME NEW e \in ToElement(type, params),
             r' = Append(r, Piece(e, span, TRUE)), gone' = gone, refused' = refused
      PROVE  /\ r' \in Seq(PieceType) /\ gone' \subseteq Spans /\ refused' \in BOOLEAN
             /\ OrderOK' /\ OwnOK' /\ Exact(Pieces', 1 .. k)
  <2> DEFINE p == Piece(e, span, TRUE)
  <2>1. /\ e \in Elements
        /\ e.data # Text(<<>>).data =>
              \A x \in DOMAIN e.data : x \in DOMAIN params /\ e.data[x] = params[x]
    BY ToElementIs
  <2>2. p \in PieceType /\ p.span = span /\ p.element = e
    BY <1>2, <2>1 DEF PieceType, Piece
  <2> HIDE DEF p
  <2>3. OwnParams(p)
    <3> SUFFICES ASSUME e.data # Text(<<>>).data, NEW x \in DOMAIN e.data
                 PROVE  Own(p, x)
      BY <2>2 DEF OwnParams
    <3>1. p.element.data[x] = params[x] /\ Written(params, CQBegin, k, x)
      BY <2>1, <2>2
    <3>2. p.span.from = CQBegin /\ p.span.to = k
      BY <1>2, <2>2
    <3> QED  BY <3>1, <3>2, OwnFrom
  <2>4. r' = Append(r, p)
    BY <1>8 DEF p
  <2>5. gone' \subseteq Spans /\ refused' \in BOOLEAN
    BY <1>8 DEF TypeOK
  <2> QED  BY <1>5, <1>8, <2>2, <2>3, <2>4, <2>5
<1>9. CASE refused' = TRUE /\ r' = r /\ gone' = gone \cup {span}
  <2>1. Pieces' = Pieces \cup {span}
    BY <1>9 DEF Pieces
  <2>2. OwnOK'
    BY <1>9, OwnStays DEF OwnOK
  <2>3. OrderOK' /\ r' \in Seq(PieceType) /\ gone' \subseteq Spans
    BY <1>2, <1>9 DEF OrderOK, TypeOK
  <2> QED  BY <1>4, <1>9, <2>1, <2>2, <2>3
<1>10. CASE /\ refused' = TRUE /\ gone' = gone
            /\ r' = Append(r, Piece(Text(Part(CQBegin, k)), span, FALSE))
  <2> DEFINE p == Piece(Text(Part(CQBegin, k)), span, FALSE)
  <2>1. Part(CQBegin, k) \in Strings
    BY <1>1, PartType
  <2>2. p \in PieceType /\ p.span = span /\ ~p.code
    BY <1>2, <2>1, ElementTypes DEF PieceType, Piece
  <2> HIDE DEF p
  <2>3. OwnParams(p)
    BY <2>2 DEF OwnParams
  <2>4. r' = Append(r, p)
    BY <1>10 DEF p
  <2>5. gone' \subseteq Spans
    BY <1>10 DEF TypeOK
  <2> QED  BY <1>5, <1>10, <2>2, <2>3, <2>4, <2>5
<1> QED  BY <1>6, <1>7, <1>8, <1>9, <1>10

(***************************************************************************)
(* The steps                                                               *)
(***************************************************************************)

LEMMA Places ==
    ASSUME IInv
    PROVE  /\ Len(s) \in Nat /\ s \in Seq(Symbols)
           /\ i \in Nat /\ j \in Nat /\ CQBegin \in Nat
           /\ 1 <= i /\ 1 <= j /\ 1 <= CQBegin
           /\ i <= Len(s) + 1 /\ j <= Len(s) + 1 /\ CQBegin <= Len(s) + 1
BY DEF IInv, TypeOK, Strings

LEMMA SameResult ==
    ASSUME IInv, s' = s, r' = r, gone' = gone
    PROVE  /\ r' \in Seq(PieceType) /\ gone' \subseteq Spans /\ Pieces' = Pieces
           /\ OrderOK' /\ OwnOK'
<1>1. OwnOK'
  BY OwnStays DEF IInv, OwnOK
<1> QED  BY <1>1 DEF IInv, TypeOK, OrderOK, Pieces

\* Further on, a parameter has still been written, and whatever is in its map.
LEMMA WrittenOn ==
    ASSUME NEW f, NEW g, NEW from \in Int, NEW to \in Int, NEW k \in Int, to <= k,
           NEW x, Written(f, from, to, x), g[x] = f[x]
    PROVE  Written(g, from, k, x)
<1>1. PICK a \in from + 1 .. to, b \in from + 1 .. to, c \in from + 1 .. to :
        /\ c < a /\ a <= b
        /\ s[c - 1] = "," /\ s[a - 1] = "=" /\ s[b] \in {",", "]"}
        /\ x = Part(c, a - 2)
        /\ f[x] = CQCodeUnescapeValue(Part(a, b - 1))
  BY Zenon DEF Written
<1>2. a \in from + 1 .. k /\ b \in from + 1 .. k /\ c \in from + 1 .. k
  OBVIOUS
<1>3. g[x] = CQCodeUnescapeValue(Part(a, b - 1))
  BY <1>1
<1> QED  BY <1>1, <1>2, <1>3, Zenon DEF Written

LEMMA WrittenStays ==
    ASSUME s' = s, NEW x, Written(d', CQBegin', j' - 1, x)
    PROVE  Written(d, CQBegin, j - 1, x)'
BY Zenon DEF Written, Part

LEMMA EndsStep ==
    ASSUME IInv, InCode, NEW symbols, Ends(symbols)
    PROVE  IInv'
<1>1. /\ pc' = "End" /\ i' = Len(s) + 1 /\ s' = s /\ ignore' = ignore
      /\ j' = j /\ CQBegin' = CQBegin /\ t' = t /\ key' = key /\ d' = d
      /\ r' = r /\ gone' = gone /\ refused' = refused
  BY DEF Ends, given, code
<1>2. /\ r' \in Seq(PieceType) /\ gone' \subseteq Spans /\ Pieces' = Pieces
      /\ OrderOK' /\ OwnOK'
  BY <1>1, SameResult
<1>3. CQBegin + 2 <= j /\ Exact(Pieces, 1 .. CQBegin - 1)
  BY DEF IInv, ReadOK, TileOK
<1>4. CQBegin < j
  BY <1>3, Places
<1>5. TypeOK'
  BY <1>1, <1>2, Places DEF IInv, TypeOK
<1>6. TileOK'
  BY <1>1, <1>2, <1>3, <1>4 DEF TileOK, InCode
<1>7. ReadOK'
  BY <1>1, <1>4, Places DEF ReadOK, InCode
<1>8. ParamsOK'
  BY <1>1 DEF ParamsOK
<1> QED  BY <1>2, <1>5, <1>6, <1>7, <1>8 DEF IInv

LEMMA S1Step == IInv /\ S1 => IInv'
<1> SUFFICES ASSUME IInv, S1 PROVE IInv'
  OBVIOUS
<1>1. pc = "S1" /\ i = j /\ CQBegin <= j /\ Exact(Pieces, 1 .. j - 1)
  BY DEF S1, IInv, ReadOK, TileOK
<1>2. s' = s /\ ignore' = ignore /\ gone' = gone /\ refused' = refused /\ t' = t /\ key' = key
  BY Zenon DEF S1, given, code
<1>3. CASE pc' = "End" /\ i' = Len(s) + 1 /\ j' = j /\ r' = r /\ d' = d /\ CQBegin' = CQBegin
  <2>1. /\ r' \in Seq(PieceType) /\ gone' \subseteq Spans /\ Pieces' = Pieces
        /\ OrderOK' /\ OwnOK'
    BY <1>2, <1>3, SameResult
  <2>2. TypeOK'
    BY <1>2, <1>3, <2>1, Places DEF IInv, TypeOK
  <2>3. TileOK'
    BY <1>1, <1>2, <1>3, <2>1 DEF TileOK, InCode
  <2>4. ReadOK'
    BY <1>1, <1>2, <1>3, Places DEF ReadOK, InCode
  <2>5. ParamsOK'
    BY <1>3 DEF ParamsOK
  <2> QED  BY <2>1, <2>2, <2>3, <2>4, <2>5 DEF IInv
<1>4. ASSUME NEW k \in i .. Len(s), Magic(k), r' = WithText(k), CQBegin' = k,
             d' = Cleared, i' = k + 2, j' = k + 2, pc' = "S2"
      PROVE  IInv'
  <2>1. k \in Nat /\ j <= k /\ k <= Len(s) /\ k + 2 <= Len(s)
    BY <1>1, <1>4, Places DEF Magic
  <2>2. /\ r' \in Seq(PieceType) /\ OrderOK' /\ OwnOK'
        /\ Exact(Pieces', (1 .. j - 1) \cup (j .. k - 1))
    <3>1. \A x \in 1 .. j - 1 : x < j
      BY Places
    <3>2. (1 .. j - 1) \in SUBSET Nat
      BY Places
    <3>3. k <= Len(s) + 1
      BY <2>1, Places
    <3> QED  BY <1>1, <1>2, <1>4, <2>1, <3>1, <3>2, <3>3, TextStep DEF IInv
  <2>3. (1 .. j - 1) \cup (j .. k - 1) = 1 .. k - 1
    BY <2>1, Places
  <2>4. DOMAIN d' = {} /\ d' \in Params
    <3>1. d' = [x \in {} |-> x] /\ d' \in [{} -> Strings]
      BY <1>4 DEF Cleared, NoParams
    <3> QED  BY <3>1, ParamsAre
  <2>5. TypeOK'
    BY <1>2, <1>4, <2>1, <2>2, <2>4, Places DEF IInv, TypeOK
  <2>6. TileOK'
    BY <1>2, <1>4, <2>2, <2>3 DEF TileOK, InCode
  <2>7. ReadOK'
    BY <1>2, <1>4, <2>1 DEF ReadOK, InCode
  <2>8. ParamsOK'
    BY <1>4, <2>4 DEF ParamsOK
  <2> QED  BY <2>2, <2>5, <2>6, <2>7, <2>8 DEF IInv
<1> QED  BY <1>3, <1>4, Zenon DEF S1, given, code

\* What is read of a code goes on: nothing is in the result yet.
LEMMA ReadsStep ==
    ASSUME IInv, InCode, NEW k \in i .. Len(s), Reads(k, "S3") \/ Reads(k, "S4"),
           s' = s, ignore' = ignore, CQBegin' = CQBegin,
           r' = r, gone' = gone, refused' = refused,
           t' \in Strings, key' \in Strings, d' \in Params, ParamsOK'
    PROVE  IInv'
<1>1. i' = k + 1 /\ j' = k + 1 /\ pc' \in {"S3", "S4"}
  BY DEF Reads
<1>2. /\ r' \in Seq(PieceType) /\ gone' \subseteq Spans /\ Pieces' = Pieces
      /\ OrderOK' /\ OwnOK'
  BY SameResult
<1>3. i = j /\ CQBegin + 2 <= j /\ Exact(Pieces, 1 .. CQBegin - 1)
  BY DEF IInv, ReadOK, TileOK
<1>4. TypeOK'
  BY <1>1, <1>2, Places DEF IInv, TypeOK
<1>5. TileOK'
  BY <1>1, <1>2, <1>3 DEF TileOK, InCode
<1>6. ReadOK'
  BY <1>1, <1>3, Places DEF ReadOK, InCode
<1> QED  BY <1>2, <1>4, <1>5, <1>6 DEF IInv

\* The code is saved.
LEMMA SavesStep ==
    ASSUME IInv, InCode, NEW k \in i .. Len(s), Reads(k, "S1"),
           NEW type \in Strings, NEW params \in Params, SaveCQCode(type, params, k),
           \A x \in DOMAIN params : Written(params, CQBegin, k, x),
           s' = s, ignore' = ignore, CQBegin' = CQBegin,
           t' \in Strings, key' \in Strings, d' \in Params
    PROVE  IInv'
<1>1. i' = k + 1 /\ j' = k + 1 /\ pc' = "S1"
  BY DEF Reads
<1>2. i = j /\ CQBegin + 2 <= j /\ Exact(Pieces, 1 .. CQBegin - 1)
  BY DEF IInv, ReadOK, TileOK
<1>3. k \in Nat /\ CQBegin <= k /\ k <= Len(s)
  BY <1>2, Places
<1>4. /\ r' \in Seq(PieceType) /\ gone' \subseteq Spans /\ refused' \in BOOLEAN
      /\ OrderOK' /\ OwnOK' /\ Exact(Pieces', 1 .. k)
  BY <1>2, <1>3, SaveStep DEF IInv
<1>5. TypeOK'
  BY <1>1, <1>3, <1>4, Places DEF IInv, TypeOK
<1>6. TileOK'
  <2>1. (k + 1) - 1 = k
    BY <1>3
  <2> QED  BY <1>1, <1>4, <2>1 DEF TileOK, InCode
<1>7. ReadOK'
  BY <1>1, <1>3, Places DEF ReadOK, InCode
<1>8. ParamsOK'
  BY <1>1 DEF ParamsOK
<1> QED  BY <1>4, <1>5, <1>6, <1>7, <1>8 DEF IInv

\* A position further on in the code that is being read.
LEMMA Between ==
    ASSUME IInv, InCode, NEW k \in i .. Len(s)
    PROVE  /\ k \in Nat /\ k \in Int /\ j <= k /\ k <= Len(s) /\ j \in Int /\ k - 1 \in Int
           /\ 1 <= j /\ k - 1 <= Len(s) /\ (k + 1) - 1 = k /\ (k + 1) - 2 = k - 1
           /\ CQBegin \in Int /\ CQBegin + 2 <= j /\ j - 1 \in Int /\ j - 1 <= k
<1>1. i = j /\ CQBegin + 2 <= j
  BY DEF IInv, ReadOK
<1> QED  BY <1>1, Places

LEMMA S2Step == IInv /\ S2 => IInv'
<1> SUFFICES ASSUME IInv, S2 PROVE IInv'
  OBVIOUS
<1>1. pc = "S2" /\ InCode /\ i = j /\ CQBegin + 2 <= j /\ DOMAIN d = {}
  BY DEF S2, IInv, InCode, ReadOK, ParamsOK
<1>2. CASE Ends({",", "]"})
  BY <1>1, <1>2, EndsStep
<1>3. ASSUME NEW k \in i .. Len(s), t' = Part(j, k - 1),
             \/ s[k] = "," /\ Reads(k, "S3") /\ UNCHANGED <<r, gone, refused>>
             \/ s[k] = "]" /\ Reads(k, "S1") /\ SaveCQCode(t', d, k),
             UNCHANGED <<given, CQBegin, key, d>>
      PROVE  IInv'
  <2>0. /\ k \in Nat /\ k \in Int /\ j <= k /\ k <= Len(s) /\ j \in Int /\ k - 1 \in Int
        /\ 1 <= j /\ k - 1 <= Len(s) /\ (k + 1) - 1 = k /\ (k + 1) - 2 = k - 1
        /\ CQBegin \in Int /\ CQBegin + 2 <= j /\ j - 1 \in Int /\ j - 1 <= k
    BY <1>1, Between
  <2>1. /\ s' = s /\ ignore' = ignore /\ CQBegin' = CQBegin /\ key' = key /\ d' = d
        /\ key' \in Strings /\ d' \in Params /\ d \in Params
    BY <1>3 DEF given, IInv, TypeOK
  <2>2. t' \in Strings
    BY <1>3, <2>0, PartType DEF IInv
  <2>3. CASE s[k] = "," /\ Reads(k, "S3") /\ UNCHANGED <<r, gone, refused>>
    <3>1. pc' = "S3" /\ j' = k + 1 /\ j' - 1 = k
      BY <2>0, <2>3 DEF Reads
    <3>2. ParamsOK'
      BY <1>1, <2>1, <2>3, <3>1 DEF ParamsOK
    <3> QED  BY <1>1, <2>1, <2>2, <2>3, <3>2, ReadsStep
  <2>4. CASE s[k] = "]" /\ Reads(k, "S1") /\ SaveCQCode(t', d, k)
    <3>1. \A x \in DOMAIN d : Written(d, CQBegin, k, x)
      BY <1>1
    <3> QED  BY <1>1, <2>1, <2>2, <2>4, <3>1, SavesStep
  <2> QED  BY <1>3, <2>3, <2>4
<1> QED  BY <1>2, <1>3, Zenon DEF S2

LEMMA S3Step == IInv /\ S3 => IInv'
<1> SUFFICES ASSUME IInv, S3 PROVE IInv'
  OBVIOUS
<1>1. /\ pc = "S3" /\ InCode /\ i = j /\ CQBegin + 2 <= j /\ s[j - 1] = ","
      /\ \A x \in DOMAIN d : Written(d, CQBegin, j - 1, x)
  BY DEF S3, IInv, InCode, ReadOK, ParamsOK
<1>2. CASE Ends({"="})
  BY <1>1, <1>2, EndsStep
<1>3. ASSUME NEW k \in i .. Len(s), s[k] = "=", key' = Part(j, k - 1), Reads(k, "S4"),
             UNCHANGED <<given, CQBegin, t, d, r, gone, refused>>
      PROVE  IInv'
  <2>0. /\ k \in Nat /\ k \in Int /\ j <= k /\ k <= Len(s) /\ j \in Int /\ k - 1 \in Int
        /\ 1 <= j /\ k - 1 <= Len(s) /\ (k + 1) - 1 = k /\ (k + 1) - 2 = k - 1
        /\ CQBegin \in Int /\ CQBegin + 2 <= j /\ j - 1 \in Int /\ j - 1 <= k
    BY <1>1, Between
  <2>1. /\ s' = s /\ ignore' = ignore /\ CQBegin' = CQBegin /\ t' = t /\ d' = d
        /\ t' \in Strings /\ d' \in Params /\ r' = r /\ gone' = gone /\ refused' = refused
    BY <1>3 DEF given, IInv, TypeOK
  <2>2. key' \in Strings
    BY <1>3, <2>0, PartType DEF IInv
  <2>3. pc' = "S4" /\ j' - 1 = k /\ j' - 2 = k - 1
    BY <1>3, <2>0 DEF Reads
  <2>4. ASSUME NEW x \in DOMAIN d PROVE Written(d, CQBegin, j - 1, x)'
    <3>1. Written(d', CQBegin, k, x)
      <4>1. d'[x] = d[x] /\ Written(d, CQBegin, j - 1, x)
        BY <1>1, <2>1
      <4> QED  BY <2>0, <4>1, WrittenOn, Zenon
    <3> QED  BY <2>1, <2>3, <3>1, WrittenStays
  <2>5. \E c \in CQBegin + 1 .. k : s[c - 1] = "," /\ key' = Part(c, k - 1)
    <3>1. j \in CQBegin + 1 .. k
      BY <2>0
    <3> QED  BY <1>1, <1>3, <3>1
  <2>6. (\E c \in CQBegin + 1 .. j - 1 : s[c - 1] = "," /\ key = Part(c, j - 2))'
    BY <2>1, <2>3, <2>5 DEF Part
  <2>7. ParamsOK'
    BY <1>3, <2>1, <2>3, <2>4, <2>6 DEF ParamsOK
  <2> QED  BY <1>1, <1>3, <2>1, <2>2, <2>7, ReadsStep
<1> QED  BY <1>2, <1>3, Zenon DEF S3, Finds

LEMMA S4Step == IInv /\ S4 => IInv'
<1> SUFFICES ASSUME IInv, S4 PROVE IInv'
  OBVIOUS
<1>1. /\ pc = "S4" /\ InCode /\ i = j /\ CQBegin + 2 <= j /\ s[j - 1] = "="
      /\ \A x \in DOMAIN d : Written(d, CQBegin, j - 1, x)
      /\ \E c \in CQBegin + 1 .. j - 1 : s[c - 1] = "," /\ key = Part(c, j - 2)
  BY DEF S4, IInv, InCode, ReadOK, ParamsOK
<1>2. CASE Ends({",", "]"})
  BY <1>1, <1>2, EndsStep
<1>3. ASSUME NEW k \in i .. Len(s), s[k] \in {",", "]"},
             d' = [x \in DOMAIN d \cup {key} |->
                     IF x = key THEN CQCodeUnescapeValue(Part(j, k - 1)) ELSE d[x]],
             \/ s[k] = "," /\ Reads(k, "S3") /\ UNCHANGED <<r, gone, refused>>
             \/ s[k] = "]" /\ Reads(k, "S1") /\ SaveCQCode(t, d', k),
             UNCHANGED <<given, CQBegin, t, key>>
      PROVE  IInv'
  <2>0. /\ k \in Nat /\ k \in Int /\ j <= k /\ k <= Len(s) /\ j \in Int /\ k - 1 \in Int
        /\ 1 <= j /\ k - 1 <= Len(s) /\ (k + 1) - 1 = k /\ (k + 1) - 2 = k - 1
        /\ CQBegin \in Int /\ CQBegin + 2 <= j /\ j - 1 \in Int /\ j - 1 <= k
    BY <1>1, Between
  <2>1. /\ s' = s /\ ignore' = ignore /\ CQBegin' = CQBegin /\ t' = t /\ key' = key
        /\ t \in Strings /\ t' \in Strings /\ key' \in Strings /\ key \in Strings
        /\ d \in Params
    BY <1>3 DEF given, IInv, TypeOK
  <2>2. d' \in Params
    <3>1. CQCodeUnescapeValue(Part(j, k - 1)) \in Strings
      BY <2>0, PartType, EscapesType DEF IInv
    <3>2. DOMAIN d \cup {key} \in SUBSET Strings /\ \A x \in DOMAIN d : d[x] \in Strings
      BY <2>1, ParamsAre
    <3>3. d' \in [DOMAIN d \cup {key} -> Strings]
      BY <1>3, <3>1, <3>2
    <3> QED  BY <3>2, <3>3, ParamsAre
  <2>3. ASSUME NEW x \in DOMAIN d' PROVE Written(d', CQBegin, k, x)
    <3>1. CASE x = key
      <4>1. PICK c \in CQBegin + 1 .. j - 1 : s[c - 1] = "," /\ key = Part(c, j - 2)
        BY <1>1
      <4>2. /\ c \in CQBegin + 1 .. k /\ j \in CQBegin + 1 .. k /\ k \in CQBegin + 1 .. k
            /\ c < j /\ j <= k
        BY <2>0
      <4>3. d'[x] = CQCodeUnescapeValue(Part(j, k - 1))
        BY <1>3, <3>1
      <4>4. s[c - 1] = "," /\ s[j - 1] = "=" /\ s[k] \in {",", "]"} /\ x = Part(c, j - 2)
        BY <1>1, <1>3, <3>1, <4>1
      <4> QED  BY <4>2, <4>3, <4>4, Zenon DEF Written
    <3>2. CASE x # key
      <4>1. x \in DOMAIN d /\ d'[x] = d[x]
        BY <1>3, <3>2
      <4>2. Written(d, CQBegin, j - 1, x)
        BY <1>1, <4>1
      <4> QED  BY <2>0, <4>1, <4>2, WrittenOn, Zenon
    <3> QED  BY <3>1, <3>2
  <2>4. CASE s[k] = "," /\ Reads(k, "S3") /\ UNCHANGED <<r, gone, refused>>
    <3>1. pc' = "S3" /\ j' = k + 1 /\ j' - 1 = k
      BY <2>0, <2>4 DEF Reads
    <3>2. ASSUME NEW x \in DOMAIN d' PROVE Written(d, CQBegin, j - 1, x)'
      <4>1. Written(d', CQBegin', j' - 1, x)
        BY <2>1, <2>3, <3>1
      <4> QED  BY <2>1, <4>1, WrittenStays
    <3>3. ParamsOK'
      BY <2>1, <2>4, <3>1, <3>2 DEF ParamsOK
    <3> QED  BY <1>1, <2>1, <2>2, <2>4, <3>3, ReadsStep
  <2>5. CASE s[k] = "]" /\ Reads(k, "S1") /\ SaveCQCode(t, d', k)
    BY <1>1, <2>1, <2>2, <2>3, <2>5, SavesStep
  <2> QED  BY <1>3, <2>4, <2>5
<1> QED  BY <1>2, <1>3, Zenon DEF S4, Finds

LEMMA EndStep == IInv /\ End => IInv'
<1> SUFFICES ASSUME IInv, End PROVE IInv'
  OBVIOUS
<1>1. /\ pc = "End" /\ i = Len(s) + 1 /\ CQBegin <= j
      /\ \/ Exact(Pieces, 1 .. j - 1)
         \/ CQBegin < j /\ Exact(Pieces, 1 .. CQBegin - 1)
  BY DEF End, IInv, ReadOK, TileOK
<1>2. /\ pc' = "done" /\ r' = WithText(i) /\ s' = s /\ ignore' = ignore /\ i' = i /\ j' = j
      /\ CQBegin' = CQBegin /\ t' = t /\ key' = key /\ d' = d
      /\ gone' = gone /\ refused' = refused
  BY DEF End, given, code
<1>3. ASSUME NEW A \in SUBSET Nat, Exact(Pieces, A), \A x \in A : x < j
      PROVE  /\ r' \in Seq(PieceType) /\ OrderOK' /\ OwnOK'
             /\ Exact(Pieces', A \cup (j .. Len(s)))
  <2>1. i \in Nat /\ i <= Len(s) + 1 /\ i - 1 = Len(s)
    BY <1>1, Places
  <2> QED  BY <1>2, <1>3, <2>1, TextStep DEF IInv
<1>4. /\ r' \in Seq(PieceType) /\ OrderOK' /\ OwnOK'
      /\ \/ Exact(Pieces', 1 .. Len(s))
         \/ \E m \in CQBegin .. Len(s) : Exact(Pieces', (1 .. Len(s)) \ (CQBegin .. m))
  <2>1. CASE Exact(Pieces, 1 .. j - 1)
    <3>1. (1 .. j - 1) \in SUBSET Nat /\ \A x \in 1 .. j - 1 : x < j
      BY Places
    <3>2. (1 .. j - 1) \cup (j .. Len(s)) = 1 .. Len(s)
      BY Places
    <3> QED  BY <1>3, <2>1, <3>1, <3>2
  <2>2. CASE CQBegin < j /\ Exact(Pieces, 1 .. CQBegin - 1)
    <3>1. (1 .. CQBegin - 1) \in SUBSET Nat /\ \A x \in 1 .. CQBegin - 1 : x < j
      BY <1>1, Places
    <3>2. /\ j - 1 \in CQBegin .. Len(s)
          /\ (1 .. CQBegin - 1) \cup (j .. Len(s)) = (1 .. Len(s)) \ (CQBegin .. j - 1)
      BY <2>2, Places
    <3> QED  BY <1>3, <2>2, <3>1, <3>2
  <2> QED  BY <1>1, <2>1, <2>2
<1>5. TypeOK'
  BY <1>2, <1>4 DEF IInv, TypeOK
<1>6. ReadOK' /\ ParamsOK'
  BY <1>2 DEF ReadOK, ParamsOK, InCode
<1>7. TileOK'
  BY <1>2, <1>4 DEF TileOK, InCode
<1> QED  BY <1>4, <1>5, <1>6, <1>7 DEF IInv

(***************************************************************************)
(* What holds of every string                                              *)
(***************************************************************************)

LEMMA InitInvariant == Init => IInv
<1> SUFFICES ASSUME Init PROVE IInv
  OBVIOUS
<1>1. TypeOK
  BY InitType
<1>2. /\ pc = "S1" /\ i = 1 /\ j = 1 /\ CQBegin = 1 /\ r = <<>> /\ gone = {}
      /\ DOMAIN r = {}
  BY DEF Init
<1>3. Pieces = {} /\ 1 .. j - 1 = {}
  BY <1>2 DEF Pieces
<1>4. Exact(Pieces, 1 .. j - 1)
  BY <1>3 DEF Exact
<1>5. TileOK
  BY <1>2, <1>4 DEF TileOK, InCode
<1>6. ReadOK /\ ParamsOK
  BY <1>2 DEF ReadOK, ParamsOK, InCode
<1>7. OrderOK /\ OwnOK
  BY <1>2 DEF OrderOK, OwnOK
<1> QED  BY <1>1, <1>5, <1>6, <1>7 DEF IInv

LEMMA NextInvariant == IInv /\ [Next]_vars => IInv'
<1> SUFFICES ASSUME IInv, [Next]_vars PROVE IInv'
  OBVIOUS
<1>1. CASE Next
  BY <1>1, S1Step, S2Step, S3Step, S4Step, EndStep DEF Next
<1>2. CASE UNCHANGED vars
  <2>1. /\ s' = s /\ ignore' = ignore /\ pc' = pc /\ i' = i /\ j' = j
        /\ CQBegin' = CQBegin /\ t' = t /\ key' = key /\ d' = d
        /\ r' = r /\ gone' = gone /\ refused' = refused
    BY <1>2 DEF vars, given, code
  <2>2. /\ r' \in Seq(PieceType) /\ gone' \subseteq Spans /\ Pieces' = Pieces
        /\ OrderOK' /\ OwnOK'
    BY <2>1, SameResult
  <2>3. TypeOK'
    BY <2>1, <2>2 DEF IInv, TypeOK
  <2>4. ReadOK' /\ TileOK'
    BY <2>1, <2>2 DEF IInv, ReadOK, TileOK, InCode
  <2>5. ASSUME NEW x, Written(d, CQBegin, j - 1, x)
        PROVE  Written(d, CQBegin, j - 1, x)'
    <3>1. Written(d', CQBegin', j' - 1, x)
      BY <2>1, <2>5
    <3> QED  BY <2>1, <3>1, WrittenStays
  <2>6. ParamsOK'
    BY <2>1, <2>5 DEF IInv, ParamsOK, Part
  <2> QED  BY <2>2, <2>3, <2>4, <2>6 DEF IInv
<1> QED  BY <1>1, <1>2

\* The parser's places lie in the string, and what is read is in a piece
\* (ConvertStringMessage).
THEOREM Invariance == Spec => []IInv
<1> QED  BY InitInvariant, NextInvariant, PTL DEF Spec

\* The variables of the parser and its results have their types.
THEOREM TypeCorrect == Spec => []TypeOK
<1>1. IInv => TypeOK
  BY DEF IInv
<1> QED  BY <1>1, Invariance, PTL

LEMMA AtMostOne ==
    ASSUME NEW S, \A p, q \in S : p = q
    PROVE  Cardinality(S) <= 1
<1>1. CASE S = {}
  BY <1>1, FS_EmptySet
<1>2. CASE S # {}
  <2>1. PICK p \in S : TRUE
    BY <1>2
  <2>2. S = {p}
    BY <2>1
  <2>3. Cardinality({p}) = 1
    BY FS_Singleton
  <2> QED  BY <2>2, <2>3
<1> QED  BY <1>1, <1>2

LEMMA InvariantIsExact == IInv => PiecesExact
<1> SUFFICES ASSUME IInv PROVE PiecesExact
  OBVIOUS
<1> DEFINE lost == {x \in Finished : ~Covered(x)}
<1>1. DOMAIN s = 1 .. Len(s) /\ Pieces \subseteq Spans
  BY Places, PiecesType DEF IInv
<1>2. ASSUME NEW A, Exact(Pieces, A), NEW x \in A
      PROVE  Cardinality({p \in Pieces : x \in p.from .. p.to}) <= 1 /\ Covered(x)
  <2>1. Covered(x)
    BY <1>2 DEF Exact, Covered
  <2>2. \A p, q \in {y \in Pieces : x \in y.from .. y.to} : p = q
    BY <1>2 DEF Exact
  <2> QED  BY <2>1, <2>2, AtMostOne
<1>3. ASSUME Exact(Pieces, Finished)
      PROVE  /\ \A x \in Finished : Cardinality({p \in Pieces : x \in p.from .. p.to}) <= 1
             /\ lost = {}
  BY <1>2, <1>3
<1>4. ASSUME pc = "done", NEW m \in CQBegin .. Len(s),
             Exact(Pieces, (1 .. Len(s)) \ (CQBegin .. m))
      PROVE  /\ \A x \in Finished : Cardinality({p \in Pieces : x \in p.from .. p.to}) <= 1
             /\ lost = CQBegin .. m
  <2>1. Finished = 1 .. Len(s) /\ CQBegin .. m \subseteq 1 .. Len(s)
    BY <1>1, <1>4, Places DEF Finished
  <2>2. ASSUME NEW x \in CQBegin .. m, NEW p \in Pieces PROVE x \notin p.from .. p.to
    BY <1>4 DEF Exact
  <2>3. \A x \in CQBegin .. m : ~Covered(x)
    BY <2>2 DEF Covered
  <2>4. \A x \in CQBegin .. m : \A p, q \in {y \in Pieces : x \in y.from .. y.to} : p = q
    <3> QED  BY <2>2
  <2>5. ASSUME NEW x \in CQBegin .. m
        PROVE  Cardinality({p \in Pieces : x \in p.from .. p.to}) <= 1
    BY <2>4, AtMostOne
  <2>6. \A x \in Finished : x \in CQBegin .. m \/ x \in (1 .. Len(s)) \ (CQBegin .. m)
    BY <2>1
  <2>7. \A x \in Finished : Cardinality({p \in Pieces : x \in p.from .. p.to}) <= 1
    BY <1>2, <1>4, <2>5, <2>6
  <2>8. \A x \in (1 .. Len(s)) \ (CQBegin .. m) : Covered(x)
    BY <1>2, <1>4
  <2>9. lost = CQBegin .. m
    BY <2>1, <2>3, <2>6, <2>8
  <2> QED  BY <2>7, <2>9
<1>5. /\ \A x \in Finished : Cardinality({p \in Pieces : x \in p.from .. p.to}) <= 1
      /\ lost # {} => pc = "done" /\ \E m \in CQBegin .. Len(s) : lost = CQBegin .. m
  <2>1. CASE pc = "S1"
    <3>1. Exact(Pieces, Finished)
      BY <2>1 DEF Finished, IInv, TileOK
    <3> QED  BY <1>3, <3>1
  <2>2. CASE InCode
    <3>1. Exact(Pieces, Finished)
      BY <2>2 DEF Finished, IInv, TileOK, InCode
    <3> QED  BY <1>3, <3>1
  <2>3. CASE pc = "End"
    <3>1. CASE Exact(Pieces, 1 .. CQBegin - 1)
      <4>1. Exact(Pieces, Finished)
        BY <2>3, <3>1 DEF Finished
      <4> QED  BY <1>3, <4>1
    <3>2. CASE Exact(Pieces, 1 .. j - 1)
      <4>1. Finished = 1 .. CQBegin - 1 /\ CQBegin <= j
        BY <2>3 DEF Finished, IInv, ReadOK
      <4>2. \A x \in Finished : x \in 1 .. j - 1
        BY <4>1, Places
      <4> QED  BY <1>2, <3>2, <4>2
    <3> QED  BY <2>3, <3>1, <3>2 DEF IInv, TileOK
  <2>4. CASE pc = "done"
    <3>1. CASE Exact(Pieces, 1 .. Len(s))
      <4>1. Exact(Pieces, Finished)
        BY <1>1, <2>4, <3>1 DEF Finished
      <4> QED  BY <1>3, <4>1
    <3>2. CASE \E m \in CQBegin .. Len(s) : Exact(Pieces, (1 .. Len(s)) \ (CQBegin .. m))
      BY <1>4, <2>4, <3>2
    <3> QED  BY <2>4, <3>1, <3>2 DEF IInv, TileOK
  <2> QED  BY <2>1, <2>2, <2>3, <2>4 DEF IInv, TypeOK, InCode
<1>6. OrderOK /\ OwnOK
  BY DEF IInv
<1> QED  BY <1>5, <1>6 DEF PiecesExact, OrderOK, OwnOK, OwnParams

\* Every symbol of every string is in one piece and no other, in the order of
\* the string, but for the beginning of a code that does not end; and every
\* parameter of an element was written in its own code (ConvertStringMessage).
THEOREM PiecesAreExact == Spec => []PiecesExact
<1> QED  BY Invariance, InvariantIsExact, PTL

(***************************************************************************)
(* Escapes, a symbol at a time                                             *)
(***************************************************************************)

LEMMA CatIs ==
    ASSUME NEW S, NEW a \in Seq(S)
    PROVE  /\ \A x \in S : Cat(a, <<x>>) = Append(a, x)
           /\ \A x, y \in S : Cat(a, <<x, y>>) = Append(Append(a, x), y)
<1>1. ASSUME NEW x \in S PROVE Cat(a, <<x>>) = Append(a, x)
  BY DEF Cat
<1>2. ASSUME NEW x \in S, NEW y \in S PROVE Cat(a, <<x, y>>) = Append(Append(a, x), y)
  BY DEF Cat
<1> QED  BY <1>1, <1>2

LEMMA MarksDiffer ==
    /\ "&" # "[" /\ "&" # "]" /\ "&" # "," /\ "&" # "amp;" /\ "&" # "#91;" /\ "&" # "#93;"
    /\ "&" # "#44;" /\ "[" # "]" /\ "[" # "," /\ "[" # "amp;" /\ "[" # "#91;"
    /\ "[" # "#93;" /\ "[" # "#44;" /\ "]" # "," /\ "]" # "amp;" /\ "]" # "#91;"
    /\ "]" # "#93;" /\ "]" # "#44;" /\ "," # "amp;" /\ "," # "#91;" /\ "," # "#93;"
    /\ "," # "#44;" /\ "amp;" # "#91;" /\ "amp;" # "#93;" /\ "amp;" # "#44;"
    /\ "#91;" # "#93;" /\ "#91;" # "#44;" /\ "#93;" # "#44;" /\ "CQ:" # "["
OBVIOUS

LEMMA AppendIs ==
    ASSUME NEW S, NEW a \in Seq(S), NEW x \in S
    PROVE  /\ Append(a, x) \in Seq(S) /\ Len(Append(a, x)) = Len(a) + 1
           /\ Len(a) \in Nat /\ DOMAIN a = 1 .. Len(a)
           /\ DOMAIN Append(a, x) = 1 .. Len(a) + 1
           /\ Append(a, x)[Len(a) + 1] = x
           /\ \A n \in 1 .. Len(a) : Append(a, x)[n] = a[n]
OBVIOUS

LEMMA EscapeMore ==
    ASSUME NEW x \in Strings, NEW c \in Symbols, NEW char, NEW entity \in Marks
    PROVE  /\ Escape(<<>>, char, entity) = <<>>
           /\ c # char => Escape(Append(x, c), char, entity) = Append(Escape(x, char, entity), c)
           /\ c = char => Escape(Append(x, c), char, entity)
                            = Append(Append(Escape(x, char, entity), "&"), entity)
<1> DEFINE Block(e) == IF e = char THEN <<"&", entity>> ELSE <<e>>
           Blocks(y) == [n \in DOMAIN y |-> Block(y[n])]
<1>1. \A y \in Strings : Blocks(y) \in Seq(Strings) /\ Len(Blocks(y)) = Len(y)
  <2> SUFFICES ASSUME NEW y \in Strings
               PROVE  Blocks(y) \in Seq(Strings) /\ Len(Blocks(y)) = Len(y)
    OBVIOUS
  <2>1. "&" \in Symbols /\ entity \in Symbols
    BY SymbolTypes DEF Marks
  <2>2. DOMAIN y = 1 .. Len(y) /\ Len(y) \in Nat /\ \A n \in DOMAIN y : y[n] \in Symbols
    BY DEF Strings
  <2>3. \A e \in Symbols : Block(e) \in Strings
    BY <2>1 DEF Strings
  <2> HIDE DEF Block
  <2> QED  BY <2>2, <2>3
<1>2. \A y : Escape(y, char, entity) = FlattenSeq(Blocks(y))
  BY DEF Escape
<1>3. Escape(<<>>, char, entity) = <<>>
  <2>1. <<>> \in Strings /\ Len(<<>>) = 0
    BY DEF Strings
  <2>2. Blocks(<<>>) \in Seq(Strings) /\ Len(Blocks(<<>>)) = 0
    BY <1>1, <2>1
  <2> HIDE DEF Blocks
  <2> QED  BY <1>2, <2>2, Flattens DEF Strings
<1>4. Block(c) \in Strings
  <2>1. "&" \in Symbols /\ entity \in Symbols
    BY SymbolTypes DEF Marks
  <2> QED  BY <2>1 DEF Strings
<1>5. Blocks(Append(x, c)) = Append(Blocks(x), Block(c))
  <2>1. x \in Seq(Symbols) /\ Append(x, c) \in Strings
    BY DEF Strings
  <2>2. /\ Len(Append(x, c)) = Len(x) + 1 /\ Len(x) \in Nat
        /\ DOMAIN x = 1 .. Len(x) /\ DOMAIN Append(x, c) = 1 .. Len(x) + 1
        /\ Append(x, c)[Len(x) + 1] = c
        /\ \A n \in 1 .. Len(x) : Append(x, c)[n] = x[n]
    BY <2>1, AppendIs
  <2>3. Blocks(x) \in Seq(Strings) /\ Len(Blocks(x)) = Len(x)
    BY <1>1
  <2> HIDE DEF Block
  <2>4. DOMAIN Append(Blocks(x), Block(c)) = 1 .. Len(x) + 1
    BY <2>3
  <2>5. ASSUME NEW n \in 1 .. Len(x) + 1
        PROVE  Blocks(Append(x, c))[n] = Append(Blocks(x), Block(c))[n]
    <3>1. Blocks(Append(x, c))[n] = Block(Append(x, c)[n])
      BY <2>2
    <3>2. CASE n \in 1 .. Len(x)
      <4>1. Append(Blocks(x), Block(c))[n] = Blocks(x)[n]
        BY <2>3, <3>2
      <4> QED  BY <2>2, <3>1, <3>2, <4>1
    <3>3. CASE n = Len(x) + 1
      <4>1. Append(Blocks(x), Block(c))[n] = Block(c)
        BY <2>3, <3>3
      <4> QED  BY <2>2, <3>1, <3>3, <4>1
    <3> QED  BY <2>2, <3>2, <3>3
  <2>6. /\ Blocks(Append(x, c)) \in Seq(Strings) /\ Len(Blocks(Append(x, c))) = Len(x) + 1
        /\ Append(Blocks(x), Block(c)) \in Seq(Strings)
        /\ Len(Append(Blocks(x), Block(c))) = Len(x) + 1
    BY <1>1, <1>4, <2>1, <2>2, <2>3
  <2> HIDE DEF Blocks
  <2> QED  BY <2>5, <2>6, SeqEqual
<1>6. Escape(Append(x, c), char, entity) = Cat(Escape(x, char, entity), Block(c))
  <2>1. Blocks(x) \in Seq(Strings)
    BY <1>1
  <2> HIDE DEF Blocks, Block
  <2>2. FlattenSeq(Append(Blocks(x), Block(c))) = Cat(FlattenSeq(Blocks(x)), Block(c))
    BY <1>4, <2>1, Flattens DEF Strings
  <2> QED  BY <1>2, <1>5, <2>2
<1>7. Escape(x, char, entity) \in Seq(Symbols) /\ "&" \in Symbols /\ entity \in Symbols
  BY EscapeType, SymbolTypes DEF Strings, Marks
<1>8. c # char => Escape(Append(x, c), char, entity) = Append(Escape(x, char, entity), c)
  <2>1. Cat(Escape(x, char, entity), <<c>>) = Append(Escape(x, char, entity), c)
    BY <1>7, CatIs
  <2> QED  BY <1>6, <2>1
<1>9. c = char => Escape(Append(x, c), char, entity)
                    = Append(Append(Escape(x, char, entity), "&"), entity)
  <2>1. Cat(Escape(x, char, entity), <<"&", entity>>)
          = Append(Append(Escape(x, char, entity), "&"), entity)
    BY <1>7, CatIs
  <2> QED  BY <1>6, <2>1
<1> QED  BY <1>3, <1>8, <1>9

\* A sequence that does not end in "&" is not about to become an entity.
NoAmp(x) == \A n \in DOMAIN x : n = Len(x) => x[n] # "&"

LEMMA NoAmpIs ==
    /\ NoAmp(<<>>)
    /\ \A x \in Strings : \A c \in Symbols : c # "&" => NoAmp(Append(x, c))
<1>1. NoAmp(<<>>)
  BY DEF NoAmp
<1>2. ASSUME NEW x \in Strings, NEW c \in Symbols, c # "&" PROVE NoAmp(Append(x, c))
  BY <1>2, AppendIs DEF Strings, NoAmp
<1> QED  BY <1>1, <1>2

LEMMA UnescapeMore ==
    ASSUME NEW x \in Strings, NEW entity \in Marks, NEW char \in Marks, entity # "&"
    PROVE  /\ Unescape(<<>>, entity, char) = <<>>
           /\ \A c \in Symbols : NoAmp(x) \/ c # entity =>
                 Unescape(Append(x, c), entity, char) = Append(Unescape(x, entity, char), c)
           /\ Unescape(Append(Append(x, "&"), entity), entity, char)
                = Append(Unescape(x, entity, char), char)
<1> DEFINE At(y, n) == /\ n \in DOMAIN y /\ n + 1 \in DOMAIN y
                       /\ y[n] = "&" /\ y[n + 1] = entity
           Block(y, n) == IF At(y, n) THEN <<char>>
                          ELSE IF At(y, n - 1) THEN <<>> ELSE <<y[n]>>
           Blocks(y) == [n \in DOMAIN y |-> Block(y, n)]
<1>1. \A y : Unescape(y, entity, char) = FlattenSeq(Blocks(y))
  BY DEF Unescape
<1>2. \A y \in Strings : Blocks(y) \in Seq(Strings) /\ Len(Blocks(y)) = Len(y)
  <2> SUFFICES ASSUME NEW y \in Strings
               PROVE  Blocks(y) \in Seq(Strings) /\ Len(Blocks(y)) = Len(y)
    OBVIOUS
  <2>1. char \in Symbols
    BY SymbolTypes
  <2>2. DOMAIN y = 1 .. Len(y) /\ Len(y) \in Nat /\ \A n \in DOMAIN y : y[n] \in Symbols
    BY DEF Strings
  <2> HIDE DEF At
  <2>3. \A n \in DOMAIN y : Block(y, n) \in Strings
    BY <2>1, <2>2 DEF Strings
  <2> HIDE DEF Block
  <2> QED  BY <2>2, <2>3
<1>3. Unescape(<<>>, entity, char) = <<>>
  <2>1. <<>> \in Strings /\ Len(<<>>) = 0
    BY DEF Strings
  <2>2. Blocks(<<>>) \in Seq(Strings) /\ Len(Blocks(<<>>)) = 0
    BY <1>2, <2>1
  <2> HIDE DEF Blocks
  <2> QED  BY <1>1, <2>2, Flattens DEF Strings
<1>4. x \in Seq(Symbols) /\ Len(x) \in Nat /\ DOMAIN x = 1 .. Len(x)
  BY DEF Strings
\* A symbol after x that makes no entity of it
<1>5. ASSUME NEW c \in Symbols, NoAmp(x) \/ c # entity
      PROVE  Blocks(Append(x, c)) = Append(Blocks(x), <<c>>) /\ <<c>> \in Strings
  <2> DEFINE y == Append(x, c)
  <2>1. /\ y \in Strings /\ Len(y) = Len(x) + 1 /\ DOMAIN y = 1 .. Len(x) + 1
        /\ y[Len(x) + 1] = c /\ \A n \in 1 .. Len(x) : y[n] = x[n]
    BY <1>4, AppendIs DEF Strings
  <2> HIDE DEF y
  <2>2. ~At(y, Len(x)) /\ ~At(y, Len(x) + 1) /\ ~At(x, Len(x))
    BY <1>4, <1>5, <2>1 DEF NoAmp
  <2>3. ASSUME NEW n \in 0 .. Len(x) PROVE At(y, n) = At(x, n)
    BY <1>4, <2>1, <2>2
  <2>4. (Len(x) + 1) - 1 = Len(x) /\ \A n \in 1 .. Len(x) : n - 1 \in 0 .. Len(x)
    BY <1>4
  <2> HIDE DEF At
  <2>5. Block(y, Len(x) + 1) = <<c>>
    BY <2>1, <2>2, <2>4
  <2>6. \A n \in 1 .. Len(x) : Block(y, n) = Block(x, n)
    BY <2>1, <2>3, <2>4
  <2>7. /\ Blocks(y) \in Seq(Strings) /\ Len(Blocks(y)) = Len(x) + 1
        /\ Blocks(x) \in Seq(Strings) /\ Len(Blocks(x)) = Len(x) /\ <<c>> \in Strings
    <3>1. <<c>> \in Strings
      BY DEF Strings
    <3> HIDE DEF Blocks
    <3> QED  BY <1>2, <2>1, <3>1
  <2> HIDE DEF Block
  <2>8. \A n \in 1 .. Len(x) + 1 : Blocks(y)[n] = Append(Blocks(x), <<c>>)[n]
    BY <1>4, <2>1, <2>5, <2>6, <2>7
  <2> HIDE DEF Blocks
  <2>9. Append(Blocks(x), <<c>>) \in Seq(Strings) /\ Len(Append(Blocks(x), <<c>>)) = Len(x) + 1
    BY <2>7
  <2>10. Blocks(y) = Append(Blocks(x), <<c>>)
    BY <2>7, <2>8, <2>9, SeqEqual
  <2> QED  BY <2>7, <2>10 DEF y
<1>6. Blocks(Append(Append(x, "&"), entity)) = Append(Append(Blocks(x), <<char>>), <<>>)
  <2> DEFINE y == Append(Append(x, "&"), entity)
             bs == Append(Append(Blocks(x), <<char>>), <<>>)
  <2>0. "&" \in Symbols /\ entity \in Symbols /\ char \in Symbols
    BY SymbolTypes DEF Marks
  <2>1. /\ y \in Strings /\ Len(y) = Len(x) + 2 /\ DOMAIN y = 1 .. Len(x) + 2
        /\ y[Len(x) + 1] = "&" /\ y[Len(x) + 2] = entity /\ \A n \in 1 .. Len(x) : y[n] = x[n]
    BY <1>4, <2>0, AppendIs DEF Strings
  <2> HIDE DEF y
  <2>2. /\ ~At(y, Len(x)) /\ At(y, Len(x) + 1) /\ ~At(y, Len(x) + 2) /\ ~At(x, Len(x))
    BY <1>4, <2>1
  <2>3. ASSUME NEW n \in 0 .. Len(x) PROVE At(y, n) = At(x, n)
    BY <1>4, <2>1, <2>2
  <2>4. (Len(x) + 2) - 1 = Len(x) + 1 /\ \A n \in 1 .. Len(x) : n - 1 \in 0 .. Len(x)
    BY <1>4
  <2> HIDE DEF At
  <2>5. Block(y, Len(x) + 1) = <<char>> /\ Block(y, Len(x) + 2) = <<>>
    BY <2>1, <2>2, <2>4
  <2>6. \A n \in 1 .. Len(x) : Block(y, n) = Block(x, n)
    BY <2>1, <2>3, <2>4
  <2>7. /\ Blocks(y) \in Seq(Strings) /\ Len(Blocks(y)) = Len(x) + 2
        /\ Blocks(x) \in Seq(Strings) /\ Len(Blocks(x)) = Len(x)
        /\ <<char>> \in Strings /\ <<>> \in Strings
    BY <1>2, <2>0, <2>1 DEF Strings
  <2> HIDE DEF Block
  <2>8. /\ bs \in Seq(Strings) /\ Len(bs) = Len(x) + 2
        /\ bs[Len(x) + 1] = <<char>> /\ bs[Len(x) + 2] = <<>>
        /\ \A n \in 1 .. Len(x) : bs[n] = Blocks(x)[n]
    <3> HIDE DEF Blocks
    <3> QED  BY <1>4, <2>7, AppendIs
  <2> HIDE DEF bs
  <2>9. \A n \in 1 .. Len(x) + 2 : Blocks(y)[n] = bs[n]
    <3>1. \A n \in 1 .. Len(x) + 2 : Blocks(y)[n] = Block(y, n)
      BY <2>1
    <3>2. \A n \in 1 .. Len(x) : Blocks(x)[n] = Block(x, n)
      BY <1>4
    <3>3. \A n \in 1 .. Len(x) + 2 : n \in 1 .. Len(x) \/ n = Len(x) + 1 \/ n = Len(x) + 2
      BY <1>4
    <3> HIDE DEF Blocks
    <3> QED  BY <2>5, <2>6, <2>8, <3>1, <3>2, <3>3
  <2> HIDE DEF Blocks
  <2>10. Blocks(y) = bs
    BY <2>7, <2>8, <2>9, SeqEqual
  <2> QED  BY <2>10 DEF y, bs
<1>7. Blocks(x) \in Seq(Strings) /\ Unescape(x, entity, char) \in Strings
  BY <1>2, UnescapeType
<1> HIDE DEF Blocks
<1>8. ASSUME NEW c \in Symbols, NoAmp(x) \/ c # entity
      PROVE  Unescape(Append(x, c), entity, char) = Append(Unescape(x, entity, char), c)
  <2>1. FlattenSeq(Append(Blocks(x), <<c>>)) = Cat(FlattenSeq(Blocks(x)), <<c>>)
    BY <1>5, <1>7, <1>8, Flattens DEF Strings
  <2>2. Cat(Unescape(x, entity, char), <<c>>) = Append(Unescape(x, entity, char), c)
    BY <1>7, CatIs DEF Strings
  <2> QED  BY <1>1, <1>5, <1>8, <2>1, <2>2
<1>9. Unescape(Append(Append(x, "&"), entity), entity, char)
        = Append(Unescape(x, entity, char), char)
  <2>1. <<char>> \in Strings /\ <<>> \in Strings /\ char \in Symbols
    BY SymbolTypes DEF Marks
  <2>2. FlattenSeq(Append(Blocks(x), <<char>>)) = Cat(FlattenSeq(Blocks(x)), <<char>>)
    BY <1>7, <2>1, Flattens DEF Strings
  <2>3. Append(Blocks(x), <<char>>) \in Seq(Strings)
    BY <1>7, <2>1
  <2>4. FlattenSeq(Append(Append(Blocks(x), <<char>>), <<>>))
          = Cat(FlattenSeq(Append(Blocks(x), <<char>>)), <<>>)
    BY <2>1, <2>3, Flattens DEF Strings
  <2>5. Cat(Unescape(x, entity, char), <<char>>) = Append(Unescape(x, entity, char), char)
    BY <1>7, <2>1, CatIs DEF Strings
  <2>6. Append(Unescape(x, entity, char), char) \in Seq(Symbols)
    BY <1>7, <2>1 DEF Strings
  <2>7. Cat(Append(Unescape(x, entity, char), char), <<>>) = Append(Unescape(x, entity, char), char)
    BY <2>6, CatType
  <2> QED  BY <1>1, <1>6, <2>2, <2>4, <2>5, <2>7
<1> QED  BY <1>3, <1>8, <1>9

\* One symbol, or two, that the escape is not about, and one that it is.
LEMMA EscapeSteps ==
    ASSUME NEW char \in Marks, NEW entity \in Marks
    PROVE  /\ Escape(<<>>, char, entity) = <<>>
           /\ \A x \in Strings : Escape(x, char, entity) \in Strings
           /\ \A x \in Strings : \A a \in Symbols : a # char =>
                 Escape(Append(x, a), char, entity) = Append(Escape(x, char, entity), a)
           /\ \A x \in Strings : \A a, b \in Symbols : a # char /\ b # char =>
                 Escape(Append(Append(x, a), b), char, entity)
                   = Append(Append(Escape(x, char, entity), a), b)
           /\ \A x \in Strings : Escape(Append(x, char), char, entity)
                                  = Append(Append(Escape(x, char, entity), "&"), entity)
<1>1. char \in Symbols /\ <<>> \in Strings
  BY SymbolTypes
<1>2. ASSUME NEW x \in Strings, NEW a \in Symbols, a # char
      PROVE  Escape(Append(x, a), char, entity) = Append(Escape(x, char, entity), a)
  BY <1>2, EscapeMore
<1>3. ASSUME NEW x \in Strings, NEW a \in Symbols, NEW b \in Symbols, a # char, b # char
      PROVE  Escape(Append(Append(x, a), b), char, entity)
               = Append(Append(Escape(x, char, entity), a), b)
  <2>1. Append(x, a) \in Strings
    BY DEF Strings
  <2> QED  BY <1>2, <1>3, <2>1, Zenon
<1>4. ASSUME NEW x \in Strings
      PROVE  Escape(Append(x, char), char, entity)
               = Append(Append(Escape(x, char, entity), "&"), entity)
  BY <1>1, EscapeMore
<1>5. Escape(<<>>, char, entity) = <<>>
  BY <1>1, EscapeMore
<1>6. \A x \in Strings : Escape(x, char, entity) \in Strings
  BY EscapeType
<1> QED  BY <1>2, <1>3, <1>4, <1>5, <1>6, Zenon

LEMMA MarkTypes ==
    /\ "&" \in Symbols /\ "[" \in Symbols /\ "]" \in Symbols /\ "," \in Symbols
    /\ "amp;" \in Symbols /\ "#91;" \in Symbols /\ "#93;" \in Symbols /\ "#44;" \in Symbols
    /\ "&" \in Marks /\ "[" \in Marks /\ "]" \in Marks /\ "," \in Marks
    /\ "amp;" \in Marks /\ "#91;" \in Marks /\ "#93;" \in Marks /\ "#44;" \in Marks
<1>1. /\ "&" \in Marks /\ "[" \in Marks /\ "]" \in Marks /\ "," \in Marks
      /\ "amp;" \in Marks /\ "#91;" \in Marks /\ "#93;" \in Marks /\ "#44;" \in Marks
  BY DEF Marks
<1> QED  BY <1>1, SymbolTypes

\* What becomes of one more symbol.
LEMMA EscapeTextMore ==
    ASSUME NEW x \in Strings
    PROVE  /\ CQCodeEscapeText(<<>>) = <<>>
           /\ CQCodeEscapeText(Append(x, "&")) = Append(Append(CQCodeEscapeText(x), "&"), "amp;")
           /\ CQCodeEscapeText(Append(x, "[")) = Append(Append(CQCodeEscapeText(x), "&"), "#91;")
           /\ CQCodeEscapeText(Append(x, "]")) = Append(Append(CQCodeEscapeText(x), "&"), "#93;")
           /\ \A c \in Symbols \ {"&", "[", "]"} :
                 CQCodeEscapeText(Append(x, c)) = Append(CQCodeEscapeText(x), c)
<1> DEFINE A(z) == Escape(z, "&", "amp;")
           B(z) == Escape(z, "[", "#91;")
           C(z) == Escape(z, "]", "#93;")
<1>1. \A z : CQCodeEscapeText(z) = C(B(A(z)))
  BY DEF CQCodeEscapeText
<1>2. /\ A(<<>>) = <<>>
      /\ \A z \in Strings : A(z) \in Strings
      /\ \A z \in Strings : \A a \in Symbols : a # "&" => A(Append(z, a)) = Append(A(z), a)
      /\ \A z \in Strings : A(Append(z, "&")) = Append(Append(A(z), "&"), "amp;")
  <2>1. "&" \in Marks /\ "amp;" \in Marks
    BY MarkTypes
  <2> QED  BY <2>1, EscapeSteps, Zenon
<1>3. /\ B(<<>>) = <<>>
      /\ \A z \in Strings : B(z) \in Strings
      /\ \A z \in Strings : \A a \in Symbols : a # "[" => B(Append(z, a)) = Append(B(z), a)
      /\ \A z \in Strings : \A a, b \in Symbols : a # "[" /\ b # "[" =>
            B(Append(Append(z, a), b)) = Append(Append(B(z), a), b)
      /\ \A z \in Strings : B(Append(z, "[")) = Append(Append(B(z), "&"), "#91;")
  BY EscapeSteps, MarkTypes, Zenon
<1>4. /\ C(<<>>) = <<>>
      /\ \A z \in Strings : \A a \in Symbols : a # "]" => C(Append(z, a)) = Append(C(z), a)
      /\ \A z \in Strings : \A a, b \in Symbols : a # "]" /\ b # "]" =>
            C(Append(Append(z, a), b)) = Append(Append(C(z), a), b)
      /\ \A z \in Strings : C(Append(z, "]")) = Append(Append(C(z), "&"), "#93;")
  <2>1. "]" \in Marks /\ "#93;" \in Marks
    BY MarkTypes
  <2> QED  BY <2>1, EscapeSteps, Zenon
<1> HIDE DEF A, B, C
<1>5. CQCodeEscapeText(<<>>) = <<>>
  BY <1>1, <1>2, <1>3, <1>4, Zenon
<1>6. CQCodeEscapeText(Append(x, "&")) = Append(Append(CQCodeEscapeText(x), "&"), "amp;")
  <2>0. "&" \in Symbols /\ "amp;" \in Symbols
    BY MarkTypes
  <2>1. A(Append(x, "&")) = Append(Append(A(x), "&"), "amp;") /\ A(x) \in Strings
    BY <1>2, Zenon
  <2>2. B(Append(Append(A(x), "&"), "amp;")) = Append(Append(B(A(x)), "&"), "amp;")
    <3>1. "&" # "[" /\ "amp;" # "["
      OBVIOUS
    <3> QED  BY <1>3, <2>0, <2>1, <3>1, Zenon
  <2>3. C(Append(Append(B(A(x)), "&"), "amp;")) = Append(Append(C(B(A(x))), "&"), "amp;")
    <3>1. "&" # "]" /\ "amp;" # "]" /\ B(A(x)) \in Strings
      BY <1>3, <2>1
    <3> QED  BY <1>4, <2>0, <3>1, Zenon
  <2> QED  BY <1>1, <2>1, <2>2, <2>3, Zenon
<1>7. CQCodeEscapeText(Append(x, "[")) = Append(Append(CQCodeEscapeText(x), "&"), "#91;")
  <2>1. B(A(Append(x, "["))) = Append(Append(B(A(x)), "&"), "#91;")
    <3>1. A(Append(x, "[")) = Append(A(x), "[")
      BY <1>2, MarkTypes, MarksDiffer, Zenon
    <3> QED  BY <1>2, <1>3, <3>1, Zenon
  <2>2. C(Append(Append(B(A(x)), "&"), "#91;")) = Append(Append(C(B(A(x))), "&"), "#91;")
    <3>1. "&" # "]" /\ "#91;" # "]" /\ B(A(x)) \in Strings
      BY <1>2, <1>3
    <3>2. "&" \in Symbols /\ "#91;" \in Symbols
      BY MarkTypes
    <3> QED  BY <1>4, <3>1, <3>2, Zenon
  <2> QED  BY <1>1, <2>1, <2>2, Zenon
<1>8. CQCodeEscapeText(Append(x, "]")) = Append(Append(CQCodeEscapeText(x), "&"), "#93;")
  <2>1. A(Append(x, "]")) = Append(A(x), "]")
    BY <1>2, MarkTypes, MarksDiffer, Zenon
  <2>2. B(Append(A(x), "]")) = Append(B(A(x)), "]")
    BY <1>2, <1>3, MarkTypes, MarksDiffer, Zenon
  <2> QED  BY <1>1, <1>2, <1>3, <1>4, <2>1, <2>2, Zenon
<1>9. ASSUME NEW c \in Symbols, c # "&", c # "[", c # "]"
      PROVE  CQCodeEscapeText(Append(x, c)) = Append(CQCodeEscapeText(x), c)
  <2>1. A(Append(x, c)) = Append(A(x), c)
    BY <1>2, <1>9, Zenon
  <2>2. B(Append(A(x), c)) = Append(B(A(x)), c)
    BY <1>2, <1>3, <1>9, Zenon
  <2>3. C(Append(B(A(x)), c)) = Append(C(B(A(x))), c)
    <3>1. B(A(x)) \in Strings
      BY <1>2, <1>3, Zenon
    <3> QED  BY <1>4, <1>9, <3>1, Zenon
  <2> QED  BY <1>1, <2>1, <2>2, <2>3, Zenon
<1> QED  BY <1>5, <1>6, <1>7, <1>8, <1>9

LEMMA Adds == \A x \in Strings : \A c \in Symbols : Append(x, c) \in Strings
BY DEF Strings

LEMMA SequenceInduction ==
    ASSUME NEW S, NEW P, <<>> \in P,
           \A x \in Seq(S) : x \in P => \A c \in S : Append(x, c) \in P
    PROVE  Seq(S) \subseteq P
<1> DEFINE L == {n \in Nat : \A x \in Seq(S) : Len(x) = n => x \in P}
<1>1. 0 \in L
  BY EmptySeq
<1>2. ASSUME NEW n \in Nat, n \in L PROVE n + 1 \in L
  <2> SUFFICES ASSUME NEW x \in Seq(S), Len(x) = n + 1 PROVE x \in P
    OBVIOUS
  <2>1. n + 1 \in 1 .. Len(x) /\ x[n + 1] \in S
    OBVIOUS
  <2> DEFINE y == SubSeq(x, 1, n)
  <2>2. y \in Seq(S) /\ Len(y) = n /\ \A k \in 1 .. n : y[k] = x[k]
    OBVIOUS
  <2> HIDE DEF y
  <2>3. y \in P
    BY <1>2, <2>2
  <2>4. Append(y, x[n + 1]) \in P
    BY <2>1, <2>2, <2>3
  <2>5. /\ Append(y, x[n + 1]) \in Seq(S) /\ Len(Append(y, x[n + 1])) = n + 1
        /\ Append(y, x[n + 1])[n + 1] = x[n + 1]
        /\ \A k \in 1 .. n : Append(y, x[n + 1])[k] = y[k]
    BY <2>1, <2>2, AppendIs
  <2>6. \A k \in 1 .. n + 1 : k \in 1 .. n \/ k = n + 1
    OBVIOUS
  <2>7. Append(y, x[n + 1]) = x
    <3>1. \A k \in 1 .. Len(x) : Append(y, x[n + 1])[k] = x[k]
      BY <2>2, <2>5, <2>6
    <3> QED  BY <2>5, <3>1, SeqEqual
  <2> QED  BY <2>4, <2>7
<1> HIDE DEF L
<1>3. Nat \subseteq L
  BY <1>1, <1>2, Induction
<1>4. ASSUME NEW x \in Seq(S) PROVE x \in P
  <2>1. Len(x) \in L
    BY <1>3
  <2> QED  BY <2>1 DEF L
<1> QED  BY <1>4

LEMMA UnescapeSteps ==
    ASSUME NEW char \in Marks, NEW entity \in Marks, entity # "&"
    PROVE  /\ Unescape(<<>>, entity, char) = <<>>
           /\ \A x \in Strings : Unescape(x, entity, char) \in Strings
           /\ \A x \in Strings : \A a \in Symbols : NoAmp(x) \/ a # entity =>
                 Unescape(Append(x, a), entity, char) = Append(Unescape(x, entity, char), a)
           /\ \A x \in Strings : \A b \in Symbols : b # entity =>
                 Unescape(Append(Append(x, "&"), b), entity, char)
                   = Append(Append(Unescape(x, entity, char), "&"), b)
           /\ \A x \in Strings : Unescape(Append(Append(x, "&"), entity), entity, char)
                                  = Append(Unescape(x, entity, char), char)
<1>1. "&" \in Symbols /\ <<>> \in Strings
  BY SymbolTypes, MarkTypes
<1>2. ASSUME NEW x \in Strings, NEW a \in Symbols, NoAmp(x) \/ a # entity
      PROVE  Unescape(Append(x, a), entity, char) = Append(Unescape(x, entity, char), a)
  BY <1>2, UnescapeMore
<1>3. ASSUME NEW x \in Strings, NEW b \in Symbols, b # entity
      PROVE  Unescape(Append(Append(x, "&"), b), entity, char)
               = Append(Append(Unescape(x, entity, char), "&"), b)
  <2>1. Append(x, "&") \in Strings
    BY <1>1 DEF Strings
  <2>2. Unescape(Append(x, "&"), entity, char) = Append(Unescape(x, entity, char), "&")
    BY <1>1, <1>2
  <2> QED  BY <1>2, <1>3, <2>1, <2>2, Zenon
<1>4. ASSUME NEW x \in Strings
      PROVE  Unescape(Append(Append(x, "&"), entity), entity, char)
               = Append(Unescape(x, entity, char), char)
  BY UnescapeMore
<1>5. Unescape(<<>>, entity, char) = <<>>
  BY <1>1, UnescapeMore
<1>6. \A x \in Strings : Unescape(x, entity, char) \in Strings
  BY UnescapeType
<1> QED  BY <1>2, <1>3, <1>4, <1>5, <1>6, Zenon

\* What UnescapeText takes an entity for is what EscapeText has put there.
LEMMA TextInverse ==
    \A x \in Strings : /\ CQCodeUnescapeText(CQCodeEscapeText(x)) = x
                       /\ NoAmp(CQCodeEscapeText(x))
<1> DEFINE T(z) == CQCodeEscapeText(z)
           F(z) == Unescape(z, "#91;", "[")
           G(z) == Unescape(z, "#93;", "]")
           H(z) == Unescape(z, "amp;", "&")
           Inv(x) == /\ NoAmp(T(x)) /\ NoAmp(F(T(x))) /\ NoAmp(G(F(T(x))))
                      /\ H(G(F(T(x)))) = x
           P == {x \in Strings : Inv(x)}
<1>1. \A z : CQCodeUnescapeText(z) = H(G(F(z)))
  BY DEF CQCodeUnescapeText
<1>2. /\ T(<<>>) = <<>>
      /\ \A z \in Strings : T(z) \in Strings
      /\ \A z \in Strings : T(Append(z, "&")) = Append(Append(T(z), "&"), "amp;")
      /\ \A z \in Strings : T(Append(z, "[")) = Append(Append(T(z), "&"), "#91;")
      /\ \A z \in Strings : T(Append(z, "]")) = Append(Append(T(z), "&"), "#93;")
      /\ \A z \in Strings : \A c \in Symbols \ {"&", "[", "]"} : T(Append(z, c)) = Append(T(z), c)
  BY EscapeTextMore, EscapesType, SymbolTypes, Zenon
<1>3. /\ F(<<>>) = <<>>
      /\ \A z \in Strings : F(z) \in Strings
      /\ \A z \in Strings : \A a \in Symbols : NoAmp(z) \/ a # "#91;" =>
            F(Append(z, a)) = Append(F(z), a)
      /\ \A z \in Strings : \A b \in Symbols : b # "#91;" =>
            F(Append(Append(z, "&"), b)) = Append(Append(F(z), "&"), b)
      /\ \A z \in Strings : F(Append(Append(z, "&"), "#91;")) = Append(F(z), "[")
  <2>1. "#91;" \in Marks /\ "[" \in Marks /\ "#91;" # "&"
    BY MarkTypes
  <2> QED  BY <2>1, UnescapeSteps, Zenon
<1>4. /\ G(<<>>) = <<>>
      /\ \A z \in Strings : G(z) \in Strings
      /\ \A z \in Strings : \A a \in Symbols : NoAmp(z) \/ a # "#93;" =>
            G(Append(z, a)) = Append(G(z), a)
      /\ \A z \in Strings : \A b \in Symbols : b # "#93;" =>
            G(Append(Append(z, "&"), b)) = Append(Append(G(z), "&"), b)
      /\ \A z \in Strings : G(Append(Append(z, "&"), "#93;")) = Append(G(z), "]")
  <2>1. "#93;" \in Marks /\ "]" \in Marks /\ "#93;" # "&"
    BY MarkTypes
  <2> QED  BY <2>1, UnescapeSteps, Zenon
<1>5. /\ H(<<>>) = <<>>
      /\ \A z \in Strings : \A a \in Symbols : NoAmp(z) \/ a # "amp;" =>
            H(Append(z, a)) = Append(H(z), a)
      /\ \A z \in Strings : H(Append(Append(z, "&"), "amp;")) = Append(H(z), "&")
  <2>1. "amp;" \in Marks /\ "&" \in Marks /\ "amp;" # "&"
    BY MarkTypes
  <2> QED  BY <2>1, UnescapeSteps, Zenon
<1>6. /\ \A z \in Strings : \A c \in Symbols : c # "&" => NoAmp(Append(z, c))
      /\ \A z \in Strings : \A c \in Symbols : c # "&" => NoAmp(Append(Append(z, "&"), c))
  <2>1. \A z \in Strings : Append(z, "&") \in Strings
    BY MarkTypes, Adds, Zenon
  <2> QED  BY <2>1, NoAmpIs, Zenon
<1> HIDE DEF T, F, G, H
<1>7. <<>> \in P
  BY <1>2, <1>3, <1>4, <1>5, SymbolTypes, NoAmpIs
<1>8. ASSUME NEW x \in Strings, Inv(x), NEW c \in Symbols
      PROVE  Inv(Append(x, c))
  <2>1. T(x) \in Strings /\ F(T(x)) \in Strings /\ G(F(T(x))) \in Strings
    BY <1>2, <1>3, <1>4, Zenon
  <2>2. CASE c = "&"
    <3>1. "amp;" \in Symbols /\ "amp;" # "&" /\ "amp;" # "#91;" /\ "amp;" # "#93;"
      BY MarkTypes
    <3>2. T(Append(x, c)) = Append(Append(T(x), "&"), "amp;")
      BY <1>2, <2>2, Zenon
    <3>3. F(Append(Append(T(x), "&"), "amp;")) = Append(Append(F(T(x)), "&"), "amp;")
      BY <1>3, <2>1, <3>1, Zenon
    <3>4. G(Append(Append(F(T(x)), "&"), "amp;")) = Append(Append(G(F(T(x))), "&"), "amp;")
      BY <1>4, <2>1, <3>1, Zenon
    <3>5. H(Append(Append(G(F(T(x))), "&"), "amp;")) = Append(x, c)
      BY <1>5, <1>8, <2>1, <2>2, Zenon
    <3>6. /\ NoAmp(Append(Append(T(x), "&"), "amp;"))
          /\ NoAmp(Append(Append(F(T(x)), "&"), "amp;"))
          /\ NoAmp(Append(Append(G(F(T(x))), "&"), "amp;"))
      BY <1>6, <2>1, <3>1, Zenon
    <3> QED  BY <3>2, <3>3, <3>4, <3>5, <3>6, Zenon
  <2>3. CASE c = "["
    <3>1. "#91;" \in Symbols /\ "#91;" # "&" /\ "[" # "#93;" /\ "[" # "amp;" /\ "[" # "&"
      BY MarkTypes
    <3>2. T(Append(x, c)) = Append(Append(T(x), "&"), "#91;")
      BY <1>2, <2>3, Zenon
    <3>3. F(Append(Append(T(x), "&"), "#91;")) = Append(F(T(x)), c)
      BY <1>3, <2>1, <2>3, Zenon
    <3>4. G(Append(F(T(x)), c)) = Append(G(F(T(x))), c)
      BY <1>4, <2>1, <2>3, <3>1, Zenon
    <3>5. H(Append(G(F(T(x))), c)) = Append(x, c)
      BY <1>5, <1>8, <2>1, <2>3, <3>1, Zenon
    <3>6. /\ NoAmp(Append(Append(T(x), "&"), "#91;"))
          /\ NoAmp(Append(F(T(x)), c)) /\ NoAmp(Append(G(F(T(x))), c))
      BY <1>6, <2>1, <2>3, <3>1, Zenon
    <3> QED  BY <3>2, <3>3, <3>4, <3>5, <3>6, Zenon
  <2>4. CASE c = "]"
    <3>1. "#93;" \in Symbols /\ "#93;" # "&" /\ "#93;" # "#91;" /\ "]" # "amp;" /\ "]" # "&"
      BY MarkTypes
    <3>2. T(Append(x, c)) = Append(Append(T(x), "&"), "#93;")
      BY <1>2, <2>4, Zenon
    <3>3. F(Append(Append(T(x), "&"), "#93;")) = Append(Append(F(T(x)), "&"), "#93;")
      BY <1>3, <2>1, <3>1, Zenon
    <3>4. G(Append(Append(F(T(x)), "&"), "#93;")) = Append(G(F(T(x))), c)
      BY <1>4, <2>1, <2>4, Zenon
    <3>5. H(Append(G(F(T(x))), c)) = Append(x, c)
      BY <1>5, <1>8, <2>1, <2>4, <3>1, Zenon
    <3>6. /\ NoAmp(Append(Append(T(x), "&"), "#93;"))
          /\ NoAmp(Append(Append(F(T(x)), "&"), "#93;"))
          /\ NoAmp(Append(G(F(T(x))), c))
      BY <1>6, <2>1, <2>4, <3>1, Zenon
    <3> QED  BY <3>2, <3>3, <3>4, <3>5, <3>6, Zenon
  <2>5. CASE c \notin {"&", "[", "]"}
    <3>1. c # "&" /\ c \in Symbols \ {"&", "[", "]"}
      BY <2>5
    <3>2. T(Append(x, c)) = Append(T(x), c)
      BY <1>2, <3>1, Zenon
    <3>3. F(Append(T(x), c)) = Append(F(T(x)), c)
      BY <1>3, <1>8, <2>1, Zenon
    <3>4. G(Append(F(T(x)), c)) = Append(G(F(T(x))), c)
      BY <1>4, <1>8, <2>1, Zenon
    <3>5. H(Append(G(F(T(x))), c)) = Append(x, c)
      BY <1>5, <1>8, <2>1, Zenon
    <3>6. /\ NoAmp(Append(T(x), c)) /\ NoAmp(Append(F(T(x)), c))
          /\ NoAmp(Append(G(F(T(x))), c))
      BY <1>6, <2>1, <3>1, Zenon
    <3> QED  BY <3>2, <3>3, <3>4, <3>5, <3>6, Zenon
  <2> QED  BY <2>2, <2>3, <2>4, <2>5
<1>9. Strings \subseteq P
  <2>1. \A x \in Seq(Symbols) : x \in P => \A c \in Symbols : Append(x, c) \in P
    <3> HIDE DEF Inv
    <3> QED  BY <1>8, Adds, Zenon DEF Strings
  <2> HIDE DEF P
  <2> QED  BY <1>7, <2>1, SequenceInduction DEF Strings
<1> QED  BY <1>1, <1>9 DEF T

\* Values, likewise
LEMMA EscapeValueMore ==
    ASSUME NEW x \in Strings
    PROVE  /\ CQCodeEscapeValue(<<>>) = <<>>
           /\ CQCodeEscapeValue(Append(x, "&")) = Append(Append(CQCodeEscapeValue(x), "&"), "amp;")
           /\ CQCodeEscapeValue(Append(x, "[")) = Append(Append(CQCodeEscapeValue(x), "&"), "#91;")
           /\ CQCodeEscapeValue(Append(x, "]")) = Append(Append(CQCodeEscapeValue(x), "&"), "#93;")
           /\ CQCodeEscapeValue(Append(x, ",")) = Append(Append(CQCodeEscapeValue(x), "&"), "#44;")
           /\ \A c \in Symbols \ {"&", "[", "]", ","} :
                 CQCodeEscapeValue(Append(x, c)) = Append(CQCodeEscapeValue(x), c)
<1> DEFINE T(z) == CQCodeEscapeText(z)
           E(z) == Escape(z, ",", "#44;")
<1>1. \A z : CQCodeEscapeValue(z) = E(T(z))
  BY DEF CQCodeEscapeValue
<1>2. /\ T(<<>>) = <<>> /\ T(x) \in Strings
      /\ T(Append(x, "&")) = Append(Append(T(x), "&"), "amp;")
      /\ T(Append(x, "[")) = Append(Append(T(x), "&"), "#91;")
      /\ T(Append(x, "]")) = Append(Append(T(x), "&"), "#93;")
      /\ \A c \in Symbols \ {"&", "[", "]"} : T(Append(x, c)) = Append(T(x), c)
  BY EscapeTextMore, EscapesType, Zenon
<1>3. /\ E(<<>>) = <<>>
      /\ \A z \in Strings : \A a \in Symbols : a # "," => E(Append(z, a)) = Append(E(z), a)
      /\ \A z \in Strings : \A a, b \in Symbols : a # "," /\ b # "," =>
            E(Append(Append(z, a), b)) = Append(Append(E(z), a), b)
      /\ \A z \in Strings : E(Append(z, ",")) = Append(Append(E(z), "&"), "#44;")
  <2>1. "," \in Marks /\ "#44;" \in Marks
    BY MarkTypes
  <2> QED  BY <2>1, EscapeSteps, Zenon
<1> HIDE DEF T, E
<1>4. \A b \in Symbols : b # "," =>
         E(Append(Append(T(x), "&"), b)) = Append(Append(E(T(x)), "&"), b)
  <2>1. "&" # "," /\ "&" \in Symbols
    BY MarkTypes
  <2> QED  BY <1>2, <1>3, <2>1, Zenon
<1>5. /\ "amp;" # "," /\ "#91;" # "," /\ "#93;" # ","
      /\ "amp;" \in Symbols /\ "#91;" \in Symbols /\ "#93;" \in Symbols
  BY MarkTypes
<1>6. CQCodeEscapeValue(Append(x, "&")) = Append(Append(CQCodeEscapeValue(x), "&"), "amp;")
  BY <1>1, <1>2, <1>4, <1>5, Zenon
<1>7. CQCodeEscapeValue(Append(x, "[")) = Append(Append(CQCodeEscapeValue(x), "&"), "#91;")
  BY <1>1, <1>2, <1>4, <1>5, Zenon
<1>8. CQCodeEscapeValue(Append(x, "]")) = Append(Append(CQCodeEscapeValue(x), "&"), "#93;")
  BY <1>1, <1>2, <1>4, <1>5, Zenon
<1>9. CQCodeEscapeValue(Append(x, ",")) = Append(Append(CQCodeEscapeValue(x), "&"), "#44;")
  <2>1. "," \in Symbols \ {"&", "[", "]"}
    BY MarkTypes
  <2>2. T(Append(x, ",")) = Append(T(x), ",")
    BY <1>2, <2>1, Zenon
  <2> QED  BY <1>1, <1>2, <1>3, <2>2, Zenon
<1>10. ASSUME NEW c \in Symbols \ {"&", "[", "]", ","}
       PROVE  CQCodeEscapeValue(Append(x, c)) = Append(CQCodeEscapeValue(x), c)
  <2>1. c \in Symbols \ {"&", "[", "]"} /\ c \in Symbols /\ c # ","
    OBVIOUS
  <2>2. T(Append(x, c)) = Append(T(x), c)
    BY <1>2, <2>1, Zenon
  <2> QED  BY <1>1, <1>2, <1>3, <2>1, <2>2, Zenon
<1>11. CQCodeEscapeValue(<<>>) = <<>>
  BY <1>1, <1>2, <1>3, Zenon
<1> QED  BY <1>6, <1>7, <1>8, <1>9, <1>10, <1>11

LEMMA ValueInverse ==
    \A x \in Strings : CQCodeUnescapeValue(CQCodeEscapeValue(x)) = x
<1> DEFINE T(z) == CQCodeEscapeText(z)
           V(z) == CQCodeEscapeValue(z)
           U(z) == Unescape(z, "#44;", ",")
           Inv(x) == NoAmp(V(x)) /\ U(V(x)) = T(x)
           P == {x \in Strings : Inv(x)}
<1>1. /\ T(<<>>) = <<>>
      /\ \A z \in Strings : T(Append(z, "&")) = Append(Append(T(z), "&"), "amp;")
      /\ \A z \in Strings : T(Append(z, "[")) = Append(Append(T(z), "&"), "#91;")
      /\ \A z \in Strings : T(Append(z, "]")) = Append(Append(T(z), "&"), "#93;")
      /\ \A z \in Strings : \A c \in Symbols \ {"&", "[", "]"} : T(Append(z, c)) = Append(T(z), c)
  BY EscapeTextMore, SymbolTypes, Zenon
<1>2. /\ V(<<>>) = <<>>
      /\ \A z \in Strings : V(z) \in Strings
      /\ \A z \in Strings : V(Append(z, "&")) = Append(Append(V(z), "&"), "amp;")
      /\ \A z \in Strings : V(Append(z, "[")) = Append(Append(V(z), "&"), "#91;")
      /\ \A z \in Strings : V(Append(z, "]")) = Append(Append(V(z), "&"), "#93;")
      /\ \A z \in Strings : V(Append(z, ",")) = Append(Append(V(z), "&"), "#44;")
      /\ \A z \in Strings : \A c \in Symbols \ {"&", "[", "]", ","} :
            V(Append(z, c)) = Append(V(z), c)
  BY EscapeValueMore, EscapesType, SymbolTypes, Zenon
<1>3. /\ U(<<>>) = <<>>
      /\ \A z \in Strings : \A a \in Symbols : NoAmp(z) \/ a # "#44;" =>
            U(Append(z, a)) = Append(U(z), a)
      /\ \A z \in Strings : \A b \in Symbols : b # "#44;" =>
            U(Append(Append(z, "&"), b)) = Append(Append(U(z), "&"), b)
      /\ \A z \in Strings : U(Append(Append(z, "&"), "#44;")) = Append(U(z), ",")
  <2>1. "#44;" \in Marks /\ "," \in Marks /\ "#44;" # "&"
    BY MarkTypes
  <2> QED  BY <2>1, UnescapeSteps, Zenon
<1>4. /\ \A z \in Strings : \A c \in Symbols : c # "&" => NoAmp(Append(z, c))
      /\ \A z \in Strings : \A c \in Symbols : c # "&" => NoAmp(Append(Append(z, "&"), c))
  BY MarkTypes, Adds, NoAmpIs, Zenon
<1>5. CQCodeUnescapeText(T(<<>>)) = <<>> /\ \A z : CQCodeUnescapeValue(z) = CQCodeUnescapeText(U(z))
  BY TextInverse, SymbolTypes DEF CQCodeUnescapeValue
<1> HIDE DEF T, V, U
<1>6. <<>> \in P
  BY <1>1, <1>2, <1>3, SymbolTypes, NoAmpIs
<1>7. ASSUME NEW x \in Strings, Inv(x), NEW c \in Symbols
      PROVE  Inv(Append(x, c))
  <2>1. V(x) \in Strings /\ U(V(x)) = T(x)
    BY <1>2, <1>7, Zenon
  <2>2. ASSUME NEW b \in Symbols, b # "#44;", b # "&",
               V(Append(x, c)) = Append(Append(V(x), "&"), b),
               T(Append(x, c)) = Append(Append(T(x), "&"), b)
        PROVE  Inv(Append(x, c))
    BY <1>3, <1>4, <2>1, <2>2, Zenon
  <2>3. /\ "amp;" \in Symbols /\ "amp;" # "#44;" /\ "amp;" # "&"
        /\ "#91;" \in Symbols /\ "#91;" # "#44;" /\ "#91;" # "&"
        /\ "#93;" \in Symbols /\ "#93;" # "#44;" /\ "#93;" # "&"
        /\ "#44;" \in Symbols /\ "#44;" # "&" /\ "," \in Symbols \ {"&", "[", "]"}
    BY MarkTypes
  <2>4. CASE c = "&"
    BY <1>1, <1>2, <2>2, <2>3, <2>4, Zenon
  <2>5. CASE c = "["
    BY <1>1, <1>2, <2>2, <2>3, <2>5, Zenon
  <2>6. CASE c = "]"
    BY <1>1, <1>2, <2>2, <2>3, <2>6, Zenon
  <2>7. CASE c = ","
    <3>1. V(Append(x, c)) = Append(Append(V(x), "&"), "#44;") /\ T(Append(x, c)) = Append(T(x), ",")
      BY <1>1, <1>2, <2>3, <2>7, Zenon
    <3>2. U(Append(Append(V(x), "&"), "#44;")) = Append(T(x), ",")
      BY <1>3, <2>1, Zenon
    <3>3. NoAmp(Append(Append(V(x), "&"), "#44;"))
      BY <1>4, <2>1, <2>3, Zenon
    <3> QED  BY <3>1, <3>2, <3>3, Zenon
  <2>8. CASE c \notin {"&", "[", "]", ","}
    <3>1. c # "&" /\ c \in Symbols \ {"&", "[", "]"} /\ c \in Symbols \ {"&", "[", "]", ","}
      BY <2>8
    <3>2. V(Append(x, c)) = Append(V(x), c) /\ T(Append(x, c)) = Append(T(x), c)
      BY <1>1, <1>2, <3>1, Zenon
    <3>3. U(Append(V(x), c)) = Append(T(x), c)
      BY <1>3, <1>7, <2>1, Zenon
    <3>4. NoAmp(Append(V(x), c))
      BY <1>4, <2>1, <3>1, Zenon
    <3> QED  BY <3>2, <3>3, <3>4, Zenon
  <2> QED  BY <2>4, <2>5, <2>6, <2>7, <2>8
<1>8. Strings \subseteq P
  <2>1. \A x \in Seq(Symbols) : x \in P => \A c \in Symbols : Append(x, c) \in P
    <3> HIDE DEF Inv
    <3> QED  BY <1>7, Adds, Zenon DEF Strings
  <2> HIDE DEF P
  <2> QED  BY <1>6, <2>1, SequenceInduction DEF Strings
<1> QED  BY <1>5, <1>8, TextInverse DEF T, V

\* Whatever a text or a value is, what is escaped and unescaped again is the same
\* (CQCodeEscapeText, CQCodeEscapeValue, and the two that undo them).
THEOREM EscapesInvert ==
    \A x \in Strings : /\ CQCodeUnescapeText(CQCodeEscapeText(x)) = x
                       /\ CQCodeUnescapeValue(CQCodeEscapeValue(x)) = x
<1> QED  BY TextInverse, ValueInverse

\* Words have nothing in them to unescape.
LEMMA WordsStay == \A w \in Seq(Words) : CQCodeUnescapeValue(w) = w
<1> DEFINE Stays(w) == /\ NoAmp(w)
                       /\ Unescape(w, "#44;", ",") = w /\ Unescape(w, "#91;", "[") = w
                       /\ Unescape(w, "#93;", "]") = w /\ Unescape(w, "amp;", "&") = w
           P == {w \in Seq(Words) : Stays(w)}
<1>1. ASSUME NEW char \in Marks, NEW entity \in Marks, entity # "&"
      PROVE  /\ Unescape(<<>>, entity, char) = <<>>
             /\ \A x \in Strings : \A a \in Symbols : NoAmp(x) =>
                   Unescape(Append(x, a), entity, char) = Append(Unescape(x, entity, char), a)
  <2>1. Unescape(<<>>, entity, char) = <<>>
    BY <1>1, UnescapeSteps
  <2>2. ASSUME NEW x \in Strings, NEW a \in Symbols, NoAmp(x)
        PROVE  Unescape(Append(x, a), entity, char) = Append(Unescape(x, entity, char), a)
    BY <1>1, <2>2, UnescapeSteps
  <2> QED  BY <2>1, <2>2
<1>2. /\ "#44;" # "&" /\ "#91;" # "&" /\ "#93;" # "&" /\ "amp;" # "&"
  OBVIOUS
<1>3. <<>> \in P
  <2>1. <<>> \in Seq(Words)
    OBVIOUS
  <2> QED  BY <1>1, <1>2, <2>1, MarkTypes, NoAmpIs
<1>4. ASSUME NEW w \in Seq(Words), Stays(w), NEW c \in Words PROVE Stays(Append(w, c))
  <2>1. c \in Symbols /\ c # "&"
    BY ConstantsAssumption
  <2>2. w \in Strings
    BY WordTypes
  <2>3. NoAmp(Append(w, c))
    BY <2>1, <2>2, NoAmpIs
  <2>4. ASSUME NEW char \in Marks, NEW entity \in Marks, entity # "&",
               Unescape(w, entity, char) = w
        PROVE  Unescape(Append(w, c), entity, char) = Append(w, c)
    <3>1. NoAmp(w)
      BY <1>4
    <3>2. Unescape(Append(w, c), entity, char) = Append(Unescape(w, entity, char), c)
      BY <1>1, <2>1, <2>2, <2>4, <3>1, Zenon
    <3> QED  BY <2>4, <3>2, Zenon
  <2> QED  BY <1>2, <1>4, <2>3, <2>4, MarkTypes, Zenon
<1>5. Seq(Words) \subseteq P
  <2>1. \A w \in Seq(Words) : w \in P => \A c \in Words : Append(w, c) \in P
    <3>1. \A w \in Seq(Words) : \A c \in Words : Append(w, c) \in Seq(Words)
      OBVIOUS
    <3> HIDE DEF Stays
    <3> QED  BY <1>4, <3>1, Zenon
  <2> HIDE DEF P
  <2> QED  BY <1>3, <2>1, SequenceInduction
<1> QED  BY <1>5 DEF CQCodeUnescapeValue, CQCodeUnescapeText

\* No symbol of x is one of the set.
Lacks(x, set) == \A n \in DOMAIN x : x[n] \notin set

LEMMA LacksMore ==
    ASSUME NEW set
    PROVE  /\ Lacks(<<>>, set)
           /\ \A x \in Strings : \A c \in Symbols :
                 Lacks(x, set) /\ c \notin set => Lacks(Append(x, c), set)
           /\ \A x \in Strings : \A b, c \in Symbols :
                 Lacks(x, set) /\ b \notin set /\ c \notin set
                    => Lacks(Append(Append(x, b), c), set)
<1>1. Lacks(<<>>, set)
  BY DEF Lacks
<1>2. ASSUME NEW x \in Strings, NEW c \in Symbols, Lacks(x, set), c \notin set
      PROVE  Lacks(Append(x, c), set)
  <2>1. x \in Seq(Symbols)
    BY DEF Strings
  <2>2. /\ DOMAIN Append(x, c) = 1 .. Len(x) + 1 /\ Append(x, c)[Len(x) + 1] = c
        /\ DOMAIN x = 1 .. Len(x) /\ Len(x) \in Nat
        /\ \A n \in 1 .. Len(x) : Append(x, c)[n] = x[n]
    BY <2>1, AppendIs
  <2>3. \A n \in 1 .. Len(x) + 1 : n \in 1 .. Len(x) \/ n = Len(x) + 1
    BY <2>2
  <2> QED  BY <1>2, <2>2, <2>3 DEF Lacks
<1> QED  BY <1>1, <1>2, Adds, Zenon

\* Nothing in an escaped text begins or ends a code, or a parameter.
LEMMA Escaped ==
    \A x \in Strings : /\ Lacks(CQCodeEscapeText(x), {"[", "]"})
                       /\ Lacks(CQCodeEscapeValue(x), {",", "]"})
<1> DEFINE T(z) == CQCodeEscapeText(z)
           V(z) == CQCodeEscapeValue(z)
           Clean(x) == Lacks(T(x), {"[", "]"}) /\ Lacks(V(x), {",", "]"})
           P == {x \in Strings : Clean(x)}
<1>1. /\ T(<<>>) = <<>>
      /\ \A z \in Strings : T(z) \in Strings
      /\ \A z \in Strings : T(Append(z, "&")) = Append(Append(T(z), "&"), "amp;")
      /\ \A z \in Strings : T(Append(z, "[")) = Append(Append(T(z), "&"), "#91;")
      /\ \A z \in Strings : T(Append(z, "]")) = Append(Append(T(z), "&"), "#93;")
      /\ \A z \in Strings : \A c \in Symbols \ {"&", "[", "]"} : T(Append(z, c)) = Append(T(z), c)
  BY EscapeTextMore, EscapesType, SymbolTypes, Zenon
<1>2. /\ V(<<>>) = <<>>
      /\ \A z \in Strings : V(z) \in Strings
      /\ \A z \in Strings : V(Append(z, "&")) = Append(Append(V(z), "&"), "amp;")
      /\ \A z \in Strings : V(Append(z, "[")) = Append(Append(V(z), "&"), "#91;")
      /\ \A z \in Strings : V(Append(z, "]")) = Append(Append(V(z), "&"), "#93;")
      /\ \A z \in Strings : V(Append(z, ",")) = Append(Append(V(z), "&"), "#44;")
      /\ \A z \in Strings : \A c \in Symbols \ {"&", "[", "]", ","} :
            V(Append(z, c)) = Append(V(z), c)
  BY EscapeValueMore, EscapesType, SymbolTypes, Zenon
<1> HIDE DEF T, V
<1>3. <<>> \in P
  BY <1>1, <1>2, SymbolTypes, LacksMore
<1>4. ASSUME NEW x \in Strings, Clean(x), NEW c \in Symbols PROVE Clean(Append(x, c))
  <2>1. T(x) \in Strings /\ V(x) \in Strings
    BY <1>1, <1>2, Zenon
  <2>2. /\ \A b \in Symbols : b \notin {"[", "]"} =>
              /\ Lacks(Append(Append(T(x), "&"), b), {"[", "]"})
              /\ Lacks(Append(T(x), b), {"[", "]"})
        /\ \A b \in Symbols : b \notin {",", "]"} =>
              /\ Lacks(Append(Append(V(x), "&"), b), {",", "]"})
              /\ Lacks(Append(V(x), b), {",", "]"})
    <3>1. "&" \in Symbols /\ "&" \notin {"[", "]"} /\ "&" \notin {",", "]"}
      BY MarkTypes
    <3> QED  BY <1>4, <2>1, <3>1, LacksMore, Zenon
  <2>3. /\ "amp;" \in Symbols /\ "#91;" \in Symbols /\ "#93;" \in Symbols /\ "#44;" \in Symbols
        /\ "amp;" \notin {"[", "]"} /\ "#91;" \notin {"[", "]"} /\ "#93;" \notin {"[", "]"}
        /\ "amp;" \notin {",", "]"} /\ "#91;" \notin {",", "]"} /\ "#93;" \notin {",", "]"}
        /\ "#44;" \notin {",", "]"} /\ "," \notin {"[", "]"}
    BY MarkTypes
  <2>4. CASE c = "&"
    BY <1>1, <1>2, <2>2, <2>3, <2>4, Zenon
  <2>5. CASE c = "["
    BY <1>1, <1>2, <2>2, <2>3, <2>5, Zenon
  <2>6. CASE c = "]"
    BY <1>1, <1>2, <2>2, <2>3, <2>6, Zenon
  <2>7. CASE c = ","
    <3>1. c \in Symbols \ {"&", "[", "]"}
      BY <2>7
    <3> QED  BY <1>1, <1>2, <2>2, <2>3, <2>7, <3>1, Zenon
  <2>8. CASE c \notin {"&", "[", "]", ","}
    <3>1. /\ c \in Symbols \ {"&", "[", "]"} /\ c \in Symbols \ {"&", "[", "]", ","}
          /\ c \notin {"[", "]"} /\ c \notin {",", "]"}
      BY <2>8
    <3> QED  BY <1>1, <1>2, <2>2, <3>1, Zenon
  <2> QED  BY <2>4, <2>5, <2>6, <2>7, <2>8
<1>5. Strings \subseteq P
  <2>1. \A x \in Seq(Symbols) : x \in P => \A c \in Symbols : Append(x, c) \in P
    <3> HIDE DEF Clean
    <3> QED  BY <1>4, Adds, Zenon DEF Strings
  <2> HIDE DEF P
  <2> QED  BY <1>3, <2>1, SequenceInduction DEF Strings
<1> QED  BY <1>5 DEF T, V

LEMMA CatAppend ==
    ASSUME NEW S, NEW a \in Seq(S), NEW b \in Seq(S), NEW c \in S
    PROVE  Cat(a, Append(b, c)) = Append(Cat(a, b), c)
BY DEF Cat

\* A text may be escaped in parts.
LEMMA EscapeJoins ==
    \A x, y \in Strings :
        CQCodeEscapeText(Cat(x, y)) = Cat(CQCodeEscapeText(x), CQCodeEscapeText(y))
<1> SUFFICES ASSUME NEW x \in Strings
             PROVE  \A y \in Strings : CQCodeEscapeText(Cat(x, y))
                                         = Cat(CQCodeEscapeText(x), CQCodeEscapeText(y))
  OBVIOUS
<1> DEFINE T(z) == CQCodeEscapeText(z)
           Splits(y) == T(Cat(x, y)) = Cat(T(x), T(y))
           P == {y \in Strings : Splits(y)}
<1>1. /\ T(<<>>) = <<>>
      /\ \A z \in Strings : T(z) \in Strings
      /\ \A z \in Strings : T(Append(z, "&")) = Append(Append(T(z), "&"), "amp;")
      /\ \A z \in Strings : T(Append(z, "[")) = Append(Append(T(z), "&"), "#91;")
      /\ \A z \in Strings : T(Append(z, "]")) = Append(Append(T(z), "&"), "#93;")
      /\ \A z \in Strings : \A c \in Symbols \ {"&", "[", "]"} : T(Append(z, c)) = Append(T(z), c)
  BY EscapeTextMore, EscapesType, SymbolTypes, Zenon
<1>2. /\ \A y, z \in Strings : Cat(y, z) \in Strings
      /\ \A y, z \in Strings : \A c \in Symbols : Cat(y, Append(z, c)) = Append(Cat(y, z), c)
      /\ \A y \in Strings : Cat(y, <<>>) = y
  <2>1. ASSUME NEW y \in Strings, NEW z \in Strings
        PROVE  /\ Cat(y, z) \in Strings /\ Cat(y, <<>>) = y
               /\ \A c \in Symbols : Cat(y, Append(z, c)) = Append(Cat(y, z), c)
    BY CatType, CatAppend DEF Strings
  <2> QED  BY <2>1
<1> HIDE DEF T
<1>3. <<>> \in P
  BY <1>1, <1>2, SymbolTypes
<1>4. ASSUME NEW y \in Strings, Splits(y), NEW c \in Symbols PROVE Splits(Append(y, c))
  <2>1. T(x) \in Strings /\ T(y) \in Strings /\ Cat(x, y) \in Strings
    BY <1>1, <1>2, Zenon
  <2>2. Cat(x, Append(y, c)) = Append(Cat(x, y), c)
    BY <1>2, Zenon
  <2>3. ASSUME NEW b \in Symbols
        PROVE  Cat(T(x), Append(Append(T(y), "&"), b)) = Append(Append(T(Cat(x, y)), "&"), b)
    <3>1. "&" \in Symbols /\ Append(T(y), "&") \in Strings
      BY <2>1, MarkTypes, Adds, Zenon
    <3>2. Cat(T(x), Append(Append(T(y), "&"), b)) = Append(Cat(T(x), Append(T(y), "&")), b)
      BY <1>2, <2>1, <3>1, Zenon
    <3>3. Cat(T(x), Append(T(y), "&")) = Append(Cat(T(x), T(y)), "&")
      BY <1>2, <2>1, <3>1, Zenon
    <3> QED  BY <1>4, <3>2, <3>3, Zenon
  <2>4. CASE c = "&"
    <3>1. T(Append(y, c)) = Append(Append(T(y), "&"), "amp;") /\ "amp;" \in Symbols
      BY <1>1, <2>4, MarkTypes, Zenon
    <3>2. T(Append(Cat(x, y), c)) = Append(Append(T(Cat(x, y)), "&"), "amp;")
      BY <1>1, <2>1, <2>4, Zenon
    <3> QED  BY <2>2, <2>3, <3>1, <3>2, Zenon
  <2>5. CASE c = "["
    <3>1. T(Append(y, c)) = Append(Append(T(y), "&"), "#91;") /\ "#91;" \in Symbols
      BY <1>1, <2>5, MarkTypes, Zenon
    <3>2. T(Append(Cat(x, y), c)) = Append(Append(T(Cat(x, y)), "&"), "#91;")
      BY <1>1, <2>1, <2>5, Zenon
    <3> QED  BY <2>2, <2>3, <3>1, <3>2, Zenon
  <2>6. CASE c = "]"
    <3>1. T(Append(y, c)) = Append(Append(T(y), "&"), "#93;") /\ "#93;" \in Symbols
      BY <1>1, <2>6, MarkTypes, Zenon
    <3>2. T(Append(Cat(x, y), c)) = Append(Append(T(Cat(x, y)), "&"), "#93;")
      BY <1>1, <2>1, <2>6, Zenon
    <3> QED  BY <2>2, <2>3, <3>1, <3>2, Zenon
  <2>7. CASE c \notin {"&", "[", "]"}
    <3>1. T(Append(Cat(x, y), c)) = Append(T(Cat(x, y)), c) /\ T(Append(y, c)) = Append(T(y), c)
      BY <1>1, <2>1, <2>7
    <3>2. Cat(T(x), Append(T(y), c)) = Append(Cat(T(x), T(y)), c)
      BY <1>2, <2>1, Zenon
    <3> QED  BY <1>4, <2>2, <3>1, <3>2, Zenon
  <2> QED  BY <2>4, <2>5, <2>6, <2>7
<1>5. Strings \subseteq P
  <2>1. \A y \in Seq(Symbols) : y \in P => \A c \in Symbols : Append(y, c) \in P
    <3> HIDE DEF Splits
    <3> QED  BY <1>4, Adds, Zenon DEF Strings
  <2> HIDE DEF P
  <2> QED  BY <1>3, <2>1, SequenceInduction DEF Strings
<1> QED  BY <1>5 DEF T

(***************************************************************************)
(* FoldLeft                                                                *)
(***************************************************************************)

LEMMA MaxIs ==
    \A n \in Nat : \A Z \in SUBSET (1 .. n) :
        Z # {} => Max(Z) \in Z /\ \A y \in Z : y <= Max(Z)
<1> DEFINE Has(Z) == \E x \in Z : \A y \in Z : x >= y
           S == {n \in Nat : \A Z \in SUBSET (1 .. n) : Z # {} => Has(Z)}
<1>1. 0 \in S
  <2>1. \A Z \in SUBSET (1 .. 0) : Z = {}
    OBVIOUS
  <2> HIDE DEF Has
  <2> QED  BY <2>1
<1>2. ASSUME NEW n \in Nat, n \in S PROVE n + 1 \in S
  <2> SUFFICES ASSUME NEW Z \in SUBSET (1 .. n + 1), Z # {} PROVE Has(Z)
    OBVIOUS
  <2>1. CASE n + 1 \in Z
    BY <2>1
  <2>2. CASE n + 1 \notin Z
    <3>1. Z \in SUBSET (1 .. n)
      BY <2>2
    <3> QED  BY <1>2, <3>1
  <2> QED  BY <2>1, <2>2
<1> HIDE DEF S
<1>3. Nat \subseteq S
  BY <1>1, <1>2, Induction
<1>4. ASSUME NEW n \in Nat, NEW Z \in SUBSET (1 .. n), Z # {}
      PROVE  Max(Z) \in Z /\ \A y \in Z : y <= Max(Z)
  <2>1. Has(Z)
    BY <1>3, <1>4 DEF S
  <2>2. Max(Z) \in Z /\ \A y \in Z : Max(Z) >= y
    BY <2>1, Zenon DEF Max
  <2> QED  BY <2>2
<1> QED  BY <1>4

LEMMA MaxOfFirst == \A n \in Nat : Max(1 .. n + 1) = n + 1
<1> SUFFICES ASSUME NEW n \in Nat PROVE Max(1 .. n + 1) = n + 1
  OBVIOUS
<1>1. n + 1 \in Nat /\ n + 1 \in 1 .. n + 1 /\ (1 .. n + 1) \in SUBSET (1 .. n + 1)
  OBVIOUS
<1>2. Max(1 .. n + 1) \in 1 .. n + 1 /\ n + 1 <= Max(1 .. n + 1)
  BY <1>1, MaxIs
<1> QED  BY <1>2

\* FoldLeft takes the last element of each set of positions first.
FoldsTo(g, n, op, base, q) ==
    \A Z \in SUBSET (1 .. n) :
        g[Z] = IF Z = {} THEN base ELSE op[<<g[Z \ {Max(Z)}], q[Max(Z)]>>]

LEMMA FoldExists ==
    ASSUME NEW X, NEW Y, NEW op \in [X \X Y -> X], NEW base \in X, NEW q \in Seq(Y)
    PROVE  \E g \in [SUBSET (1 .. Len(q)) -> X] : FoldsTo(g, Len(q), op, base, q)
<1> DEFINE S == {n \in Nat : n <= Len(q) =>
                    \E g \in [SUBSET (1 .. n) -> X] : FoldsTo(g, n, op, base, q)}
<1>1. 0 \in S
  <2> DEFINE g == [Z \in SUBSET (1 .. 0) |-> base]
  <2>1. g \in [SUBSET (1 .. 0) -> X] /\ \A Z \in SUBSET (1 .. 0) : g[Z] = base
    BY Zenon
  <2>2. \A Z \in SUBSET (1 .. 0) : Z = {}
    OBVIOUS
  <2> HIDE DEF g
  <2>3. FoldsTo(g, 0, op, base, q)
    BY <2>1, <2>2, Zenon DEF FoldsTo
  <2> QED  BY <2>1, <2>3
<1>2. ASSUME NEW n \in Nat, n \in S PROVE n + 1 \in S
  <2> SUFFICES ASSUME n + 1 <= Len(q)
               PROVE  \E h \in [SUBSET (1 .. n + 1) -> X] : FoldsTo(h, n + 1, op, base, q)
    <3>1. n + 1 \in Nat
      OBVIOUS
    <3> QED  BY <3>1, Zenon
  <2>0. n <= Len(q)
    <3>1. Len(q) \in Nat
      OBVIOUS
    <3> QED  BY <3>1
  <2>1. PICK g \in [SUBSET (1 .. n) -> X] : FoldsTo(g, n, op, base, q)
    BY <1>2, <2>0, Zenon
  <2> DEFINE h == [Z \in SUBSET (1 .. n + 1) |->
                     IF n + 1 \in Z THEN op[<<g[Z \ {n + 1}], q[n + 1]>>] ELSE g[Z]]
  <2>2. \A Z \in SUBSET (1 .. n + 1) : Z \ {n + 1} \in SUBSET (1 .. n)
    OBVIOUS
  <2>3. \A Z \in SUBSET (1 .. n + 1) : n + 1 \notin Z => Z \in SUBSET (1 .. n)
    OBVIOUS
  <2>4. q[n + 1] \in Y
    OBVIOUS
  <2>5. h \in [SUBSET (1 .. n + 1) -> X]
    <3> SUFFICES ASSUME NEW Z \in SUBSET (1 .. n + 1)
                 PROVE  (IF n + 1 \in Z THEN op[<<g[Z \ {n + 1}], q[n + 1]>>] ELSE g[Z]) \in X
      OBVIOUS
    <3>1. CASE n + 1 \in Z
      <4>1. g[Z \ {n + 1}] \in X
        BY <2>2
      <4>2. op[<<g[Z \ {n + 1}], q[n + 1]>>] \in X
        BY <2>4, <4>1
      <4> QED  BY <3>1, <4>2
    <3>2. CASE n + 1 \notin Z
      <4>1. g[Z] \in X
        BY <2>3, <3>2
      <4> QED  BY <3>2, <4>1
    <3> QED  BY <3>1, <3>2
  <2>6. /\ \A Z \in SUBSET (1 .. n + 1) : n + 1 \in Z => h[Z] = op[<<g[Z \ {n + 1}], q[n + 1]>>]
        /\ \A Z \in SUBSET (1 .. n) : h[Z] = g[Z]
    <3>1. \A Z \in SUBSET (1 .. n) : Z \in SUBSET (1 .. n + 1) /\ n + 1 \notin Z
      OBVIOUS
    <3> QED  BY <3>1
  <2> HIDE DEF h
  <2>7. ASSUME NEW Z \in SUBSET (1 .. n + 1)
        PROVE  h[Z] = IF Z = {} THEN base ELSE op[<<h[Z \ {Max(Z)}], q[Max(Z)]>>]
    <3>1. CASE n + 1 \in Z
      <4>1. n + 1 \in Nat /\ Z # {}
        BY <3>1
      <4>2. Max(Z) \in Z /\ n + 1 <= Max(Z)
        BY <3>1, <4>1, MaxIs
      <4>3. Max(Z) = n + 1
        <5>1. \A y \in 1 .. n + 1 : n + 1 <= y => y = n + 1
          OBVIOUS
        <5>2. Max(Z) \in 1 .. n + 1
          BY <4>2, Zenon
        <5> QED  BY <4>2, <5>1, <5>2, Zenon
      <4> QED  BY <2>2, <2>6, <3>1, <4>1, <4>3
    <3>2. CASE n + 1 \notin Z
      <4>1. Z \in SUBSET (1 .. n) /\ Z \ {Max(Z)} \in SUBSET (1 .. n)
        BY <2>3, <3>2
      <4>2. h[Z] = g[Z] /\ h[Z \ {Max(Z)}] = g[Z \ {Max(Z)}]
        BY <2>6, <4>1
      <4> QED  BY <2>1, <4>1, <4>2 DEF FoldsTo
    <3> QED  BY <3>1, <3>2
  <2>8. FoldsTo(h, n + 1, op, base, q)
    BY <2>7 DEF FoldsTo
  <2> QED  BY <2>5, <2>8
<1> HIDE DEF S
<1>3. Nat \subseteq S
  BY <1>1, <1>2, Induction
<1>4. Len(q) \in S /\ Len(q) <= Len(q)
  BY <1>3
<1> QED  BY <1>4 DEF S

\* What a fold over the positions yields is what the loop does.
Takes(g, X, op, base, q) ==
    /\ g[{}] = base
    /\ \A Z \in SUBSET (1 .. Len(q)) :
          Z # {} /\ g[Z \ {Max(Z)}] \in X => g[Z] = op[<<g[Z \ {Max(Z)}], q[Max(Z)]>>]

Agree(g, f, q) == g[1 .. Len(q)] = f[Len(q)]

LEMMA FoldIs ==
    ASSUME NEW X, NEW Y, NEW op \in [X \X Y -> X], NEW base \in X, NEW q \in Seq(Y),
           NEW f, IsIteration(f, X, op, base, q),
           NEW g, Takes(g, X, op, base, q)
    PROVE  Agree(g, f, q)
<1> DEFINE S == {n \in Nat : n <= Len(q) => g[1 .. n] = f[n]}
<1>1. 0 \in S
  <2>1. 1 .. 0 = {} /\ f[0] = base
    BY DEF IsIteration
  <2> QED  BY <2>1 DEF Takes
<1>2. ASSUME NEW n \in Nat, n \in S PROVE n + 1 \in S
  <2> SUFFICES ASSUME n + 1 <= Len(q) PROVE g[1 .. n + 1] = f[n + 1]
    OBVIOUS
  <2>1. /\ (1 .. n + 1) \in SUBSET (1 .. Len(q)) /\ 1 .. n + 1 # {}
        /\ (1 .. n + 1) \ {n + 1} = 1 .. n
    <3>1. Len(q) \in Nat
      OBVIOUS
    <3>2. n + 1 \in 1 .. n + 1 /\ \A x \in 1 .. n + 1 : x \in 1 .. Len(q)
      BY <3>1
    <3>3. \A x : x \in (1 .. n + 1) \ {n + 1} <=> x \in 1 .. n
      OBVIOUS
    <3>4. (1 .. n + 1) \ {n + 1} = 1 .. n
      BY <3>3
    <3> QED  BY <3>2, <3>4
  <2>2. Max(1 .. n + 1) = n + 1
    BY MaxOfFirst
  <2>3. g[1 .. n] = f[n] /\ f[n] \in X
    <3>1. n \in 0 .. Len(q)
      OBVIOUS
    <3> QED  BY <1>2, <3>1 DEF IsIteration
  <2>4. f[n + 1] = op[<<f[n], q[n + 1]>>]
    <3>1. n + 1 \in 1 .. Len(q) /\ (n + 1) - 1 = n
      OBVIOUS
    <3> QED  BY <3>1 DEF IsIteration
  <2>5. g[1 .. n + 1] = op[<<g[1 .. n], q[n + 1]>>]
    BY <2>1, <2>2, <2>3 DEF Takes
  <2> QED  BY <2>3, <2>4, <2>5
<1> HIDE DEF S
<1>3. Nat \subseteq S
  BY <1>1, <1>2, Induction
<1>4. Len(q) \in S /\ Len(q) <= Len(q)
  BY <1>3
<1> QED  BY <1>4 DEF S, Agree

\* The loop goes once more.
GoesOn(f, X, op, base, q, e) ==
    \E h : /\ IsIteration(h, X, op, base, Append(q, e))
           /\ h[Len(Append(q, e))] = op[<<f[Len(q)], e>>]

LEMMA IterationMore ==
    ASSUME NEW X, NEW Y, NEW op \in [X \X Y -> X], NEW base \in X, NEW q \in Seq(Y),
           NEW f, IsIteration(f, X, op, base, q), NEW e \in Y
    PROVE  GoesOn(f, X, op, base, q, e)
<1> DEFINE m == Len(q)
           h == [k \in 0 .. m + 1 |-> IF k = m + 1 THEN op[<<f[m], e>>] ELSE f[k]]
<1>1. /\ Len(Append(q, e)) = m + 1 /\ m \in Nat /\ Append(q, e)[m + 1] = e
      /\ \A k \in 1 .. m : Append(q, e)[k] = q[k]
  BY AppendIs
<1>2. f \in [0 .. m -> X] /\ f[0] = base /\ \A k \in 1 .. m : f[k] = op[<<f[k - 1], q[k]>>]
  BY DEF IsIteration
<1>3. op[<<f[m], e>>] \in X
  <2>1. f[m] \in X
    BY <1>1, <1>2
  <2> QED  BY <2>1
<1>4. h \in [0 .. m + 1 -> X]
  BY <1>2, <1>3
<1>5. h[m + 1] = op[<<f[m], e>>] /\ \A k \in 0 .. m : h[k] = f[k]
  BY <1>1
<1> HIDE DEF h
<1>6. h[0] = base
  BY <1>1, <1>2, <1>5
<1>7. ASSUME NEW k \in 1 .. m + 1 PROVE h[k] = op[<<h[k - 1], Append(q, e)[k]>>]
  <2>1. CASE k = m + 1
    <3>1. k - 1 = m /\ m \in 0 .. m
      BY <1>1, <2>1
    <3>2. h[k - 1] = f[m] /\ Append(q, e)[k] = e
      BY <1>1, <1>5, <2>1, <3>1
    <3> QED  BY <1>5, <2>1, <3>2
  <2>2. CASE k # m + 1
    <3>1. k \in 1 .. m /\ k \in 0 .. m /\ k - 1 \in 0 .. m
      BY <1>1, <2>2
    <3> QED  BY <1>1, <1>2, <1>5, <3>1
  <2> QED  BY <2>1, <2>2
<1>8. IsIteration(h, X, op, base, Append(q, e))
  BY <1>1, <1>4, <1>6, <1>7 DEF IsIteration
<1> QED  BY <1>1, <1>5, <1>8 DEF GoesOn
(***************************************************************************)
(* Messages, an element at a time                                          *)
(***************************************************************************)

\* The elements of an array message, and those that they become
Ins == Texts \cup {e \in Elements :
                      \/ e.type = <<"forward">>
                      \/ /\ e.type = <<"video">> /\ <<"file">> \in DOMAIN e.data
                         /\ e.data[<<"file">>] # <<>>}
Shows == Texts \cup {e \in Elements : e.type \in {<<"forward">>, <<"LocalVideo">>}}

LEMMA TextsAre ==
    /\ \A x \in Strings : Text(x) \in Texts /\ Text(x).type = <<"text">>
                          /\ Text(x).data[<<"text">>] = x
    /\ \A e \in Texts : /\ e.type = <<"text">> /\ e.data[<<"text">>] \in Strings
                        /\ e = Text(e.data[<<"text">>])
    /\ \A e \in Shows : e.type = <<"text">> => e \in Texts
    /\ Texts \subseteq Shows
<1>1. ASSUME NEW x \in Strings
      PROVE  Text(x) \in Texts /\ Text(x).type = <<"text">> /\ Text(x).data[<<"text">>] = x
  BY DEF Texts, Text, Element, Strings
<1>2. ASSUME NEW e \in Texts
      PROVE  /\ e.type = <<"text">> /\ e.data[<<"text">>] \in Strings
             /\ e = Text(e.data[<<"text">>])
  <2>1. e.type = <<"text">> /\ e.data \in [{<<"text">>} -> Strings]
    BY DEF Texts, Strings
  <2>2. e.data = [k \in {<<"text">>} |-> e.data[<<"text">>]]
    BY <2>1
  <2>3. e = [type |-> e.type, data |-> e.data]
    BY DEF Texts
  <2>4. e = [type |-> <<"text">>, data |-> [k \in {<<"text">>} |-> e.data[<<"text">>]]]
    BY <2>1, <2>2, <2>3
  <2> QED  BY <2>1, <2>4 DEF Text, Element
<1> QED  BY <1>1, <1>2, OtherTypes DEF Shows

LEMMA BackIs ==
    \A e \in Ins : /\ Back(e) \in Shows
                   /\ e.type # <<"video">> => Back(e) = e
                   /\ e.type = <<"video">> => /\ Back(e) = LocalVideo(e.data[<<"file">>])
                                              /\ Back(e).type = <<"LocalVideo">>
<1> SUFFICES ASSUME NEW e \in Ins
             PROVE  /\ Back(e) \in Shows
                    /\ e.type # <<"video">> => Back(e) = e
                    /\ e.type = <<"video">> => /\ Back(e) = LocalVideo(e.data[<<"file">>])
                                               /\ Back(e).type = <<"LocalVideo">>
  OBVIOUS
<1>1. CASE e.type = <<"video">>
  <2>1. Back(e) = LocalVideo(e.data[<<"file">>])
    BY <1>1 DEF Back
  <2>2. e \in Elements /\ <<"file">> \in DOMAIN e.data
    BY <1>1, OtherTypes, TextsAre DEF Ins
  <2>3. e.data[<<"file">>] \in Strings
    BY <2>2, ParamsAre DEF Elements
  <2>4. Back(e) \in Elements /\ Back(e).type = <<"LocalVideo">>
    BY <2>1, <2>3, ElementTypes, LocalVideoIs
  <2> QED  BY <1>1, <2>1, <2>4 DEF Shows
<1>2. CASE e.type # <<"video">>
  <2>1. Back(e) = e
    BY <1>2 DEF Back
  <2> QED  BY <1>2, <2>1 DEF Ins, Shows
<1> QED  BY <1>1, <1>2

LEMMA JoinType ==
    ASSUME NEW M \in Seq(Shows), NEW e \in Shows
    PROVE  Join(M, e) \in Seq(Shows)
<1>1. CASE e = Text(<<>>)
  BY <1>1 DEF Join
<1>2. CASE e # Text(<<>>) /\ M # <<>> /\ e.type = <<"text">> /\ Last(M).type = <<"text">>
  <2>1. Last(M) \in Shows /\ Front(M) \in Seq(Shows)
    BY <1>2 DEF Last, Front
  <2>2. e \in Texts /\ Last(M) \in Texts
    BY <1>2, <2>1, TextsAre
  <2>3. Last(M).data[<<"text">>] \o e.data[<<"text">>] \in Strings
    BY <2>2, TextsAre, Joins
  <2>4. Text(Last(M).data[<<"text">>] \o e.data[<<"text">>]) \in Shows
    BY <2>3, TextsAre
  <2>5. Join(M, e) = Append(Front(M), Text(Last(M).data[<<"text">>] \o e.data[<<"text">>]))
    BY <1>2 DEF Join
  <2> HIDE DEF Shows
  <2> QED  BY <2>1, <2>4, <2>5
<1>3. CASE e # Text(<<>>) /\ ~(M # <<>> /\ e.type = <<"text">> /\ Last(M).type = <<"text">>)
  <2>1. Join(M, e) = Append(M, e)
    BY <1>3 DEF Join
  <2> QED  BY <2>1
<1> QED  BY <1>1, <1>2, <1>3

\* What Append does at the end of a sequence
LEMMA AppendEnds ==
    ASSUME NEW S, NEW M \in Seq(S), NEW e \in S
    PROVE  Append(M, e) # <<>> /\ Last(Append(M, e)) = e /\ Front(Append(M, e)) = M
BY DEF Last, Front

\* Two texts that follow each other are one.
LEMMA JoinJoins ==
    ASSUME NEW M \in Seq(Shows), NEW a \in Strings, NEW b \in Strings
    PROVE  Join(Join(M, Text(a)), Text(b)) = Join(M, Text(Cat(a, b)))
<1>1. /\ Text(a) \in Shows /\ Text(b) \in Shows /\ Text(a).type = <<"text">>
      /\ Text(b).type = <<"text">> /\ Text(a).data[<<"text">>] = a
      /\ Text(b).data[<<"text">>] = b
  BY TextsAre
<1>2. /\ Cat(a, b) \in Strings /\ Cat(a, <<>>) = a /\ Cat(<<>>, b) = b
      /\ <<>> \in Strings
  <2>1. a \in Seq(Symbols) /\ b \in Seq(Symbols)
    BY DEF Strings
  <2> QED  BY <2>1, CatType, SymbolTypes, Zenon DEF Strings
<1>3. /\ Text(Cat(a, b)) \in Shows /\ Text(Cat(a, b)).type = <<"text">>
      /\ Text(Cat(a, b)).data[<<"text">>] = Cat(a, b)
  BY <1>2, TextsAre
<1>4. \A x \in Strings : Text(x) = Text(<<>>) => x = <<>>
  <2>1. \A x \in Strings : Text(x).data[<<"text">>] = x
    BY TextsAre
  <2> QED  BY <1>2, <2>1, Zenon
<1>5. CASE b = <<>>
  BY <1>2, <1>5 DEF Join
<1>6. CASE a = <<>>
  <2>1. Join(M, Text(a)) = M
    BY <1>6 DEF Join
  <2>2. Cat(a, b) = b
    BY <1>2, <1>6
  <2> QED  BY <2>1, <2>2
<1>7. CASE a # <<>> /\ b # <<>>
  <2>1. Text(a) # Text(<<>>) /\ Text(b) # Text(<<>>)
    BY <1>4, <1>7
  <2>2. Cat(a, b) # <<>>
    BY <1>7 DEF Cat, Strings
  <2>3. Text(Cat(a, b)) # Text(<<>>)
    BY <1>2, <1>4, <2>2
  <2>4. CASE M # <<>> /\ Last(M).type = <<"text">>
    <3> DEFINE x == Last(M).data[<<"text">>]
    <3>1. Last(M) \in Shows /\ Front(M) \in Seq(Shows)
      BY <2>4 DEF Last, Front
    <3>2. x \in Strings
      BY <2>4, <3>1, TextsAre
    <3>3. Join(M, Text(a)) = Append(Front(M), Text(x \o a))
      BY <1>1, <2>1, <2>4, Zenon DEF Join
    <3>4. x \o a \in Strings /\ Text(x \o a) \in Shows /\ Text(x \o a).type = <<"text">>
          /\ Text(x \o a).data[<<"text">>] = x \o a
      BY <3>2, Joins, TextsAre
    <3> HIDE DEF x
    <3>5. /\ Append(Front(M), Text(x \o a)) # <<>>
          /\ Last(Append(Front(M), Text(x \o a))) = Text(x \o a)
          /\ Front(Append(Front(M), Text(x \o a))) = Front(M)
      BY <3>1, <3>4, AppendEnds
    <3>6. Join(Join(M, Text(a)), Text(b)) = Append(Front(M), Text((x \o a) \o b))
      BY <1>1, <2>1, <3>3, <3>4, <3>5, Zenon DEF Join
    <3>7. (x \o a) \o b = x \o Cat(a, b)
      BY <3>2 DEF Cat, Strings
    <3>8. Join(M, Text(Cat(a, b))) = Append(Front(M), Text(x \o Cat(a, b)))
      BY <1>3, <2>3, <2>4, Zenon DEF Join, x
    <3> QED  BY <3>6, <3>7, <3>8
  <2>5. CASE ~(M # <<>> /\ Last(M).type = <<"text">>)
    <3>1. Join(M, Text(a)) = Append(M, Text(a))
      BY <2>1, <2>5, Zenon DEF Join
    <3>2. /\ Append(M, Text(a)) # <<>> /\ Last(Append(M, Text(a))) = Text(a)
          /\ Front(Append(M, Text(a))) = M
      BY <1>1, AppendEnds
    <3>3. Join(Join(M, Text(a)), Text(b)) = Append(M, Text(a \o b))
      BY <1>1, <2>1, <3>1, <3>2, Zenon DEF Join
    <3>4. Join(M, Text(Cat(a, b))) = Append(M, Text(Cat(a, b)))
      BY <2>3, <2>5, Zenon DEF Join
    <3> QED  BY <3>3, <3>4 DEF Cat
  <2> QED  BY <2>4, <2>5
<1> QED  BY <1>5, <1>6, <1>7

JoinFunction == [p \in Seq(Shows) \X Shows |-> Join(p[1], p[2])]

LEMMA JoinFunctionIs ==
    /\ JoinFunction \in [Seq(Shows) \X Shows -> Seq(Shows)]
    /\ \A M \in Seq(Shows) : \A e \in Shows : JoinFunction[<<M, e>>] = Join(M, e)
<1> HIDE DEF Shows
<1>1. ASSUME NEW p \in Seq(Shows) \X Shows PROVE Join(p[1], p[2]) \in Seq(Shows)
  BY JoinType
<1>2. ASSUME NEW M \in Seq(Shows), NEW e \in Shows PROVE JoinFunction[<<M, e>>] = Join(M, e)
  <2>1. <<M, e>> \in Seq(Shows) \X Shows /\ <<M, e>>[1] = M /\ <<M, e>>[2] = e
    OBVIOUS
  <2> QED  BY <2>1 DEF JoinFunction
<1> QED  BY <1>1, <1>2 DEF JoinFunction

LEMMA MergedIs ==
    ASSUME NEW m \in Seq(Shows), NEW f, IsIteration(f, Seq(Shows), JoinFunction, <<>>, m)
    PROVE  Merged(m) = f[Len(m)]
<1> DEFINE X == Seq(Shows)
           Body(g, z) == IF z = {} THEN <<>> ELSE Join(g[z \ {Max(z)}], m[Max(z)])
           iter == CHOOSE g : g = [z \in SUBSET (DOMAIN m) |-> Body(g, z)]
<1>1. Merged(m) = iter[DOMAIN m]
  BY DEF Merged, FoldLeft, MapThenFoldSet
<1>2. DOMAIN m = 1 .. Len(m) /\ Len(m) \in Nat /\ \A n \in 1 .. Len(m) : m[n] \in Shows
  OBVIOUS
<1> HIDE DEF Shows
<1>3. <<>> \in X /\ JoinFunction \in [X \X Shows -> X]
  BY JoinFunctionIs
<1> HIDE DEF X
<1>4. PICK g \in [SUBSET (1 .. Len(m)) -> X] : FoldsTo(g, Len(m), JoinFunction, <<>>, m)
  BY <1>3, FoldExists
<1>5. \A Z \in SUBSET (1 .. Len(m)) :
         Z # {} => /\ Max(Z) \in 1 .. Len(m) /\ Z \ {Max(Z)} \in SUBSET (1 .. Len(m))
                   /\ m[Max(Z)] \in Shows
  <2> SUFFICES ASSUME NEW Z \in SUBSET (1 .. Len(m)), Z # {}
               PROVE  /\ Max(Z) \in 1 .. Len(m) /\ Z \ {Max(Z)} \in SUBSET (1 .. Len(m))
                      /\ m[Max(Z)] \in Shows
    OBVIOUS
  <2>1. Max(Z) \in Z
    BY <1>2, MaxIs
  <2>2. Max(Z) \in 1 .. Len(m)
    BY <2>1, Zenon
  <2> QED  BY <1>2, <2>2, Zenon
<1>6. \A Z \in SUBSET (1 .. Len(m)) : g[Z] = Body(g, Z)
  <2> SUFFICES ASSUME NEW Z \in SUBSET (1 .. Len(m)) PROVE g[Z] = Body(g, Z)
    OBVIOUS
  <2>1. CASE Z = {}
    BY <1>4, <2>1 DEF FoldsTo
  <2>2. CASE Z # {}
    <3>1. g[Z \ {Max(Z)}] \in X /\ m[Max(Z)] \in Shows
      BY <1>5, <2>2
    <3>2. JoinFunction[<<g[Z \ {Max(Z)}], m[Max(Z)]>>] = Join(g[Z \ {Max(Z)}], m[Max(Z)])
      BY <3>1, JoinFunctionIs, Zenon DEF X
    <3>3. g[Z] = JoinFunction[<<g[Z \ {Max(Z)}], m[Max(Z)]>>]
      BY <1>4, <2>2, Zenon DEF FoldsTo
    <3> QED  BY <2>2, <3>2, <3>3, Zenon
  <2> QED  BY <2>1, <2>2
<1>7. g = [z \in SUBSET (DOMAIN m) |-> Body(g, z)]
  <2> HIDE DEF Body
  <2> QED  BY <1>2, <1>4, <1>6
<1>8. iter = [z \in SUBSET (DOMAIN m) |-> Body(iter, z)]
  <2> HIDE DEF Body
  <2> QED  BY <1>7, Zenon
<1>9. \A Z \in SUBSET (1 .. Len(m)) : iter[Z] = Body(iter, Z)
  <2> HIDE DEF Body, iter
  <2> QED  BY <1>2, <1>8, Zenon
<1> HIDE DEF iter
<1>10. iter[{}] = <<>>
  BY <1>9
<1>11. ASSUME NEW Z \in SUBSET (1 .. Len(m)), Z # {} /\ iter[Z \ {Max(Z)}] \in X
       PROVE  iter[Z] = JoinFunction[<<iter[Z \ {Max(Z)}], m[Max(Z)]>>]
  <2>1. m[Max(Z)] \in Shows
    BY <1>5, <1>11
  <2>2. iter[Z] = Join(iter[Z \ {Max(Z)}], m[Max(Z)])
    BY <1>9, <1>11, Zenon
  <2> QED  BY <1>11, <2>1, <2>2, JoinFunctionIs, Zenon DEF X
<1>12. IsIteration(f, X, JoinFunction, <<>>, m)
  BY DEF X
<1>13. iter[1 .. Len(m)] = f[Len(m)]
  <2>1. Takes(iter, X, JoinFunction, <<>>, m)
    BY <1>10, <1>11, Zenon DEF Takes
  <2>2. Agree(iter, f, m)
    BY <1>3, <1>12, <2>1, FoldIs
  <2> QED  BY <2>2 DEF Agree
<1> QED  BY <1>1, <1>2, <1>13

LEMMA MergedMore ==
    /\ Merged(<<>>) = <<>>
    /\ \A m \in Seq(Shows) :
          /\ Merged(m) \in Seq(Shows)
          /\ \A e \in Shows : Merged(Append(m, e)) = Join(Merged(m), e)
<1> HIDE DEF Shows
<1>1. <<>> \in Seq(Shows) /\ JoinFunction \in [Seq(Shows) \X Shows -> Seq(Shows)]
      /\ Len(<<>>) = 0
  BY JoinFunctionIs
<1>2. ASSUME NEW m \in Seq(Shows) PROVE \E f : IsIteration(f, Seq(Shows), JoinFunction, <<>>, m)
  BY <1>1, Iterates
<1>3. Merged(<<>>) = <<>>
  <2>1. PICK f : IsIteration(f, Seq(Shows), JoinFunction, <<>>, <<>>)
    BY <1>1, <1>2
  <2>2. Merged(<<>>) = f[Len(<<>>)]
    BY <1>1, <2>1, MergedIs
  <2>3. f[0] = <<>>
    BY <2>1 DEF IsIteration
  <2> QED  BY <1>1, <2>2, <2>3
<1>4. ASSUME NEW m \in Seq(Shows)
      PROVE  /\ Merged(m) \in Seq(Shows)
             /\ \A e \in Shows : Merged(Append(m, e)) = Join(Merged(m), e)
  <2>1. PICK f : IsIteration(f, Seq(Shows), JoinFunction, <<>>, m)
    BY <1>2
  <2>2. Merged(m) = f[Len(m)] /\ Len(m) \in 0 .. Len(m)
    BY <2>1, MergedIs
  <2>3. Merged(m) \in Seq(Shows)
    BY <2>1, <2>2 DEF IsIteration
  <2>4. ASSUME NEW e \in Shows PROVE Merged(Append(m, e)) = Join(Merged(m), e)
    <3>1. PICK h : /\ IsIteration(h, Seq(Shows), JoinFunction, <<>>, Append(m, e))
                   /\ h[Len(Append(m, e))] = JoinFunction[<<f[Len(m)], e>>]
      <4>1. GoesOn(f, Seq(Shows), JoinFunction, <<>>, m, e)
        BY <1>1, <2>1, IterationMore
      <4> QED  BY <4>1 DEF GoesOn
    <3>2. Append(m, e) \in Seq(Shows)
      OBVIOUS
    <3>3. Merged(Append(m, e)) = h[Len(Append(m, e))]
      BY <3>1, <3>2, MergedIs
    <3>4. JoinFunction[<<Merged(m), e>>] = Join(Merged(m), e)
      BY <2>3, JoinFunctionIs, Zenon
    <3> QED  BY <2>2, <3>1, <3>3, <3>4
  <2> QED  BY <2>3, <2>4
<1> QED  BY <1>3, <1>4

LEMMA SetToSeqIs == \A e : SetToSeq({e}) = <<e>>
<1> SUFFICES ASSUME NEW e PROVE SetToSeq({e}) = <<e>>
  OBVIOUS
<1>1. Cardinality({e}) = 1
  BY FS_Singleton
<1>2. SetToSeq({e}) = CHOOSE f \in [1 .. 1 -> {e}] : IsInjective(f)
  BY <1>1 DEF SetToSeq
<1>3. \A f \in [1 .. 1 -> {e}] : f = <<e>>
  OBVIOUS
<1>4. <<e>> \in [1 .. 1 -> {e}] /\ IsInjective(<<e>>)
  BY DEF IsInjective
<1>5. \E f \in [1 .. 1 -> {e}] : IsInjective(f)
  BY <1>4, Zenon
<1>6. SetToSeq({e}) \in [1 .. 1 -> {e}]
  BY <1>2, <1>5, Zenon
<1> QED  BY <1>3, <1>6

\* A forward message replaces what comes before it.
Take(M, e) == IF e.type = <<"forward">> THEN <<e>> ELSE Append(M, e)

LEMMA TakeType ==
    ASSUME NEW M \in Seq(Shows), NEW e \in Shows
    PROVE  Take(M, e) \in Seq(Shows)
<1> HIDE DEF Shows
<1>1. <<e>> \in Seq(Shows) /\ Append(M, e) \in Seq(Shows)
  BY AppendIs
<1> QED  BY <1>1 DEF Take

LEMMA TakeIs ==
    ASSUME NEW M \in Seq(Shows), NEW e \in Ins
    PROVE  Take(M, Back(e)) \in Seq(Shows) /\ convertElem(M, e) = Take(M, Back(e))
<1>0. Take(M, Back(e)) \in Seq(Shows)
  BY BackIs, TakeType
<1>1. CASE e.type = <<"forward">>
  <2>1. Back(e) = e
    BY <1>1, BackIs, OtherTypes
  <2> QED  BY <1>0, <1>1, <2>1 DEF Take, convertElem
<1>2. CASE e.type # <<"forward">>
  <2>0. Back(e).type # <<"forward">>
    BY <1>2, BackIs, OtherTypes
  <2>1. ToElement(e.type, e.data) = {Back(e)}
    <3>1. CASE e \in Texts
      <4>1. <<"text">> \in DOMAIN e.data
        BY <3>1 DEF Texts
      <4>2. e.type = <<"text">> /\ e = Text(e.data[<<"text">>])
        BY <3>1, TextsAre
      <4>3. ToElement(e.type, e.data) = {Text(e.data[<<"text">>])}
        BY <4>1, <4>2 DEF ToElement
      <4>4. Back(e) = e
        BY <4>2, BackIs, OtherTypes
      <4> QED  BY <4>2, <4>3, <4>4
    <3>2. CASE e \notin Texts
      <4>1. /\ e.type = <<"video">> /\ <<"file">> \in DOMAIN e.data
            /\ e.data[<<"file">>] # <<>>
        BY <1>2, <3>2 DEF Ins
      <4>2. Back(e) = LocalVideo(e.data[<<"file">>])
        BY <4>1, BackIs
      <4>3. ToElement(e.type, e.data) = {LocalVideo(e.data[<<"file">>])}
        BY <4>1, OtherTypes, Zenon DEF ToElement
      <4> QED  BY <4>2, <4>3, Zenon
    <3> QED  BY <3>1, <3>2
  <2>2. convertElem(M, e) = M \o <<Back(e)>>
    BY <1>2, <2>1, SetToSeqIs, Zenon DEF convertElem
  <2>3. M \o <<Back(e)>> = Append(M, Back(e))
    <3>1. Back(e) \in Shows
      BY BackIs
    <3> QED  BY <3>1, CatIs DEF Cat
  <2> QED  BY <1>0, <2>0, <2>2, <2>3 DEF Take
<1> QED  BY <1>1, <1>2

TakeFunction == [p \in Seq(Shows) \X Ins |-> Take(p[1], Back(p[2]))]

LEMMA TakeFunctionIs ==
    /\ TakeFunction \in [Seq(Shows) \X Ins -> Seq(Shows)]
    /\ \A M \in Seq(Shows) : \A e \in Ins :
          TakeFunction[<<M, e>>] = Take(M, Back(e)) /\ convertElem(M, e) = Take(M, Back(e))
<1> HIDE DEF Shows, Ins
<1>1. ASSUME NEW p \in Seq(Shows) \X Ins PROVE Take(p[1], Back(p[2])) \in Seq(Shows)
  BY TakeIs
<1>2. ASSUME NEW M \in Seq(Shows), NEW e \in Ins
      PROVE  TakeFunction[<<M, e>>] = Take(M, Back(e)) /\ convertElem(M, e) = Take(M, Back(e))
  <2>1. <<M, e>> \in Seq(Shows) \X Ins /\ <<M, e>>[1] = M /\ <<M, e>>[2] = e
    OBVIOUS
  <2> QED  BY <2>1, TakeIs DEF TakeFunction
<1> QED  BY <1>1, <1>2 DEF TakeFunction

LEMMA ConvertIs ==
    ASSUME NEW m \in Seq(Ins), NEW f, IsIteration(f, Seq(Shows), TakeFunction, <<>>, m)
    PROVE  ConvertObjectMessage(m) = f[Len(m)]
<1> DEFINE X == Seq(Shows)
           Body(g, z) == IF z = {} THEN <<>> ELSE convertElem(g[z \ {Max(z)}], m[Max(z)])
           iter == CHOOSE g : g = [z \in SUBSET (DOMAIN m) |-> Body(g, z)]
<1>1. ConvertObjectMessage(m) = iter[DOMAIN m]
  BY DEF ConvertObjectMessage, FoldLeft, MapThenFoldSet
<1>2. DOMAIN m = 1 .. Len(m) /\ Len(m) \in Nat /\ \A n \in 1 .. Len(m) : m[n] \in Ins
  OBVIOUS
<1> HIDE DEF Shows, Ins
<1>3. <<>> \in X /\ TakeFunction \in [X \X Ins -> X]
  BY TakeFunctionIs
<1> HIDE DEF X
<1>4. PICK g \in [SUBSET (1 .. Len(m)) -> X] : FoldsTo(g, Len(m), TakeFunction, <<>>, m)
  BY <1>3, FoldExists
<1>5. \A Z \in SUBSET (1 .. Len(m)) :
         Z # {} => /\ Max(Z) \in 1 .. Len(m) /\ Z \ {Max(Z)} \in SUBSET (1 .. Len(m))
                   /\ m[Max(Z)] \in Ins
  <2> SUFFICES ASSUME NEW Z \in SUBSET (1 .. Len(m)), Z # {}
               PROVE  /\ Max(Z) \in 1 .. Len(m) /\ Z \ {Max(Z)} \in SUBSET (1 .. Len(m))
                      /\ m[Max(Z)] \in Ins
    OBVIOUS
  <2>1. Max(Z) \in Z
    BY <1>2, MaxIs
  <2>2. Max(Z) \in 1 .. Len(m)
    BY <2>1, Zenon
  <2> QED  BY <1>2, <2>2, Zenon
<1>6. \A Z \in SUBSET (1 .. Len(m)) : g[Z] = Body(g, Z)
  <2> SUFFICES ASSUME NEW Z \in SUBSET (1 .. Len(m)) PROVE g[Z] = Body(g, Z)
    OBVIOUS
  <2>1. CASE Z = {}
    BY <1>4, <2>1 DEF FoldsTo
  <2>2. CASE Z # {}
    <3>1. g[Z \ {Max(Z)}] \in X /\ m[Max(Z)] \in Ins
      BY <1>5, <2>2
    <3>2. TakeFunction[<<g[Z \ {Max(Z)}], m[Max(Z)]>>] = convertElem(g[Z \ {Max(Z)}], m[Max(Z)])
      BY <3>1, TakeFunctionIs, Zenon DEF X
    <3>3. g[Z] = TakeFunction[<<g[Z \ {Max(Z)}], m[Max(Z)]>>]
      BY <1>4, <2>2, Zenon DEF FoldsTo
    <3> QED  BY <2>2, <3>2, <3>3, Zenon
  <2> QED  BY <2>1, <2>2
<1>7. g = [z \in SUBSET (DOMAIN m) |-> Body(g, z)]
  <2> HIDE DEF Body
  <2> QED  BY <1>2, <1>4, <1>6
<1>8. iter = [z \in SUBSET (DOMAIN m) |-> Body(iter, z)]
  <2> HIDE DEF Body
  <2> QED  BY <1>7, Zenon
<1>9. \A Z \in SUBSET (1 .. Len(m)) : iter[Z] = Body(iter, Z)
  <2> HIDE DEF Body, iter
  <2> QED  BY <1>2, <1>8, Zenon
<1> HIDE DEF iter
<1>10. iter[{}] = <<>>
  BY <1>9
<1>11. ASSUME NEW Z \in SUBSET (1 .. Len(m)), Z # {} /\ iter[Z \ {Max(Z)}] \in X
       PROVE  iter[Z] = TakeFunction[<<iter[Z \ {Max(Z)}], m[Max(Z)]>>]
  <2>1. m[Max(Z)] \in Ins
    BY <1>5, <1>11
  <2>2. iter[Z] = convertElem(iter[Z \ {Max(Z)}], m[Max(Z)])
    BY <1>9, <1>11, Zenon
  <2> QED  BY <1>11, <2>1, <2>2, TakeFunctionIs, Zenon DEF X
<1>12. IsIteration(f, X, TakeFunction, <<>>, m)
  BY DEF X
<1>13. iter[1 .. Len(m)] = f[Len(m)]
  <2>1. Takes(iter, X, TakeFunction, <<>>, m)
    BY <1>10, <1>11, Zenon DEF Takes
  <2>2. Agree(iter, f, m)
    BY <1>3, <1>12, <2>1, FoldIs
  <2> QED  BY <2>2 DEF Agree
<1> QED  BY <1>1, <1>2, <1>13

LEMMA ConvertMore ==
    /\ ConvertObjectMessage(<<>>) = <<>>
    /\ \A m \in Seq(Ins) :
          /\ ConvertObjectMessage(m) \in Seq(Shows)
          /\ \A e \in Ins : ConvertObjectMessage(Append(m, e)) = Take(ConvertObjectMessage(m), Back(e))
<1> HIDE DEF Shows, Ins
<1>1. <<>> \in Seq(Shows) /\ <<>> \in Seq(Ins) /\ TakeFunction \in [Seq(Shows) \X Ins -> Seq(Shows)]
      /\ Len(<<>>) = 0
  BY TakeFunctionIs
<1>2. ASSUME NEW m \in Seq(Ins)
      PROVE  \E f : IsIteration(f, Seq(Shows), TakeFunction, <<>>, m)
  BY <1>1, Iterates
<1>3. ConvertObjectMessage(<<>>) = <<>>
  <2>1. PICK f : IsIteration(f, Seq(Shows), TakeFunction, <<>>, <<>>)
    BY <1>1, <1>2
  <2>2. ConvertObjectMessage(<<>>) = f[Len(<<>>)]
    BY <1>1, <2>1, ConvertIs
  <2>3. f[0] = <<>>
    BY <2>1 DEF IsIteration
  <2> QED  BY <1>1, <2>2, <2>3
<1>4. ASSUME NEW m \in Seq(Ins)
      PROVE  /\ ConvertObjectMessage(m) \in Seq(Shows)
             /\ \A e \in Ins :
                   ConvertObjectMessage(Append(m, e)) = Take(ConvertObjectMessage(m), Back(e))
  <2>1. PICK f : IsIteration(f, Seq(Shows), TakeFunction, <<>>, m)
    BY <1>2
  <2>2. ConvertObjectMessage(m) = f[Len(m)] /\ Len(m) \in 0 .. Len(m)
    BY <2>1, ConvertIs
  <2>3. ConvertObjectMessage(m) \in Seq(Shows)
    BY <2>1, <2>2 DEF IsIteration
  <2>4. ASSUME NEW e \in Ins
        PROVE  ConvertObjectMessage(Append(m, e)) = Take(ConvertObjectMessage(m), Back(e))
    <3>1. PICK h : /\ IsIteration(h, Seq(Shows), TakeFunction, <<>>, Append(m, e))
                   /\ h[Len(Append(m, e))] = TakeFunction[<<f[Len(m)], e>>]
      <4>1. GoesOn(f, Seq(Shows), TakeFunction, <<>>, m, e)
        BY <1>1, <2>1, IterationMore
      <4> QED  BY <4>1 DEF GoesOn
    <3>2. Append(m, e) \in Seq(Ins)
      OBVIOUS
    <3>3. ConvertObjectMessage(Append(m, e)) = h[Len(Append(m, e))]
      BY <3>1, <3>2, ConvertIs
    <3>4. TakeFunction[<<ConvertObjectMessage(m), e>>] = Take(ConvertObjectMessage(m), Back(e))
      BY <2>3, TakeFunctionIs, Zenon
    <3> QED  BY <2>2, <3>1, <3>3, <3>4
  <2> QED  BY <2>3, <2>4
<1> QED  BY <1>3, <1>4


LEMMA FromForwardMore ==
    /\ FromForward(<<>>) = <<>>
    /\ \A m \in Seq(Shows) : \A e \in Shows :
          FromForward(Append(m, e)) = Take(FromForward(m), e)
<1> DEFINE At(m) == {n \in DOMAIN m : m[n].type = <<"forward">>}
           Latest(m) == CHOOSE n \in At(m) : \A k \in At(m) : k <= n
<1> HIDE DEF Shows
<1>1. \A m : FromForward(m) = IF At(m) = {} THEN m ELSE SubSeq(m, Latest(m), Len(m))
  BY DEF FromForward
<1>2. FromForward(<<>>) = <<>>
  <2>1. At(<<>>) = {}
    OBVIOUS
  <2> QED  BY <1>1, <2>1
<1>3. ASSUME NEW m \in Seq(Shows), At(m) # {}
      PROVE  Latest(m) \in At(m) /\ \A k \in At(m) : k <= Latest(m)
  <2>1. Len(m) \in Nat /\ At(m) \in SUBSET (1 .. Len(m))
    OBVIOUS
  <2>2. Max(At(m)) \in At(m) /\ \A k \in At(m) : k <= Max(At(m))
    BY <1>3, <2>1, MaxIs
  <2> HIDE DEF At
  <2> QED  BY <2>2
<1>4. ASSUME NEW m \in Seq(Shows), NEW e \in Shows
      PROVE  FromForward(Append(m, e)) = Take(FromForward(m), e)
  <2> DEFINE a == Append(m, e)
             l == Len(m)
  <2>1. /\ a \in Seq(Shows) /\ Len(a) = l + 1 /\ l \in Nat /\ a[l + 1] = e
        /\ DOMAIN m = 1 .. l /\ DOMAIN a = 1 .. l + 1 /\ \A n \in 1 .. l : a[n] = m[n]
    BY AppendIs
  <2>2. CASE e.type = <<"forward">>
    <3>1. l + 1 \in At(a)
      BY <2>1, <2>2
    <3>2. Latest(a) \in At(a) /\ l + 1 <= Latest(a)
      <4> HIDE DEF At, Latest, a
      <4> QED  BY <1>3, <2>1, <3>1
    <3>3. Latest(a) = l + 1
      <4> HIDE DEF Latest
      <4> QED  BY <2>1, <3>2
    <3>4. FromForward(a) = SubSeq(a, l + 1, l + 1)
      <4> HIDE DEF At, Latest, a
      <4> QED  BY <1>1, <2>1, <3>1, <3>3
    <3>5. SubSeq(a, l + 1, l + 1) = <<e>>
      <4> DEFINE b == SubSeq(a, l + 1, l + 1)
      <4> HIDE DEF a
      <4>1. b \in Seq(Shows) /\ Len(b) = 1 /\ b[1] = a[l + 1]
        BY <2>1
      <4>2. b = <<e>>
        <5> HIDE DEF b
        <5> QED  BY <2>1, <4>1
      <4> QED  BY <4>2
    <3> QED  BY <2>2, <3>4, <3>5 DEF Take
  <2>3. CASE e.type # <<"forward">>
    <3>1. At(a) = At(m)
      <4> HIDE DEF a
      <4> QED  BY <2>1, <2>3
    <3>2. Latest(a) = Latest(m)
      BY <3>1, Zenon
    <3>3. CASE At(m) = {}
      <4> HIDE DEF At, Latest
      <4> QED  BY <1>1, <2>3, <3>1, <3>3, Zenon DEF Take
    <3>4. CASE At(m) # {}
      <4>1. Latest(m) \in 1 .. l
        <5>1. Latest(m) \in At(m)
          BY <1>3, <3>4, Zenon
        <5> HIDE DEF Latest
        <5> QED  BY <2>1, <5>1
      <4> HIDE DEF At, Latest
      <4>2. SubSeq(a, Latest(m), l + 1) = Append(SubSeq(m, Latest(m), l), e)
        BY <4>1, <2>1
      <4>3. FromForward(a) = SubSeq(a, Latest(m), l + 1)
        BY <1>1, <2>1, <3>1, <3>2, <3>4, Zenon
      <4>4. FromForward(m) = SubSeq(m, Latest(m), l)
        BY <1>1, <3>4, Zenon
      <4> QED  BY <2>3, <4>2, <4>3, <4>4, Zenon DEF Take
    <3> QED  BY <3>3, <3>4
  <2> QED  BY <2>2, <2>3
<1> QED  BY <1>2, <1>4

LEMMA FromForwardType == \A m \in Seq(Shows) : FromForward(m) \in Seq(Shows)
<1> DEFINE Q == {m \in Seq(Shows) : FromForward(m) \in Seq(Shows)}
<1> HIDE DEF Shows
<1>1. <<>> \in Q
  <2>1. FromForward(<<>>) = <<>> /\ <<>> \in Seq(Shows)
    BY FromForwardMore
  <2> QED  BY <2>1
<1>2. \A m \in Seq(Shows) : m \in Q => \A e \in Shows : Append(m, e) \in Q
  <2> SUFFICES ASSUME NEW m \in Seq(Shows), m \in Q, NEW e \in Shows
               PROVE  Append(m, e) \in Q
    OBVIOUS
  <2>1. Append(m, e) \in Seq(Shows) /\ FromForward(m) \in Seq(Shows)
    BY AppendIs
  <2>2. FromForward(Append(m, e)) = Take(FromForward(m), e)
    BY FromForwardMore, Zenon
  <2>3. Take(FromForward(m), e) \in Seq(Shows)
    BY <2>1, TakeType
  <2> QED  BY <2>1, <2>2, <2>3
<1> HIDE DEF Q
<1>3. Seq(Shows) \subseteq Q
  BY <1>1, <1>2, SequenceInduction
<1> QED  BY <1>3 DEF Q

BackAll(m) == [n \in DOMAIN m |-> Back(m[n])]

LEMMA BackAllMore ==
    /\ BackAll(<<>>) = <<>>
    /\ \A m \in Seq(Ins) :
          /\ BackAll(m) \in Seq(Shows)
          /\ \A e \in Ins : BackAll(Append(m, e)) = Append(BackAll(m), Back(e))
<1>1. \A e \in Ins : Back(e) \in Shows
  BY BackIs
<1> HIDE DEF Ins, Shows
<1>2. BackAll(<<>>) = <<>>
  BY DEF BackAll
<1>3. ASSUME NEW m \in Seq(Ins)
      PROVE  /\ BackAll(m) \in Seq(Shows) /\ Len(BackAll(m)) = Len(m) /\ Len(m) \in Nat
             /\ \A n \in 1 .. Len(m) : BackAll(m)[n] = Back(m[n])
  <2>1. DOMAIN m = 1 .. Len(m) /\ Len(m) \in Nat /\ \A n \in 1 .. Len(m) : m[n] \in Ins
    OBVIOUS
  <2>2. \A n \in 1 .. Len(m) : Back(m[n]) \in Shows
    BY <1>1, <2>1
  <2> QED  BY <2>1, <2>2 DEF BackAll
<1>4. ASSUME NEW m \in Seq(Ins), NEW e \in Ins
      PROVE  BackAll(Append(m, e)) = Append(BackAll(m), Back(e))
  <2> DEFINE a == Append(m, e)
             u == BackAll(a)
             v == BackAll(m)
             f == Back(e)
  <2>1. /\ a \in Seq(Ins) /\ Len(a) = Len(m) + 1 /\ a[Len(m) + 1] = e /\ Len(m) \in Nat
        /\ \A n \in 1 .. Len(m) : a[n] = m[n]
    BY AppendIs
  <2> HIDE DEF a
  <2>2. /\ u \in Seq(Shows) /\ Len(u) = Len(m) + 1
        /\ \A n \in 1 .. Len(m) + 1 : u[n] = Back(a[n])
    BY <1>3, <2>1
  <2>3. /\ v \in Seq(Shows) /\ Len(v) = Len(m) /\ f \in Shows
        /\ \A n \in 1 .. Len(m) : v[n] = Back(m[n])
    BY <1>1, <1>3
  <2>4. u[Len(m) + 1] = f /\ \A n \in 1 .. Len(m) : u[n] = v[n]
    BY <2>1, <2>2, <2>3
  <2> HIDE DEF u, v, f
  <2>5. u = Append(v, f)
    BY <2>1, <2>2, <2>3, <2>4
  <2> QED  BY <2>5 DEF u, v, f, a
<1> QED  BY <1>2, <1>3, <1>4

\* The array comes back as what is made of the message, from its last forward
\* message on.
LEMMA ArrayComesBack ==
    \A m \in Seq(Ins) : ConvertObjectMessage(m) = FromForward(BackAll(m))
<1> DEFINE Q == {m \in Seq(Ins) : ConvertObjectMessage(m) = FromForward(BackAll(m))}
<1>0. \A e \in Ins : Back(e) \in Shows
  BY BackIs
<1> HIDE DEF Shows, Ins
<1>1. <<>> \in Q
  BY ConvertMore, FromForwardMore, BackAllMore
<1>2. \A m \in Seq(Ins) : m \in Q => \A e \in Ins : Append(m, e) \in Q
  <2> SUFFICES ASSUME NEW m \in Seq(Ins), m \in Q, NEW e \in Ins
               PROVE  Append(m, e) \in Q
    OBVIOUS
  <2>1. Append(m, e) \in Seq(Ins)
    BY AppendIs
  <2>2. ConvertObjectMessage(Append(m, e)) = FromForward(BackAll(Append(m, e)))
    <3>1. ConvertObjectMessage(m) = FromForward(BackAll(m))
      OBVIOUS
    <3>2. ConvertObjectMessage(Append(m, e)) = Take(ConvertObjectMessage(m), Back(e))
      BY ConvertMore, Zenon
    <3>3. FromForward(Append(BackAll(m), Back(e))) = Take(FromForward(BackAll(m)), Back(e))
      <4>1. BackAll(m) \in Seq(Shows) /\ Back(e) \in Shows
        BY <1>0, BackAllMore
      <4> QED  BY <4>1, FromForwardMore, Zenon
    <3>4. BackAll(Append(m, e)) = Append(BackAll(m), Back(e))
      BY BackAllMore, Zenon
    <3> QED  BY <3>1, <3>2, <3>3, <3>4
  <2> QED  BY <2>1, <2>2
<1> HIDE DEF Q
<1>3. Seq(Ins) \subseteq Q
  BY <1>1, <1>2, SequenceInduction
<1> QED  BY <1>3 DEF Q

(***************************************************************************)
(* The message that is shown                                               *)
(***************************************************************************)

Parts == Texts \cup Forwards \cup {e \in Videos : e.data[<<"file">>] # <<>>}

LEMMA PartsAre ==
    \A e \in Parts :
        /\ e.type \in {<<"text">>, <<"forward">>, <<"video">>}
        /\ e.type = <<"text">> => e \in Texts
        /\ e.type = <<"forward">> => e \in Forwards /\ e.data[<<"id">>] \in Seq(Words)
        /\ e.type = <<"video">> => /\ e \in Videos /\ e.data[<<"file">>] \in Strings
                                   /\ e.data[<<"url">>] \in Strings
                                   /\ e.data[<<"file">>] # <<>>
<1> SUFFICES ASSUME NEW e \in Parts
             PROVE  /\ e.type \in {<<"text">>, <<"forward">>, <<"video">>}
                    /\ e.type = <<"text">> => e \in Texts
                    /\ e.type = <<"forward">> => e \in Forwards /\ e.data[<<"id">>] \in Seq(Words)
                    /\ e.type = <<"video">> => /\ e \in Videos /\ e.data[<<"file">>] \in Strings
                                               /\ e.data[<<"url">>] \in Strings
                                               /\ e.data[<<"file">>] # <<>>
  OBVIOUS
<1>1. CASE e \in Texts
  BY <1>1, OtherTypes DEF Texts
<1>2. CASE e \in Forwards
  BY <1>2, OtherTypes DEF Forwards
<1>3. CASE e \in Videos /\ e.data[<<"file">>] # <<>>
  BY <1>3, OtherTypes DEF Videos, Strings
<1> QED  BY <1>1, <1>2, <1>3 DEF Parts

LEMMA ShownIs ==
    \A e \in Parts :
        /\ Shown(e) \in Ins /\ Shown(e).type = e.type /\ Back(Shown(e)) = Back(e)
        /\ e.type # <<"video">> => Shown(e) = e
<1> SUFFICES ASSUME NEW e \in Parts
             PROVE  /\ Shown(e) \in Ins /\ Shown(e).type = e.type /\ Back(Shown(e)) = Back(e)
                    /\ e.type # <<"video">> => Shown(e) = e
  OBVIOUS
<1>0. /\ <<"text">> \in Strings /\ <<"forward">> \in Strings /\ <<"video">> \in Strings
      /\ <<"id">> \in Strings /\ <<"file">> \in Strings /\ <<"url">> \in Strings
  BY SymbolTypes DEF Names
<1>1. CASE e.type = <<"text">>
  BY <1>1, PartsAre, OtherTypes, Zenon DEF Shown, Ins
<1>2. CASE e.type = <<"forward">>
  <2>1. Shown(e) = e
    BY <1>2, OtherTypes, Zenon DEF Shown
  <2>2. e \in Forwards
    BY <1>2, PartsAre
  <2>3. e.data \in [{<<"id">>} -> Strings] /\ e = [type |-> e.type, data |-> e.data]
    BY <2>2, WordTypes DEF Forwards
  <2>4. e.data \in Params
    BY <1>0, <2>3, ParamsAre
  <2>5. e \in Elements
    BY <1>0, <1>2, <2>3, <2>4 DEF Elements
  <2> QED  BY <1>2, <2>1, <2>5 DEF Ins
<1>3. CASE e.type = <<"video">>
  <2>1. e \in Videos
    BY <1>3, PartsAre
  <2>2. /\ e.data \in [{<<"file">>, <<"url">>} -> Strings]
        /\ e = [type |-> e.type, data |-> e.data] /\ e.data[<<"file">>] # <<>>
    BY <1>3, <2>1, PartsAre DEF Videos, Strings
  <2>3. CASE raw
    <3> DEFINE file == [k \in {<<"file">>} |-> e.data[k]]
    <3>1. Shown(e) = [type |-> <<"video">>, data |-> file]
      BY <1>3, <2>3 DEF Shown, Element
    <3>2. /\ file \in [{<<"file">>} -> Strings] /\ <<"file">> \in DOMAIN file
          /\ file[<<"file">>] = e.data[<<"file">>]
      BY <2>2
    <3> HIDE DEF file
    <3>3. file \in Params
      BY <1>0, <3>2, ParamsAre
    <3>4. Shown(e) \in Elements /\ Shown(e).type = <<"video">> /\ Shown(e).data = file
      BY <1>0, <3>1, <3>3 DEF Elements
    <3>5. Back(Shown(e)) = Back(e)
      BY <1>3, <3>2, <3>4 DEF Back
    <3> QED  BY <1>3, <2>2, <3>2, <3>4, <3>5 DEF Ins
  <2>4. CASE ~raw
    <3>1. Shown(e) = e
      BY <2>4, Zenon DEF Shown
    <3>2. e.data \in Params
      BY <1>0, <2>2, ParamsAre
    <3>3. e \in Elements
      BY <1>0, <1>3, <2>2, <3>2 DEF Elements
    <3> QED  BY <1>3, <2>2, <3>1, <3>3 DEF Ins
  <2> QED  BY <2>3, <2>4
<1> QED  BY <1>1, <1>2, <1>3, PartsAre

\* What the first n elements of the message come to
Done(n) == Merged(FromForward([k \in 1 .. n |-> Back(sent[k])]))

LEMMA MergedTake ==
    \A m \in Seq(Shows) : \A e \in Shows :
        Merged(FromForward(Append(m, e)))
          = IF e.type = <<"forward">> THEN <<e>> ELSE Join(Merged(FromForward(m)), e)
<1> HIDE DEF Shows
<1> SUFFICES ASSUME NEW m \in Seq(Shows), NEW e \in Shows
             PROVE  Merged(FromForward(Append(m, e)))
                      = IF e.type = <<"forward">> THEN <<e>> ELSE Join(Merged(FromForward(m)), e)
  OBVIOUS
<1>1. FromForward(Append(m, e)) = Take(FromForward(m), e) /\ FromForward(m) \in Seq(Shows)
  BY FromForwardMore, FromForwardType
<1>2. CASE e.type = <<"forward">>
  <2>1. FromForward(Append(m, e)) = <<e>> /\ <<e>> = Append(<<>>, e) /\ <<>> \in Seq(Shows)
    BY <1>1, <1>2 DEF Take
  <2>2. Merged(Append(<<>>, e)) = Join(<<>>, e)
    <3>1. Merged(Append(<<>>, e)) = Join(Merged(<<>>), e)
      BY <2>1, MergedMore, Zenon
    <3> QED  BY <3>1, MergedMore
  <2>3. e # Text(<<>>)
    <3>1. Text(<<>>).type = <<"text">>
      BY TextsAre, SymbolTypes
    <3> QED  BY <1>2, <3>1, OtherTypes
  <2>4. Join(<<>>, e) = Append(<<>>, e)
    BY <2>3, Zenon DEF Join
  <2> QED  BY <1>2, <2>1, <2>2, <2>4
<1>3. CASE e.type # <<"forward">>
  <2>1. FromForward(Append(m, e)) = Append(FromForward(m), e)
    BY <1>1, <1>3, Zenon DEF Take
  <2>2. Merged(Append(FromForward(m), e)) = Join(Merged(FromForward(m)), e)
    BY <1>1, MergedMore, Zenon
  <2> QED  BY <1>3, <2>1, <2>2
<1> QED  BY <1>2, <1>3

LEMMA DoneIs ==
    ASSUME sent \in Seq(Parts)
    PROVE  /\ Done(0) = <<>> /\ \A n \in 0 .. Len(sent) : Done(n) \in Seq(Shows)
           /\ \A n \in 1 .. Len(sent) :
                 Done(n) = IF sent[n].type = <<"forward">> THEN <<sent[n]>>
                           ELSE Join(Done(n - 1), Back(sent[n]))
           /\ Done(Len(sent)) = Merged(FromForward([n \in DOMAIN sent |-> Back(sent[n])]))
           /\ Merged(ConvertObjectMessage(ToArrayMessage(sent))) = Done(Len(sent))
<1> DEFINE First(n) == [k \in 1 .. n |-> Back(sent[k])]
<1>1. /\ Len(sent) \in Nat /\ DOMAIN sent = 1 .. Len(sent)
      /\ \A k \in 1 .. Len(sent) : sent[k] \in Parts
  OBVIOUS
<1>2. \A k \in 1 .. Len(sent) :
         /\ Shown(sent[k]) \in Ins /\ Back(sent[k]) \in Shows
         /\ Back(Shown(sent[k])) = Back(sent[k])
  BY <1>1, ShownIs, BackIs
<1> HIDE DEF Shows, Ins
<1>3. \A n \in 0 .. Len(sent) : First(n) \in Seq(Shows) /\ Len(First(n)) = n
  BY <1>1, <1>2
<1>4. ASSUME NEW n \in 1 .. Len(sent) PROVE First(n) = Append(First(n - 1), Back(sent[n]))
  <2>1. /\ First(n) \in Seq(Shows) /\ Len(First(n)) = n /\ n \in Nat
        /\ First(n - 1) \in Seq(Shows) /\ Len(First(n - 1)) = n - 1 /\ Back(sent[n]) \in Shows
        /\ \A k \in 1 .. n : First(n)[k] = Back(sent[k])
        /\ \A k \in 1 .. n - 1 : First(n - 1)[k] = Back(sent[k])
    BY <1>2, <1>3
  <2> HIDE DEF First
  <2> QED  BY <2>1
<1>5. \A n : Done(n) = Merged(FromForward(First(n)))
  BY DEF Done
<1>6. First(Len(sent)) = [n \in DOMAIN sent |-> Back(sent[n])]
  BY <1>1
<1>11. /\ ToArrayMessage(sent) \in Seq(Ins)
       /\ BackAll(ToArrayMessage(sent)) = First(Len(sent))
  BY <1>1, <1>2 DEF ToArrayMessage, BackAll
<1>7. Done(0) = <<>>
  <2>1. First(0) = <<>>
    OBVIOUS
  <2> HIDE DEF First
  <2> QED  BY <1>5, <2>1, FromForwardMore, MergedMore
<1> HIDE DEF First
<1>8. \A n \in 0 .. Len(sent) : Done(n) \in Seq(Shows)
  <2> SUFFICES ASSUME NEW n \in 0 .. Len(sent) PROVE Done(n) \in Seq(Shows)
    OBVIOUS
  <2>1. FromForward(First(n)) \in Seq(Shows)
    BY <1>3, FromForwardType
  <2> QED  BY <1>5, <2>1, MergedMore
<1>9. ASSUME NEW n \in 1 .. Len(sent)
      PROVE  Done(n) = IF sent[n].type = <<"forward">> THEN <<sent[n]>>
                       ELSE Join(Done(n - 1), Back(sent[n]))
  <2>1. n - 1 \in 0 .. Len(sent)
    OBVIOUS
  <2>2. Done(n) = IF Back(sent[n]).type = <<"forward">> THEN <<Back(sent[n])>>
                  ELSE Join(Done(n - 1), Back(sent[n]))
    BY <1>2, <1>3, <1>4, <1>5, <2>1, MergedTake, Zenon
  <2>3. /\ Back(sent[n]).type = <<"forward">> <=> sent[n].type = <<"forward">>
        /\ sent[n].type = <<"forward">> => Back(sent[n]) = sent[n]
    BY OtherTypes, LocalVideoIs DEF Back
  <2> QED  BY <2>2, <2>3
<1>10. ConvertObjectMessage(ToArrayMessage(sent)) = FromForward(First(Len(sent)))
  BY <1>11, ArrayComesBack
<1> QED  BY <1>5, <1>6, <1>7, <1>8, <1>9, <1>10

\* The string of the first n elements, and where it ends
Prefix(n) == FlattenSeq([k \in 1 .. n |-> Rendered(sent[k])])
P(n) == Len(Prefix(n))

LEMMA CatPlaces ==
    ASSUME NEW a \in Strings, NEW b \in Strings
    PROVE  /\ Len(a) \in Nat /\ Len(b) \in Nat
           /\ Cat(a, b) \in Strings /\ Len(Cat(a, b)) = Len(a) + Len(b)
           /\ \A x \in 1 .. Len(a) : Cat(a, b)[x] = a[x]
           /\ \A x \in 1 .. Len(b) : Cat(a, b)[Len(a) + x] = b[x]
BY DEF Cat, Strings

LEMMA PrefixIs ==
    ASSUME sent \in Seq(Parts), s = ToStringMessage(sent)
    PROVE  /\ Prefix(0) = <<>> /\ \A n \in 0 .. Len(sent) : Prefix(n) \in Strings
           /\ \A n \in 1 .. Len(sent) : /\ Rendered(sent[n]) \in Strings
                                        /\ Prefix(n) = Cat(Prefix(n - 1), Rendered(sent[n]))
           /\ Prefix(Len(sent)) = s
<1> DEFINE First(n) == [k \in 1 .. n |-> Rendered(sent[k])]
<1>1. /\ Len(sent) \in Nat /\ DOMAIN sent = 1 .. Len(sent)
      /\ \A k \in 1 .. Len(sent) : sent[k] \in Parts
  OBVIOUS
<1>2. \A k \in 1 .. Len(sent) : Rendered(sent[k]) \in Seq(Symbols)
  BY <1>1, RenderedType DEF Parts, Strings
<1>3. \A n \in 0 .. Len(sent) : First(n) \in Seq(Seq(Symbols)) /\ Len(First(n)) = n
  BY <1>1, <1>2
<1>4. ASSUME NEW n \in 1 .. Len(sent) PROVE First(n) = Append(First(n - 1), Rendered(sent[n]))
  <2> DEFINE X == Seq(Symbols)
  <2>1. /\ First(n) \in Seq(X) /\ Len(First(n)) = n /\ n \in Nat
        /\ First(n - 1) \in Seq(X) /\ Len(First(n - 1)) = n - 1 /\ Rendered(sent[n]) \in X
        /\ \A k \in 1 .. n : First(n)[k] = Rendered(sent[k])
        /\ \A k \in 1 .. n - 1 : First(n - 1)[k] = Rendered(sent[k])
    BY <1>2, <1>3
  <2> HIDE DEF First, X
  <2> QED  BY <2>1
<1>5. \A n : Prefix(n) = FlattenSeq(First(n))
  BY DEF Prefix
<1>6. Prefix(Len(sent)) = s
  BY <1>1 DEF Prefix, ToStringMessage
<1>7. Prefix(0) = <<>>
  <2>1. Len(First(0)) = 0 /\ First(0) \in Seq(Seq(Symbols))
    BY <1>1, <1>3
  <2> HIDE DEF First
  <2> QED  BY <1>5, <2>1, Flattens
<1> HIDE DEF First
<1>8. \A n \in 0 .. Len(sent) : Prefix(n) \in Strings
  BY <1>3, <1>5, Flattens DEF Strings
<1>9. ASSUME NEW n \in 1 .. Len(sent)
      PROVE  Prefix(n) = Cat(Prefix(n - 1), Rendered(sent[n]))
  <2>1. n - 1 \in 0 .. Len(sent)
    OBVIOUS
  <2>2. First(n - 1) \in Seq(Seq(Symbols)) /\ Rendered(sent[n]) \in Seq(Symbols)
    BY <1>2, <1>3, <2>1
  <2>3. FlattenSeq(Append(First(n - 1), Rendered(sent[n])))
          = Cat(FlattenSeq(First(n - 1)), Rendered(sent[n]))
    BY <2>2, Flattens
  <2> QED  BY <1>4, <1>5, <2>3
<1> QED  BY <1>2, <1>6, <1>7, <1>8, <1>9 DEF Strings

\* Where each element is
LEMMA Layout ==
    ASSUME sent \in Seq(Parts), s = ToStringMessage(sent)
    PROVE  /\ s \in Strings /\ P(0) = 0 /\ P(Len(sent)) = Len(s)
           /\ \A n \in 0 .. Len(sent) : P(n) \in Nat /\ \A m \in 0 .. n : P(m) <= P(n)
           /\ \A n \in 1 .. Len(sent) :
                 /\ Len(Rendered(sent[n])) \in Nat
                 /\ P(n) = P(n - 1) + Len(Rendered(sent[n])) /\ P(n) <= Len(s)
                 /\ \A x \in 1 .. Len(Rendered(sent[n])) :
                       s[P(n - 1) + x] = Rendered(sent[n])[x]
<1> DEFINE N == Len(sent)
           Begins(k, n) == P(n) <= P(k) /\ \A x \in 1 .. P(n) : Prefix(k)[x] = Prefix(n)[x]
           S == {k \in Nat : k <= N => \A n \in 0 .. k : Begins(k, n)}
<1>1. N \in Nat
  OBVIOUS
<1> HIDE DEF N
<1>2. /\ Prefix(0) = <<>> /\ \A n \in 0 .. N : Prefix(n) \in Strings
      /\ \A n \in 1 .. N : /\ Rendered(sent[n]) \in Strings
                           /\ Prefix(n) = Cat(Prefix(n - 1), Rendered(sent[n]))
      /\ Prefix(N) = s
  BY PrefixIs DEF N
<1>3. \A n \in 0 .. N : P(n) \in Nat
  BY <1>2 DEF P, Strings
<1>4. ASSUME NEW n \in 1 .. N
      PROVE  /\ n - 1 \in 0 .. N /\ n \in 0 .. N
             /\ Len(Rendered(sent[n])) \in Nat /\ P(n) = P(n - 1) + Len(Rendered(sent[n]))
             /\ \A x \in 1 .. P(n - 1) : Prefix(n)[x] = Prefix(n - 1)[x]
             /\ \A x \in 1 .. Len(Rendered(sent[n])) :
                   Prefix(n)[P(n - 1) + x] = Rendered(sent[n])[x]
  <2>1. n - 1 \in 0 .. N /\ n \in 0 .. N
    BY <1>1
  <2>2. Prefix(n - 1) \in Strings /\ Rendered(sent[n]) \in Strings
    BY <1>2, <2>1
  <2> DEFINE a == Prefix(n - 1)
             b == Rendered(sent[n])
             c == Prefix(n)
  <2>3. c = Cat(a, b)
    BY <1>2
  <2>4. P(n) = Len(c) /\ P(n - 1) = Len(a)
    BY DEF P
  <2> HIDE DEF a, b, c
  <2>5. /\ Len(b) \in Nat /\ Len(c) = Len(a) + Len(b)
        /\ \A x \in 1 .. Len(a) : c[x] = a[x]
        /\ \A x \in 1 .. Len(b) : c[Len(a) + x] = b[x]
    BY <2>2, <2>3, CatPlaces DEF a, b
  <2> QED  BY <2>1, <2>4, <2>5 DEF a, b, c
<1>5. 0 \in S
  <2>1. \A n \in 0 .. 0 : n = 0
    OBVIOUS
  <2>2. P(0) \in Nat
    BY <1>1, <1>3
  <2> QED  BY <2>1, <2>2
<1>6. ASSUME NEW k \in Nat, k \in S PROVE k + 1 \in S
  <2> SUFFICES ASSUME k + 1 <= N, NEW n \in 0 .. k + 1 PROVE Begins(k + 1, n)
    BY <1>1
  <2>1. k + 1 \in 1 .. N /\ (k + 1) - 1 = k /\ k <= N /\ k \in 0 .. N /\ k + 1 \in 0 .. N
    BY <1>1
  <2>2. CASE n = k + 1
    <3>1. \A x \in Nat : x <= x
      OBVIOUS
    <3>2. \A z \in 0 .. N : Begins(z, z)
      BY <1>3, <3>1, Zenon
    <3>3. Begins(n, n) /\ n = k + 1
      BY <2>1, <2>2, <3>2
    <3> HIDE DEF Begins
    <3> QED  BY <3>3, Zenon
  <2>3. CASE n # k + 1
    <3>1. n \in 0 .. k /\ n \in 0 .. N
      BY <1>1, <2>1, <2>3
    <3>2. Begins(k, n)
      BY <1>6, <2>1, <3>1
    <3>3. /\ Len(Rendered(sent[k + 1])) \in Nat /\ P(k + 1) = P(k) + Len(Rendered(sent[k + 1]))
          /\ \A x \in 1 .. P(k) : Prefix(k + 1)[x] = Prefix(k)[x]
      BY <1>4, <2>1
    <3>4. P(n) \in Nat /\ P(k) \in Nat
      BY <1>3, <2>1, <3>1
    <3> QED  BY <3>2, <3>3, <3>4
  <2> QED  BY <2>2, <2>3
<1> HIDE DEF S
<1>7. Nat \subseteq S
  BY <1>5, <1>6, Induction
<1>8. \A n \in 0 .. N : Begins(N, n)
  <2>1. N \in S /\ N <= N
    BY <1>1, <1>7
  <2> QED  BY <2>1 DEF S
<1>11. \A n \in 0 .. N : \A m \in 0 .. n : P(m) <= P(n)
  <2> SUFFICES ASSUME NEW n \in 0 .. N, NEW m \in 0 .. n PROVE P(m) <= P(n)
    OBVIOUS
  <2>1. n \in Nat /\ n \in S /\ n <= N
    BY <1>1, <1>7
  <2> QED  BY <2>1 DEF S
<1>9. P(0) = 0 /\ P(N) = Len(s) /\ s \in Strings
  BY <1>1, <1>2 DEF P
<1>10. ASSUME NEW n \in 1 .. N
       PROVE  /\ P(n) <= Len(s)
              /\ \A x \in 1 .. Len(Rendered(sent[n])) : s[P(n - 1) + x] = Rendered(sent[n])[x]
  <2>1. n \in 0 .. N /\ n - 1 \in 0 .. N /\ Begins(N, n)
    BY <1>4, <1>8
  <2>2. P(n) \in Nat /\ P(n - 1) \in Nat /\ Len(Rendered(sent[n])) \in Nat
        /\ P(n) = P(n - 1) + Len(Rendered(sent[n]))
    BY <1>3, <1>4, <2>1
  <2>3. ASSUME NEW x \in 1 .. Len(Rendered(sent[n]))
        PROVE  s[P(n - 1) + x] = Rendered(sent[n])[x]
    <3>1. P(n - 1) + x \in 1 .. P(n)
      BY <2>2
    <3>2. Prefix(N)[P(n - 1) + x] = Prefix(n)[P(n - 1) + x]
      BY <2>1, <3>1
    <3>3. Prefix(n)[P(n - 1) + x] = Rendered(sent[n])[x]
      BY <1>4
    <3> QED  BY <1>2, <3>2, <3>3
  <2> QED  BY <1>9, <2>1, <2>3
<1> QED  BY <1>3, <1>4, <1>9, <1>10, <1>11 DEF N

\* A code: its name, the key and the value of its first parameter, and whether
\* it has another one
HasUrl(e) == e.type = <<"video">> /\ ~raw
Name(e) == IF e.type = <<"forward">> THEN "forward" ELSE "video"
Key(e) == IF e.type = <<"forward">> THEN "id" ELSE "file"
Value(e) == IF e.type = <<"forward">> THEN e.data[<<"id">>] ELSE e.data[<<"file">>]
Url(e) == CQCodeEscapeValue(e.data[<<"url">>])

Joined(z, a, b, c, x) ==
    /\ Len(z) = Len(a) + Len(b) + Len(c) + 1
    /\ \A k \in 1 .. Len(a) : z[k] = a[k]
    /\ \A k \in 1 .. Len(b) : z[Len(a) + k] = b[k]
    /\ \A k \in 1 .. Len(c) : z[Len(a) + Len(b) + k] = c[k]
    /\ z[Len(a) + Len(b) + Len(c) + 1] = x

LEMMA FourPlaces ==
    ASSUME NEW a \in Strings, NEW b \in Strings, NEW c \in Strings, NEW x \in Symbols,
           NEW z, z = Cat(Cat(Cat(a, b), c), <<x>>)
    PROVE  Joined(z, a, b, c, x)
<1> DEFINE y == Cat(a, b)
           w == Cat(y, c)
           o == <<x>>
<1>1. /\ Len(a) \in Nat /\ Len(b) \in Nat /\ y \in Strings /\ Len(y) = Len(a) + Len(b)
      /\ \A k \in 1 .. Len(a) : y[k] = a[k]
      /\ \A k \in 1 .. Len(b) : y[Len(a) + k] = b[k]
  BY CatPlaces
<1> HIDE DEF y
<1>2. /\ Len(c) \in Nat /\ w \in Strings /\ Len(w) = Len(y) + Len(c)
      /\ \A k \in 1 .. Len(y) : w[k] = y[k]
      /\ \A k \in 1 .. Len(c) : w[Len(y) + k] = c[k]
  BY <1>1, CatPlaces
<1> HIDE DEF w
<1>3. o \in Strings /\ Len(o) = 1 /\ o[1] = x
  BY DEF Strings
<1>5. z = Cat(w, o)
  BY DEF w, y
<1> HIDE DEF o
<1>4. /\ Len(z) = Len(w) + 1
      /\ \A k \in 1 .. Len(w) : z[k] = w[k]
      /\ z[Len(w) + 1] = x
  <2>1. /\ Len(Cat(w, o)) = Len(w) + Len(o)
        /\ \A k \in 1 .. Len(w) : Cat(w, o)[k] = w[k]
        /\ \A k \in 1 .. Len(o) : Cat(w, o)[Len(w) + k] = o[k]
    BY <1>2, <1>3, CatPlaces
  <2>2. 1 \in 1 .. Len(o)
    BY <1>3
  <2> QED  BY <1>3, <1>5, <2>1, <2>2, Zenon
<1>6. Len(z) = Len(a) + Len(b) + Len(c) + 1
  BY <1>1, <1>2, <1>4
<1>7. \A k \in 1 .. Len(a) : z[k] = a[k]
  BY <1>1, <1>2, <1>4
<1>8. \A k \in 1 .. Len(b) : z[Len(a) + k] = b[k]
  <2> SUFFICES ASSUME NEW k \in 1 .. Len(b) PROVE z[Len(a) + k] = b[k]
    OBVIOUS
  <2>1. Len(a) + k \in 1 .. Len(y) /\ Len(a) + k \in 1 .. Len(w)
    BY <1>1, <1>2
  <2> QED  BY <1>1, <1>2, <1>4, <2>1
<1>9. \A k \in 1 .. Len(c) : z[Len(a) + Len(b) + k] = c[k]
  <2> SUFFICES ASSUME NEW k \in 1 .. Len(c) PROVE z[Len(a) + Len(b) + k] = c[k]
    OBVIOUS
  <2>1. Len(a) + Len(b) + k = Len(y) + k /\ Len(y) + k \in 1 .. Len(w)
    BY <1>1, <1>2
  <2> QED  BY <1>2, <1>4, <2>1
<1>10. z[Len(a) + Len(b) + Len(c) + 1] = x
  <2>1. Len(a) + Len(b) + Len(c) + 1 = Len(w) + 1
    BY <1>1, <1>2
  <2> QED  BY <1>4, <2>1
<1> QED  BY <1>6, <1>7, <1>8, <1>9, <1>10 DEF Joined

LEMMA RenderedIs ==
    ASSUME NEW e \in Parts, e.type # <<"text">>
    PROVE  LET z == Rendered(e)
               w == Len(Value(e))
               v == Len(Url(e))
           IN /\ w \in Nat
              /\ z[1] = "[" /\ z[2] = "CQ:" /\ z[3] = Name(e) /\ z[4] = ","
              /\ z[5] = Key(e) /\ z[6] = "="
              /\ \A k \in 1 .. w : z[6 + k] = Value(e)[k]
              /\ ~HasUrl(e) => z[7 + w] = "]" /\ Len(z) = 7 + w
              /\ HasUrl(e) => /\ v \in Nat /\ z[7 + w] = "," /\ z[8 + w] = "url"
                              /\ z[9 + w] = "=" /\ \A k \in 1 .. v : z[9 + w + k] = Url(e)[k]
                              /\ z[10 + w + v] = "]" /\ Len(z) = 10 + w + v
<1> DEFINE z == Rendered(e)
           head == <<"[", "CQ:", Name(e), ",", Key(e), "=">>
           b == Value(e)
           mid == <<",", "url", "=">>
           u == Url(e)
           c == IF HasUrl(e) THEN Cat(mid, u) ELSE <<>>
<1>1. /\ e.type \in {<<"forward">>, <<"video">>} /\ b \in Strings
      /\ e.type = <<"video">> => e.data[<<"url">>] \in Strings
  BY PartsAre, WordTypes, OtherTypes DEF Value
<1>2. HasUrl(e) => u \in Strings
  BY <1>1, EscapesType DEF HasUrl, Url
<1>3. /\ head \in Strings /\ Len(head) = 6 /\ head[1] = "[" /\ head[2] = "CQ:"
      /\ head[3] = Name(e) /\ head[4] = "," /\ head[5] = Key(e) /\ head[6] = "="
      /\ mid \in Strings /\ Len(mid) = 3 /\ mid[1] = "," /\ mid[2] = "url" /\ mid[3] = "="
  <2>1. /\ "[" \in Symbols /\ "CQ:" \in Symbols /\ Name(e) \in Symbols /\ "," \in Symbols
        /\ Key(e) \in Symbols /\ "=" \in Symbols /\ "url" \in Symbols
    BY SymbolTypes DEF Marks, Names, Name, Key
  <2> HIDE DEF Name, Key
  <2>2. head \in Strings
    <3>1. \A k, l, m, n, o, p \in Symbols : <<k, l, m, n, o, p>> \in Strings
      BY DEF Strings
    <3> QED  BY <2>1, <3>1, Zenon
  <2>3. mid \in Strings
    BY HeadTypes
  <2>4. /\ Len(head) = 6 /\ head[1] = "[" /\ head[2] = "CQ:"
        /\ head[3] = Name(e) /\ head[4] = "," /\ head[5] = Key(e) /\ head[6] = "="
    OBVIOUS
  <2>5. Len(mid) = 3 /\ mid[1] = "," /\ mid[2] = "url" /\ mid[3] = "="
    OBVIOUS
  <2> QED  BY <2>2, <2>3, <2>4, <2>5
<1>4. z = Cat(Cat(Cat(head, b), c), <<"]">>)
  <2>1. CASE e.type = <<"forward">>
    <3>1. z = Cat(Cat(head, b), <<"]">>)
      BY <2>1, OtherTypes, Zenon DEF Rendered, Name, Key, Value, Cat
    <3>2. c = <<>> /\ Cat(head, b) \in Strings
      BY <1>1, <1>3, <2>1, OtherTypes, CatPlaces DEF HasUrl
    <3>3. Cat(Cat(head, b), c) = Cat(head, b)
      BY <3>2, CatType DEF Strings
    <3> QED  BY <3>1, <3>3, Zenon
  <2>2. CASE e.type = <<"video">>
    <3>1. /\ e.type # <<"text">> /\ e.type # <<"forward">>
          /\ head = <<"[", "CQ:", "video", ",", "file", "=">> /\ b = e.data[<<"file">>]
      BY <2>2, OtherTypes DEF Name, Key, Value
    <3>2. c = IF raw THEN <<>> ELSE Cat(mid, u)
      BY <2>2 DEF HasUrl
    <3> HIDE DEF head, b, c
    <3>3. z = ((head \o b) \o (IF raw THEN <<>> ELSE mid \o u)) \o <<"]">>
      BY <3>1, Zenon DEF Rendered, Url
    <3> QED  BY <3>2, <3>3, Zenon DEF Cat
  <2> QED  BY <1>1, <2>1, <2>2
<1>5. c \in Strings
  <2>1. HasUrl(e) => Cat(mid, u) \in Strings
    BY <1>2, <1>3, CatPlaces
  <2> HIDE DEF mid, u
  <2> QED  BY <2>1, SymbolTypes
<1>6. "]" \in Symbols
  BY SymbolTypes DEF Marks
<1> HIDE DEF z, head, b, c, mid, u
<1>7. /\ Len(z) = 6 + Len(b) + Len(c) + 1
      /\ \A k \in 1 .. 6 : z[k] = head[k]
      /\ \A k \in 1 .. Len(b) : z[6 + k] = b[k]
      /\ \A k \in 1 .. Len(c) : z[6 + Len(b) + k] = c[k]
      /\ z[6 + Len(b) + Len(c) + 1] = "]"
  <2>1. Joined(z, head, b, c, "]")
    BY <1>1, <1>3, <1>4, <1>5, <1>6, FourPlaces
  <2> QED  BY <1>3, <2>1, Zenon DEF Joined
<1>8. /\ z[1] = "[" /\ z[2] = "CQ:" /\ z[3] = Name(e) /\ z[4] = ","
      /\ z[5] = Key(e) /\ z[6] = "="
  <2>1. 1 \in 1 .. 6 /\ 2 \in 1 .. 6 /\ 3 \in 1 .. 6 /\ 4 \in 1 .. 6 /\ 5 \in 1 .. 6 /\ 6 \in 1 .. 6
    OBVIOUS
  <2> QED  BY <1>3, <1>7, <2>1, Zenon
<1>9. Len(b) \in Nat /\ Len(c) \in Nat
  BY <1>1, <1>5 DEF Strings
<1>10. ASSUME ~HasUrl(e) PROVE z[7 + Len(b)] = "]" /\ Len(z) = 7 + Len(b)
  <2>1. Len(c) = 0
    BY <1>10 DEF c
  <2>2. 6 + Len(b) + Len(c) + 1 = 7 + Len(b)
    BY <1>9, <2>1
  <2> QED  BY <1>7, <2>2
<1>11. ASSUME HasUrl(e)
       PROVE  /\ Len(u) \in Nat /\ z[7 + Len(b)] = "," /\ z[8 + Len(b)] = "url"
              /\ z[9 + Len(b)] = "=" /\ \A k \in 1 .. Len(u) : z[9 + Len(b) + k] = u[k]
              /\ z[10 + Len(b) + Len(u)] = "]" /\ Len(z) = 10 + Len(b) + Len(u)
  <2>1. c = Cat(mid, u)
    BY <1>11 DEF c
  <2>2. /\ Len(u) \in Nat /\ Len(c) = 3 + Len(u)
        /\ \A k \in 1 .. 3 : c[k] = mid[k]
        /\ \A k \in 1 .. Len(u) : c[3 + k] = u[k]
    <3>1. u \in Strings /\ mid \in Strings /\ Len(mid) = 3
      BY <1>2, <1>3, <1>11
    <3>2. /\ Len(u) \in Nat /\ Len(c) = Len(mid) + Len(u)
          /\ \A k \in 1 .. Len(mid) : c[k] = mid[k]
          /\ \A k \in 1 .. Len(u) : c[Len(mid) + k] = u[k]
      BY <2>1, <3>1, CatPlaces
    <3> QED  BY <3>1, <3>2
  <2>3. /\ 1 \in 1 .. Len(c) /\ 2 \in 1 .. Len(c) /\ 3 \in 1 .. Len(c)
        /\ 6 + Len(b) + 1 = 7 + Len(b) /\ 6 + Len(b) + 2 = 8 + Len(b)
        /\ 6 + Len(b) + 3 = 9 + Len(b)
        /\ 6 + Len(b) + Len(c) + 1 = 10 + Len(b) + Len(u)
    BY <1>9, <2>2
  <2>4. c[1] = "," /\ c[2] = "url" /\ c[3] = "="
    <3>1. 1 \in 1 .. 3 /\ 2 \in 1 .. 3 /\ 3 \in 1 .. 3
      OBVIOUS
    <3> QED  BY <1>3, <2>2, <3>1, Zenon
  <2>5. z[7 + Len(b)] = "," /\ z[8 + Len(b)] = "url" /\ z[9 + Len(b)] = "="
    BY <1>7, <2>3, <2>4
  <2>6. ASSUME NEW k \in 1 .. Len(u) PROVE z[9 + Len(b) + k] = u[k]
    <3>1. 3 + k \in 1 .. Len(c) /\ 6 + Len(b) + (3 + k) = 9 + Len(b) + k
      BY <1>9, <2>2
    <3> QED  BY <1>7, <2>2, <3>1
  <2> QED  BY <1>7, <2>2, <2>3, <2>5, <2>6
<1> QED  BY <1>7, <1>8, <1>9, <1>10, <1>11 DEF z, b, u

\* The string to parse is a message that is shown.
Given ==
    /\ sent \in Seq(Parts) /\ s = ToStringMessage(sent)
    /\ \A n \in 1 .. Len(sent) :
          sent[n].type = <<"video">> => sent[n].data[<<"file">>] \in Seq(Words)

LEMMA ValueIs ==
    ASSUME Given, NEW n \in 1 .. Len(sent), sent[n].type # <<"text">>
    PROVE  /\ sent[n] \in Parts /\ sent[n].type = <<Name(sent[n])>>
           /\ Value(sent[n]) \in Seq(Words) /\ Value(sent[n]) \in Strings
           /\ CQCodeUnescapeValue(Value(sent[n])) = Value(sent[n])
           /\ Lacks(Value(sent[n]), {",", "]"})
<1>1. sent[n] \in Parts
  BY DEF Given
<1>2. sent[n].type \in {<<"forward">>, <<"video">>}
  BY <1>1, PartsAre
<1>3. Value(sent[n]) \in Seq(Words)
  <2>1. CASE sent[n].type = <<"forward">>
    BY <1>1, <2>1, PartsAre DEF Value
  <2>2. CASE sent[n].type = <<"video">>
    BY <2>2, OtherTypes, Zenon DEF Value, Given
  <2> QED  BY <1>2, <2>1, <2>2
<1>4. sent[n].type = <<Name(sent[n])>>
  BY <1>2, OtherTypes DEF Name
<1>5. Lacks(Value(sent[n]), {",", "]"})
  <2>1. \A k \in DOMAIN Value(sent[n]) : Value(sent[n])[k] \in Words
    BY <1>3
  <2>2. \A x \in Words : x \notin {",", "]"}
    BY ConstantsAssumption, Zenon
  <2> QED  BY <2>1, <2>2, Zenon DEF Lacks
<1> QED  BY <1>1, <1>3, <1>4, <1>5, WordTypes, WordsStay

\* Where the code of element n begins, less one, and where its first value ends
B(n) == P(n - 1)
C(n) == P(n - 1) + 7 + Len(Value(sent[n]))

LEMMA CodeIs ==
    ASSUME Given, NEW n \in 1 .. Len(sent), sent[n].type # <<"text">>
    PROVE  LET e == sent[n]
               v == Len(Url(e))
           IN /\ B(n) \in Nat /\ C(n) \in Nat /\ B(n) + 7 <= C(n)
              /\ C(n) <= P(n) /\ P(n) <= Len(s) /\ P(n) \in Nat
              /\ s[B(n) + 1] = "[" /\ s[B(n) + 2] = "CQ:" /\ s[B(n) + 3] = Name(e)
              /\ s[B(n) + 4] = "," /\ s[B(n) + 5] = Key(e) /\ s[B(n) + 6] = "="
              /\ SubSeq(s, B(n) + 7, C(n) - 1) = Value(e)
              /\ ~HasUrl(e) => s[C(n)] = "]" /\ P(n) = C(n)
              /\ HasUrl(e) => /\ v \in Nat /\ P(n) = C(n) + 3 + v
                              /\ s[C(n)] = "," /\ s[C(n) + 1] = "url" /\ s[C(n) + 2] = "="
                              /\ SubSeq(s, C(n) + 3, C(n) + 2 + v) = Url(e)
                              /\ s[P(n)] = "]"
<1> DEFINE e == sent[n]
           v == Len(Url(e))
           w == Len(Value(e))
           z == Rendered(e)
<1>0. /\ n \in 0 .. Len(sent) /\ n - 1 \in 0 .. Len(sent)
      /\ e \in Parts /\ Value(e) \in Strings /\ Value(e) \in Seq(Words)
  <2>1. Len(sent) \in Nat
    BY DEF Given
  <2>2. n \in 0 .. Len(sent) /\ n - 1 \in 0 .. Len(sent)
    BY <2>1
  <2> QED  BY <2>2, ValueIs
<1>1. /\ s \in Strings /\ P(n - 1) \in Nat /\ P(n) \in Nat /\ Len(z) \in Nat
      /\ P(n) = P(n - 1) + Len(z) /\ P(n) <= Len(s)
      /\ \A x \in 1 .. Len(z) : s[P(n - 1) + x] = z[x]
  BY <1>0, Layout DEF Given
<1>2. /\ w \in Nat
      /\ z[1] = "[" /\ z[2] = "CQ:" /\ z[3] = Name(e) /\ z[4] = ","
      /\ z[5] = Key(e) /\ z[6] = "="
      /\ \A k \in 1 .. w : z[6 + k] = Value(e)[k]
      /\ ~HasUrl(e) => z[7 + w] = "]" /\ Len(z) = 7 + w
      /\ HasUrl(e) => /\ v \in Nat /\ z[7 + w] = "," /\ z[8 + w] = "url"
                      /\ z[9 + w] = "=" /\ \A k \in 1 .. v : z[9 + w + k] = Url(e)[k]
                      /\ z[10 + w + v] = "]" /\ Len(z) = 10 + w + v
  BY <1>0, RenderedIs
<1>3. HasUrl(e) => Url(e) \in Strings
  BY <1>0, PartsAre, EscapesType DEF HasUrl, Url
<1> HIDE DEF z, v, w, e
<1>12. /\ w \in Nat /\ Len(z) \in Nat
       /\ ~HasUrl(e) => Len(z) = 7 + w
       /\ HasUrl(e) => v \in Nat /\ Len(z) = 10 + w + v
  BY <1>1, <1>2, Zenon
<1>4. 7 + w <= Len(z)
  BY <1>12
<1>5. /\ B(n) = P(n - 1) /\ C(n) = B(n) + 7 + w
      /\ B(n) \in Nat /\ C(n) \in Nat /\ B(n) + 7 <= C(n) /\ C(n) <= P(n)
  <2>1. P(n - 1) \in Nat /\ P(n) \in Nat /\ P(n) = P(n - 1) + Len(z)
    BY <1>1, Zenon
  <2>2. B(n) = P(n - 1) /\ C(n) = P(n - 1) + 7 + w
    BY DEF B, C, w, e
  <2> QED  BY <1>4, <1>12, <2>1, <2>2
<1>13. /\ Len(s) \in Nat /\ P(n) \in Nat /\ P(n) <= Len(s) /\ P(n) = B(n) + Len(z)
  <2>1. P(n) \in Nat /\ P(n) <= Len(s) /\ P(n) = P(n - 1) + Len(z)
    BY <1>1, Zenon
  <2>2. Len(s) \in Nat
    BY <1>1 DEF Strings
  <2> QED  BY <1>5, <2>1, <2>2
<1>6. \A x \in 1 .. Len(z) : s[B(n) + x] = z[x]
  BY <1>1, <1>5
<1>7. /\ s[B(n) + 1] = "[" /\ s[B(n) + 2] = "CQ:" /\ s[B(n) + 3] = Name(e)
      /\ s[B(n) + 4] = "," /\ s[B(n) + 5] = Key(e) /\ s[B(n) + 6] = "="
  <2>1. /\ 1 \in 1 .. Len(z) /\ 2 \in 1 .. Len(z) /\ 3 \in 1 .. Len(z)
        /\ 4 \in 1 .. Len(z) /\ 5 \in 1 .. Len(z) /\ 6 \in 1 .. Len(z)
    BY <1>4, <1>12
  <2> QED  BY <1>2, <1>6, <2>1, Zenon
<1>8. \A a, l \in Nat : \A q \in Strings :
         a + l <= Len(s) /\ Len(q) = l /\ (\A k \in 1 .. l : s[a + k] = q[k]) =>
            SubSeq(s, a + 1, a + l) = q
  <2> SUFFICES ASSUME NEW a \in Nat, NEW l \in Nat, NEW q \in Strings,
                      a + l <= Len(s), Len(q) = l, \A k \in 1 .. l : s[a + k] = q[k]
               PROVE  SubSeq(s, a + 1, a + l) = q
    OBVIOUS
  <2> DEFINE x == SubSeq(s, a + 1, a + l)
  <2>1. /\ s \in Seq(Symbols) /\ q \in Seq(Symbols) /\ Len(s) \in Nat
    BY <1>1 DEF Strings
  <2>2. x \in Seq(Symbols) /\ Len(x) = l
    BY <2>1
  <2>3. \A k \in 1 .. l : x[k] = q[k]
    <3> SUFFICES ASSUME NEW k \in 1 .. l PROVE x[k] = q[k]
      OBVIOUS
    <3>1. x[k] = s[(a + 1) + k - 1] /\ (a + 1) + k - 1 = a + k
      BY <2>1
    <3> QED  BY <3>1
  <2> HIDE DEF x
  <2>4. x = q
    BY <2>1, <2>2, <2>3
  <2> QED  BY <2>4 DEF x
<1>9. SubSeq(s, B(n) + 7, C(n) - 1) = Value(e)
  <2>1. \A k \in 1 .. w : s[(B(n) + 6) + k] = Value(e)[k]
    <3> SUFFICES ASSUME NEW k \in 1 .. w PROVE s[(B(n) + 6) + k] = Value(e)[k]
      OBVIOUS
    <3>1. 6 + k \in 1 .. Len(z) /\ (B(n) + 6) + k = B(n) + (6 + k)
      BY <1>4, <1>5, <1>12
    <3> QED  BY <1>2, <1>6, <3>1, Zenon
  <2>2. /\ B(n) + 6 \in Nat /\ (B(n) + 6) + w <= Len(s) /\ (B(n) + 6) + 1 = B(n) + 7
        /\ (B(n) + 6) + w = C(n) - 1 /\ Len(Value(e)) = w
    <3>1. Len(Value(e)) = w
      BY DEF w
    <3>2. B(n) + 6 \in Nat /\ (B(n) + 6) + 1 = B(n) + 7
      BY <1>5
    <3>3. (B(n) + 6) + w = C(n) - 1
      BY <1>5, <1>12
    <3>4. C(n) <= Len(s)
      BY <1>5, <1>13
    <3>5. (B(n) + 6) + w <= Len(s)
      BY <1>5, <1>12, <1>13, <3>4
    <3> QED  BY <3>1, <3>2, <3>3, <3>5
  <2>3. SubSeq(s, (B(n) + 6) + 1, (B(n) + 6) + w) = Value(e)
    BY <1>0, <1>2, <1>8, <2>1, <2>2 DEF e
  <2> QED  BY <2>2, <2>3
<1>10. ASSUME ~HasUrl(e) PROVE s[C(n)] = "]" /\ P(n) = C(n)
  <2>1. 7 + w \in 1 .. Len(z) /\ B(n) + (7 + w) = C(n) /\ P(n) = C(n)
    BY <1>4, <1>5, <1>10, <1>12, <1>13
  <2>2. z[7 + w] = "]"
    BY <1>2, <1>10, Zenon
  <2> QED  BY <1>6, <2>1, <2>2, Zenon
<1>11. ASSUME HasUrl(e)
       PROVE  /\ v \in Nat /\ P(n) = C(n) + 3 + v
              /\ s[C(n)] = "," /\ s[C(n) + 1] = "url" /\ s[C(n) + 2] = "="
              /\ SubSeq(s, C(n) + 3, C(n) + 2 + v) = Url(e)
              /\ s[P(n)] = "]"
  <2>1. /\ v \in Nat /\ z[7 + w] = "," /\ z[8 + w] = "url"
        /\ z[9 + w] = "=" /\ \A k \in 1 .. v : z[9 + w + k] = Url(e)[k]
        /\ z[10 + w + v] = "]" /\ Len(z) = 10 + w + v
    BY <1>2, <1>11, Zenon
  <2>0. w \in Nat /\ v \in Nat /\ Len(z) \in Nat /\ Len(z) = 10 + w + v
    BY <1>11, <1>12, Zenon
  <2>2. /\ 7 + w \in 1 .. Len(z) /\ 8 + w \in 1 .. Len(z) /\ 9 + w \in 1 .. Len(z)
        /\ 10 + w + v \in 1 .. Len(z)
        /\ B(n) + (7 + w) = C(n) /\ B(n) + (8 + w) = C(n) + 1 /\ B(n) + (9 + w) = C(n) + 2
        /\ B(n) + (10 + w + v) = P(n) /\ P(n) = C(n) + 3 + v
    <3>1. /\ 7 + w \in 1 .. Len(z) /\ 8 + w \in 1 .. Len(z) /\ 9 + w \in 1 .. Len(z)
          /\ 10 + w + v \in 1 .. Len(z)
      BY <2>0
    <3>2. B(n) + (7 + w) = C(n) /\ B(n) + (8 + w) = C(n) + 1 /\ B(n) + (9 + w) = C(n) + 2
      BY <1>5, <2>0
    <3>3. B(n) + (10 + w + v) = P(n)
      BY <1>5, <1>13, <2>0
    <3>4. P(n) = C(n) + 3 + v
      BY <1>5, <2>0, <3>3
    <3> QED  BY <3>1, <3>2, <3>3, <3>4
  <2>3. s[C(n)] = "," /\ s[C(n) + 1] = "url" /\ s[C(n) + 2] = "=" /\ s[P(n)] = "]"
    BY <1>6, <2>1, <2>2, Zenon
  <2>4. \A k \in 1 .. v : s[(C(n) + 2) + k] = Url(e)[k]
    <3> SUFFICES ASSUME NEW k \in 1 .. v PROVE s[(C(n) + 2) + k] = Url(e)[k]
      OBVIOUS
    <3>1. 9 + w + k \in 1 .. Len(z) /\ (C(n) + 2) + k = B(n) + (9 + w + k)
      <4>1. 9 + w + k \in 1 .. Len(z)
        BY <2>0
      <4>2. C(n) = B(n) + 7 + w /\ B(n) \in Nat /\ C(n) \in Nat
        BY <1>5
      <4>3. (C(n) + 2) + k = B(n) + (9 + w + k)
        BY <2>0, <4>2
      <4> QED  BY <4>1, <4>3
    <3> QED  BY <1>6, <2>1, <3>1, Zenon
  <2>5. /\ C(n) + 2 \in Nat /\ (C(n) + 2) + v <= Len(s) /\ (C(n) + 2) + 1 = C(n) + 3
        /\ Len(Url(e)) = v /\ C(n) + 2 + v = (C(n) + 2) + v
    <3>1. Len(Url(e)) = v
      BY DEF v
    <3>2. C(n) + 2 \in Nat /\ (C(n) + 2) + 1 = C(n) + 3 /\ C(n) + 2 + v = (C(n) + 2) + v
      BY <1>5, <2>0
    <3>3. (C(n) + 2) + v <= Len(s)
      <4>1. P(n) = C(n) + 3 + v /\ v \in Nat /\ C(n) \in Nat
        BY <1>5, <2>0, <2>2, Zenon
      <4>2. P(n) <= Len(s) /\ Len(s) \in Nat
        BY <1>13
      <4> QED  BY <4>1, <4>2
    <3> QED  BY <3>1, <3>2, <3>3
  <2>6. SubSeq(s, (C(n) + 2) + 1, (C(n) + 2) + v) = Url(e)
    BY <1>3, <1>8, <1>11, <2>1, <2>4, <2>5
  <2> QED  BY <2>1, <2>2, <2>3, <2>5, <2>6
<1> QED  BY <1>1, <1>5, <1>7, <1>9, <1>10, <1>11 DEF e, v

\* What two parts of the string come to that follow each other
LEMMA PartsJoin ==
    ASSUME NEW x \in Strings, NEW a \in Nat, NEW b \in Nat, NEW c \in Nat,
           a <= b, b <= c, c <= Len(x)
    PROVE  /\ SubSeq(x, a + 1, b) \in Strings /\ SubSeq(x, a + 1, a) = <<>>
           /\ SubSeq(x, a + 1, c) = Cat(SubSeq(x, a + 1, b), SubSeq(x, b + 1, c))
<1>1. x \in Seq(Symbols) /\ Len(x) \in Nat
  BY DEF Strings
<1>2. /\ SubSeq(x, a + 1, b) \in Seq(Symbols) /\ Len(SubSeq(x, a + 1, b)) = b - a
      /\ \A k \in 1 .. b - a : SubSeq(x, a + 1, b)[k] = x[a + k]
  BY <1>1
<1>3. /\ SubSeq(x, b + 1, c) \in Seq(Symbols) /\ Len(SubSeq(x, b + 1, c)) = c - b
      /\ \A k \in 1 .. c - b : SubSeq(x, b + 1, c)[k] = x[b + k]
  BY <1>1
<1>4. /\ SubSeq(x, a + 1, c) \in Seq(Symbols) /\ Len(SubSeq(x, a + 1, c)) = c - a
      /\ \A k \in 1 .. c - a : SubSeq(x, a + 1, c)[k] = x[a + k]
  BY <1>1
<1>5. SubSeq(x, a + 1, a) = <<>>
  OBVIOUS
<1> DEFINE p == SubSeq(x, a + 1, b)
           q == SubSeq(x, b + 1, c)
           z == SubSeq(x, a + 1, c)
<1> HIDE DEF p, q, z
<1>6. /\ Cat(p, q) \in Strings /\ Len(Cat(p, q)) = Len(p) + Len(q)
      /\ \A k \in 1 .. Len(p) : Cat(p, q)[k] = p[k]
      /\ \A k \in 1 .. Len(q) : Cat(p, q)[Len(p) + k] = q[k]
  BY <1>2, <1>3, CatPlaces DEF p, q, Strings
<1>7. Len(Cat(p, q)) = c - a /\ Len(z) = c - a
  <2>1. Len(p) = b - a /\ Len(q) = c - b /\ Len(z) = c - a
    BY <1>2, <1>3, <1>4, Zenon DEF p, q, z
  <2>2. Len(Cat(p, q)) = Len(p) + Len(q)
    BY <1>6
  <2> QED  BY <2>1, <2>2
<1>8. ASSUME NEW k \in 1 .. c - a PROVE z[k] = Cat(p, q)[k]
  <2>1. z[k] = x[a + k]
    BY <1>4 DEF z
  <2>2. CASE k <= b - a
    <3>1. k \in 1 .. b - a /\ k \in 1 .. Len(p)
      BY <1>2, <2>2 DEF p
    <3>2. p[k] = x[a + k]
      BY <1>2, <3>1 DEF p
    <3> QED  BY <1>6, <2>1, <3>1, <3>2
  <2>3. CASE ~(k <= b - a)
    <3> DEFINE l == k - (b - a)
    <3>1. l \in 1 .. c - b /\ a + k = b + l /\ k = (b - a) + l
      BY <2>3
    <3> HIDE DEF l
    <3>2. l \in 1 .. Len(q) /\ Len(p) = b - a
      BY <1>2, <1>3, <3>1 DEF p, q
    <3>3. q[l] = x[b + l]
      BY <1>3, <3>1 DEF q
    <3>4. Cat(p, q)[Len(p) + l] = q[l]
      BY <1>6, <3>2
    <3> QED  BY <2>1, <3>1, <3>2, <3>3, <3>4
  <2> QED  BY <2>2, <2>3
<1>9. z \in Seq(Symbols) /\ Cat(p, q) \in Seq(Symbols)
  BY <1>4, <1>6 DEF z, Strings
<1>10. z = Cat(p, q)
  BY <1>7, <1>8, <1>9
<1> QED  BY <1>2, <1>5, <1>10 DEF p, q, z, Strings

\* A part of the string that is a text
TextAt(n, q, x) ==
    /\ x \in Strings /\ SubSeq(s, P(n) + 1, P(q)) = CQCodeEscapeText(x)
    /\ Done(q) = Join(Done(n), Text(x))

\* Texts that follow each other are one text, and no code begins in them.
LEMMA RunIs ==
    ASSUME Given, NEW n \in 0 .. Len(sent)
    PROVE  \A q \in n .. Len(sent) :
              (\A m \in n + 1 .. q : sent[m].type = <<"text">>) =>
                 /\ P(n) <= P(q) /\ \A k \in P(n) + 1 .. P(q) : s[k] # "["
                 /\ \E x \in Strings : TextAt(n, q, x)
<1> DEFINE N == Len(sent)
           OnlyTexts(q) == \A m \in n + 1 .. q : sent[m].type = <<"text">>
           Run(q) == /\ P(n) <= P(q) /\ \A k \in P(n) + 1 .. P(q) : s[k] # "["
                     /\ \E x \in Strings : TextAt(n, q, x)
           S == {l \in Nat : n + l <= N /\ OnlyTexts(n + l) => Run(n + l)}
<1>1. N \in Nat /\ n \in Nat /\ n <= N
  BY DEF Given
<1> HIDE DEF N
<1>2. /\ s \in Strings /\ P(N) = Len(s)
      /\ \A k \in 0 .. N : P(k) \in Nat /\ \A m \in 0 .. k : P(m) <= P(k)
      /\ \A k \in 1 .. N :
            /\ Len(Rendered(sent[k])) \in Nat
            /\ P(k) = P(k - 1) + Len(Rendered(sent[k])) /\ P(k) <= Len(s)
            /\ \A x \in 1 .. Len(Rendered(sent[k])) : s[P(k - 1) + x] = Rendered(sent[k])[x]
  BY Layout DEF N, Given
<1>3. /\ \A k \in 0 .. N : Done(k) \in Seq(Shows)
      /\ \A k \in 1 .. N : Done(k) = IF sent[k].type = <<"forward">> THEN <<sent[k]>>
                                     ELSE Join(Done(k - 1), Back(sent[k]))
  BY DoneIs DEF N, Given
<1>4. \A k \in 0 .. N : P(k) <= Len(s)
  <2> SUFFICES ASSUME NEW k \in 0 .. N PROVE P(k) <= Len(s)
    OBVIOUS
  <2>1. N \in 0 .. N /\ k \in 0 .. N
    BY <1>1
  <2> QED  BY <1>2, <2>1
<1>5. 0 \in S
  <2>1. n + 0 = n /\ n \in 0 .. N
    BY <1>1
  <2>2. P(n) \in Nat /\ P(n) <= Len(s)
    BY <1>2, <1>4, <2>1
  <2>3. SubSeq(s, P(n) + 1, P(n)) = <<>>
    BY <1>2, <2>2, PartsJoin
  <2>4. <<>> \in Strings /\ CQCodeEscapeText(<<>>) = <<>>
    BY SymbolTypes, EscapeTextMore
  <2>5. Join(Done(n), Text(<<>>)) = Done(n)
    BY Zenon DEF Join
  <2>6. TextAt(n, n, <<>>)
    BY <2>3, <2>4, <2>5 DEF TextAt
  <2>7. Run(n)
    BY <2>2, <2>4, <2>6
  <2> HIDE DEF Run
  <2> QED  BY <2>1, <2>7
<1>6. ASSUME NEW l \in Nat, l \in S PROVE l + 1 \in S
  <2> DEFINE q == n + l
  <2> SUFFICES ASSUME n + (l + 1) <= N, OnlyTexts(n + (l + 1)) PROVE Run(n + (l + 1))
    BY <1>1
  <2>1. /\ q \in 0 .. N /\ q + 1 \in 1 .. N /\ q + 1 \in 0 .. N /\ (q + 1) - 1 = q
        /\ n + (l + 1) = q + 1 /\ q + 1 \in n + 1 .. q + 1 /\ q <= N /\ n \in 0 .. q
        /\ n \in 0 .. N
    BY <1>1
  <2>2. OnlyTexts(q) /\ sent[q + 1].type = <<"text">>
    BY <1>1, <2>1
  <2> HIDE DEF OnlyTexts
  <2>3. Run(q)
    BY <1>6, <2>1, <2>2
  <2> HIDE DEF q
  <2>4. PICK x \in Strings : TextAt(n, q, x)
    BY <2>3
  <2> DEFINE y == sent[q + 1].data[<<"text">>]
             w == CQCodeEscapeText(y)
  <2>5. sent[q + 1] \in Texts /\ y \in Strings /\ sent[q + 1] = Text(y)
    <3>1. sent[q + 1] \in Parts
      BY <2>1 DEF Given, N
    <3> QED  BY <2>2, <3>1, PartsAre, TextsAre
  <2>6. Rendered(sent[q + 1]) = w /\ Back(sent[q + 1]) = Text(y)
    <3>1. Rendered(sent[q + 1]) = w
      BY <2>2 DEF Rendered
    <3>2. Back(sent[q + 1]) = sent[q + 1]
      BY <2>2, OtherTypes, Zenon DEF Back
    <3> QED  BY <2>5, <3>1, <3>2
  <2> HIDE DEF y
  <2>7. w \in Strings /\ Lacks(w, {"[", "]"})
    BY <2>5, EscapesType, Escaped
  <2> HIDE DEF w
  <2>8. /\ P(n) \in Nat /\ P(q) \in Nat /\ P(q + 1) \in Nat /\ P(n) <= P(q) /\ P(q + 1) <= Len(s)
        /\ Len(w) \in Nat /\ P(q + 1) = P(q) + Len(w)
        /\ \A k \in 1 .. Len(w) : s[P(q) + k] = w[k]
    <3>1. P(n) \in Nat /\ P(q) \in Nat /\ P(n) <= P(q) /\ P(q + 1) \in Nat
      BY <1>2, <2>1, Zenon
    <3> QED  BY <1>2, <2>1, <2>6, <3>1
  <2>9. SubSeq(s, P(q) + 1, P(q + 1)) = w
    <3> DEFINE z == SubSeq(s, P(q) + 1, P(q + 1))
    <3>1. s \in Seq(Symbols) /\ w \in Seq(Symbols) /\ Len(s) \in Nat
      BY <1>2, <2>7 DEF Strings
    <3>2. z \in Seq(Symbols) /\ Len(z) = Len(w)
      BY <2>8, <3>1
    <3>3. ASSUME NEW k \in 1 .. Len(w) PROVE z[k] = w[k]
      <4>1. z[k] = s[P(q) + k]
        BY <2>8, <3>1
      <4> QED  BY <2>8, <4>1
    <3> HIDE DEF z
    <3>4. z = w
      BY <3>1, <3>2, <3>3
    <3> QED  BY <3>4 DEF z
  <2>10. TextAt(n, q + 1, Cat(x, y)) /\ Cat(x, y) \in Strings
    <3>1. Cat(x, y) \in Strings
      BY <2>5, CatPlaces
    <3>2. SubSeq(s, P(n) + 1, P(q + 1)) = Cat(SubSeq(s, P(n) + 1, P(q)), w)
      <4>1. P(q) <= P(q + 1)
        BY <2>8
      <4>2. s \in Strings /\ P(n) \in Nat /\ P(q) \in Nat /\ P(q + 1) \in Nat
            /\ P(n) <= P(q) /\ P(q + 1) <= Len(s)
        BY <1>2, <2>8, Zenon
      <4>3. SubSeq(s, P(n) + 1, P(q + 1))
              = Cat(SubSeq(s, P(n) + 1, P(q)), SubSeq(s, P(q) + 1, P(q + 1)))
        BY <4>1, <4>2, PartsJoin
      <4> QED  BY <2>9, <4>3
    <3>3. SubSeq(s, P(n) + 1, P(q)) = CQCodeEscapeText(x) /\ Done(q) = Join(Done(n), Text(x))
      BY <2>4 DEF TextAt
    <3>4. CQCodeEscapeText(Cat(x, y)) = Cat(CQCodeEscapeText(x), w)
      BY <2>5, EscapeJoins DEF w
    <3>5. Done(q + 1) = Join(Done(q), Text(y))
      BY <1>3, <2>1, <2>2, <2>6, OtherTypes
    <3>6. Join(Join(Done(n), Text(x)), Text(y)) = Join(Done(n), Text(Cat(x, y)))
      <4>1. Done(n) \in Seq(Shows)
        BY <1>3, <2>1, Zenon
      <4> QED  BY <2>5, <4>1, JoinJoins
    <3> QED  BY <3>1, <3>2, <3>3, <3>4, <3>5, <3>6, Zenon DEF TextAt
  <2>11. ASSUME NEW k \in P(n) + 1 .. P(q + 1) PROVE s[k] # "["
    <3>1. CASE k <= P(q)
      <4>1. k \in P(n) + 1 .. P(q)
        BY <2>8, <3>1
      <4> QED  BY <2>3, <4>1
    <3>2. CASE ~(k <= P(q))
      <4>1. k - P(q) \in 1 .. Len(w) /\ P(q) + (k - P(q)) = k
        BY <2>8, <3>2
      <4>2. s[k] = w[k - P(q)]
        BY <2>8, <4>1
      <4>3. k - P(q) \in DOMAIN w
        BY <2>7, <4>1 DEF Strings
      <4> QED  BY <2>7, <4>2, <4>3 DEF Lacks
    <3> QED  BY <3>1, <3>2
  <2>12. P(n) <= P(q + 1)
    BY <2>8
  <2>13. Run(q + 1)
    BY <2>10, <2>11, <2>12
  <2> QED  BY <2>1, <2>13, Zenon
<1> HIDE DEF S
<1>7. Nat \subseteq S
  BY <1>5, <1>6, Induction
<1>8. ASSUME NEW q \in n .. N, OnlyTexts(q) PROVE Run(q)
  <2>1. q - n \in Nat /\ n + (q - n) = q /\ q <= N
    BY <1>1
  <2>2. q - n \in S
    BY <1>7, <2>1
  <2> HIDE DEF OnlyTexts, Run
  <2> QED  BY <1>8, <2>1, <2>2 DEF S
<1> QED  BY <1>8 DEF N

(***************************************************************************)
(* What has been read of a message that is shown                           *)
(***************************************************************************)

\* The elements that have been read come to the first n of the message.
Els == [k \in DOMAIN r |-> r[k].element]
Read(n) == Els \in Seq(Shows) /\ Merged(Els) = Done(n)

AtText(n) == j = P(n) + 1 /\ Read(n)
AtCode(n) == sent[n].type # <<"text">> /\ CQBegin = B(n) + 1 /\ Read(n - 1)
OnlyFile(n) == d = [k \in {<<"file">>} |-> Value(sent[n])]

\* Where the parser is in a code
AtKey(n) == \/ j = B(n) + 5 /\ DOMAIN d = {}
            \/ HasUrl(sent[n]) /\ j = C(n) + 1 /\ OnlyFile(n)
AtValue(n) == \/ j = B(n) + 7 /\ key = <<Key(sent[n])>> /\ DOMAIN d = {}
              \/ HasUrl(sent[n]) /\ j = C(n) + 3 /\ key = <<"url">> /\ OnlyFile(n)

Where ==
    /\ pc = "S1" => \E n \in 0 .. Len(sent) : AtText(n)
    /\ pc = "S2" => \E n \in 1 .. Len(sent) : AtCode(n) /\ j = B(n) + 3
    /\ pc = "S3" => \E n \in 1 .. Len(sent) :
                       AtCode(n) /\ t = <<Name(sent[n])>> /\ AtKey(n)
    /\ pc = "S4" => \E n \in 1 .. Len(sent) :
                       AtCode(n) /\ t = <<Name(sent[n])>> /\ AtValue(n)
    /\ pc = "End" => \E n \in 0 .. Len(sent) :
                        AtText(n) /\ \A m \in n + 1 .. Len(sent) : sent[m].type = <<"text">>
    /\ pc = "done" => Read(Len(sent))

RoundOK == sent # NoMessage => Given /\ (~refused => Where)

LEMMA SameMessage ==
    ASSUME UNCHANGED given, NEW n
    PROVE  /\ P(n)' = P(n) /\ Done(n)' = Done(n) /\ B(n)' = B(n) /\ C(n)' = C(n)
           /\ HasUrl(sent[n])' = HasUrl(sent[n]) /\ Len(sent)' = Len(sent)
           /\ Given' = Given
<1>1. sent' = sent /\ raw' = raw /\ s' = s
  BY DEF given
<1>2. P(n)' = P(n) /\ B(n)' = B(n) /\ C(n)' = C(n)
  BY <1>1 DEF P, Prefix, Rendered, B, C
<1>3. Done(n)' = Done(n)
  BY <1>1 DEF Done, Back
<1>4. Given' = Given
  BY <1>1 DEF Given, ToStringMessage, Rendered
<1> QED  BY <1>1, <1>2, <1>3, <1>4 DEF HasUrl

LEMMA ElsMore ==
    ASSUME TypeOK, NEW p \in PieceType, r' = Append(r, p),
           Els \in Seq(Shows), p.element \in Shows
    PROVE  Els' = Append(Els, p.element) /\ Els' \in Seq(Shows)
<1>1. /\ r' \in Seq(PieceType) /\ Len(r') = Len(r) + 1 /\ Len(r) \in Nat
      /\ DOMAIN r = 1 .. Len(r) /\ DOMAIN r' = 1 .. Len(r) + 1
      /\ r'[Len(r) + 1] = p /\ \A n \in DOMAIN r : r'[n] = r[n]
  BY PiecesMore DEF TypeOK
<1>2. Els' = [k \in 1 .. Len(r) + 1 |-> r'[k].element]
  BY <1>1 DEF Els
<1>3. DOMAIN Els = 1 .. Len(r) /\ \A k \in 1 .. Len(r) : Els[k] = r[k].element
  BY <1>1 DEF Els
<1> DEFINE a == Els
           b == [k \in 1 .. Len(r) + 1 |-> r'[k].element]
           e == p.element
<1>4. DOMAIN b = 1 .. Len(r) + 1 /\ b[Len(r) + 1] = e /\ \A k \in 1 .. Len(r) : b[k] = a[k]
  BY <1>1, <1>3
<1> HIDE DEF Shows, a, b, e
<1>5. /\ Append(a, e) \in Seq(Shows) /\ Len(Append(a, e)) = Len(a) + 1
      /\ Len(a) \in Nat /\ DOMAIN a = 1 .. Len(a)
      /\ DOMAIN Append(a, e) = 1 .. Len(a) + 1
      /\ Append(a, e)[Len(a) + 1] = e
      /\ \A n \in 1 .. Len(a) : Append(a, e)[n] = a[n]
  BY AppendIs DEF a, e
<1>6. Len(a) = Len(r)
  <2>1. 1 .. Len(a) = 1 .. Len(r)
    BY <1>3, <1>5 DEF a
  <2>2. Len(a) \in Nat /\ Len(r) \in Nat
    BY <1>1, <1>5
  <2>3. Len(a) \in 1 .. Len(a) \/ Len(a) = 0
    BY <2>2
  <2>4. Len(r) \in 1 .. Len(r) \/ Len(r) = 0
    BY <2>2
  <2>5. Len(a) <= Len(r)
    BY <2>1, <2>2, <2>3
  <2>6. Len(r) <= Len(a)
    BY <2>1, <2>2, <2>4
  <2> QED  BY <2>2, <2>5, <2>6
<1>7. \A k \in 1 .. Len(r) + 1 : b[k] = Append(a, e)[k]
  BY <1>1, <1>4, <1>5, <1>6
<1>8. b = Append(a, e)
  <2>1. b = [k \in 1 .. Len(r) + 1 |-> b[k]]
    BY DEF b
  <2>2. Append(a, e) = [k \in 1 .. Len(r) + 1 |-> Append(a, e)[k]]
    <3> DEFINE f == Append(a, e)
    <3>1. f \in Seq(Shows) /\ DOMAIN f = 1 .. Len(r) + 1
      BY <1>5, <1>6
    <3> HIDE DEF f
    <3>2. f = [k \in 1 .. Len(r) + 1 |-> f[k]]
      BY <3>1
    <3> QED  BY <3>2 DEF f
  <2>3. [k \in 1 .. Len(r) + 1 |-> b[k]] = [k \in 1 .. Len(r) + 1 |-> Append(a, e)[k]]
    BY <1>7, Zenon
  <2> QED  BY <2>1, <2>2, <2>3, Zenon
<1> QED  BY <1>2, <1>5, <1>8 DEF a, b, e

\* What is read as a text is the texts that it was written for.
LEMMA TextRead ==
    ASSUME TypeOK, NEW n \in Nat, NEW q \in Nat, NEW x, TextAt(n, q, x), AtText(n),
           P(n) \in Nat, P(q) \in Nat, P(n) <= P(q), P(q) <= Len(s),
           r' = WithText(P(q) + 1)
    PROVE  Els' \in Seq(Shows) /\ Merged(Els') = Done(q)
<1>1. /\ x \in Strings /\ SubSeq(s, P(n) + 1, P(q)) = CQCodeEscapeText(x)
      /\ Done(q) = Join(Done(n), Text(x)) /\ j = P(n) + 1
      /\ Els \in Seq(Shows) /\ Merged(Els) = Done(n)
  BY DEF TextAt, AtText, Read
<1>2. CQCodeUnescapeText(CQCodeEscapeText(x)) = x
  BY <1>1, TextInverse
<1>3. CASE P(n) < P(q)
  <2>1. P(q) + 1 > j /\ (P(q) + 1) - 1 = P(q)
    BY <1>1, <1>3
  <2>2. Part(j, (P(q) + 1) - 1) = CQCodeEscapeText(x)
    BY <1>1, <2>1 DEF Part
  <2> DEFINE p == Piece(Text(x), Span(j, P(q)), FALSE)
  <2>3. r' = Append(r, p)
    BY <1>2, <2>1, <2>2 DEF WithText
  <2>4. Text(x) \in Elements /\ Text(x) \in Shows
    BY <1>1, ElementTypes, TextsAre
  <2>5. p \in PieceType /\ p.element = Text(x)
    <3>1. Span(j, P(q)) \in Spans
      BY <1>1 DEF Span, Spans
    <3> QED  BY <2>4, <3>1 DEF Piece, PieceType
  <2> HIDE DEF p, Shows
  <2>6. Els' = Append(Els, Text(x)) /\ Els' \in Seq(Shows)
    BY <1>1, <2>3, <2>4, <2>5, ElsMore
  <2>7. Merged(Append(Els, Text(x))) = Join(Merged(Els), Text(x))
    BY <1>1, <2>4, MergedMore, Zenon
  <2> QED  BY <1>1, <2>6, <2>7
<1>4. CASE P(n) = P(q)
  <2>1. r' = r
    <3>1. ~(P(q) + 1 > j)
      BY <1>1, <1>4
    <3> QED  BY <3>1 DEF WithText
  <2>2. Els' = Els
    BY <2>1 DEF Els
  <2>3. x = <<>>
    <3>1. SubSeq(s, P(n) + 1, P(n)) = <<>>
      BY PartsJoin DEF TypeOK
    <3>2. CQCodeEscapeText(x) = CQCodeEscapeText(<<>>)
      BY <1>1, <1>4, <3>1, EscapeTextMore
    <3>3. CQCodeUnescapeText(CQCodeEscapeText(<<>>)) = <<>>
      BY SymbolTypes, TextInverse
    <3> QED  BY <1>2, <3>2, <3>3
  <2>4. Done(q) = Done(n)
    BY <1>1, <2>3, Zenon DEF Join
  <2> QED  BY <1>1, <2>2, <2>4
<1> QED  BY <1>3, <1>4

\* The texts that follow an element, up to a code or to the end
LEMMA NextCode ==
    ASSUME Given, NEW n \in 0 .. Len(sent)
    PROVE  \E q \in n .. Len(sent) :
              /\ \A m \in n + 1 .. q : sent[m].type = <<"text">>
              /\ q = Len(sent) \/ (q + 1 \in 1 .. Len(sent) /\ sent[q + 1].type # <<"text">>)
<1> DEFINE N == Len(sent)
           OnlyTexts(q) == \A m \in n + 1 .. q : sent[m].type = <<"text">>
           Z == {l \in 1 .. N + 1 : n < l /\ OnlyTexts(l - 1)}
           q == Max(Z) - 1
<1>1. N \in Nat /\ n \in Nat /\ n <= N /\ N + 1 \in Nat
  BY DEF Given
<1> HIDE DEF N
<1>2. n + 1 \in Z
  <2>1. n + 1 \in 1 .. N + 1 /\ n < n + 1 /\ \A m \in n + 1 .. (n + 1) - 1 : FALSE
    BY <1>1
  <2> QED  BY <2>1
<1>3. Z \in SUBSET (1 .. N + 1) /\ Z # {}
  BY <1>2
<1>4. Max(Z) \in Z /\ \A y \in Z : y <= Max(Z)
  BY <1>1, <1>3, MaxIs
<1>5. Max(Z) \in 1 .. N + 1 /\ n < Max(Z) /\ OnlyTexts(q)
  BY <1>4
<1>6. ASSUME q # N, sent[q + 1].type = <<"text">> PROVE FALSE
  <2> DEFINE x == Max(Z)
  <2>1. x \in 1 .. N + 1 /\ n < x /\ OnlyTexts(x - 1) /\ sent[x].type = <<"text">> /\ x # N + 1
    <3>1. x - 1 = q /\ q + 1 = x
      BY <1>5
    <3>2. x # N + 1
      BY <1>1, <1>5, <1>6, <3>1
    <3> QED  BY <1>5, <1>6, <3>1, <3>2
  <2> HIDE DEF x
  <2>2. OnlyTexts((x + 1) - 1)
    <3> SUFFICES ASSUME NEW m \in n + 1 .. x PROVE sent[m].type = <<"text">>
      BY <1>1, <2>1
    <3>1. m = x \/ m \in n + 1 .. x - 1
      BY <1>1, <2>1
    <3> QED  BY <2>1, <3>1
  <2>3. x + 1 \in 1 .. N + 1 /\ n < x + 1
    BY <1>1, <2>1
  <2>4. x + 1 \in Z
    BY <2>2, <2>3
  <2>5. x + 1 <= x
    BY <1>4, <2>4 DEF x
  <2> QED  BY <2>1, <2>5
<1>7. q \in n .. N /\ (q # N => q + 1 \in 1 .. N)
  <2>1. Max(Z) \in 1 .. N + 1 /\ n < Max(Z)
    BY <1>5
  <2> HIDE DEF Z
  <2> QED  BY <1>1, <2>1
<1> HIDE DEF q
<1>8. OnlyTexts(q) /\ (q = N \/ (q + 1 \in 1 .. N /\ sent[q + 1].type # <<"text">>))
  BY <1>5, <1>6, <1>7
<1> QED  BY <1>7, <1>8 DEF N

LEMMA FindIs ==
    ASSUME NEW symbols, NEW b \in Nat, i \in Nat, i <= b, b <= Len(s), Len(s) \in Nat,
           s[b] \in symbols, \A x \in i .. b - 1 : s[x] \notin symbols
    PROVE  ~Ends(symbols) /\ \A k : Finds(symbols, k) => k = b
<1>1. ~Ends(symbols)
  BY DEF Ends
<1>2. ASSUME NEW k, Finds(symbols, k) PROVE k = b
  <2>1. /\ k \in i .. Len(s) /\ s[k] \in symbols
        /\ \A x \in i .. k - 1 : s[x] \notin symbols
    BY <1>2 DEF Finds
  <2>2. ~(k < b)
    <3>1. k < b => k \in i .. b - 1
      BY <2>1
    <3> QED  BY <2>1, <3>1
  <2>3. ~(b < k)
    <3>1. b < k => b \in i .. k - 1
      BY <2>1
    <3> QED  BY <2>1, <3>1
  <2> QED  BY <2>1, <2>2, <2>3
<1> QED  BY <1>1, <1>2

(***************************************************************************)
(* The parser reads what is shown, a code at a time                        *)
(***************************************************************************)

LEMMA RoundFacts ==
    ASSUME IInv, RoundOK, sent # NoMessage, ~refused
    PROVE  /\ Given /\ Where /\ TypeOK
           /\ Len(sent) \in Nat /\ Len(s) \in Nat /\ s \in Strings /\ P(Len(sent)) = Len(s)
           /\ \A n \in 0 .. Len(sent) : /\ P(n) \in Nat /\ P(n) <= Len(s)
                                        /\ \A m \in 0 .. n : P(m) <= P(n)
<1>1. Given /\ Where /\ TypeOK
  BY DEF RoundOK, IInv
<1>2. Len(sent) \in Nat
  BY <1>1 DEF Given
<1>3. /\ s \in Strings /\ P(Len(sent)) = Len(s)
      /\ \A n \in 0 .. Len(sent) : P(n) \in Nat /\ \A m \in 0 .. n : P(m) <= P(n)
  BY <1>1, Layout DEF Given
<1>4. Len(s) \in Nat
  BY <1>3 DEF Strings
<1>5. \A n \in 0 .. Len(sent) : P(n) <= Len(s)
  <2> SUFFICES ASSUME NEW n \in 0 .. Len(sent) PROVE P(n) <= Len(s)
    OBVIOUS
  <2>1. Len(sent) \in 0 .. Len(sent) /\ n \in 0 .. Len(sent)
    BY <1>2
  <2> QED  BY <1>3, <2>1
<1> QED  BY <1>1, <1>2, <1>3, <1>4, <1>5

LEMMA S1Round ==
    ASSUME IInv, RoundOK, sent # NoMessage, ~refused, S1
    PROVE  \/ pc' = "End" /\ \E n \in 0 .. Len(sent) :
                 /\ j' = P(n) + 1 /\ Els' \in Seq(Shows) /\ Merged(Els') = Done(n)
                 /\ \A m \in n + 1 .. Len(sent) : sent[m].type = <<"text">>
           \/ pc' = "S2" /\ \E n \in 1 .. Len(sent) :
                 /\ sent[n].type # <<"text">> /\ CQBegin' = B(n) + 1 /\ j' = B(n) + 3
                 /\ Els' \in Seq(Shows) /\ Merged(Els') = Done(n - 1)
<1> DEFINE N == Len(sent)
<1>1. /\ Given /\ Where /\ TypeOK
      /\ N \in Nat /\ Len(s) \in Nat /\ s \in Strings /\ P(N) = Len(s)
      /\ \A n \in 0 .. N : P(n) \in Nat /\ P(n) <= Len(s) /\ \A m \in 0 .. n : P(m) <= P(n)
  BY RoundFacts
<1>2. pc = "S1" /\ i = j
  BY DEF S1, IInv, ReadOK
<1>3. PICK n \in 0 .. N : AtText(n)
  BY <1>1, <1>2 DEF Where
<1>4. PICK q \in n .. N :
         /\ \A m \in n + 1 .. q : sent[m].type = <<"text">>
         /\ q = N \/ (q + 1 \in 1 .. N /\ sent[q + 1].type # <<"text">>)
  BY <1>1, NextCode
<1>5. /\ P(n) <= P(q) /\ \A k \in P(n) + 1 .. P(q) : s[k] # "["
      /\ \E x \in Strings : TextAt(n, q, x)
  BY <1>1, <1>4, RunIs
<1>6. PICK x \in Strings : TextAt(n, q, x)
  BY <1>5
<1> HIDE DEF N
<1>7. /\ q \in 0 .. N /\ n \in Nat /\ q \in Nat /\ P(n) \in Nat /\ P(q) \in Nat
      /\ P(q) <= Len(s) /\ j = P(n) + 1
  <2>1. q \in 0 .. N /\ n \in Nat /\ q \in Nat
    BY <1>1
  <2> QED  BY <1>1, <1>3, <2>1 DEF AtText
<1>8. CASE q = N
  <2>1. \A k \in i .. Len(s) : ~Magic(k)
    BY <1>1, <1>2, <1>5, <1>7, <1>8 DEF Magic
  <2>2. pc' = "End" /\ j' = j /\ r' = r
    BY <2>1 DEF S1
  <2>3. Els' = Els
    BY <2>2 DEF Els
  <2>4. j' = P(n) + 1 /\ Els' \in Seq(Shows) /\ Merged(Els') = Done(n)
    BY <1>3, <2>2, <2>3 DEF AtText, Read
  <2> QED  BY <1>4, <1>8, <2>2, <2>4 DEF N
<1>9. CASE q + 1 \in 1 .. N /\ sent[q + 1].type # <<"text">>
  <2> DEFINE l == q + 1
             b == P(q) + 1
  <2>1. /\ B(l) \in Nat /\ C(l) \in Nat /\ B(l) + 7 <= C(l)
        /\ C(l) <= P(l) /\ P(l) <= Len(s) /\ P(l) \in Nat
        /\ s[B(l) + 1] = "[" /\ s[B(l) + 2] = "CQ:"
    BY <1>1, <1>9, CodeIs DEF N
  <2>2. B(l) = P(q) /\ l - 1 = q
    BY <1>7 DEF B
  <2>3. b \in i .. Len(s) /\ Magic(b)
    <3>1. b \in i .. Len(s) /\ b + 2 \in 1 .. Len(s)
      <4>1. /\ P(q) \in Nat /\ P(n) \in Nat /\ P(n) <= P(q) /\ Len(s) \in Nat
            /\ i = P(n) + 1
        BY <1>1, <1>2, <1>5, <1>7, Zenon
      <4>2. /\ P(q) + 7 <= C(l) /\ C(l) <= P(l) /\ P(l) <= Len(s)
            /\ C(l) \in Nat /\ P(l) \in Nat
        BY <2>1, <2>2, Zenon
      <4> HIDE DEF l
      <4>3. P(q) + 7 <= Len(s)
        BY <4>1, <4>2
      <4> QED  BY <4>1, <4>3
    <3>2. DOMAIN s = 1 .. Len(s)
      BY <1>1 DEF Strings
    <3>3. s[b] = "[" /\ s[b + 1] = "CQ:"
      <4>1. b = B(l) + 1 /\ b + 1 = B(l) + 2
        BY <1>7, <2>2
      <4> QED  BY <2>1, <4>1
    <3> QED  BY <3>1, <3>2, <3>3 DEF Magic
  <2>4. ~(\A k \in i .. Len(s) : ~Magic(k))
    BY <2>3
  <2>5. PICK k \in i .. Len(s) :
           /\ Magic(k) /\ \A m \in i .. k - 1 : ~Magic(m)
           /\ r' = WithText(k) /\ CQBegin' = k /\ j' = k + 2 /\ pc' = "S2"
    BY <2>4 DEF S1
  <2>6. k = b
    <3>1. s[k] = "["
      BY <2>5 DEF Magic
    <3>2. ~(k < b)
      <4>1. k < b => k \in P(n) + 1 .. P(q)
        BY <1>2, <1>7
      <4> QED  BY <1>5, <3>1, <4>1
    <3>3. ~(b < k)
      <4>1. b < k => b \in i .. k - 1
        BY <1>2, <1>7, <2>3
      <4> QED  BY <2>3, <2>5, <4>1
    <3> QED  BY <1>2, <1>7, <3>2, <3>3
  <2>7. Els' \in Seq(Shows) /\ Merged(Els') = Done(q)
    <3>1. r' = WithText(P(q) + 1)
      BY <2>5, <2>6
    <3> QED  BY <1>1, <1>3, <1>5, <1>6, <1>7, <3>1, TextRead
  <2>8. CQBegin' = B(l) + 1 /\ j' = B(l) + 3
    BY <1>7, <2>2, <2>5, <2>6
  <2>9. l \in 1 .. Len(sent) /\ sent[l].type # <<"text">> /\ Done(q) = Done(l - 1)
    BY <1>9, <2>2 DEF N
  <2> QED  BY <2>5, <2>7, <2>8, <2>9, Zenon
<1> QED  BY <1>4, <1>8, <1>9

\* A code that is read on is still the code of element n.
CodeStays(n) ==
    /\ sent[n].type # <<"text">> /\ CQBegin' = B(n) + 1
    /\ Els' \in Seq(Shows) /\ Merged(Els') = Done(n - 1)

LEMMA Stays ==
    ASSUME NEW n, AtCode(n), CQBegin' = CQBegin, r' = r
    PROVE  CodeStays(n)
<1>1. Els' = Els
  BY DEF Els
<1> QED  BY <1>1 DEF AtCode, Read, CodeStays

\* What begins and ends where the parser finds it
LEMMA Single ==
    ASSUME s \in Strings, NEW k \in Nat, k >= 1, k <= Len(s)
    PROVE  Part(k, k) = <<s[k]>>
<1> DEFINE z == SubSeq(s, k, k)
           c == s[k]
<1>1. s \in Seq(Symbols) /\ Len(s) \in Nat
  BY DEF Strings
<1>2. z \in Seq(Symbols) /\ Len(z) = 1 /\ z[1] = c
  BY <1>1
<1> HIDE DEF z, c
<1>3. c \in Symbols
  BY <1>2
<1>4. /\ <<c>> \in Seq(Symbols) /\ Len(<<c>>) = 1 /\ <<c>>[1] = c
  BY <1>3
<1>5. z = <<c>>
  BY <1>2, <1>4
<1> QED  BY <1>5 DEF Part, z, c

LEMMA S2Round ==
    ASSUME IInv, RoundOK, sent # NoMessage, ~refused, S2
    PROVE  /\ pc' = "S3" /\ refused' = refused
           /\ \E n \in 1 .. Len(sent) :
                 /\ CodeStays(n) /\ t' = <<Name(sent[n])>>
                 /\ j' = B(n) + 5 /\ DOMAIN d' = {}
<1>1. Given /\ Where /\ TypeOK /\ Len(s) \in Nat /\ s \in Strings
  BY RoundFacts
<1>2. pc = "S2" /\ i = j /\ DOMAIN d = {}
  BY DEF S2, IInv, ReadOK, InCode, ParamsOK
<1>3. PICK n \in 1 .. Len(sent) : AtCode(n) /\ j = B(n) + 3
  BY <1>1, <1>2 DEF Where
<1> DEFINE b == B(n) + 4
<1>4. /\ B(n) \in Nat /\ C(n) \in Nat /\ B(n) + 7 <= C(n)
      /\ C(n) <= P(n) /\ P(n) <= Len(s) /\ P(n) \in Nat
      /\ s[B(n) + 3] = Name(sent[n]) /\ s[B(n) + 4] = ","
  BY <1>1, <1>3, CodeIs DEF AtCode
<1>5. /\ b \in Nat /\ i <= b /\ b <= Len(s) /\ i \in Nat
      /\ j = b - 1 /\ j \in Nat /\ j >= 1 /\ j <= Len(s) /\ i .. b - 1 = {B(n) + 3}
  <2>1. /\ B(n) \in Nat /\ C(n) \in Nat /\ P(n) \in Nat /\ Len(s) \in Nat
        /\ B(n) + 7 <= C(n) /\ C(n) <= P(n) /\ P(n) <= Len(s)
        /\ i = B(n) + 3 /\ j = B(n) + 3
    BY <1>1, <1>2, <1>3, <1>4, Zenon
  <2>2. B(n) + 7 <= Len(s)
    BY <2>1
  <2> QED  BY <2>1, <2>2
<1>6. Name(sent[n]) \notin {",", "]"}
  <2>1. Name(sent[n]) \in {"forward", "video"}
    BY Zenon DEF Name
  <2> QED  BY <2>1
<1>7. /\ ~Ends({",", "]"}) /\ \A k : Finds({",", "]"}, k) => k = b
  <2>1. s[b] \in {",", "]"} /\ \A x \in i .. b - 1 : s[x] \notin {",", "]"}
    BY <1>4, <1>5, <1>6
  <2> HIDE DEF b
  <2> QED  BY <1>1, <1>5, <2>1, FindIs
<1>8. PICK k \in i .. Len(s) :
         /\ Finds({",", "]"}, k) /\ t' = Part(j, k - 1)
         /\ \/ s[k] = "," /\ Reads(k, "S3") /\ UNCHANGED <<r, gone, refused>>
            \/ s[k] = "]" /\ Reads(k, "S1") /\ SaveCQCode(t', d, k)
         /\ UNCHANGED <<given, CQBegin, key, d>>
  BY <1>7 DEF S2
<1>9. k = b
  BY <1>7, <1>8
<1>10. /\ Reads(b, "S3") /\ r' = r /\ refused' = refused /\ t' = Part(j, b - 1)
       /\ CQBegin' = CQBegin /\ d' = d
  <2>1. s[k] # "]"
    BY <1>4, <1>9
  <2> QED  BY <1>8, <1>9, <2>1
<1>11. t' = <<Name(sent[n])>>
  <2>1. Part(j, j) = <<s[j]>>
    BY <1>1, <1>5, Single
  <2>2. j = B(n) + 3 /\ b - 1 = j
    BY <1>3, <1>5
  <2> QED  BY <1>4, <1>10, <2>1, <2>2
<1>12. pc' = "S3" /\ j' = B(n) + 5 /\ CodeStays(n)
  <2>1. j' = b + 1 /\ pc' = "S3"
    BY <1>10 DEF Reads
  <2>2. j' = B(n) + 5
    <3>1. B(n) \in Nat
      BY <1>4, Zenon
    <3> QED  BY <2>1, <3>1
  <2>3. CodeStays(n)
    BY <1>3, <1>10, Stays
  <2> QED  BY <2>1, <2>2, <2>3
<1> QED  BY <1>2, <1>10, <1>11, <1>12

LEMMA KeyRead ==
    ASSUME s \in Strings, Len(s) \in Nat, S3, i = j, j \in Nat, j >= 1, j + 1 <= Len(s),
           s[j] # "=", s[j + 1] = "="
    PROVE  /\ pc' = "S4" /\ j' = j + 2 /\ key' = <<s[j]>>
           /\ UNCHANGED <<CQBegin, t, d, r, refused>>
<1> DEFINE b == j + 1
<1>1. /\ b \in Nat /\ i <= b /\ b <= Len(s) /\ i \in Nat /\ i .. b - 1 = {j} /\ b - 1 = j
  OBVIOUS
<1>2. /\ ~Ends({"="}) /\ \A k : Finds({"="}, k) => k = b
  <2>1. s[b] \in {"="} /\ \A x \in i .. b - 1 : s[x] \notin {"="}
    BY <1>1
  <2> HIDE DEF b
  <2> QED  BY <1>1, <2>1, FindIs
<1>3. PICK k \in i .. Len(s) :
         /\ Finds({"="}, k) /\ key' = Part(j, k - 1) /\ Reads(k, "S4")
         /\ UNCHANGED <<given, CQBegin, t, d, r, gone, refused>>
  BY <1>2 DEF S3
<1>4. k = b
  BY <1>2, <1>3
<1>5. key' = <<s[j]>>
  <2>1. j <= Len(s)
    BY <1>1
  <2>2. Part(j, j) = <<s[j]>>
    BY <2>1, Single
  <2> QED  BY <1>1, <1>3, <1>4, <2>2
<1>6. pc' = "S4" /\ j' = j + 2
  <2>1. pc' = "S4" /\ j' = b + 1
    BY <1>3, <1>4 DEF Reads
  <2> QED  BY <2>1
<1> QED  BY <1>3, <1>5, <1>6

LEMMA S3Round ==
    ASSUME IInv, RoundOK, sent # NoMessage, ~refused, S3
    PROVE  /\ pc' = "S4" /\ refused' = refused
           /\ \E n \in 1 .. Len(sent) :
                 /\ CodeStays(n) /\ t' = <<Name(sent[n])>>
                 /\ \/ j' = B(n) + 7 /\ key' = <<Key(sent[n])>> /\ DOMAIN d' = {}
                    \/ /\ HasUrl(sent[n]) /\ j' = C(n) + 3 /\ key' = <<"url">>
                       /\ d' = [k \in {<<"file">>} |-> Value(sent[n])]
<1>1. Given /\ Where /\ TypeOK /\ Len(s) \in Nat /\ s \in Strings
  BY RoundFacts
<1>2. pc = "S3" /\ i = j
  BY DEF S3, IInv, ReadOK, InCode
<1>3. PICK n \in 1 .. Len(sent) : AtCode(n) /\ t = <<Name(sent[n])>> /\ AtKey(n)
  BY <1>1, <1>2 DEF Where
<1>4. /\ B(n) \in Nat /\ C(n) \in Nat /\ B(n) + 7 <= C(n)
      /\ C(n) <= P(n) /\ P(n) <= Len(s) /\ P(n) \in Nat
      /\ s[B(n) + 5] = Key(sent[n]) /\ s[B(n) + 6] = "="
      /\ HasUrl(sent[n]) => /\ s[C(n) + 1] = "url" /\ s[C(n) + 2] = "="
                            /\ Len(Url(sent[n])) \in Nat
                            /\ P(n) = C(n) + 3 + Len(Url(sent[n]))
  BY <1>1, <1>3, CodeIs DEF AtCode
<1>5. CASE j = B(n) + 5 /\ DOMAIN d = {}
  <2>1. /\ B(n) \in Nat /\ C(n) \in Nat /\ P(n) \in Nat /\ Len(s) \in Nat
        /\ B(n) + 7 <= C(n) /\ C(n) <= P(n) /\ P(n) <= Len(s) /\ j = B(n) + 5
    BY <1>1, <1>4, <1>5, Zenon
  <2>2. j \in Nat /\ j >= 1 /\ j + 1 <= Len(s) /\ j + 1 = B(n) + 6 /\ j + 2 = B(n) + 7
    BY <2>1
  <2>3. s[j] # "=" /\ s[j + 1] = "=" /\ s[j] = Key(sent[n])
    <3>1. Key(sent[n]) \in {"id", "file"}
      BY Zenon DEF Key
    <3>2. s[j] = Key(sent[n]) /\ s[j + 1] = "="
      BY <1>4, <2>1, <2>2, Zenon
    <3> QED  BY <3>1, <3>2
  <2>4. /\ pc' = "S4" /\ j' = j + 2 /\ key' = <<s[j]>>
        /\ UNCHANGED <<CQBegin, t, d, r, refused>>
    BY <1>1, <1>2, <2>2, <2>3, KeyRead
  <2>5. CodeStays(n)
    BY <1>3, <2>4, Stays
  <2> QED  BY <1>3, <1>5, <2>2, <2>3, <2>4, <2>5
<1>6. CASE HasUrl(sent[n]) /\ j = C(n) + 1 /\ OnlyFile(n)
  <2>1. /\ C(n) \in Nat /\ P(n) \in Nat /\ Len(s) \in Nat /\ Len(Url(sent[n])) \in Nat
        /\ P(n) = C(n) + 3 + Len(Url(sent[n])) /\ P(n) <= Len(s) /\ j = C(n) + 1
    BY <1>1, <1>4, <1>6, Zenon
  <2>2. j \in Nat /\ j >= 1 /\ j + 1 <= Len(s) /\ j + 1 = C(n) + 2 /\ j + 2 = C(n) + 3
    BY <2>1
  <2>3. s[j] # "=" /\ s[j + 1] = "=" /\ s[j] = "url"
    <3>1. s[j] = "url" /\ s[j + 1] = "="
      BY <1>4, <1>6, <2>1, <2>2, Zenon
    <3> QED  BY <3>1
  <2>4. /\ pc' = "S4" /\ j' = j + 2 /\ key' = <<s[j]>>
        /\ UNCHANGED <<CQBegin, t, d, r, refused>>
    BY <1>1, <1>2, <2>2, <2>3, KeyRead
  <2>5. CodeStays(n)
    BY <1>3, <2>4, Stays
  <2>6. d' = [k \in {<<"file">>} |-> Value(sent[n])]
    BY <1>6, <2>4 DEF OnlyFile
  <2> QED  BY <1>3, <1>6, <2>2, <2>3, <2>4, <2>5, <2>6
<1> QED  BY <1>3, <1>5, <1>6 DEF AtKey

LEMMA InPart ==
    ASSUME s \in Strings, Len(s) \in Nat, NEW a \in Nat, NEW b \in Nat, a >= 1, a <= b,
           b <= Len(s), NEW x \in a .. b - 1
    PROVE  \E k \in DOMAIN Part(a, b - 1) : Part(a, b - 1)[k] = s[x]
<1> DEFINE c == b - 1
           k == x - a + 1
           y == SubSeq(s, a, c)
<1>1. /\ c \in Nat /\ c <= Len(s) /\ a <= c + 1 /\ k \in 1 .. c - a + 1
      /\ a + k - 1 = x
  OBVIOUS
<1>2. s \in Seq(Symbols)
  BY DEF Strings
<1> HIDE DEF c, k
<1>3. y \in Seq(Symbols) /\ Len(y) = c - a + 1 /\ y[k] = s[a + k - 1]
  BY <1>1, <1>2
<1> HIDE DEF y
<1>4. k \in DOMAIN y /\ y[k] = s[x]
  BY <1>1, <1>3
<1>5. Part(a, b - 1) = y
  BY DEF Part, y, c
<1> QED  BY <1>4, <1>5

LEMMA ValueRead ==
    ASSUME s \in Strings, Len(s) \in Nat, S4, i = j, j \in Nat, j >= 1,
           NEW b \in Nat, j <= b, b <= Len(s), s[b] \in {",", "]"},
           Lacks(Part(j, b - 1), {",", "]"})
    PROVE  /\ d' = [x \in DOMAIN d \cup {key} |->
                      IF x = key THEN CQCodeUnescapeValue(Part(j, b - 1)) ELSE d[x]]
           /\ CQBegin' = CQBegin /\ t' = t /\ j' = b + 1
           /\ s[b] = "," => pc' = "S3" /\ r' = r /\ refused' = refused
           /\ s[b] = "]" => pc' = "S1" /\ SaveCQCode(t, d', b)
<1>1. ASSUME NEW x \in i .. b - 1 PROVE s[x] \notin {",", "]"}
  <2>1. x \in j .. b - 1
    OBVIOUS
  <2>2. \E k \in DOMAIN Part(j, b - 1) : Part(j, b - 1)[k] = s[x]
    BY <2>1, InPart
  <2> QED  BY <2>2, Zenon DEF Lacks
<1>2. /\ ~Ends({",", "]"}) /\ \A k : Finds({",", "]"}, k) => k = b
  <2>1. i \in Nat /\ i <= b
    OBVIOUS
  <2> QED  BY <1>1, <2>1, FindIs
<1>3. PICK k \in i .. Len(s) :
         /\ Finds({",", "]"}, k)
         /\ d' = [x \in DOMAIN d \cup {key} |->
                    IF x = key THEN CQCodeUnescapeValue(Part(j, k - 1)) ELSE d[x]]
         /\ \/ s[k] = "," /\ Reads(k, "S3") /\ UNCHANGED <<r, gone, refused>>
            \/ s[k] = "]" /\ Reads(k, "S1") /\ SaveCQCode(t, d', k)
         /\ UNCHANGED <<given, CQBegin, t, key>>
  BY <1>2, Zenon DEF S4
<1>4. k = b
  BY <1>2, <1>3
<1>5. \/ s[b] = "," /\ Reads(b, "S3") /\ r' = r /\ refused' = refused
      \/ s[b] = "]" /\ Reads(b, "S1") /\ SaveCQCode(t, d', b)
  BY <1>3, <1>4
<1>6. /\ d' = [x \in DOMAIN d \cup {key} |->
                 IF x = key THEN CQCodeUnescapeValue(Part(j, b - 1)) ELSE d[x]]
      /\ CQBegin' = CQBegin /\ t' = t
  BY <1>3, <1>4
<1>7. "," # "]"
  OBVIOUS
<1> QED  BY <1>5, <1>6, <1>7, Zenon DEF Reads

LEMMA MergedSingle ==
    ASSUME NEW e \in Shows, e.type # <<"text">>
    PROVE  Merged(<<e>>) = <<e>> /\ <<e>> \in Seq(Shows)
<1>1. Append(<<>>, e) = <<e>> /\ <<>> \in Seq(Shows)
  <2> HIDE DEF Shows
  <2> QED  OBVIOUS
<1>2. Text(<<>>).type = <<"text">>
  BY SymbolTypes, TextsAre
<1>3. Join(<<>>, e) = Append(<<>>, e)
  BY <1>2, Zenon DEF Join
<1>4. Merged(Append(<<>>, e)) = Join(Merged(<<>>), e)
  BY <1>1, MergedMore, Zenon
<1>5. <<e>> \in Seq(Shows)
  <2> HIDE DEF Shows
  <2> QED  OBVIOUS
<1> QED  BY <1>1, <1>3, <1>4, <1>5, MergedMore, Zenon

LEMMA SaveRound ==
    ASSUME IInv, Given, NEW n \in 1 .. Len(sent), AtCode(n), P(n) \in Nat, P(n) <= Len(s),
           CQBegin <= P(n), SaveCQCode(<<Name(sent[n])>>, Shown(sent[n]).data, P(n))
    PROVE  refused' \/ (Els' \in Seq(Shows) /\ Merged(Els') = Done(n))
<1> DEFINE e == sent[n]
           f == Back(e)
           p == Piece(f, Span(CQBegin, P(n)), TRUE)
<1>1. /\ TypeOK /\ e \in Parts /\ e.type = <<Name(e)>> /\ e.type # <<"text">>
      /\ Shown(e) \in Ins /\ Shown(e).type = e.type /\ Back(Shown(e)) = f /\ f \in Shows
      /\ e.type \in {<<"forward">>, <<"video">>}
  BY ValueIs, PartsAre, ShownIs, BackIs DEF AtCode, IInv
<1>2. f \in Elements /\ f.type # <<"text">>
  <2>1. f.type # <<"text">>
    BY <1>1, OtherTypes, LocalVideoIs DEF Back
  <2> QED  BY <1>1, <2>1, TextsAre DEF Shows
<1>3. p \in PieceType /\ p.element = f
  <2>1. Span(CQBegin, P(n)) \in Spans
    BY <1>1 DEF TypeOK, Span, Spans
  <2> QED  BY <1>2, <2>1 DEF Piece, PieceType
<1>4. Els \in Seq(Shows) /\ Merged(Els) = Done(n - 1)
  BY DEF AtCode, Read
<1>5. /\ Done(n) = IF e.type = <<"forward">> THEN <<e>> ELSE Join(Done(n - 1), f)
  BY DoneIs DEF Given
<1>6. CASE e.type = <<"forward">>
  <2>1. /\ f = e /\ Shown(e) = e
        /\ <<Name(e)>> = <<"forward">> /\ <<"id">> \in DOMAIN f.data
    <3>1. f = e /\ Shown(e) = e
      BY <1>1, <1>6, OtherTypes, ShownIs DEF Back
    <3>2. e \in Forwards
      BY <1>1, <1>6, PartsAre
    <3> QED  BY <1>1, <1>6, <3>1, <3>2 DEF Forwards
  <2>2. r' = <<Piece(Forward(f.data[<<"id">>]), Span(CQBegin, P(n)), TRUE)>>
    <3>1. ToElement(<<Name(e)>>, f.data) = {}
      BY <2>1, OtherTypes, Zenon DEF ToElement
    <3> QED  BY <2>1, <3>1, Zenon DEF SaveCQCode
  <2>3. Forward(f.data[<<"id">>]) = f
    <3>1. f \in Forwards
      BY <1>1, <1>6, <2>1, PartsAre
    <3>2. /\ f.type = <<"forward">> /\ f = [type |-> f.type, data |-> f.data]
          /\ f.data = [k \in {<<"id">>} |-> f.data[<<"id">>]]
      BY <3>1 DEF Forwards
    <3> HIDE DEF f
    <3> QED  BY <3>2, Zenon DEF Forward, Element
  <2>4. Els' = <<f>>
    <3> DEFINE q == Piece(f, Span(CQBegin, P(n)), TRUE)
    <3>1. r' = <<q>> /\ q.element = f
      BY <2>2, <2>3 DEF Piece
    <3> HIDE DEF f, q
    <3>2. Els' = [k \in DOMAIN r' |-> r'[k].element]
      BY DEF Els
    <3> QED  BY <3>1, <3>2
  <2>5. Merged(<<f>>) = <<f>> /\ <<f>> \in Seq(Shows)
    BY <1>1, <1>2, MergedSingle
  <2> QED  BY <1>5, <1>6, <2>1, <2>4, <2>5
<1>7. CASE e.type = <<"video">>
  <2>1. <<Name(e)>> = <<"video">>
    BY <1>1, <1>7
  <2>2. ToElement(<<Name(e)>>, Shown(e).data) = {f}
    <3>1. <<"file">> \in DOMAIN Shown(e).data /\ Shown(e).data[<<"file">>] # <<>>
      BY <1>1, <1>7, OtherTypes, TextsAre DEF Ins
    <3>2. ToElement(<<"video">>, Shown(e).data) = {LocalVideo(Shown(e).data[<<"file">>])}
      BY <3>1, OtherTypes, Zenon DEF ToElement
    <3>3. f = LocalVideo(Shown(e).data[<<"file">>])
      BY <1>1, <1>7, BackIs
    <3> QED  BY <2>1, <3>2, <3>3, Zenon
  <2>3. refused' \/ r' = Append(r, p)
    BY <2>1, <2>2, OtherTypes, Zenon DEF SaveCQCode
  <2>4. ASSUME r' = Append(r, p)
        PROVE  Els' \in Seq(Shows) /\ Merged(Els') = Done(n)
    <3>1. Els' = Append(Els, f) /\ Els' \in Seq(Shows)
      BY <1>1, <1>3, <1>4, <2>4, ElsMore
    <3>2. Merged(Els') = Join(Merged(Els), f)
      BY <1>1, <1>4, <3>1, MergedMore, Zenon
    <3>3. Done(n) = Join(Done(n - 1), f)
      BY <1>5, <1>7, OtherTypes, Zenon
    <3> QED  BY <1>4, <3>1, <3>2, <3>3, Zenon
  <2> QED  BY <2>3, <2>4
<1> QED  BY <1>1, <1>6, <1>7

\* The parameters of a code are those of the element that was shown.
LEMMA ShownData ==
    ASSUME Given, NEW n \in 1 .. Len(sent), sent[n].type # <<"text">>
    PROVE  /\ ~HasUrl(sent[n]) =>
                 Shown(sent[n]).data = [k \in {<<Key(sent[n])>>} |-> Value(sent[n])]
           /\ HasUrl(sent[n]) =>
                 /\ Key(sent[n]) = "file" /\ sent[n].data[<<"url">>] \in Strings
                 /\ Shown(sent[n]).data =
                      [k \in {<<"file">>, <<"url">>} |->
                         IF k = <<"url">> THEN sent[n].data[<<"url">>] ELSE Value(sent[n])]
<1> DEFINE e == sent[n]
<1>1. e \in Parts /\ e.type \in {<<"forward">>, <<"video">>}
  BY ValueIs, PartsAre
<1>2. CASE e.type = <<"forward">>
  <2>1. e \in Forwards /\ Shown(e) = e
    BY <1>1, <1>2, PartsAre, ShownIs, OtherTypes
  <2>2. Key(e) = "id" /\ Value(e) = e.data[<<"id">>] /\ ~HasUrl(e)
    BY <1>2, OtherTypes, Zenon DEF Key, Value, HasUrl
  <2>3. e.data = [k \in {<<"id">>} |-> e.data[<<"id">>]]
    BY <2>1 DEF Forwards
  <2> HIDE DEF e
  <2>4. Shown(e).data = [k \in {<<Key(e)>>} |-> Value(e)]
    BY <2>1, <2>2, <2>3, Zenon
  <2> QED  BY <2>2, <2>4 DEF e
<1>3. CASE e.type = <<"video">>
  <2>1. e \in Videos /\ e.data[<<"url">>] \in Strings
    BY <1>1, <1>3, PartsAre
  <2>2. Key(e) = "file" /\ Value(e) = e.data[<<"file">>]
    BY <1>3, OtherTypes, Zenon DEF Key, Value
  <2>3. e.data \in [{<<"file">>, <<"url">>} -> Strings]
    BY <2>1 DEF Videos, Strings
  <2>4. CASE raw
    <3>1. Shown(e) = Element("video", [k \in {<<"file">>} |-> e.data[k]])
      BY <1>3, <2>4, Zenon DEF Shown
    <3>2. Shown(e).data = [k \in {<<"file">>} |-> e.data[k]]
      BY <3>1 DEF Element
    <3>3. [k \in {<<"file">>} |-> e.data[k]] = [k \in {<<"file">>} |-> Value(e)]
      BY <2>2
    <3>4. ~HasUrl(e)
      BY <2>4 DEF HasUrl
    <3> QED  BY <2>2, <3>2, <3>3, <3>4
  <2>5. CASE ~raw
    <3>1. Shown(e) = e /\ HasUrl(e)
      BY <1>3, <2>5, Zenon DEF Shown, HasUrl
    <3> HIDE DEF e
    <3>2. e.data = [k \in {<<"file">>, <<"url">>} |->
                      IF k = <<"url">> THEN e.data[<<"url">>] ELSE e.data[<<"file">>]]
      BY <2>3, OtherTypes
    <3> QED  BY <2>1, <2>2, <3>1, <3>2, Zenon DEF e
  <2> QED  BY <2>4, <2>5
<1> QED  BY <1>1, <1>2, <1>3

LEMMA S4Round ==
    ASSUME IInv, RoundOK, sent # NoMessage, ~refused, S4
    PROVE  \/ /\ pc' = "S3" /\ refused' = refused
              /\ \E n \in 1 .. Len(sent) :
                    /\ CodeStays(n) /\ t' = <<Name(sent[n])>>
                    /\ HasUrl(sent[n]) /\ j' = C(n) + 1
                    /\ d' = [k \in {<<"file">>} |-> Value(sent[n])]
           \/ /\ pc' = "S1"
              /\ \/ refused'
                 \/ \E n \in 1 .. Len(sent) :
                       j' = P(n) + 1 /\ Els' \in Seq(Shows) /\ Merged(Els') = Done(n)
<1>1. /\ Given /\ Where /\ TypeOK /\ Len(s) \in Nat /\ s \in Strings
  BY RoundFacts
<1>2. pc = "S4" /\ i = j
  BY DEF S4, IInv, ReadOK, InCode
<1>3. PICK n \in 1 .. Len(sent) : AtCode(n) /\ t = <<Name(sent[n])>> /\ AtValue(n)
  BY <1>1, <1>2 DEF Where
<1> DEFINE e == sent[n]
           v == Len(Url(e))
<1>4. /\ B(n) \in Nat /\ C(n) \in Nat /\ B(n) + 7 <= C(n)
      /\ C(n) <= P(n) /\ P(n) <= Len(s) /\ P(n) \in Nat
      /\ SubSeq(s, B(n) + 7, C(n) - 1) = Value(e)
      /\ ~HasUrl(e) => s[C(n)] = "]" /\ P(n) = C(n)
      /\ HasUrl(e) => /\ v \in Nat /\ P(n) = C(n) + 3 + v /\ s[C(n)] = ","
                      /\ SubSeq(s, C(n) + 3, C(n) + 2 + v) = Url(e)
                      /\ s[P(n)] = "]"
  BY <1>1, <1>3, CodeIs DEF AtCode
<1>5. /\ e.type # <<"text">> /\ CQBegin = B(n) + 1
      /\ Lacks(Value(e), {",", "]"}) /\ CQCodeUnescapeValue(Value(e)) = Value(e)
  BY <1>1, <1>3, ValueIs DEF AtCode
<1>6. /\ ~HasUrl(e) => Shown(e).data = [k \in {<<Key(e)>>} |-> Value(e)]
      /\ HasUrl(e) => /\ Key(e) = "file" /\ e.data[<<"url">>] \in Strings
                      /\ Shown(e).data =
                           [k \in {<<"file">>, <<"url">>} |->
                              IF k = <<"url">> THEN e.data[<<"url">>] ELSE Value(e)]
  BY <1>1, <1>5, ShownData
<1>7. CQBegin <= P(n)
  <2>1. /\ CQBegin = B(n) + 1 /\ B(n) \in Nat /\ C(n) \in Nat /\ P(n) \in Nat
        /\ B(n) + 7 <= C(n) /\ C(n) <= P(n)
    BY <1>4, <1>5, Zenon
  <2> QED  BY <2>1
<1> HIDE DEF e, v
<1>8. CASE j = B(n) + 7 /\ key = <<Key(e)>> /\ DOMAIN d = {}
  <2>1. /\ j \in Nat /\ j >= 1 /\ j <= C(n) /\ C(n) <= Len(s) /\ C(n) \in Nat
    <3>1. /\ j = B(n) + 7 /\ B(n) \in Nat /\ C(n) \in Nat /\ P(n) \in Nat /\ Len(s) \in Nat
          /\ B(n) + 7 <= C(n) /\ C(n) <= P(n) /\ P(n) <= Len(s)
      BY <1>1, <1>4, <1>8, Zenon
    <3> QED  BY <3>1
  <2>2. Part(j, C(n) - 1) = Value(e)
    BY <1>4, <1>8 DEF Part
  <2>3. s[C(n)] \in {",", "]"}
    BY <1>4
  <2>4. /\ d' = [x \in DOMAIN d \cup {key} |->
                   IF x = key THEN CQCodeUnescapeValue(Part(j, C(n) - 1)) ELSE d[x]]
        /\ CQBegin' = CQBegin /\ t' = t /\ j' = C(n) + 1
        /\ s[C(n)] = "," => pc' = "S3" /\ r' = r /\ refused' = refused
        /\ s[C(n)] = "]" => pc' = "S1" /\ SaveCQCode(t, d', C(n))
    BY <1>1, <1>2, <1>5, <2>1, <2>2, <2>3, ValueRead
  <2>5. d' = [k \in {<<Key(e)>>} |-> Value(e)]
    BY <1>5, <1>8, <2>2, <2>4
  <2>6. CASE HasUrl(e)
    <3>1. CodeStays(n) /\ pc' = "S3" /\ refused' = refused
      BY <1>3, <1>4, <2>4, <2>6, Stays
    <3> QED  BY <1>3, <1>6, <2>4, <2>5, <2>6, <3>1 DEF e
  <2>7. CASE ~HasUrl(e)
    <3>1. pc' = "S1" /\ SaveCQCode(<<Name(e)>>, Shown(e).data, P(n)) /\ j' = P(n) + 1
      BY <1>3, <1>4, <1>6, <2>4, <2>5, <2>7 DEF e
    <3>2. refused' \/ (Els' \in Seq(Shows) /\ Merged(Els') = Done(n))
      BY <1>1, <1>3, <1>4, <1>7, <3>1, SaveRound DEF e
    <3> QED  BY <3>1, <3>2
  <2> QED  BY <2>6, <2>7
<1>9. CASE HasUrl(e) /\ j = C(n) + 3 /\ key = <<"url">> /\ OnlyFile(n)
  <2>1. /\ j \in Nat /\ j >= 1 /\ j <= P(n) /\ P(n) <= Len(s) /\ P(n) - 1 = C(n) + 2 + v
    <3>1. /\ j = C(n) + 3 /\ C(n) \in Nat /\ P(n) \in Nat /\ Len(s) \in Nat /\ v \in Nat
          /\ P(n) = C(n) + 3 + v /\ P(n) <= Len(s)
      BY <1>1, <1>4, <1>9, Zenon
    <3> QED  BY <3>1
  <2>2. Part(j, P(n) - 1) = Url(e)
    BY <1>4, <1>9, <2>1, Zenon DEF Part
  <2>3. s[P(n)] = "]" /\ Lacks(Url(e), {",", "]"})
        /\ CQCodeUnescapeValue(Url(e)) = e.data[<<"url">>]
    BY <1>4, <1>6, <1>9, Escaped, ValueInverse DEF Url
  <2>4. /\ d' = [x \in DOMAIN d \cup {key} |->
                   IF x = key THEN CQCodeUnescapeValue(Part(j, P(n) - 1)) ELSE d[x]]
        /\ j' = P(n) + 1 /\ pc' = "S1" /\ SaveCQCode(t, d', P(n))
    <3>1. s[P(n)] \in {",", "]"}
      BY <2>3
    <3> QED  BY <1>1, <1>2, <1>4, <2>1, <2>2, <2>3, <3>1, ValueRead
  <2>5. d' = Shown(e).data
    <3>1. DOMAIN d \cup {key} = {<<"file">>, <<"url">>} /\ d[<<"file">>] = Value(e)
      BY <1>9 DEF OnlyFile, e
    <3>2. d' = [x \in {<<"file">>, <<"url">>} |->
                  IF x = <<"url">> THEN e.data[<<"url">>] ELSE d[x]]
      BY <1>9, <2>2, <2>3, <2>4, <3>1, Zenon
    <3>3. [x \in {<<"file">>, <<"url">>} |->
             IF x = <<"url">> THEN e.data[<<"url">>] ELSE d[x]]
            = [x \in {<<"file">>, <<"url">>} |->
                 IF x = <<"url">> THEN e.data[<<"url">>] ELSE Value(e)]
      BY <3>1
    <3> QED  BY <1>6, <1>9, <3>2, <3>3, Zenon
  <2>6. refused' \/ (Els' \in Seq(Shows) /\ Merged(Els') = Done(n))
    <3>1. SaveCQCode(<<Name(e)>>, Shown(e).data, P(n))
      BY <1>3, <2>4, <2>5 DEF e
    <3> QED  BY <1>1, <1>3, <1>4, <1>7, <3>1, SaveRound DEF e
  <2> QED  BY <2>4, <2>6
<1> QED  BY <1>3, <1>8, <1>9 DEF AtValue, e

LEMMA EndRound ==
    ASSUME IInv, RoundOK, sent # NoMessage, ~refused, End
    PROVE  /\ pc' = "done" /\ refused' = refused
           /\ Els' \in Seq(Shows) /\ Merged(Els') = Done(Len(sent))
<1> DEFINE N == Len(sent)
<1>1. /\ Given /\ Where /\ TypeOK
      /\ N \in Nat /\ Len(s) \in Nat /\ P(N) = Len(s)
      /\ \A n \in 0 .. N : P(n) \in Nat
  BY RoundFacts
<1>2. pc = "End" /\ i = Len(s) + 1 /\ pc' = "done" /\ refused' = refused /\ r' = WithText(i)
  BY DEF End, IInv, ReadOK
<1>3. PICK n \in 0 .. N : AtText(n) /\ \A m \in n + 1 .. N : sent[m].type = <<"text">>
  BY <1>1, <1>2 DEF Where
<1>4. N \in n .. N /\ n \in Nat /\ N \in 0 .. N
  BY <1>1
<1>5. P(n) <= P(N) /\ \E x \in Strings : TextAt(n, N, x)
  BY <1>1, <1>3, <1>4, RunIs
<1>6. PICK x \in Strings : TextAt(n, N, x)
  BY <1>5
<1> HIDE DEF N
<1>7. P(N) <= Len(s) /\ r' = WithText(P(N) + 1) /\ P(n) \in Nat /\ P(N) \in Nat
  BY <1>1, <1>2, <1>4
<1>8. Els' \in Seq(Shows) /\ Merged(Els') = Done(N)
  BY <1>1, <1>3, <1>4, <1>5, <1>6, <1>7, TextRead
<1> QED  BY <1>2, <1>8 DEF N

LEMMA TextNext ==
    ASSUME UNCHANGED given, NEW n, j' = P(n) + 1, Els' \in Seq(Shows), Merged(Els') = Done(n)
    PROVE  AtText(n)'
<1>1. P(n)' = P(n) /\ Done(n)' = Done(n)
  BY SameMessage
<1>2. Read(n)'
  BY <1>1 DEF Read
<1> QED  BY <1>1, <1>2 DEF AtText

LEMMA CodeNext ==
    ASSUME UNCHANGED given, NEW n, CodeStays(n)
    PROVE  AtCode(n)'
<1>1. B(n)' = B(n) /\ Done(n - 1)' = Done(n - 1)
  BY SameMessage
<1>2. sent' = sent
  BY DEF given
<1>3. Read(n - 1)'
  BY <1>1 DEF Read, CodeStays
<1> QED  BY <1>1, <1>2, <1>3 DEF AtCode, CodeStays

LEMMA RoundInit == Init => RoundOK
<1> SUFFICES ASSUME Init, sent # NoMessage PROVE Given /\ Where
  BY DEF RoundOK
<1>1. /\ sent \in Sent /\ s = ToStringMessage(sent)
      /\ pc = "S1" /\ j = 1 /\ r = <<>>
  BY DEF Init
<1>2. Given
  <2>1. /\ sent \in Seq(Texts \cup Forwards \cup Videos)
        /\ \A n \in DOMAIN sent :
              sent[n].type = <<"video">> =>
                  sent[n].data[<<"file">>] \in Seq(Words) \ {<<>>}
    BY <1>1, ConstantsAssumption, Zenon
  <2>4. \A n \in DOMAIN sent : sent[n] \in Parts
    <3> SUFFICES ASSUME NEW n \in DOMAIN sent PROVE sent[n] \in Parts
      OBVIOUS
    <3>1. sent[n] \in Texts \cup Forwards \cup Videos
      BY <2>1
    <3>2. sent[n] \in Videos => sent[n].data[<<"file">>] # <<>>
      BY <2>1 DEF Videos
    <3> QED  BY <3>1, <3>2 DEF Parts
  <2>2. sent \in Seq(Parts)
    <3>1. DOMAIN sent = 1 .. Len(sent) /\ Len(sent) \in Nat
      BY <2>1
    <3> HIDE DEF Parts
    <3> QED  BY <2>1, <2>4, <3>1
  <2>3. DOMAIN sent = 1 .. Len(sent)
    BY <2>2
  <2> QED  BY <1>1, <2>1, <2>2, <2>3, Zenon DEF Given
<1>3. 0 \in 0 .. Len(sent) /\ P(0) = 0
  <2>1. Len(sent) \in Nat
    BY <1>2 DEF Given
  <2> QED  BY <1>2, <2>1, Layout DEF Given
<1>4. Done(0) = <<>>
  BY <1>2, DoneIs DEF Given
<1>5. Els = <<>> /\ Els \in Seq(Shows)
  BY <1>1 DEF Els
<1>6. AtText(0)
  BY <1>1, <1>3, <1>4, <1>5, MergedMore DEF AtText, Read
<1> QED  BY <1>1, <1>2, <1>3, <1>6 DEF Where

LEMMA StepKeeps == Next => UNCHANGED given /\ (refused => refused')
<1>1. ASSUME NEW type, NEW params, NEW k, SaveCQCode(type, params, k)
      PROVE  refused' = refused \/ refused' = TRUE
  BY <1>1, Zenon DEF SaveCQCode
<1>2. S1 => UNCHANGED given /\ refused' = refused
  BY Zenon DEF S1
<1>3. S2 => UNCHANGED given /\ (refused' = refused \/ refused' = TRUE)
  BY <1>1, Zenon DEF S2, Ends
<1>4. S3 => UNCHANGED given /\ refused' = refused
  BY Zenon DEF S3, Ends
<1>5. S4 => UNCHANGED given /\ (refused' = refused \/ refused' = TRUE)
  BY <1>1, Zenon DEF S4, Ends
<1>6. End => UNCHANGED given /\ refused' = refused
  BY Zenon DEF End
<1> QED  BY <1>2, <1>3, <1>4, <1>5, <1>6, Zenon DEF Next

LEMMA RoundNext == IInv /\ RoundOK /\ [Next]_vars => RoundOK'
<1> SUFFICES ASSUME IInv, RoundOK, [Next]_vars, sent' # NoMessage
             PROVE  Given' /\ (~refused' => Where')
  BY DEF RoundOK
<1>1. CASE UNCHANGED vars
  <2>1. UNCHANGED <<sent, raw, s, pc, j, CQBegin, t, key, d, r, refused>>
    BY <1>1 DEF vars, given, code
  <2>2. UNCHANGED given
    BY <1>1 DEF vars
  <2>3. RoundOK' = RoundOK
    <3>1. Els' = Els /\ Given' = Given
      BY <2>1, <2>2, SameMessage DEF Els
    <3>2. ASSUME NEW n PROVE Read(n)' = Read(n)
      <4>1. Done(n)' = Done(n)
        BY <2>2, SameMessage
      <4> QED  BY <3>1, <4>1 DEF Read
    <3>3. ASSUME NEW n
          PROVE  /\ AtText(n)' = AtText(n) /\ AtCode(n)' = AtCode(n)
                 /\ AtKey(n)' = AtKey(n) /\ AtValue(n)' = AtValue(n)
                 /\ B(n)' = B(n)
      <4>1. /\ P(n)' = P(n) /\ B(n)' = B(n) /\ C(n)' = C(n)
            /\ HasUrl(sent[n])' = HasUrl(sent[n])
        BY <2>2, SameMessage
      <4>2. Read(n)' = Read(n) /\ Read(n - 1)' = Read(n - 1)
        BY <3>2
      <4>3. OnlyFile(n)' = OnlyFile(n)
        BY <2>1 DEF OnlyFile
      <4> QED  BY <2>1, <4>1, <4>2, <4>3 DEF AtText, AtCode, AtKey, AtValue
    <3>4. Where' = Where
      BY <2>1, <3>2, <3>3 DEF Where
    <3> QED  BY <2>1, <3>1, <3>4 DEF RoundOK
  <2> QED  BY <2>3 DEF RoundOK
<1>2. CASE Next
  <2>1. UNCHANGED given /\ sent' = sent /\ Given' /\ (refused => refused') /\ sent # NoMessage
    <3>1. UNCHANGED given /\ (refused => refused')
      BY <1>2, StepKeeps
    <3>2. sent' = sent
      BY <3>1 DEF given
    <3>3. sent # NoMessage
      BY <3>2 DEF NoMessage
    <3>4. Given' = Given
      BY <3>1, SameMessage
    <3> QED  BY <3>1, <3>2, <3>3, <3>4 DEF RoundOK
  <2>2. SUFFICES ASSUME ~refused' PROVE Where'
    BY <2>1
  <2>3. ~refused
    BY <2>1, <2>2
  <2>4. CASE S1
    <3>1. CASE pc' = "End" /\ \E n \in 0 .. Len(sent) :
                 /\ j' = P(n) + 1 /\ Els' \in Seq(Shows) /\ Merged(Els') = Done(n)
                 /\ \A m \in n + 1 .. Len(sent) : sent[m].type = <<"text">>
      <4>1. PICK n \in 0 .. Len(sent) :
               /\ j' = P(n) + 1 /\ Els' \in Seq(Shows) /\ Merged(Els') = Done(n)
               /\ \A m \in n + 1 .. Len(sent) : sent[m].type = <<"text">>
        BY <3>1
      <4>2. AtText(n)'
        BY <2>1, <4>1, TextNext
      <4> QED  BY <2>1, <3>1, <4>1, <4>2 DEF Where
    <3>2. CASE pc' = "S2" /\ \E n \in 1 .. Len(sent) : CodeStays(n) /\ j' = B(n) + 3
      <4>1. PICK n \in 1 .. Len(sent) : CodeStays(n) /\ j' = B(n) + 3
        BY <3>2
      <4>2. AtCode(n)' /\ B(n)' = B(n)
        BY <2>1, <4>1, CodeNext, SameMessage
      <4> QED  BY <2>1, <3>2, <4>1, <4>2 DEF Where
    <3> QED  BY <2>1, <2>3, <2>4, <3>1, <3>2, S1Round DEF CodeStays
  <2>5. CASE S2
    <3>1. pc' = "S3"
      BY <2>1, <2>3, <2>5, S2Round
    <3>2. PICK n \in 1 .. Len(sent) :
             /\ CodeStays(n) /\ t' = <<Name(sent[n])>>
             /\ j' = B(n) + 5 /\ DOMAIN d' = {}
      BY <2>1, <2>3, <2>5, S2Round
    <3>3. AtCode(n)' /\ B(n)' = B(n)
      BY <2>1, <3>2, CodeNext, SameMessage
    <3> QED  BY <2>1, <3>1, <3>2, <3>3 DEF Where, AtKey
  <2>6. CASE S3
    <3>1. pc' = "S4"
      BY <2>1, <2>3, <2>6, S3Round
    <3>2. PICK n \in 1 .. Len(sent) :
             /\ CodeStays(n) /\ t' = <<Name(sent[n])>>
             /\ \/ j' = B(n) + 7 /\ key' = <<Key(sent[n])>> /\ DOMAIN d' = {}
                \/ /\ HasUrl(sent[n]) /\ j' = C(n) + 3 /\ key' = <<"url">>
                   /\ d' = [k \in {<<"file">>} |-> Value(sent[n])]
      BY <2>1, <2>3, <2>6, S3Round
    <3>3. /\ AtCode(n)' /\ B(n)' = B(n) /\ C(n)' = C(n)
          /\ HasUrl(sent[n])' = HasUrl(sent[n])
      BY <2>1, <3>2, CodeNext, SameMessage
    <3> QED  BY <2>1, <3>1, <3>2, <3>3 DEF Where, AtValue, OnlyFile
  <2>7. CASE S4
    <3>1. CASE pc' = "S3" /\ \E n \in 1 .. Len(sent) :
                  /\ CodeStays(n) /\ t' = <<Name(sent[n])>>
                  /\ HasUrl(sent[n]) /\ j' = C(n) + 1
                  /\ d' = [k \in {<<"file">>} |-> Value(sent[n])]
      <4>1. PICK n \in 1 .. Len(sent) :
               /\ CodeStays(n) /\ t' = <<Name(sent[n])>>
               /\ HasUrl(sent[n]) /\ j' = C(n) + 1
               /\ d' = [k \in {<<"file">>} |-> Value(sent[n])]
        BY <3>1
      <4>2. /\ AtCode(n)' /\ C(n)' = C(n) /\ HasUrl(sent[n])' = HasUrl(sent[n])
        BY <2>1, <4>1, CodeNext, SameMessage
      <4> QED  BY <2>1, <3>1, <4>1, <4>2 DEF Where, AtKey, OnlyFile
    <3>2. CASE pc' = "S1" /\ \E n \in 1 .. Len(sent) :
                  j' = P(n) + 1 /\ Els' \in Seq(Shows) /\ Merged(Els') = Done(n)
      <4>1. PICK n \in 1 .. Len(sent) :
               j' = P(n) + 1 /\ Els' \in Seq(Shows) /\ Merged(Els') = Done(n)
        BY <3>2
      <4>2. AtText(n)'
        BY <2>1, <4>1, TextNext
      <4>3. n \in 0 .. Len(sent)
        BY <4>1
      <4> QED  BY <2>1, <3>2, <4>2, <4>3 DEF Where
    <3> QED  BY <2>1, <2>2, <2>3, <2>7, <3>1, <3>2, S4Round
  <2>8. CASE End
    <3>1. pc' = "done" /\ Els' \in Seq(Shows) /\ Merged(Els') = Done(Len(sent))
      BY <2>1, <2>3, <2>8, EndRound
    <3>2. Read(Len(sent))'
      <4>1. Done(Len(sent))' = Done(Len(sent))
        BY <2>1, SameMessage
      <4> QED  BY <2>1, <3>1, <4>1 DEF Read
    <3> QED  BY <3>1, <3>2 DEF Where
  <2> QED  BY <1>2, <2>4, <2>5, <2>6, <2>7, <2>8 DEF Next
<1> QED  BY <1>1, <1>2

LEMMA RoundIsTrip == RoundOK => RoundTrip
<1> SUFFICES ASSUME RoundOK, pc = "done", sent # NoMessage, ~refused
             PROVE  LET shown == Merged(FromForward([n \in DOMAIN sent |-> Back(sent[n])]))
                    IN /\ Merged([n \in DOMAIN r |-> r[n].element]) = shown
                       /\ Merged(ConvertObjectMessage(ToArrayMessage(sent))) = shown
  BY DEF RoundTrip
<1>1. Given /\ Merged(Els) = Done(Len(sent))
  BY DEF RoundOK, Where, Read
<1>2. Done(Len(sent)) = Merged(FromForward([n \in DOMAIN sent |-> Back(sent[n])]))
  BY <1>1, DoneIs DEF Given
<1>3. Merged(ConvertObjectMessage(ToArrayMessage(sent))) = Done(Len(sent))
  BY <1>1, DoneIs DEF Given
<1> QED  BY <1>1, <1>2, <1>3, Zenon DEF Els

\* A message that is shown as a string, and whose codes are accepted when it
\* comes back, has the texts, the forward message and the files of videos it
\* had, in their order, whatever its texts and URLs contain (the URLs themselves
\* are lost); in the other format it comes to the same (ToStringMessage,
\* ConvertStringMessage, ToArrayMessage, ConvertObjectMessage).
THEOREM RoundTrips == Spec => []RoundTrip
<1>1. IInv /\ RoundOK /\ [Next]_vars => RoundOK'
  BY RoundNext
<1> QED  BY <1>1, Invariance, RoundInit, RoundIsTrip, PTL DEF Spec
=============================================================================
