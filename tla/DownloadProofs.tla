--------------------------- MODULE DownloadProofs ---------------------------
(***************************************************************************)
(* The blocks of a download partition the resource, for any length, thread *)
(* count, threshold and number of callers; a call whose block size is not  *)
(* positive never gets as far as having blocks.                            *)
(***************************************************************************)
EXTENDS Download, TLAPS

BlockType ==
    [begin : Nat, end : Int, size : Nat, file : Inodes \cup {NoFile},
     state : {"new", "asking", "reading", "finished", "failed"},
     stream : BOOLEAN]

\* What is known of the blocks of c: the three parts of the partition, and what
\* makes them inductive, where each block and the next one begin.
PlanOK(c) ==
    /\ \A b, d \in blocks[c] : b # d => b.end < First(d) \/ d.end < First(b)
    /\ pc[c] \in {"plan", "run"} =>
          \A k \in 0 .. Reach(c) - 1 : \E b \in blocks[c] : First(b) <= k /\ k <= b.end
    /\ \A b \in blocks[c] : b.begin <= b.end + 1 /\ b.end < Reach(c)
    /\ \A b \in blocks[c] : b.size <= b.begin
    /\ pc[c] = "plan" => tmp[c] < length
    /\ pc[c] \notin {"plan", "run"} => tmp[c] = 0

IInv == TypeOK /\ \A c \in Callers : PlanOK(c)

\* A block has an integral size, and a byte at least where the loop plans it.
LEMMA BlockSizeType ==
    ASSUME TypeOK, NEW c \in Callers, pc[c] = "plan"
    PROVE  BlockSize(c) \in Int /\ (BlockSize(c) > 0 => BlockSize(c) \in Nat \ {0})
<1>1. length \in Nat /\ threads[c] \in Nat
  BY ConstantsAssumption DEF TypeOK
<1>2. threads[c] >= 2
  BY DEF TypeOK
<1>3. Slack \in Nat
  BY ConstantsAssumption
<1> DEFINE q == length \div threads[c]
<1>4. q \in Int
  BY <1>1, <1>2
<1>5. BlockSize(c) = q - Slack
  BY DEF BlockSize
<1> HIDE DEF q
<1> QED  BY <1>3, <1>4, <1>5

LEMMA LengthType == TypeOK => length \in Nat
BY ConstantsAssumption DEF TypeOK

LEMMA InitIInv == Init => IInv
BY ConstantsAssumption DEF Init, IInv, TypeOK, PlanOK

----------------------------------------------------------------------------
(* Types                                                                   *)

\* Whatever a block becomes, it remains a block.
LEMMA BecomesType ==
    ASSUME TypeOK, NEW c \in Callers, NEW b \in blocks[c], NEW d \in BlockType,
           pc[c] = "run", Becomes(c, b, d),
           UNCHANGED <<callVars, pc, tmp, result>>,
           path' \in Inodes \cup {NoFile}, data' \in [Inodes -> SUBSET Nat],
           unreported' \in [Callers -> BOOLEAN]
    PROVE  TypeOK'
BY DEF TypeOK, Becomes, BlockType, callVars

\* Opening gives an inode of the file system.
LEMMA OpenType ==
    ASSUME TypeOK, NEW n \in Inodes, Open(n)
    PROVE  path' \in Inodes \cup {NoFile} /\ data' \in [Inodes -> SUBSET Nat]
BY DEF TypeOK, Open, fileVars

LEMMA CallerTypes ==
    ASSUME TypeOK, NEW c \in Callers, Call(c) \/ Lookup(c) \/ Check(c) \/ Remove(c)
    PROVE  TypeOK'
<1>1. CASE Call(c)
  <2>1. want' \in [Callers -> {"download", "cached", "uncached"}]
    BY <1>1 DEF Call, TypeOK
  <2>2. pc' \in [Callers -> {"lookup", "check", "remove", "start", "plan", "run", "done"}]
        /\ pc'[c] \notin {"plan", "run"} /\ blocks[c] = {}
        /\ \A e \in Callers \ {c} : pc'[e] = pc[e]
    BY <1>1 DEF Call, TypeOK, Goto
  <2> QED  BY <1>1, <2>1, <2>2 DEF Call, TypeOK, fileVars
<1>2. CASE Lookup(c)
  BY <1>2 DEF Lookup, TypeOK, Goto, Return, callVars, fileVars
<1>3. CASE Check(c)
  BY <1>3 DEF Check, TypeOK, Goto, callVars, fileVars
<1>4. CASE Remove(c)
  BY <1>4 DEF Remove, TypeOK, Goto, Return, callVars, fileVars
<1> QED  BY <1>1, <1>2, <1>3, <1>4

LEMMA ProbeTypes ==
    ASSUME TypeOK, NEW c \in Callers,
           \/ ProbeFails(c) \/ ProbeSplits(c) \/ Finish(c)
           \/ \E n \in Inodes : SingleOpens(c, n) \/ ProbeStreams(c, n)
    PROVE  TypeOK'
<1>1. CASE ProbeFails(c)
  BY <1>1 DEF ProbeFails, TypeOK, Goto, Return, callVars, fileVars
<1>2. CASE ProbeSplits(c)
  BY <1>2 DEF ProbeSplits, TypeOK, Goto, callVars, fileVars
<1>3. CASE Finish(c)
  BY <1>3 DEF Finish, TypeOK, Goto, Return, callVars, fileVars
<1>4. ASSUME NEW n \in Inodes, SingleOpens(c, n) \/ ProbeStreams(c, n)
      PROVE  TypeOK'
  <2>1. \E st \in {"asking", "reading"} : Run(c, {Stream(n, st)})
    BY <1>4 DEF SingleOpens, ProbeStreams
  <2>2. path' \in Inodes \cup {NoFile} /\ data' \in [Inodes -> SUBSET Nat]
    BY <1>4, OpenType DEF SingleOpens, ProbeStreams
  <2>3. UNCHANGED <<callVars, tmp, result, unreported>>
    BY <1>4 DEF SingleOpens, ProbeStreams
  <2>4. \A st \in {"asking", "reading"} : Stream(n, st) \in BlockType
    BY LengthType DEF Stream, BlockType
  <2> QED  BY <2>1, <2>2, <2>3, <2>4 DEF TypeOK, Run, Goto, callVars, BlockType
<1> QED  BY <1>1, <1>2, <1>3, <1>4

LEMMA PlanTypes ==
    ASSUME TypeOK, NEW c \in Callers,
           PlanBlock(c) \/ PlanForEver(c) \/ PlanLast(c)
    PROVE  TypeOK'
<1>0. CASE PlanForEver(c)
  BY <1>0 DEF PlanForEver, TypeOK, vars
<1> SUFFICES ASSUME PlanBlock(c) \/ PlanLast(c) PROVE TypeOK'
  BY <1>0
<1>1. BlockSize(c) \in Nat /\ tmp[c] \in Nat /\ length \in Nat
  BY BlockSizeType, LengthType DEF PlanBlock, PlanLast, TypeOK
<1>2. Planned(c) \in BlockType /\ Last(c) \in BlockType
  BY <1>1 DEF Planned, Last, Block, BlockType
<1>3. CASE PlanBlock(c)
  BY <1>1, <1>2, <1>3 DEF PlanBlock, TypeOK, callVars, fileVars, BlockType
<1>4. CASE PlanLast(c)
  BY <1>1, <1>2, <1>4 DEF PlanLast, TypeOK, Goto, callVars, fileVars, BlockType
<1> QED  BY <1>3, <1>4

LEMMA BlockTypes ==
    ASSUME TypeOK, NEW c \in Callers, NEW b \in blocks[c],
           \/ BlockAnswered(c, b) \/ BlockReads(c, b) \/ BlockEnds(c, b)
           \/ BlockFails(c, b) \/ BlockFallsShort(c, b)
           \/ \E n \in Inodes : BlockOpens(c, b, n)
    PROVE  TypeOK'
<1>1. b \in BlockType
  BY DEF TypeOK, BlockType
<1>2. CASE BlockAnswered(c, b)
  <2>1. [b EXCEPT !.state = "reading"] \in BlockType
    BY <1>1 DEF BlockType
  <2> QED  BY <1>2, <2>1, BecomesType DEF BlockAnswered, InState, TypeOK, fileVars
<1>3. CASE BlockReads(c, b)
  <2>0. b.begin + 1 \in Nat /\ b.size + 1 \in Nat
    BY <1>1 DEF BlockType
  <2>1. [b EXCEPT !.begin = @ + 1, !.size = @ + 1] \in BlockType
    BY <1>1, <2>0, Zenon DEF BlockType
  <2>2. data' \in [Inodes -> SUBSET Nat]
    BY <1>1, <1>3 DEF BlockReads, TypeOK, BlockType
  <2> QED  BY <1>3, <2>1, <2>2, BecomesType DEF BlockReads, InState, TypeOK
<1>4. CASE BlockEnds(c, b)
  <2>1. [b EXCEPT !.state = "finished"] \in BlockType
    BY <1>1 DEF BlockType
  <2> QED  BY <1>4, <2>1, BecomesType DEF BlockEnds, InState, TypeOK, fileVars
<1>5. CASE BlockFails(c, b)
  <2>1. Failed(b) \in BlockType
    BY <1>1 DEF BlockType, Failed
  <2> QED  BY <1>5, <2>1, BecomesType DEF BlockFails, InState, TypeOK, fileVars
<1>6. CASE BlockFallsShort(c, b)
  <2>1. [b EXCEPT !.state = "finished"] \in BlockType
    BY <1>1 DEF BlockType
  <2>2. /\ data' \in [Inodes -> SUBSET Nat]
        /\ unreported' \in [Callers -> BOOLEAN]
    BY <1>6 DEF BlockFallsShort, TypeOK
  <2> QED  BY <1>6, <2>1, <2>2, BecomesType DEF BlockFallsShort, InState, TypeOK
<1>7. ASSUME NEW n \in Inodes, BlockOpens(c, b, n)
      PROVE  TypeOK'
  <2>1. [b EXCEPT !.file = n, !.state = "asking"] \in BlockType
    BY <1>1 DEF BlockType
  <2> QED  BY <1>7, <2>1, OpenType, BecomesType DEF BlockOpens, InState, TypeOK
<1> QED  BY <1>2, <1>3, <1>4, <1>5, <1>6, <1>7

LEMMA StepType == TypeOK /\ [Next]_vars => TypeOK'
<1> SUFFICES ASSUME TypeOK, [Next]_vars PROVE TypeOK'
  OBVIOUS
<1>1. CASE UNCHANGED vars
  BY <1>1 DEF TypeOK, vars
<1>2. ASSUME NEW c \in Callers, Call(c) \/ Advance(c)
      PROVE  TypeOK'
  BY <1>2, CallerTypes, ProbeTypes, PlanTypes, BlockTypes DEF Advance
<1> QED  BY <1>1, <1>2 DEF Next

----------------------------------------------------------------------------
(* The partition                                                           *)

\* A caller whose blocks, tmp and program counter stay keeps its partition.
LEMMA FramePlan ==
    ASSUME NEW c \in Callers, PlanOK(c),
           blocks'[c] = blocks[c], tmp'[c] = tmp[c], pc'[c] = pc[c],
           length' = length
    PROVE  PlanOK(c)'
BY DEF PlanOK, Reach, First

\* A caller that has no blocks and neither plans nor runs has nothing to keep.
LEMMA IdlePlan ==
    ASSUME NEW c \in Callers,
           blocks'[c] = {}, tmp'[c] = 0, pc'[c] \notin {"plan", "run"}
    PROVE  PlanOK(c)'
BY DEF PlanOK

\* Nor has one that starts to plan a resource that is not empty.
LEMMA StartPlan ==
    ASSUME NEW c \in Callers, length \in Nat \ {0}, length' = length,
           blocks'[c] = {}, tmp'[c] = 0, pc'[c] = "plan"
    PROVE  PlanOK(c)'
BY DEF PlanOK, Reach

\* A single stream covers the resource.
LEMMA StreamPlan ==
    ASSUME NEW c \in Callers, NEW n, NEW st, length \in Nat, length' = length,
           blocks'[c] = {Stream(n, st)}, tmp'[c] = 0, pc'[c] = "run"
    PROVE  PlanOK(c)'
<1> DEFINE b == Stream(n, st)
<1>1. b.begin = 0 /\ b.end = length - 1 /\ b.size = 0
  BY DEF Stream
<1>2. blocks'[c] = {b}
  OBVIOUS
<1>3. Reach(c)' = length
  BY DEF Reach
<1> HIDE DEF b
<1>4. First(b) = 0
  BY <1>1 DEF First
<1>5. \A k \in 0 .. length - 1 : \E e \in blocks'[c] : First(e) <= k /\ k <= e.end
  BY <1>1, <1>2, <1>4
<1>6. \A e \in blocks'[c] : /\ e.begin <= e.end + 1 /\ e.end < length
                             /\ e.size <= e.begin
  <2>1. b.begin <= b.end + 1 /\ b.end < length /\ b.size <= b.begin
    BY <1>1
  <2> QED  BY <1>2, <2>1, Zenon
<1>7. \A e, f \in blocks'[c] : e = f
  BY <1>2
<1>8. (\A k \in 0 .. Reach(c) - 1 : \E e \in blocks[c] : First(e) <= k /\ k <= e.end)'
  BY <1>3, <1>5 DEF First
<1>9. (\A e \in blocks[c] : /\ e.begin <= e.end + 1 /\ e.end < Reach(c)
                            /\ e.size <= e.begin)'
  BY <1>3, <1>6
<1> QED  BY <1>7, <1>8, <1>9 DEF PlanOK

\* A block that moves on, from the same first byte to the same end.
LEMMA BecomesPlan ==
    ASSUME NEW c \in Callers, TypeOK, PlanOK(c), NEW b \in blocks[c], NEW d,
           d.begin \in Nat, d.size \in Nat, d.end = b.end, First(d) = First(b),
           d.size <= d.begin, d.begin <= d.end + 1,
           blocks'[c] = (blocks[c] \ {b}) \cup {d},
           tmp'[c] = tmp[c], pc[c] = "run", pc'[c] = pc[c], length' = length
    PROVE  PlanOK(c)'
<1>1. Reach(c)' = Reach(c)
  BY DEF Reach
<1>2. ASSUME NEW e \in blocks'[c], NEW f \in blocks'[c], e # f
      PROVE  e.end < First(f) \/ f.end < First(e)
  BY <1>2 DEF PlanOK
<1>3. ASSUME NEW k \in 0 .. Reach(c) - 1
      PROVE  \E e \in blocks'[c] : First(e) <= k /\ k <= e.end
  <2>1. PICK e \in blocks[c] : First(e) <= k /\ k <= e.end
    BY <1>3 DEF PlanOK
  <2>2. CASE e = b
    BY <2>1, <2>2
  <2>3. CASE e # b
    BY <2>1, <2>3
  <2> QED  BY <2>2, <2>3
<1>4. ASSUME NEW e \in blocks'[c]
      PROVE  e.begin <= e.end + 1 /\ e.end < Reach(c) /\ e.size <= e.begin
  BY <1>4 DEF PlanOK
<1>5. (\A e, f \in blocks[c] : e # f => e.end < First(f) \/ f.end < First(e))'
  BY <1>2 DEF First
<1> QED  BY <1>1, <1>3, <1>4, <1>5 DEF PlanOK, First

\* The next block begins where the last one ends, and may be the last.
LEMMA NextPlan ==
    ASSUME NEW c \in Callers, TypeOK, PlanOK(c), pc[c] = "plan", length' = length,
           NEW d, d.begin = tmp[c], d.size = 0, d.end \in Int,
           d.begin <= d.end + 1,
           blocks'[c] = blocks[c] \cup {d},
           \/ /\ pc'[c] = "plan" /\ tmp'[c] = d.end + 1 /\ tmp'[c] < length
           \/ /\ pc'[c] = "run" /\ d.end = length - 1
    PROVE  PlanOK(c)'
<1>1. tmp[c] \in Nat /\ length \in Nat /\ Reach(c) = tmp[c]
  BY LengthType DEF TypeOK, Reach
<1>2. Reach(c)' = d.end + 1
  BY <1>1 DEF Reach
<1>3. First(d) = tmp[c]
  BY <1>1 DEF First
<1>4. ASSUME NEW e \in blocks[c] PROVE e.end \in Int /\ e.end < First(d) /\ e.end < d.end + 1
  BY <1>1, <1>3 DEF PlanOK, TypeOK
<1>5. ASSUME NEW e \in blocks'[c], NEW f \in blocks'[c], e # f
      PROVE  e.end < First(f) \/ f.end < First(e)
  BY <1>4, <1>5 DEF PlanOK
<1>6. ASSUME NEW k \in 0 .. d.end
      PROVE  \E e \in blocks'[c] : First(e) <= k /\ k <= e.end
  <2>1. CASE k < tmp[c]
    <3>1. PICK e \in blocks[c] : First(e) <= k /\ k <= e.end
      BY <1>1, <1>6, <2>1 DEF PlanOK
    <3> QED  BY <3>1
  <2>2. CASE ~(k < tmp[c])
    BY <1>1, <1>3, <1>6, <2>2
  <2> QED  BY <2>1, <2>2
<1>7. ASSUME NEW e \in blocks'[c]
      PROVE  e.begin <= e.end + 1 /\ e.end < d.end + 1 /\ e.size <= e.begin
  BY <1>1, <1>4, <1>7 DEF PlanOK
<1>8. (\A e, f \in blocks[c] : e # f => e.end < First(f) \/ f.end < First(e))'
  BY <1>5 DEF First
<1> QED  BY <1>1, <1>2, <1>6, <1>7, <1>8 DEF PlanOK, First

\* A step of one caller keeps the partitions of the others.
LEMMA OthersPlan ==
    ASSUME IInv, NEW c \in Callers, Call(c) \/ Advance(c),
           NEW e \in Callers, e # c
    PROVE  PlanOK(e)'
<1>1. /\ blocks'[e] = blocks[e] /\ tmp'[e] = tmp[e] /\ pc'[e] = pc[e]
      /\ length' = length
  <2>1. CASE \/ Call(c) \/ Lookup(c) \/ Check(c) \/ Remove(c) \/ ProbeFails(c)
             \/ ProbeSplits(c) \/ PlanBlock(c) \/ PlanForEver(c) \/ PlanLast(c)
             \/ Finish(c)
    BY <2>1 DEF IInv, TypeOK, Call, Lookup, Check, Remove, ProbeFails, ProbeSplits,
                PlanBlock, PlanForEver, PlanLast, Finish, Goto, Return, callVars, vars
  <2>2. CASE \E n \in Inodes : SingleOpens(c, n) \/ ProbeStreams(c, n)
    BY <2>2 DEF IInv, TypeOK, SingleOpens, ProbeStreams, Run, Goto, callVars
  <2>3. CASE \E b \in blocks[c] :
                \/ BlockAnswered(c, b) \/ BlockReads(c, b) \/ BlockEnds(c, b)
                \/ BlockFails(c, b) \/ BlockFallsShort(c, b)
                \/ \E n \in Inodes : BlockOpens(c, b, n)
    BY <2>3 DEF IInv, TypeOK, BlockAnswered, BlockReads, BlockEnds, BlockFails,
                BlockFallsShort, BlockOpens, Becomes, callVars
  <2> QED  BY <2>1, <2>2, <2>3 DEF Advance
<1> QED  BY <1>1, FramePlan DEF IInv

\* A step of a caller keeps its own.
LEMMA OwnPlan ==
    ASSUME IInv, NEW c \in Callers, Call(c) \/ Advance(c)
    PROVE  PlanOK(c)'
<1> USE DEF IInv
<1>0. length \in Nat
  BY LengthType
<1>1. CASE Call(c)
  BY <1>1, IdlePlan DEF Call, TypeOK, PlanOK, Goto
<1>2. CASE Lookup(c) \/ Check(c) \/ Remove(c) \/ ProbeFails(c) \/ Finish(c)
  <2>1. pc[c] = "run" \/ (blocks[c] = {} /\ tmp[c] = 0)
    BY <1>2 DEF Lookup, Check, Remove, ProbeFails, Finish, TypeOK, PlanOK
  <2>2. blocks'[c] = {} /\ tmp'[c] = 0 /\ pc'[c] \notin {"plan", "run"}
    BY <1>2, <2>1 DEF Lookup, Check, Remove, ProbeFails, Finish, Goto, Return, TypeOK
  <2> QED  BY <2>2, IdlePlan
<1>3. CASE ProbeSplits(c)
  <2>1. length \in Nat \ {0}
    BY <1>0, <1>3, ConstantsAssumption DEF ProbeSplits
  <2>2. /\ blocks'[c] = {} /\ tmp'[c] = 0 /\ pc'[c] = "plan" /\ length' = length
    BY <1>3 DEF ProbeSplits, TypeOK, PlanOK, Goto, callVars
  <2> QED  BY <2>1, <2>2, StartPlan
<1>4. ASSUME NEW n \in Inodes, SingleOpens(c, n) \/ ProbeStreams(c, n)
      PROVE  PlanOK(c)'
  <2>1. tmp'[c] = 0 /\ pc'[c] = "run" /\ length' = length
    BY <1>4 DEF SingleOpens, ProbeStreams, Run, TypeOK, PlanOK, Goto, callVars
  <2>2. \E st : blocks'[c] = {Stream(n, st)}
    BY <1>4 DEF SingleOpens, ProbeStreams, Run, TypeOK
  <2> QED  BY <1>0, <2>1, <2>2, StreamPlan
<1>5. CASE PlanBlock(c)
  <2>1. BlockSize(c) \in Nat \ {0} /\ tmp[c] \in Nat
    BY <1>5, BlockSizeType DEF PlanBlock, TypeOK
  <2> DEFINE d == Planned(c)
  <2>2. d.begin = tmp[c] /\ d.size = 0 /\ d.end = tmp[c] + BlockSize(c) - 1
    BY DEF Planned, Block
  <2>3. blocks'[c] = blocks[c] \cup {d}
    BY <1>5 DEF PlanBlock, TypeOK
  <2>4. /\ pc'[c] = "plan" /\ pc[c] = "plan" /\ length' = length
        /\ tmp'[c] = tmp[c] + BlockSize(c) /\ tmp[c] + BlockSize(c) < length
    BY <1>5 DEF PlanBlock, TypeOK, callVars
  <2> HIDE DEF d
  <2> QED  BY <1>0, <2>1, <2>2, <2>3, <2>4, NextPlan
<1>6. CASE PlanLast(c)
  <2> DEFINE d == Last(c)
  <2>1. d.begin = tmp[c] /\ d.size = 0 /\ d.end = length - 1
    BY DEF Last, Block
  <2>2. blocks'[c] = blocks[c] \cup {d}
    BY <1>6 DEF PlanLast, TypeOK
  <2>3. /\ pc'[c] = "run" /\ pc[c] = "plan" /\ length' = length
        /\ tmp[c] < length /\ tmp[c] \in Nat
    BY <1>6 DEF PlanLast, TypeOK, PlanOK, Goto, callVars
  <2> HIDE DEF d
  <2> QED  BY <1>0, <2>1, <2>2, <2>3, NextPlan
<1>7. ASSUME NEW b \in blocks[c],
             \/ BlockAnswered(c, b) \/ BlockReads(c, b) \/ BlockEnds(c, b)
             \/ BlockFails(c, b) \/ BlockFallsShort(c, b)
             \/ \E n \in Inodes : BlockOpens(c, b, n)
      PROVE  PlanOK(c)'
  <2>1. b \in BlockType /\ b.size <= b.begin /\ b.begin <= b.end + 1
    BY DEF TypeOK, PlanOK, BlockType
  <2>2. /\ pc[c] = "run" /\ pc'[c] = pc[c] /\ tmp'[c] = tmp[c] /\ length' = length
    BY <1>7 DEF BlockAnswered, BlockReads, BlockEnds, BlockFails, BlockFallsShort,
                BlockOpens, InState, callVars
  <2>3. PICK d \in BlockType :
           /\ Becomes(c, b, d)
           /\ \/ d.begin = b.begin /\ d.size = b.size
              \/ /\ b.begin <= b.end
                 /\ d.begin = b.begin + 1 /\ d.size = b.size + 1
           /\ d.end = b.end
    <3> DEFINE Moves(d) ==
           /\ Becomes(c, b, d)
           /\ \/ d.begin = b.begin /\ d.size = b.size
              \/ /\ b.begin <= b.end
                 /\ d.begin = b.begin + 1 /\ d.size = b.size + 1
           /\ d.end = b.end
    <3>1. CASE BlockAnswered(c, b) \/ BlockEnds(c, b) \/ BlockFails(c, b)
               \/ BlockFallsShort(c, b)
      <4>1. PICK st \in {"reading", "finished", "failed"} :
               Becomes(c, b, [b EXCEPT !.state = st])
        BY <3>1 DEF BlockAnswered, BlockEnds, BlockFails, BlockFallsShort, Failed
      <4> DEFINE d == [b EXCEPT !.state = st]
      <4>2. d \in BlockType /\ d.begin = b.begin /\ d.size = b.size /\ d.end = b.end
        BY <2>1 DEF BlockType
      <4> QED  BY <4>1, <4>2
    <3>2. CASE BlockReads(c, b)
      <4> DEFINE d == [b EXCEPT !.begin = @ + 1, !.size = @ + 1]
      <4>1. b.begin + 1 \in Nat /\ b.size + 1 \in Nat
        BY <2>1 DEF BlockType
      <4>2. d \in BlockType
        BY <2>1, <4>1, Zenon DEF BlockType
      <4>3. d.begin = b.begin + 1 /\ d.size = b.size + 1 /\ d.end = b.end
        BY <2>1 DEF BlockType
      <4>4. Becomes(c, b, d) /\ b.begin <= b.end
        BY <3>2 DEF BlockReads
      <4> QED  BY <4>2, <4>3, <4>4
    <3>3. ASSUME NEW n \in Inodes, BlockOpens(c, b, n)
          PROVE  \E d \in BlockType : Moves(d)
      <4> DEFINE d == [b EXCEPT !.file = n, !.state = "asking"]
      <4>1. d \in BlockType /\ d.begin = b.begin /\ d.size = b.size /\ d.end = b.end
        BY <2>1 DEF BlockType
      <4>2. Becomes(c, b, d)
        BY <3>3 DEF BlockOpens
      <4> QED  BY <4>1, <4>2
    <3> QED  BY <1>7, <3>1, <3>2, <3>3
  <2>4. blocks'[c] = (blocks[c] \ {b}) \cup {d}
    BY <2>3 DEF Becomes, TypeOK
  <2>5. /\ d.begin \in Nat /\ d.size \in Nat /\ First(d) = First(b)
        /\ d.size <= d.begin /\ d.begin <= d.end + 1
    BY <2>1, <2>3 DEF BlockType, First
  <2> QED  BY <2>2, <2>3, <2>4, <2>5, BecomesPlan
<1>8. CASE PlanForEver(c)
  BY <1>8, FramePlan DEF PlanForEver, vars
<1> QED  BY <1>1, <1>2, <1>3, <1>4, <1>5, <1>6, <1>7, <1>8 DEF Advance

LEMMA StepIInv == IInv /\ [Next]_vars => IInv'
<1> SUFFICES ASSUME IInv, [Next]_vars PROVE IInv'
  OBVIOUS
<1>1. TypeOK'
  BY StepType DEF IInv
<1>2. ASSUME NEW e \in Callers PROVE PlanOK(e)'
  <2>1. CASE UNCHANGED vars
    BY <2>1, FramePlan DEF IInv, vars
  <2>2. ASSUME NEW c \in Callers, Call(c) \/ Advance(c)
        PROVE  PlanOK(e)'
    BY <2>2, OwnPlan, OthersPlan
  <2> QED  BY <2>1, <2>2 DEF Next
<1> QED  BY <1>1, <1>2 DEF IInv

THEOREM Invariance == Spec => []IInv
BY InitIInv, StepIInv, PTL DEF Spec

\* Every variable of a download keeps its type.
THEOREM TypeCorrect == Spec => []TypeOK
<1>1. IInv => TypeOK
  BY DEF IInv
<1> QED  BY <1>1, Invariance, PTL

\* No two goroutines of downloadBlock write the same byte of the file.
THEOREM BlocksNeverOverlap == Spec => []BlocksDisjoint
<1>1. IInv => BlocksDisjoint
  BY DEF IInv, PlanOK, BlocksDisjoint
<1> QED  BY <1>1, Invariance, PTL

\* The loop that cuts the resource leaves no byte of it out.
THEOREM BlocksLeaveNothingOut == Spec => []BlocksCover
<1>1. IInv => BlocksCover
  BY DEF IInv, PlanOK, BlocksCover
<1> QED  BY <1>1, Invariance, PTL

\* No goroutine writes beyond its block or the resource.
THEOREM BlocksStayInside == Spec => []BlocksInside
<1>1. IInv => BlocksInside
  BY DEF IInv, PlanOK, BlocksInside
<1> QED  BY <1>1, Invariance, PTL

----------------------------------------------------------------------------
(* What a call leaves in the file, while calls do not overlap              *)

\* At most one call is in progress.
NoOverlap == \A c, d \in Callers : pc[c] # "done" /\ pc[d] # "done" => c = d

\* A block that has begun has the file at the path open and has written there
\* whatever it has read.
BlockOK(b) ==
    /\ b.state = "new" => b.size = 0
    /\ b.state # "new" =>
          /\ path # NoFile /\ b.file = path
          /\ \A k \in Nat : First(b) <= k /\ k < b.begin => k \in data[path]
    /\ b.state = "finished" => b.end < b.begin

\* A call removes the file before it makes its own.
FileOK(c) ==
    /\ pc[c] \in {"start", "plan"} => path = NoFile
    /\ pc[c] = "plan" => \A b \in blocks[c] : b.state = "new" /\ b.size = 0
    /\ pc[c] = "run" => blocks[c] # {}
    /\ pc[c] = "run" /\ ~unreported[c] => \A b \in blocks[c] : BlockOK(b)

\* A block that did not move is as good as before when the file has no less.
LEMMA KeptBlock ==
    ASSUME NEW b \in BlockType, BlockOK(b),
           b.state # "new" => path' = path /\ data[path] \subseteq data'[path]
    PROVE  BlockOK(b)'
BY DEF BlockOK, First

\* Opening leaves the blocks that have the file open what they have written.
LEMMA OpenedBlocks ==
    ASSUME TypeOK, NEW c \in Callers, \A b \in blocks[c] : BlockOK(b),
           NEW n \in Inodes, Open(n)
    PROVE  /\ path' = n /\ n # NoFile
           /\ \A b \in blocks[c] : BlockOK(b)'
<1>1. path' = n /\ n # NoFile
  BY ConstantsAssumption DEF Open, fileVars
<1>2. ASSUME NEW b \in blocks[c] PROVE BlockOK(b)'
  <2>1. b \in BlockType /\ BlockOK(b)
    BY DEF TypeOK, BlockType
  <2>2. b.state # "new" => path' = path /\ data[path] \subseteq data'[path]
    BY <2>1 DEF BlockOK, Open, fileVars
  <2> QED  BY <2>1, <2>2, KeptBlock
<1> QED  BY <1>1, <1>2

LEMMA InitFile == Init => \A c \in Callers : FileOK(c)
BY DEF Init, FileOK

\* A caller that is about to begin, or done, has nothing to keep.
LEMMA IdleFile ==
    ASSUME NEW c \in Callers, pc'[c] \notin {"start", "plan", "run"}
    PROVE  FileOK(c)'
BY DEF FileOK

\* A step of the call in progress.
LEMMA OwnFile ==
    ASSUME IInv, NEW c \in Callers, FileOK(c), Advance(c)
    PROVE  FileOK(c)'
<1> USE DEF IInv, TypeOK, Goto, InState
<1>1. CASE Lookup(c) \/ ProbeFails(c) \/ Finish(c)
  BY <1>1, IdleFile DEF Lookup, ProbeFails, Finish, Return
<1>2. CASE Check(c)
  BY <1>2 DEF Check, FileOK, fileVars
<1>3. CASE Remove(c)
  BY <1>3 DEF Remove, Return, FileOK
<1>4. CASE ProbeSplits(c)
  BY <1>4 DEF ProbeSplits, FileOK, fileVars
<1>5. CASE PlanBlock(c) \/ PlanLast(c)
  <2>1. PICK d : /\ d.state = "new" /\ d.size = 0
                 /\ blocks'[c] = blocks[c] \cup {d}
    BY <1>5 DEF PlanBlock, PlanLast, Planned, Last, Block
  <2>2. /\ pc[c] = "plan" /\ pc'[c] \in {"plan", "run"}
        /\ UNCHANGED <<path, data, unreported>>
    BY <1>5 DEF PlanBlock, PlanLast, fileVars
  <2> QED  BY <2>1, <2>2 DEF FileOK, BlockOK
<1>6. ASSUME NEW n \in Inodes, SingleOpens(c, n) \/ ProbeStreams(c, n)
      PROVE  FileOK(c)'
  <2>1. PICK b : /\ b.begin = 0 /\ b.size = 0 /\ b.file = n
                 /\ b.state \in {"asking", "reading"}
                 /\ blocks'[c] = {b} /\ pc'[c] = "run"
    BY <1>6 DEF SingleOpens, ProbeStreams, Run, Stream
  <2>2. path' = n /\ n # NoFile
    BY <1>6, ConstantsAssumption DEF SingleOpens, ProbeStreams, Open, fileVars
  <2>3. BlockOK(b)'
    BY <2>1, <2>2 DEF BlockOK, First
  <2> QED  BY <2>1, <2>3 DEF FileOK
<1>7. ASSUME NEW b \in blocks[c], NEW n \in Inodes, BlockOpens(c, b, n)
      PROVE  FileOK(c)'
  <2> SUFFICES ASSUME ~unreported[c]
               PROVE  \A e \in blocks'[c] : BlockOK(e)'
    <3>1. pc'[c] = "run" /\ unreported' = unreported /\ blocks'[c] # {}
      BY <1>7 DEF BlockOpens, Becomes
    <3> QED  BY <3>1 DEF FileOK
  <2> DEFINE d == [b EXCEPT !.file = n, !.state = "asking"]
  <2>1. b.state = "new" /\ blocks'[c] = (blocks[c] \ {b}) \cup {d} /\ Open(n)
    BY <1>7 DEF BlockOpens, Becomes
  <2>2. \A e \in blocks[c] : BlockOK(e)
    BY <1>7 DEF BlockOpens, FileOK
  <2>3. path' = n /\ n # NoFile /\ \A e \in blocks[c] : BlockOK(e)'
    BY <2>1, <2>2, OpenedBlocks
  <2>4. b \in BlockType /\ b.size = 0
    BY <2>1, <2>2 DEF BlockType, BlockOK
  <2>5. d.begin = b.begin /\ d.size = 0 /\ d.file = n /\ d.state = "asking"
    BY <2>4 DEF BlockType
  <2>6. b.begin \in Nat
    BY <2>4 DEF BlockType
  <2> HIDE DEF d
  <2>7. BlockOK(d)'
    BY <2>3, <2>5, <2>6 DEF BlockOK, First
  <2> QED  BY <2>1, <2>3, <2>7
<1>8. ASSUME NEW b \in blocks[c], BlockFallsShort(c, b) PROVE FileOK(c)'
  BY <1>8 DEF BlockFallsShort, Becomes, FileOK
<1>9. ASSUME NEW b \in blocks[c],
             \/ BlockAnswered(c, b) \/ BlockEnds(c, b) \/ BlockFails(c, b)
             \/ BlockReads(c, b)
      PROVE  FileOK(c)'
  <2>1. /\ pc[c] = "run" /\ pc' = pc /\ unreported' = unreported /\ path' = path
        /\ b.state \in {"asking", "reading"}
    BY <1>9 DEF BlockAnswered, BlockReads, BlockEnds, BlockFails, fileVars
  <2> SUFFICES ASSUME ~unreported[c], \A e \in blocks[c] : BlockOK(e)
               PROVE  \A e \in blocks'[c] : BlockOK(e)'
    <3>1. blocks'[c] # {}
      <4>1. \E d : Becomes(c, b, d)
        BY <1>9 DEF BlockAnswered, BlockReads, BlockEnds, BlockFails
      <4> QED  BY <4>1 DEF Becomes
    <3>2. ~unreported[c] => \A e \in blocks[c] : BlockOK(e)
      BY <2>1 DEF FileOK
    <3> QED  BY <2>1, <3>1, <3>2 DEF FileOK
  <2>2. b \in BlockType /\ path \in Inodes /\ b.file = path /\ PlanOK(c)
    BY <2>1 DEF BlockType, BlockOK
  <2>3. /\ b.begin \in Nat /\ b.size \in Nat /\ b.end \in Int
        /\ \A k \in Nat : First(b) <= k /\ k < b.begin => k \in data[path]
    BY <2>1, <2>2 DEF BlockType, BlockOK
  <2>4. PICK d : /\ blocks'[c] = (blocks[c] \ {b}) \cup {d}
                 /\ d.file = b.file /\ d.end = b.end /\ d.state # "new"
                 /\ \/ /\ d.begin = b.begin /\ d.size = b.size /\ data' = data
                       /\ d.state = "finished" => b.end < b.begin
                    \/ /\ d.begin = b.begin + 1 /\ d.size = b.size + 1
                       /\ d.state = "reading"
                       /\ data' = [data EXCEPT ![path] = @ \cup {b.begin}]
    <3>1. CASE BlockAnswered(c, b) \/ BlockEnds(c, b) \/ BlockFails(c, b)
      <4>1. PICK st \in {"reading", "finished", "failed"} :
               /\ Becomes(c, b, [b EXCEPT !.state = st])
               /\ st = "finished" => b.end < b.begin
        BY <2>3, <3>1 DEF BlockAnswered, BlockEnds, BlockFails, Failed
      <4> DEFINE d == [b EXCEPT !.state = st]
      <4>2. /\ d.begin = b.begin /\ d.size = b.size /\ d.end = b.end
            /\ d.file = b.file /\ d.state = st
        BY <2>2 DEF BlockType
      <4>3. data' = data /\ blocks'[c] = (blocks[c] \ {b}) \cup {d}
        BY <3>1, <4>1 DEF BlockAnswered, BlockEnds, BlockFails, Becomes, fileVars
      <4> HIDE DEF d
      <4> QED  BY <4>1, <4>2, <4>3
    <3>2. CASE BlockReads(c, b)
      <4> DEFINE d == [b EXCEPT !.begin = @ + 1, !.size = @ + 1]
      <4>1. /\ d.begin = b.begin + 1 /\ d.size = b.size + 1 /\ d.end = b.end
            /\ d.file = b.file /\ d.state = b.state
        BY <2>2 DEF BlockType
      <4>2. /\ data' = [data EXCEPT ![path] = @ \cup {b.begin}]
            /\ blocks'[c] = (blocks[c] \ {b}) \cup {d} /\ b.state = "reading"
        BY <2>2, <3>2 DEF BlockReads, Becomes
      <4> HIDE DEF d
      <4> QED  BY <4>1, <4>2
    <3> QED  BY <1>9, <3>1, <3>2
  <2>5. data[path] \subseteq data'[path]
    BY <2>2, <2>4
  <2>6. ASSUME NEW e \in blocks[c] PROVE BlockOK(e)'
    <3>1. e \in BlockType
      BY DEF BlockType
    <3> QED  BY <2>1, <2>5, <3>1, KeptBlock
  <2>7. BlockOK(d)'
    <3>1. ASSUME NEW k \in Nat, First(d) <= k, k < d.begin PROVE k \in data'[path]
      <4>1. First(d) = First(b)
        BY <2>3, <2>4 DEF First
      <4> QED  BY <2>2, <2>3, <2>4, <2>5, <3>1, <4>1
    <3>2. d.state = "finished" => d.end < d.begin
      BY <2>4
    <3> QED  BY <2>1, <2>2, <2>4, <3>1, <3>2 DEF BlockOK, First
  <2> QED  BY <2>4, <2>6, <2>7
<1>10. CASE PlanForEver(c)
  BY <1>10 DEF PlanForEver, vars, FileOK, BlockOK
<1> QED  BY <1>1, <1>2, <1>3, <1>4, <1>5, <1>6, <1>7, <1>8, <1>9, <1>10 DEF Advance

LEMMA StepFile ==
    ASSUME IInv, NoOverlap, \A c \in Callers : FileOK(c), [Next]_vars
    PROVE  \A c \in Callers : FileOK(c)'
<1> SUFFICES ASSUME NEW e \in Callers PROVE FileOK(e)'
  OBVIOUS
<1>1. CASE UNCHANGED vars
  BY <1>1 DEF vars, FileOK, BlockOK
<1>2. ASSUME NEW c \in Callers, Call(c) PROVE FileOK(e)'
  <2>1. pc'[c] \in {"lookup", "check"} /\ UNCHANGED <<path, data, blocks>>
    BY <1>2 DEF Call, Goto, IInv, TypeOK, fileVars
  <2>2. CASE e = c
    BY <2>1, <2>2, IdleFile
  <2>3. CASE e # c
    BY <1>2, <2>1, <2>3 DEF Call, Goto, IInv, TypeOK, FileOK, BlockOK
  <2> QED  BY <2>2, <2>3
<1>3. ASSUME NEW c \in Callers, Advance(c) PROVE FileOK(e)'
  <2>1. CASE e = c
    BY <1>3, <2>1, OwnFile
  <2>2. CASE e # c
    <3>1. pc[c] # "done"
      BY <1>3 DEF Advance, Lookup, Check, Remove, ProbeFails, ProbeSplits,
             PlanBlock, PlanForEver, vars,
             PlanLast, Finish, SingleOpens, ProbeStreams, BlockAnswered, BlockReads,
             BlockEnds, BlockFails, BlockFallsShort, BlockOpens, InState
    <3>2. pc[e] = "done"
      BY <2>2, <3>1 DEF NoOverlap
    <3>3. pc'[e] = pc[e]
      BY <1>3, <2>2 DEF Advance, Lookup, Check, Remove, ProbeFails, ProbeSplits,
             PlanBlock, PlanForEver, vars, PlanLast, Finish, SingleOpens,
             ProbeStreams, BlockAnswered,
             BlockReads, BlockEnds, BlockFails, BlockFallsShort, BlockOpens, Goto,
             Return, Run, IInv, TypeOK
    <3> QED  BY <3>2, <3>3, IdleFile
  <2> QED  BY <2>1, <2>2
<1> QED  BY <1>1, <1>2, <1>3 DEF Next

\* While calls for one path do not overlap, a call that answers "ok" has left
\* the whole resource there, unless a fault nobody reports has hit it.
THEOREM OkIsComplete == Spec /\ []NoOverlap => DownloadedIsComplete
<1> DEFINE AllFiles == \A c \in Callers : FileOK(c)
           Complete == \A c \in Callers :
               pc[c] # "done" /\ pc'[c] = "done" /\ result'[c] = "ok"
                  /\ ~unreported'[c]
               => path' # NoFile /\ Offsets \subseteq data'[path']
<1>1. ASSUME IInv, AllFiles, [Next]_vars, NEW c \in Callers,
             pc[c] # "done", pc'[c] = "done", result'[c] = "ok", ~unreported'[c]
      PROVE  path' # NoFile /\ Offsets \subseteq data'[path']
  <2> USE <1>1 DEF IInv, TypeOK, Goto
  <2>1. Finish(c)
    <3>1. PICK e \in Callers : Call(e) \/ Advance(e)
      BY DEF Next, vars
    <3>2. CASE Call(e) \/ e # c
      <4>1. pc'[c] = pc[c] \/ pc'[c] \in {"lookup", "check"}
        BY <3>1, <3>2 DEF Call, Advance, Lookup, Check, Remove, ProbeFails,
               ProbeSplits, PlanBlock, PlanForEver, vars, PlanLast, Finish,
               SingleOpens, ProbeStreams,
               BlockAnswered, BlockReads, BlockEnds, BlockFails, BlockFallsShort,
               BlockOpens, Return, Run
      <4> QED  BY <4>1
    <3>3. CASE Advance(c)
      BY <3>3 DEF Advance, Lookup, Check, Remove, ProbeFails, ProbeSplits,
             PlanBlock, PlanForEver, vars,
             PlanLast, SingleOpens, ProbeStreams, BlockAnswered, BlockReads,
             BlockEnds, BlockFails, BlockFallsShort, BlockOpens, Return, Run
    <3> QED  BY <3>1, <3>2, <3>3
  <2>2. /\ pc[c] = "run" /\ UNCHANGED <<path, data, unreported>>
        /\ \A b \in blocks[c] : b.state = "finished"
    BY <2>1 DEF Finish, Return, Over, fileVars
  <2>3. blocks[c] # {} /\ \A b \in blocks[c] : BlockOK(b)
    BY <2>2 DEF FileOK
  <2>4. path # NoFile
    BY <2>2, <2>3 DEF BlockOK
  <2>5. ASSUME NEW k \in 0 .. length - 1 PROVE k \in data[path]
    <3>1. PICK b \in blocks[c] : First(b) <= k /\ k <= b.end
      BY <2>2, <2>5 DEF PlanOK, Reach
    <3>2. b.end < b.begin /\ b.begin \in Nat /\ b.end \in Int
      BY <2>2, <2>3 DEF BlockOK
    <3>3. k \in Nat /\ k < b.begin
      BY <3>1, <3>2, LengthType
    <3> QED  BY <2>2, <2>3, <3>1, <3>3 DEF BlockOK
  <2> QED  BY <2>2, <2>4, <2>5 DEF Offsets
<1>2. IInv /\ AllFiles /\ [Next]_vars => Complete
  BY <1>1
<1>3. IInv /\ NoOverlap /\ AllFiles /\ [Next]_vars => AllFiles'
  BY StepFile
<1>4. Init => AllFiles
  BY InitFile
<1> HIDE DEF AllFiles
<1> QED  BY <1>2, <1>3, <1>4, Invariance, PTL DEF Spec, DownloadedIsComplete
=============================================================================
