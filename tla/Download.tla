------------------------------ MODULE Download ------------------------------
(***************************************************************************)
(* Downloading a URL into the cache directory: DownloadFile and            *)
(* DownloadFileMultiThreading (global/net.go), called by CQDownloadFile    *)
(* (coolq/api.go) and makeImageOrVideoElem (coolq/cqcode.go).  All callers *)
(* considered ask for the same URL, so they share one cache path.          *)
(*                                                                         *)
(* A file is an inode with the set of offsets that hold the right byte.    *)
(* Removing the path leaves its inode to whoever has it open.              *)
(*                                                                         *)
(* A definition marked "Mutation" is no part of the model: it is a faulty  *)
(* version of the definition after it, which a property must reject.       *)
(***************************************************************************)
EXTENDS Integers

CONSTANTS
    Callers,        \* goroutines that serve a request for the URL
    Lengths,        \* the lengths considered for the resource (a bound)
    ThreadCounts,   \* the values considered for thread_count (a bound)
    Threshold,      \* 1024*1024: nothing shorter is cut into blocks
    Slack,          \* 10: subtracted from contentLength / threadCount
    Limit,          \* maxVideoSize
    Inodes, NoFile

\* A thread_count below 2, negative ones included, is one stream: 1 stands for it.
ASSUME ConstantsAssumption ==
    /\ Lengths \subseteq Nat /\ ThreadCounts \subseteq Nat
    /\ Threshold \in Nat /\ Slack \in Nat /\ Limit \in Nat
    /\ NoFile \notin Inodes

VARIABLES
    length,     \* Content-Length of the resource, the same in every answer
    path,       \* the inode of the cache file, or NoFile
    data,       \* data[n]: the offsets of inode n that have been written
    pc,         \* pc[c]: program counter of caller c
    want,       \* want[c]: "download" (CQDownloadFile), "cached" or "uncached"
                \*   (makeImageOrVideoElem with cache=1 or cache=0)
    threads,    \* threads[c]: threadCount
    tmp,        \* tmp[c]: where the next block begins
    blocks,     \* blocks[c]: the blocks of the download, or its one stream
    result,     \* result[c]: "none", "ok", "hit" or "error"
    unreported  \* ghost: a fault the code does not report has hit the call

vars == <<length, path, data, pc, want, threads, tmp, blocks, result,
          unreported>>
callVars == <<length, want, threads>>
fileVars == <<path, data>>

Offsets == 0 .. length - 1

\* A block as the goroutine of downloadBlock sees it: BeginOffset, EndOffset,
\* DownloadedSize, and the inode its file descriptor is open on.
Block(from, to) ==
    [begin |-> from, end |-> to, size |-> 0, file |-> NoFile, state |-> "new",
     stream |-> FALSE]

\* The whole body copied to a file already open; state is "asking" while the
\* request has not been answered.
Stream(n, state) ==
    [begin |-> 0, end |-> length - 1, size |-> 0, file |-> n, state |-> state,
     stream |-> TRUE]

First(b) == b.begin - b.size

\* Zero or negative for a thread_count near contentLength / 10 or above: nothing
\* checks the one download_file is called with.
BlockSize(c) == (length \div threads[c]) - Slack

Init ==
    /\ length \in Lengths
    /\ path = NoFile
    /\ data = [n \in Inodes |-> {}]
    /\ pc = [c \in Callers |-> "done"]
    /\ want = [c \in Callers |-> "download"]
    /\ threads \in [Callers -> ThreadCounts]
    /\ tmp = [c \in Callers |-> 0]
    /\ blocks = [c \in Callers |-> {}]
    /\ result = [c \in Callers |-> "none"]
    /\ unreported = [c \in Callers |-> FALSE]

Goto(c, label) == pc' = [pc EXCEPT ![c] = label]

Return(c, r) ==
    /\ Goto(c, "done")
    /\ result' = [result EXCEPT ![c] = r]
    /\ blocks' = [blocks EXCEPT ![c] = {}]
    /\ tmp' = [tmp EXCEPT ![c] = 0]

\* Nobody has n open, and no path leads to it.
FreeInode(n) ==
    n # path /\ \A c \in Callers : \A b \in blocks[c] : b.file # n

\* os.OpenFile(path, O_WRONLY|O_CREATE): n is the inode opened.
Open(n) ==
    \/ path # NoFile /\ n = path /\ UNCHANGED fileVars
    \/ /\ path = NoFile /\ FreeInode(n)
       /\ path' = n
       /\ data' = [data EXCEPT ![n] = {}]

----------------------------------------------------------------------------
(* CQDownloadFile and makeImageOrVideoElem                                 *)

Call(c) ==
    /\ pc[c] = "done"
    /\ want' \in {[want EXCEPT ![c] = w] : w \in {"download", "cached", "uncached"}}
    /\ Goto(c, IF want'[c] = "cached" THEN "lookup" ELSE "check")
    /\ result' = [result EXCEPT ![c] = "none"]
    /\ unreported' = [unreported EXCEPT ![c] = FALSE]
    /\ UNCHANGED <<length, threads, fileVars, tmp, blocks>>

\* PathExists(cacheFile) && cache == "1"
Lookup(c) ==
    /\ pc[c] = "lookup"
    /\ \/ path # NoFile /\ Return(c, "hit")
       \/ path = NoFile /\ Goto(c, "check") /\ UNCHANGED <<tmp, blocks, result>>
    /\ UNCHANGED <<callVars, fileVars, unreported>>

\* if PathExists(file)
Check(c) ==
    /\ pc[c] = "check"
    /\ Goto(c, IF path # NoFile THEN "remove" ELSE "start")
    /\ UNCHANGED <<callVars, fileVars, tmp, blocks, result, unreported>>

\* os.Remove(file); only CQDownloadFile looks at its error.
Remove(c) ==
    /\ pc[c] = "remove"
    /\ path' = NoFile
    /\ \/ /\ path = NoFile /\ want[c] = "download"
          /\ Return(c, "error")
       \/ /\ path # NoFile \/ want[c] # "download"
          /\ Goto(c, "start")
          /\ UNCHANGED <<tmp, blocks, result>>
    /\ UNCHANGED <<callVars, data, unreported>>

----------------------------------------------------------------------------
(* DownloadFile (threadCount < 2), and the head of the other one           *)

\* CQDownloadFile sets no limit.
OverSize(c) == want[c] # "download" /\ length > Limit

Run(c, bs) == blocks' = [blocks EXCEPT ![c] = bs] /\ Goto(c, "run")

\* DownloadFile opens the file before it sends the request.
SingleOpens(c, n) ==
    /\ pc[c] = "start" /\ threads[c] < 2
    /\ Open(n)
    /\ Run(c, {Stream(n, "asking")})
    /\ UNCHANGED <<callVars, tmp, result, unreported>>

\* initOrDownload: no answer, a status other than 2xx, or too long
ProbeFails(c) ==
    /\ pc[c] = "start" /\ threads[c] >= 2
    /\ Return(c, "error")
    /\ UNCHANGED <<callVars, fileVars, unreported>>

\* Status 200, or 206 for a short resource: copyStream(resp.Body)
ProbeStreams(c, n) ==
    /\ pc[c] = "start" /\ threads[c] >= 2 /\ ~OverSize(c)
    /\ Open(n)
    /\ Run(c, {Stream(n, "reading")})
    /\ UNCHANGED <<callVars, tmp, result, unreported>>

\* Mutation: short resources are cut too.
ProbeSplitsAny(c) ==
    /\ pc[c] = "start" /\ threads[c] >= 2 /\ ~OverSize(c)
    /\ Goto(c, "plan")
    /\ UNCHANGED <<callVars, fileVars, tmp, blocks, result, unreported>>

\* Status 206 for a long one
ProbeSplits(c) ==
    /\ pc[c] = "start" /\ threads[c] >= 2 /\ ~OverSize(c)
    /\ length > Threshold
    /\ Goto(c, "plan")
    /\ UNCHANGED <<callVars, fileVars, tmp, blocks, result, unreported>>

\* Mutation: the end offset is exclusive.
PlannedOneMore(c) == Block(tmp[c], tmp[c] + BlockSize(c))

Planned(c) == Block(tmp[c], tmp[c] + BlockSize(c) - 1)

\* Mutation: tmp is not advanced.
PlanBlockStays(c) ==
    /\ pc[c] = "plan" /\ BlockSize(c) > 0
    /\ tmp[c] + BlockSize(c) < length
    /\ blocks' = [blocks EXCEPT ![c] = @ \cup {Planned(c)}]
    /\ UNCHANGED <<callVars, fileVars, pc, tmp, result, unreported>>

\* One round of: for tmp+blockSize < contentLength
PlanBlock(c) ==
    /\ pc[c] = "plan" /\ BlockSize(c) > 0
    /\ tmp[c] + BlockSize(c) < length
    /\ blocks' = [blocks EXCEPT ![c] = @ \cup {Planned(c)}]
    /\ tmp' = [tmp EXCEPT ![c] = @ + BlockSize(c)]
    /\ UNCHANGED <<callVars, fileVars, pc, result, unreported>>

\* The same round when tmp gets no nearer contentLength: the condition of the loop
\* stays true.  The call never uses the blocks it goes on appending, so they and
\* tmp (and the memory they fill) are left out.
PlanForEver(c) ==
    /\ pc[c] = "plan" /\ BlockSize(c) <= 0
    /\ UNCHANGED vars

\* Mutation: the last block ends at contentLength.
LastLong(c) == Block(tmp[c], length)

Last(c) == Block(tmp[c], length - 1)

\* Mutation: a remainder shorter than a block is forgotten.
PlanLastIfWhole(c) ==
    /\ pc[c] = "plan" /\ BlockSize(c) > 0
    /\ ~(tmp[c] + BlockSize(c) < length)
    /\ blocks' = [blocks EXCEPT
          ![c] = @ \cup {b \in {Last(c)} : b.end - b.begin + 1 = BlockSize(c)}]
    /\ Goto(c, "run")
    /\ UNCHANGED <<callVars, fileVars, tmp, result, unreported>>

PlanLast(c) ==
    /\ pc[c] = "plan" /\ BlockSize(c) > 0
    /\ ~(tmp[c] + BlockSize(c) < length)
    /\ blocks' = [blocks EXCEPT ![c] = @ \cup {Last(c)}]
    /\ Goto(c, "run")
    /\ UNCHANGED <<callVars, fileVars, tmp, result, unreported>>

----------------------------------------------------------------------------
(* The goroutines of downloadBlock, and io.Copy of the single stream       *)

Becomes(c, b, d) == blocks' = [blocks EXCEPT ![c] = (@ \ {b}) \cup {d}]

InState(c, b, state) == pc[c] = "run" /\ b \in blocks[c] /\ b.state = state

BlockOpens(c, b, n) ==
    /\ InState(c, b, "new")
    /\ Open(n)
    /\ Becomes(c, b, [b EXCEPT !.file = n, !.state = "asking"])
    /\ UNCHANGED <<callVars, pc, tmp, result, unreported>>

BlockAnswered(c, b) ==
    /\ InState(c, b, "asking")
    /\ b.stream => ~OverSize(c)
    /\ Becomes(c, b, [b EXCEPT !.state = "reading"])
    /\ UNCHANGED <<callVars, fileVars, pc, tmp, result, unreported>>

\* One read and write.  A file is longer than any read, so one byte stands for
\* the bytes of one read; those past EndOffset are cut off.
BlockReads(c, b) ==
    /\ InState(c, b, "reading") /\ b.begin <= b.end
    /\ data' = [data EXCEPT ![b.file] = @ \cup {b.begin}]
    /\ Becomes(c, b, [b EXCEPT !.begin = @ + 1, !.size = @ + 1])
    /\ UNCHANGED <<callVars, path, pc, tmp, result, unreported>>

BlockEnds(c, b) ==
    /\ InState(c, b, "reading") /\ b.begin > b.end
    /\ Becomes(c, b, [b EXCEPT !.state = "finished"])
    /\ UNCHANGED <<callVars, fileVars, pc, tmp, result, unreported>>

\* Mutation: an error of a block is not recorded.
Swallowed(b) == [b EXCEPT !.state = "finished"]

Failed(b) == [b EXCEPT !.state = "failed"]

\* The request or a read fails, or the body is too long (DownloadFile).
BlockFails(c, b) ==
    /\ InState(c, b, "asking") \/ InState(c, b, "reading")
    /\ Becomes(c, b, Failed(b))
    /\ UNCHANGED <<callVars, fileVars, pc, tmp, result, unreported>>

\* What goes wrong and is not reported: the server answers with less than was
\* asked for (io.EOF before EndOffset), or with status 200 and the body from its
\* first byte; DownloadFile stores an error page, for it does not look at the
\* status; the last, deferred writer.Flush() fails.  The bytes of the block not
\* written yet are missing, or all of them are wrong.
BlockFallsShort(c, b) ==
    /\ \/ InState(c, b, "reading") /\ ~b.stream
       \/ InState(c, b, "asking") /\ b.stream
    /\ Becomes(c, b, [b EXCEPT !.state = "finished"])
    /\ unreported' = [unreported EXCEPT ![c] = TRUE]
    /\ data' \in {data, [data EXCEPT ![b.file] = @ \ (First(b) .. b.end)]}
    /\ UNCHANGED <<callVars, path, pc, tmp, result>>

Over(b) == b.state \in {"finished", "failed"}

\* wg.Wait(); return lastErr
Finish(c) ==
    /\ pc[c] = "run" /\ \A b \in blocks[c] : Over(b)
    /\ Return(c, IF \E b \in blocks[c] : b.state = "failed" THEN "error" ELSE "ok")
    /\ UNCHANGED <<callVars, fileVars, unreported>>

Advance(c) ==
    \/ Lookup(c) \/ Check(c) \/ Remove(c) \/ ProbeFails(c) \/ ProbeSplits(c)
    \/ PlanBlock(c) \/ PlanForEver(c) \/ PlanLast(c) \/ Finish(c)
    \/ \E n \in Inodes : SingleOpens(c, n) \/ ProbeStreams(c, n)
    \/ \E b \in blocks[c] :
          \/ BlockAnswered(c, b) \/ BlockReads(c, b) \/ BlockEnds(c, b)
          \/ BlockFails(c, b) \/ BlockFallsShort(c, b)
          \/ \E n \in Inodes : BlockOpens(c, b, n)

Next == \E c \in Callers : Call(c) \/ Advance(c)

Spec == Init /\ [][Next]_vars

\* A request is answered or its connection breaks (the HTTP client itself sets
\* no time limit), so a caller that can go on does.
FairSpec == Spec /\ \A c \in Callers : WF_vars(Advance(c))

----------------------------------------------------------------------------
(* Properties                                                              *)

\* Every variable has its type; a caller has blocks only while it plans and runs
\* them.
TypeOK ==
    /\ length \in Lengths
    /\ path \in Inodes \cup {NoFile}
    /\ data \in [Inodes -> SUBSET Nat]
    /\ pc \in [Callers -> {"lookup", "check", "remove", "start", "plan", "run",
                           "done"}]
    /\ want \in [Callers -> {"download", "cached", "uncached"}]
    /\ threads \in [Callers -> ThreadCounts]
    /\ tmp \in [Callers -> Nat]
    /\ blocks \in [Callers -> SUBSET
          [begin : Nat, end : Int, size : Nat, file : Inodes \cup {NoFile},
           state : {"new", "asking", "reading", "finished", "failed"},
           stream : BOOLEAN]]
    /\ result \in [Callers -> {"none", "ok", "hit", "error"}]
    /\ unreported \in [Callers -> BOOLEAN]
    /\ \A c \in Callers :
          /\ pc[c] \notin {"plan", "run"} => blocks[c] = {}
          /\ pc[c] = "plan" => threads[c] >= 2 /\ length > Threshold

\* How far the blocks of c reach: to tmp while planning, to the end afterwards.
Reach(c) == IF pc[c] = "plan" THEN tmp[c] ELSE length

\* The blocks of a download are a partition of the resource at every moment:
\* no byte is in two blocks (two goroutines never write the same place) and,
\* once planned, none is in no block, although each block's begin moves.
BlocksDisjoint ==
    \A c \in Callers : \A b, d \in blocks[c] :
        b # d => b.end < First(d) \/ d.end < First(b)

BlocksCover ==
    \A c \in Callers : pc[c] \in {"plan", "run"} =>
        \A k \in 0 .. Reach(c) - 1 : \E b \in blocks[c] : First(b) <= k /\ k <= b.end

\* No block reaches beyond the resource, none writes beyond its own end.
BlocksInside ==
    \A c \in Callers : \A b \in blocks[c] :
        b.begin <= b.end + 1 /\ b.end < Reach(c)

\* A call that answers "ok" has left the whole resource at the path it names,
\* unless a fault nobody reports has hit it (BlockFallsShort).
DownloadedIsComplete ==
    [][\A c \in Callers :
          pc[c] # "done" /\ pc'[c] = "done" /\ result'[c] = "ok"
             /\ ~unreported'[c]
          => path' # NoFile /\ Offsets \subseteq data'[path']
      ]_vars

\* The loop that plans the blocks of c never ends.
PlansForEver(c) == pc[c] = "plan" /\ BlockSize(c) <= 0

\* Every call returns, except one that asks for so many threads that its block
\* size is not positive: it never does.
CallReturns ==
    \A c \in Callers : pc[c] # "done" ~> pc[c] = "done" \/ PlansForEver(c)

=============================================================================
