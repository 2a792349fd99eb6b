----------------------------- MODULE AsyncWriter -----------------------------
(***************************************************************************)
(* xz/writer.go with maxWorkers # WorkersSync and a positive chunk size:   *)
(* the client (Write, Close), the monitor goroutine, the workers, the      *)
(* writer goroutine and the workerPool's monitor routine, composed around  *)
(* two pipePools, errChan and doneChan.                                    *)
(*                                                                         *)
(* A blocking call on a pool is a step that is enabled when its loop would *)
(* be left; PipePool shows that the condition variables deliver exactly    *)
(* this.  The input is a row of units 1, 2, 3, ...; a pipe holds the       *)
(* sequence of units written to it.  BufferPipe (package bufpipe, not part *)
(* of the repository) is a bounded buffer that can be closed: a line       *)
(* buffer takes no more than its capacity, writing to a closed pipe fails, *)
(* reading a closed and drained one reports EOF, and a LineMono pipe is    *)
(* readable only once it is closed.  liblzma may fail, and it may produce  *)
(* more output than the output pipe holds.                                 *)
(***************************************************************************)
EXTENDS PoolOps, Sequences

CONSTANTS Workers,     \* as many as maxWorkers, or as CPUs for WorkersMax
          ChunkSize,   \* chunkSize, in units
          Total,       \* bound: the units the client has to write
          MaxWrite,    \* bound: the units of one Write call
          Faults,      \* what may fail: "encode", "write", "index", "trailer"
          Overflows    \* when output may exceed its pipe: "run", in RUN only
                       \* once the input pipe is closed ("late"), "finish"

ASSUME WriterAssumption ==
    /\ IsFiniteSet(Workers) /\ Workers # {}
    /\ ChunkSize \in Nat \ {0}
    /\ Total \in Nat \ {0}
    /\ MaxWrite \in 1 .. Total
    /\ Faults \subseteq {"encode", "write", "index", "trailer"}
    /\ Overflows \subseteq {"run", "late", "finish"}

NumWorkers == Cardinality(Workers)

\* A new pipe is asked for only with data in hand.
Idx == 0 .. (Total - 1) \div ChunkSize
Unit == 1 .. Total

VARIABLES
    \* the client and the fields of Writer it owns
    cl,        \* where the client is
    todo,      \* units the running Write call still has to place
    sent,      \* units accepted by pipes so far
    pipe,      \* w.pipe, the pipe being filled
    idx,       \* w.idx
    closed,    \* w.closed
    lastErr,   \* w.lastErr
    wrote,     \* "ok" until a Write call has returned an error
    outcome,   \* how Close ended: "none", "ok" or "err"
    \* shared resources
    inPool, outPool,
    chunk,     \* chunk[i]: units written to input pipe i
    block,     \* block[i]: what the worker left in output pipe i
    errChan,   \* "open", a buffered and closed "nil" or "err", or "drained"
    doneChan,  \* is doneChan closed?
    killed,    \* are the kill channels closed?
    \* goroutines
    mon,       \* Writer.monitor
    wk,        \* Writer.worker: where each worker is
    wkIdx,     \* the index of its pipes
    wkRead,    \* units it has consumed from the input pipe
    wkErr,     \* the err of its encoding step
    wg,        \* workerPool.monitor
    wt,        \* Writer.writer
    index,     \* its loop variable
    wtErr,     \* its err
    \* the underlying writer
    file,      \* the blocks written, in order
    torn,      \* has part of a block been written?
    records,   \* w.index: uncompressed sizes appended
    trailer    \* the index and footer in the file

client == <<cl, todo, sent, pipe, idx, closed, lastErr, wrote, outcome>>
shared == <<chunk, block, errChan, doneChan, killed>>
worker == <<wk, wkIdx, wkRead, wkErr>>
writer == <<wt, index, wtErr, file, torn, records>>

vars == <<client, inPool, outPool, shared, mon, worker, wg, writer, trailer>>

NoBlock == [data |-> <<>>, size |-> 0, err |-> FALSE]

WorkerPlace == {"off", "get", "out", "run", "finish", "literal", "seal",
                "restore", "select", "exit"}

ClientTypes ==
    /\ cl \in {"idle", "loop", "full", "check", "end", "join", "trail"}
    /\ todo \in 0 .. MaxWrite
    /\ sent \in 0 .. Total
    /\ pipe \in Idx \cup {NoIdx}
    /\ idx \in Nat
    /\ closed \in BOOLEAN
    /\ lastErr \in {"nil", "err"} /\ wrote \in {"ok", "err"}
    /\ outcome \in {"none", "ok", "err"}

SharedTypes ==
    /\ inPool \in PoolType(Idx, 0 .. NumWorkers)
    /\ outPool \in PoolType(Nat, 0 .. NumWorkers)
    /\ chunk \in [Idx -> Seq(Unit)]
    /\ block \in [Idx -> [data : Seq(Unit), size : Nat, err : BOOLEAN]]
    /\ errChan \in {"open", "nil", "err", "drained"}
    /\ doneChan \in BOOLEAN /\ killed \in BOOLEAN

WorkerTypes ==
    /\ wk \in [Workers -> WorkerPlace]
    /\ wkIdx \in [Workers -> Idx]
    /\ wkRead \in [Workers -> Nat]
    /\ wkErr \in [Workers -> BOOLEAN]

WriterTypes ==
    /\ mon \in {"in1", "out1", "work1", "inN", "outN", "workN",
                "endOut", "endIn", "exit"}
    /\ wg \in {"off", "wait", "end", "exit"}
    /\ wt \in {"ask", "await", "copy", "return", "sanity", "report", "done",
               "exit"}
    /\ index \in Nat
    /\ wtErr \in {"nil", "err"}
    /\ file \in Seq(Seq(Unit))
    /\ torn \in BOOLEAN
    /\ records \in Seq(Nat)
    /\ trailer \in Seq(Nat)

TypeOK == ClientTypes /\ SharedTypes /\ WorkerTypes /\ WriterTypes

Init ==
    /\ cl = "idle" /\ todo = 0 /\ sent = 0 /\ pipe = NoIdx /\ idx = 0
    /\ closed = FALSE /\ lastErr = "nil" /\ wrote = "ok" /\ outcome = "none"
    /\ inPool = newPipePool /\ outPool = newPipePool
    /\ chunk = [i \in Idx |-> <<>>]
    /\ block = [i \in Idx |-> NoBlock]
    /\ errChan = "open" /\ doneChan = FALSE /\ killed = FALSE
    /\ mon = "in1"
    /\ wk = [w \in Workers |-> "off"]
    /\ wkIdx = [w \in Workers |-> 0]
    /\ wkRead = [w \in Workers |-> 0]
    /\ wkErr = [w \in Workers |-> FALSE]
    /\ wg = "off"
    /\ wt = "ask" /\ index = 0 /\ wtErr = "nil"
    /\ file = <<>> /\ torn = FALSE /\ records = <<>> /\ trailer = <<>>
-----------------------------------------------------------------------------
(***************************************************************************)
(* The client: Write.                                                      *)
(***************************************************************************)
Write(n) ==
    /\ cl = "idle" /\ ~closed
    /\ sent + n <= Total
    /\ cl' = "loop"
    /\ todo' = n
    /\ UNCHANGED <<sent, pipe, idx, closed, lastErr, wrote, outcome, inPool,
                   outPool, shared, mon, worker, wg, writer, trailer>>

\* w.inPool.getWriter(w.idx, ...); nil leads to checkErr.
WriteGetsPipe ==
    /\ cl = "loop" /\ pipe = NoIdx
    /\ ~WriterBlocked(inPool, idx)
    /\ IF inPool.closed
       THEN cl' = "check" /\ UNCHANGED <<inPool, pipe, idx>>
       ELSE /\ inPool' \in GetWriter(inPool, idx)
            /\ pipe' = idx
            /\ idx' = idx + 1
            /\ UNCHANGED cl
    /\ UNCHANGED <<todo, sent, closed, lastErr, wrote, outcome, outPool,
                   shared, mon, worker, wg, writer, trailer>>

\* Mutant: one unit of every pipe is never used.
RoomLess(i) == ChunkSize - 1 - Len(chunk[i])

\* The units a pipe still has room for.
Room(i) == ChunkSize - Len(chunk[i])

\* w.pipe.Write(data[cnt:]): all of it, as much as there is room for (a
\* short write), or none of it because the pipe was closed from behind.
WriteFills ==
    /\ cl = "loop" /\ pipe # NoIdx
    /\ IF pipe \in inPool.shut
       THEN cl' = "check" /\ UNCHANGED <<chunk, sent, todo>>
       ELSE LET k == IF todo <= Room(pipe) THEN todo ELSE Room(pipe)
            IN  /\ chunk' = [chunk EXCEPT
                     ![pipe] = @ \o [j \in 1 .. k |-> sent + j]]
                /\ sent' = sent + k
                /\ todo' = todo - k
                /\ cl' = IF k = todo THEN "idle" ELSE "full"
    /\ UNCHANGED <<pipe, idx, closed, lastErr, wrote, outcome, inPool,
                   outPool, block, errChan, doneChan, killed, mon, worker,
                   wg, writer, trailer>>

\* After a short write: w.pipe.Close() and on to the next pipe.
WriteShuts ==
    /\ cl = "full"
    /\ inPool' = ClosePipe(inPool, pipe)
    /\ pipe' = NoIdx
    /\ cl' = "loop"
    /\ UNCHANGED <<todo, sent, idx, closed, lastErr, wrote, outcome, outPool,
                   shared, mon, worker, wg, writer, trailer>>

\* Mutant: does not wait for the report.
CheckErrHasty == TRUE

\* checkErr: a known error is raised at once, otherwise errChan is received
\* from, which blocks until the writer goroutine has reported; a closed and
\* drained channel yields nil.
CheckErrReturns == lastErr = "err" \/ errChan # "open"

\* Mutant: the error received is not kept in w.lastErr.
checkErrForgets ==
    /\ errChan' = "drained"
    /\ UNCHANGED lastErr

checkErr ==
    IF lastErr = "err"
    THEN UNCHANGED <<lastErr, errChan>>
    ELSE /\ lastErr' = IF errChan = "err" THEN "err" ELSE "nil"
         /\ errChan' = "drained"

\* Write returns an error, io.ErrShortWrite if checkErr had none.
WriteFails ==
    /\ cl = "check"
    /\ CheckErrReturns
    /\ checkErr
    /\ wrote' = "err"
    /\ todo' = 0
    /\ cl' = "idle"
    /\ UNCHANGED <<sent, pipe, idx, closed, outcome, inPool, outPool, chunk,
                   block, doneChan, killed, mon, worker, wg, writer, trailer>>
-----------------------------------------------------------------------------
(***************************************************************************)
(* The client: Close.  The finalizer Writer.terminate is not an action:    *)
(* the goroutines hold a reference to w until doneChan is closed, and then *)
(* closing it once more has no effect.                                     *)
(***************************************************************************)
\* A second Close, and a Write after Close, return without any effect.
CloseStarts ==
    /\ cl = "idle" /\ ~closed
    /\ closed' = TRUE
    /\ inPool' = IF pipe = NoIdx THEN inPool ELSE ClosePipe(inPool, pipe)
    /\ pipe' = NoIdx
    /\ cl' = "end"
    /\ UNCHANGED <<todo, sent, idx, lastErr, wrote, outcome, outPool, shared,
                   mon, worker, wg, writer, trailer>>

CloseEndsInput ==
    /\ cl = "end"
    /\ inPool' = Close(inPool)
    /\ cl' = "join"
    /\ UNCHANGED <<todo, sent, pipe, idx, closed, lastErr, wrote, outcome,
                   outPool, shared, mon, worker, wg, writer, trailer>>

CloseJoins ==
    /\ cl = "join"
    /\ CheckErrReturns
    /\ checkErr
    /\ IF lastErr' = "err"
       THEN outcome' = "err" /\ cl' = "idle"
       ELSE cl' = "trail" /\ UNCHANGED outcome
    /\ UNCHANGED <<todo, sent, pipe, idx, closed, wrote, inPool, outPool,
                   chunk, block, doneChan, killed, mon, worker, wg, writer,
                   trailer>>

\* Write the index and the footer.
CloseWritesTrailer ==
    /\ cl = "trail"
    /\ \/ trailer' = records /\ outcome' = "ok"
       \/ "trailer" \in Faults /\ outcome' = "err" /\ UNCHANGED trailer
    /\ cl' = "idle"
    /\ UNCHANGED <<todo, sent, pipe, idx, closed, lastErr, wrote, inPool,
                   outPool, shared, mon, worker, wg, writer>>

Client ==
    \/ WriteGetsPipe \/ WriteFills \/ WriteShuts \/ WriteFails
    \/ CloseEndsInput \/ CloseJoins \/ CloseWritesTrailer
-----------------------------------------------------------------------------
(***************************************************************************)
(* Writer.monitor and workerPool.monitor.                                  *)
(***************************************************************************)
monitorSizesIn ==
    /\ mon \in {"in1", "inN"}
    /\ inPool' = SetCapacity(inPool, IF mon = "in1" THEN 1 ELSE NumWorkers)
    /\ mon' = IF mon = "in1" THEN "out1" ELSE "outN"
    /\ UNCHANGED <<client, outPool, shared, worker, wg, writer, trailer>>

monitorSizesOut ==
    /\ mon \in {"out1", "outN"}
    /\ outPool' = SetCapacity(outPool, IF mon = "out1" THEN 1 ELSE NumWorkers)
    /\ mon' = IF mon = "out1" THEN "work1" ELSE "workN"
    /\ UNCHANGED <<client, inPool, shared, worker, wg, writer, trailer>>

Unborn == {w \in Workers : wk[w] = "off"}

\* workPool.setCapacity spawns one worker per round, and the first one
\* starts the monitor routine.
monitorSpawns ==
    /\ mon \in {"work1", "workN"}
    /\ \E w \in Unborn : wk' = [wk EXCEPT ![w] = "get"]
    /\ wg' = IF mon = "work1" THEN "wait" ELSE wg
    /\ mon' = IF mon = "work1" THEN "inN" ELSE mon
    /\ UNCHANGED <<client, inPool, outPool, shared, wkIdx, wkRead, wkErr,
                   writer, trailer>>

\* <-w.doneChan, and then the deferred calls in reverse order.
monitorKills ==
    /\ mon = "workN" /\ Unborn = {}
    /\ doneChan
    /\ killed' = TRUE
    /\ mon' = "endOut"
    /\ UNCHANGED <<client, inPool, outPool, chunk, block, errChan, doneChan,
                   worker, wg, writer, trailer>>

monitorEndsOut ==
    /\ mon = "endOut"
    /\ outPool' = Terminate(outPool)
    /\ mon' = "endIn"
    /\ UNCHANGED <<client, inPool, shared, worker, wg, writer, trailer>>

monitorEndsIn ==
    /\ mon = "endIn"
    /\ inPool' = Terminate(inPool)
    /\ mon' = "exit"
    /\ UNCHANGED <<client, outPool, shared, worker, wg, writer, trailer>>

monitor ==
    \/ monitorSizesIn \/ monitorSizesOut \/ monitorSpawns
    \/ monitorKills \/ monitorEndsOut \/ monitorEndsIn

Running == {w \in Workers : wk[w] \notin {"off", "exit"}}

\* Mutant: the first worker to die ends the output.
GroupDoneByOne == \E w \in Workers : wk[w] = "exit"

GroupDone == Running = {}

\* group.Wait() returns once the workers spawned so far have died.
groupWait ==
    /\ wg = "wait" /\ GroupDone
    /\ wg' = "end"
    /\ UNCHANGED <<client, inPool, outPool, shared, mon, worker, writer,
                   trailer>>

\* The end callback, w.outPool.close.
groupEnds ==
    /\ wg = "end"
    /\ outPool' = Close(outPool)
    /\ wg' = "exit"
    /\ UNCHANGED <<client, inPool, shared, mon, worker, writer, trailer>>
-----------------------------------------------------------------------------
(***************************************************************************)
(* Writer.worker and blockEncode.                                          *)
(***************************************************************************)
WorkerAt(w, from, to) ==
    /\ wk[w] = from
    /\ wk' = [wk EXCEPT ![w] = to]
    /\ UNCHANGED <<client, mon, wg, writer, trailer, errChan, doneChan,
                   killed, chunk>>

\* inPool.iterReader hands out any ready pipe, a client may still fill it.
workerGets(w) ==
    /\ WorkerAt(w, "get", "out")
    /\ \E i \in Readable(inPool, NoIdx) :
         /\ inPool' = GetReader(inPool, NoIdx, i)
         /\ wkIdx' = [wkIdx EXCEPT ![w] = i]
    /\ wkRead' = [wkRead EXCEPT ![w] = 0]
    /\ wkErr' = [wkErr EXCEPT ![w] = FALSE]
    /\ UNCHANGED <<outPool, block>>

workerEnds(w) ==
    /\ WorkerAt(w, "get", "exit")
    /\ inPool.closed /\ Readable(inPool, NoIdx) = {}
    /\ UNCHANGED <<inPool, outPool, block, wkIdx, wkRead, wkErr>>

\* outPool.getWriter(inBuf.idx, ...) with a fresh sizeStats.
workerGetsOutput(w) ==
    /\ WorkerAt(w, "out", "run")
    /\ ~outPool.closed /\ ~WriterBlocked(outPool, wkIdx[w])
    /\ outPool' \in GetWriter(outPool, wkIdx[w])
    /\ block' = [block EXCEPT ![wkIdx[w]] = NoBlock]
    /\ UNCHANGED <<inPool, wkIdx, wkRead, wkErr>>

workerRefused(w) ==
    /\ WorkerAt(w, "out", "restore")
    /\ outPool.closed
    /\ UNCHANGED <<inPool, outPool, block, wkIdx, wkRead, wkErr>>

Unread(w) == wkRead[w] < Len(chunk[wkIdx[w]])
OutputShut(w) == wkIdx[w] \in outPool.shut

\* ProcessPipe(RUN) compresses what the client has written so far, ...
encodeRuns(w) ==
    /\ WorkerAt(w, "run", "run")
    /\ Unread(w) /\ ~OutputShut(w)
    /\ wkRead' = [wkRead EXCEPT ![w] = Len(chunk[wkIdx[w]])]
    /\ UNCHANGED <<inPool, outPool, block, wkIdx, wkErr>>

\* ... ends with io.EOF when the input pipe is closed and drained, ...
encodeMeetsEOF(w) ==
    /\ WorkerAt(w, "run", "finish")
    /\ ~Unread(w) /\ wkIdx[w] \in inPool.shut
    /\ UNCHANGED <<inPool, outPool, block, wkIdx, wkRead, wkErr>>

\* ... or with io.ErrShortWrite when the output pipe, which has room for a
\* full literal block, is full: so late in the chunk that some of it has been
\* consumed before.  FINISH then meets the full pipe as well.
encodeOverflows(w) ==
    /\ WorkerAt(w, "run", "literal")
    /\ \/ "run" \in Overflows
       \/ "late" \in Overflows /\ wkIdx[w] \in inPool.shut
    /\ wkRead[w] > 0 /\ Unread(w) /\ ~OutputShut(w)
    /\ UNCHANGED <<inPool, outPool, block, wkIdx, wkRead, wkErr>>

\* What the worker leaves in its output pipe and sizeStats.
Leave(w, data) ==
    block' = [block EXCEPT ![wkIdx[w]] =
                [data |-> data, size |-> Len(data), err |-> FALSE]]

\* ProcessPipe(FINISH) reaches the end of the stream and the header is
\* written, ...
encodeFinishes(w) ==
    /\ WorkerAt(w, "finish", "seal")
    /\ ~OutputShut(w)
    /\ Leave(w, SubSeq(chunk[wkIdx[w]], 1, wkRead[w]))
    /\ UNCHANGED <<inPool, outPool, wkIdx, wkRead, wkErr>>

\* ... or it does not fit.
finishOverflows(w) ==
    /\ WorkerAt(w, "finish", "literal")
    /\ "finish" \in Overflows
    /\ ~OutputShut(w)
    /\ UNCHANGED <<inPool, outPool, block, wkIdx, wkRead, wkErr>>

\* literalBlockEncode of what the input pipe holds now, rdBuf.Pointers.
encodeLiteral(w) ==
    /\ WorkerAt(w, "literal", "seal")
    /\ Leave(w, chunk[wkIdx[w]])
    /\ UNCHANGED <<inPool, outPool, wkIdx, wkRead, wkErr>>

\* liblzma fails, or the output pipe has been closed from behind; sizes stay
\* zero.
encodeFails(w) ==
    /\ wk[w] \in {"run", "finish"}
    /\ \/ "encode" \in Faults
       \/ OutputShut(w) /\ (wk[w] = "run" => Unread(w))
    /\ WorkerAt(w, wk[w], "seal")
    /\ wkErr' = [wkErr EXCEPT ![w] = TRUE]
    /\ UNCHANGED <<inPool, outPool, block, wkIdx, wkRead>>

\* outBuf.CloseWithError(err)
workerSeals(w) ==
    /\ WorkerAt(w, "seal", "restore")
    /\ outPool' = ClosePipe(outPool, wkIdx[w])
    /\ block' = [block EXCEPT ![wkIdx[w]].err = wkErr[w]]
    /\ UNCHANGED <<inPool, wkIdx, wkRead, wkErr>>

workerRestores(w) ==
    /\ WorkerAt(w, "restore", "select")
    /\ inPool' = Restore(inPool, wkIdx[w])
    /\ UNCHANGED <<outPool, block, wkIdx, wkRead, wkErr>>

workerSelects(w) ==
    /\ WorkerAt(w, "select", IF doneChan \/ killed THEN "exit" ELSE "get")
    /\ UNCHANGED <<inPool, outPool, block, wkIdx, wkRead, wkErr>>

Work(w) ==
    \/ workerGets(w) \/ workerEnds(w) \/ workerGetsOutput(w)
    \/ workerRefused(w) \/ encodeRuns(w) \/ encodeMeetsEOF(w)
    \/ encodeOverflows(w) \/ encodeFinishes(w) \/ finishOverflows(w)
    \/ encodeLiteral(w) \/ encodeFails(w) \/ workerSeals(w)
    \/ workerRestores(w) \/ workerSelects(w)
-----------------------------------------------------------------------------
(***************************************************************************)
(* Writer.writer.                                                          *)
(***************************************************************************)
WriterAt(from) ==
    /\ wt = from
    /\ UNCHANGED <<client, inPool, mon, worker, wg, trailer, chunk, block,
                   killed>>

\* outPool.iterReaderIdx: announce the index, then wait for it.
writerAnnounces ==
    /\ WriterAt("ask")
    /\ outPool' = Announce(outPool, index)
    /\ wt' = "await"
    /\ UNCHANGED <<errChan, doneChan, index, wtErr, file, torn, records>>

writerGets ==
    /\ WriterAt("await")
    /\ \E i \in Readable(outPool, index) :
         outPool' = GetReader(outPool, index, i)
    /\ index' = index + 1
    /\ wt' = "copy"
    /\ UNCHANGED <<errChan, doneChan, wtErr, file, torn, records>>

writerEnds ==
    /\ WriterAt("await")
    /\ outPool.closed /\ Readable(outPool, index) = {}
    /\ outPool' = GetReaderNil(outPool, index)
    /\ index' = index + 1
    /\ wt' = "sanity"
    /\ UNCHANGED <<errChan, doneChan, wtErr, file, torn, records>>

\* The pipe the writer goroutine holds.
Held == index - 1

\* outBuf.WriteTo(w.wr), which blocks until the LineMono pipe is closed, and
\* w.index.Append, which follows even a failed write.
WriteTo(ok) ==
    IF ok THEN file' = Append(file, block[Held].data) /\ UNCHANGED torn
          ELSE torn' = TRUE /\ UNCHANGED file

AppendIndex(ok) ==
    records' = IF ok /\ block[Held].size # 0
               THEN Append(records, block[Held].size) ELSE records

writerCopies ==
    /\ WriterAt("copy")
    /\ Held \in outPool.shut
    /\ \E wrOK, ixOK \in BOOLEAN :
         /\ ~wrOK => block[Held].err \/ "write" \in Faults
         /\ wrOK => ~block[Held].err
         /\ ~ixOK => "index" \in Faults /\ block[Held].size # 0
         /\ WriteTo(wrOK)
         /\ AppendIndex(ixOK)
         /\ wtErr' = IF wrOK /\ ixOK THEN "nil" ELSE "err"
    /\ wt' = "return"
    /\ UNCHANGED <<outPool, errChan, doneChan, index>>

writerRestores ==
    /\ WriterAt("return")
    /\ outPool' = Restore(outPool, Held)
    /\ wt' = IF wtErr = "err" THEN "report" ELSE "ask"
    /\ UNCHANGED <<errChan, doneChan, index, wtErr, file, torn, records>>

\* errs.Assert(w.outPool.getReader(-1) == nil, dataError)
writerAsserts ==
    /\ WriterAt("sanity")
    /\ LET left == Readable(outPool, NoIdx) IN
         /\ outPool' \in IF left = {} THEN {outPool}
                         ELSE {GetReader(outPool, NoIdx, i) : i \in left}
         /\ wtErr' = IF left = {} THEN wtErr ELSE "err"
    /\ wt' = "report"
    /\ UNCHANGED <<errChan, doneChan, index, file, torn, records>>

\* Mutant: only an error is reported.
ReportErrors == IF wtErr = "err" THEN "err" ELSE errChan

Report == wtErr

\* w.errChan <- err, and close.
writerReports ==
    /\ WriterAt("report")
    /\ errChan' = Report
    /\ wt' = "done"
    /\ UNCHANGED <<outPool, doneChan, index, wtErr, file, torn, records>>

\* Mutant: doneChan is not closed.
TerminatedNot == doneChan

Terminated == TRUE

\* w.terminate()
writerTerminates ==
    /\ WriterAt("done")
    /\ doneChan' = Terminated
    /\ wt' = "exit"
    /\ UNCHANGED <<outPool, errChan, index, wtErr, file, torn, records>>

writerSteps ==
    \/ writerAnnounces \/ writerGets \/ writerEnds \/ writerCopies
    \/ writerRestores \/ writerAsserts \/ writerReports \/ writerTerminates
-----------------------------------------------------------------------------
Exited ==
    /\ mon = "exit" /\ wg = "exit" /\ wt = "exit"
    /\ \A w \in Workers : wk[w] = "exit"

\* The Writer is closed and everybody has left.
Finished ==
    /\ cl = "idle" /\ closed /\ Exited
    /\ UNCHANGED vars

Next ==
    \/ \E n \in 1 .. MaxWrite : Write(n)
    \/ CloseStarts
    \/ Client
    \/ monitor
    \/ groupWait \/ groupEnds
    \/ \E w \in Workers : Work(w)
    \/ writerSteps
    \/ Finished

Spec == Init /\ [][Next]_vars

\* A goroutine that can take a step eventually does; a call of the client
\* runs on once it has been made.  Nothing obliges the client to make one.
Fairness ==
    /\ WF_vars(Client)
    /\ WF_vars(monitor)
    /\ WF_vars(groupWait \/ groupEnds)
    /\ \A w \in Workers : WF_vars(Work(w))
    /\ WF_vars(writerSteps)

FairSpec == Spec /\ Fairness
-----------------------------------------------------------------------------
(***************************************************************************)
(* Properties.                                                             *)
(***************************************************************************)
Stream == INSTANCE XzStream WITH
    accepted <- sent,
    blocks <- file,
    index <- trailer,
    outcome <- outcome

\* Whatever order the workers finish in, the blocks reach the file in the
\* order of the data, each unit once, and a successful Close leaves all the
\* data and an index of exactly these blocks.
ImplementsStream == Stream!Spec

\* An error is never forgotten: after a failed or partial write, a failed
\* index update, a failed encoding that was met, or a Write that returned an
\* error, Close does not report success.
ErrorsReachClose ==
    (torn \/ wtErr = "err" \/ wrote = "err") => outcome # "ok"

\* No error comes from the shutdown itself: the writer goroutine fails only
\* over a block it could not write or list (its final sanity check never
\* fires), and a call of the client fails only over that or over the trailer.
NoSpuriousError ==
    /\ wtErr = "err" => torn \/ Len(records) # Len(file)
    /\ wrote = "err" => wtErr = "err"
    /\ outcome = "err" => wtErr = "err" \/ "trailer" \in Faults

Using(w) == wk[w] \notin {"off", "get", "select", "exit"}

\* A buffer has one owner per side: no two workers share a pipe, a pipe in
\* use is active (so restore does not panic) and is not up for reuse, and the
\* writer goroutine only reads a pipe no worker still fills.
PipesOwned ==
    /\ \A v, w \in Workers :
         Using(v) /\ Using(w) /\ wkIdx[v] = wkIdx[w] => v = w
    /\ \A w \in Workers : Using(w) => wkIdx[w] \in inPool.active
    /\ wt \in {"copy", "return"} => Held \in outPool.active
    /\ wt = "return" => \A w \in Workers :
         wk[w] \in {"out", "run", "finish", "literal", "seal"} =>
           wkIdx[w] # Held

\* Memory stays bounded by the number of workers, and the one extra output
\* buffer that the announced index may force.
BuffersBounded ==
    /\ inPool.len <= NumWorkers
    /\ outPool.len <= NumWorkers + 1

\* Every Write and every Close returns: no cycle of waiting among the client,
\* the full pools, the workers and the writer goroutine, and no wait for a
\* report that has been made already.
CallsReturn == cl # "idle" ~> cl = "idle"

\* After Close, and after an error even without it, all goroutines leave.
GoroutinesExit == (closed \/ wtErr = "err") ~> Exited
=============================================================================
