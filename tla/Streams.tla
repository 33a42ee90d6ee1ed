------------------------------ MODULE Streams ------------------------------
(***************************************************************************)
(* ReadableStream and WritableStream (natives/Stream/native_Stream.c): one *)
(* stream of each.  The C code calls script in the middle of an operation  *)
(* -- the source's start, pull and cancel, the sink's methods, and, where  *)
(* promises react inside the call that settles them, a reader's reactions  *)
(* -- and script may call any operation of the stream then.  `frames` is   *)
(* the operations that wait, the innermost last; script does MaxOps        *)
(* operations altogether.                                                  *)
(***************************************************************************)
EXTENDS Integers, Sequences, SequencesExt

CONSTANTS
  MaxOps     \* bound: the operations of script

ASSUME StreamsAssumption == MaxOps \in Nat

VARIABLES
  \* ReadableStream: @@rs_queue, @@rs_pending, @@rs_closed, @@rs_err, its source
  queue, pending, closed, errored, hasPull,
  attached,          \* the reader (the writer) has not released its stream
  \* WritableStream: @@ws_closed, @@ws_err, locked
  wclosed, werr, locked,
  frames,
  ops,               \* bound
  \* histories: the chunks enqueued, and those read, in order; what each read was
  \* answered; the calls of the sink
  sent, delivered, answers, sink,
  \* the operation that first closed, cancelled or failed the source (MaxOps + 1:
  \* none has); the reads in whose pull it reported an error; after how many calls
  \* of the sink an error without a reason took the mark off
  ended, misled, lapses

rsVars == <<queue, pending, closed, errored, hasPull>>
wsVars == <<wclosed, werr, locked>>
hist == <<sent, delivered, answers, sink>>
ends == <<ended, misled, lapses>>
vars == <<rsVars, attached, wsVars, frames, ops, hist, ends>>

Ids == 1 .. MaxOps

\* what: the script function of the source or sink, or the loop that drains the
\* parked reads; in: script is running; read: of a pull; answer: of a drain.
Frame(what, in, read, answer) == [what |-> what, in |-> in, read |-> read, answer |-> answer]
Calling(what) == Frame(what, TRUE, 0, "none")

Top == Last(frames)
Beneath == Front(frames)
In(what) == \E i \in DOMAIN frames : frames[i].what = what

Script == IF frames = <<>> THEN TRUE ELSE Top.in
Calls == Script /\ ops < MaxOps /\ ops' = ops + 1

Init ==
  /\ queue = <<>> /\ pending = <<>> /\ closed = FALSE /\ errored = FALSE
  /\ hasPull \in BOOLEAN /\ attached = TRUE
  /\ wclosed = FALSE /\ werr = FALSE /\ locked = FALSE
  /\ frames = <<Calling("start")>>
  /\ ops = 0
  /\ sent = <<>> /\ delivered = <<>> /\ sink = <<>>
  /\ answers = [r \in Ids |-> "none"]
  /\ ended = MaxOps + 1 /\ misled = {} /\ lapses = {}

----------------------------------------------------------------------------
(* ReadableStream. *)

Answered(r, a) == answers' = [answers EXCEPT ![r] = a]

\* Mutant: the chunk is queued, a read that is parked or not.
Enqueue_Queues ==
  /\ Calls
  /\ sent' = Append(sent, ops + 1) /\ queue' = Append(queue, ops + 1)
  /\ UNCHANGED <<pending, closed, errored, hasPull, attached, wsVars, frames>>
  /\ UNCHANGED <<delivered, answers, sink, ends>>

\* rs_ctl_enqueue: the first parked read gets the chunk, or it is queued, on a
\* stream that has ended too.
Enqueue ==
  LET c == ops + 1
  IN  /\ Calls
      /\ sent' = Append(sent, c)
      /\ \/ /\ pending # <<>>
            /\ pending' = Tail(pending)
            /\ delivered' = Append(delivered, c)
            /\ Answered(Head(pending), "chunk")
            /\ frames' = Append(frames, Calling("reaction"))
            /\ UNCHANGED queue
         \/ /\ pending = <<>>
            /\ queue' = Append(queue, c)
            /\ UNCHANGED <<pending, delivered, answers, frames>>
      /\ UNCHANGED <<closed, errored, hasPull, attached, wsVars, sink, ends>>

Drain(answer) == Frame("drain", FALSE, 0, answer)
Ends == ended' = IF ended > ops THEN ops + 1 ELSE ended

\* Mutant: rs_ctl_close without its drain.
CloseSource_NoDrain ==
  /\ Calls
  /\ closed' = TRUE /\ Ends
  /\ UNCHANGED <<queue, pending, errored, hasPull, frames, attached, wsVars, hist>>
  /\ UNCHANGED <<misled, lapses>>

\* rs_ctl_close.
CloseSource ==
  /\ Calls
  /\ closed' = TRUE /\ Ends
  /\ frames' = Append(frames, Drain("done"))
  /\ UNCHANGED <<queue, pending, errored, hasPull, attached, wsVars, hist, misled, lapses>>

\* rs_ctl_error. Without a reason the stream is not marked, or no longer.
ErrorSource(reason) ==
  /\ Calls
  /\ errored' = reason /\ Ends
  /\ misled' = misled \cup {f.read : f \in {g \in Range(frames) : g.what = "pull"}}
  /\ frames' = Append(frames, Drain("error"))
  /\ UNCHANGED <<queue, pending, closed, hasPull, attached, wsVars, hist, lapses>>

\* One turn of rs_drain_pending, whose reaction may park or settle others.
DrainNext ==
  /\ frames # <<>> /\ Top.what = "drain" /\ ~Top.in
  /\ \/ /\ pending # <<>>
        /\ pending' = Tail(pending)
        /\ Answered(Head(pending), Top.answer)
        /\ frames' = Append(frames, Calling("reaction"))
     \/ /\ pending = <<>>
        /\ frames' = Beneath
        /\ UNCHANGED <<pending, answers>>
  /\ UNCHANGED <<queue, closed, errored, hasPull, attached, wsVars, ops, sent, delivered, sink, ends>>

\* What a read does with the queue, once there is no pull to call.
TakeOrPark(r) ==
  \/ /\ queue # <<>>
     /\ queue' = Tail(queue)
     /\ delivered' = Append(delivered, Head(queue))
     /\ Answered(r, "chunk")
     /\ UNCHANGED pending
  \/ /\ queue = <<>> /\ closed
     /\ Answered(r, "done")
     /\ UNCHANGED <<queue, pending, delivered>>
  \/ /\ queue = <<>> /\ ~closed
     /\ pending' = Append(pending, r)
     /\ UNCHANGED <<queue, delivered, answers>>

\* rs_reader_read. The reader of a released stream parks its read on nothing.
Read ==
  LET r == ops + 1
  IN  /\ Calls
      /\ ~In("start")
      /\ \/ /\ ~attached
            /\ UNCHANGED <<queue, pending, delivered, answers, frames>>
         \/ /\ attached /\ errored
            /\ Answered(r, "error")
            /\ UNCHANGED <<queue, pending, delivered, frames>>
         \/ /\ attached /\ ~errored /\ hasPull /\ queue = <<>> /\ ~closed
            /\ frames' = Append(frames, Frame("pull", TRUE, r, "none"))
            /\ UNCHANGED <<queue, pending, delivered, answers>>
         \/ /\ attached /\ ~errored /\ (~hasPull \/ queue # <<>> \/ closed)
            /\ TakeOrPark(r)
            /\ UNCHANGED frames
      /\ UNCHANGED <<closed, errored, hasPull, attached, wsVars, sent, sink, ends>>

\* The read goes on when its pull returns; it does not look at the error again.
PullReturns ==
  /\ frames # <<>> /\ Top.what = "pull"
  /\ TakeOrPark(Top.read)
  /\ frames' = Beneath
  /\ UNCHANGED <<closed, errored, hasPull, attached, wsVars, ops, sent, sink, ends>>

\* ReadableStream.cancel, which tells the source afterwards, and reader.cancel,
\* which does not.
Cancel(tells) ==
  /\ Calls
  /\ ~In("start")
  /\ closed' = TRUE /\ Ends
  /\ frames' = frames \o (IF tells THEN <<Frame("cancel", FALSE, 0, "none")>> ELSE <<>>)
                     \o <<Drain("done")>>
  /\ UNCHANGED <<queue, pending, errored, hasPull, attached, wsVars, hist, misled, lapses>>

CallCancel ==
  /\ frames # <<>> /\ Top.what = "cancel" /\ ~Top.in
  /\ frames' = Append(Beneath, Calling("cancel"))
  /\ UNCHANGED <<rsVars, attached, wsVars, ops, hist, ends>>

----------------------------------------------------------------------------
(* WritableStream. *)

\* ws_call_sink.
CallSink(method) ==
  /\ sink' = Append(sink, method)
  /\ frames' = Append(frames, Calling("sink"))

\* ws_writer_write.
Write ==
  /\ Calls /\ ~In("start") /\ locked
  /\ \/ /\ ~werr /\ ~wclosed
        /\ CallSink("write")
     \/ /\ werr \/ wclosed
        /\ UNCHANGED <<sink, frames>>
  /\ UNCHANGED <<rsVars, attached, wsVars, sent, delivered, answers, ends>>

\* ws_writer_close and ws_close.
Finish ==
  /\ Calls /\ ~In("start")
  /\ \/ /\ ~werr /\ ~wclosed
        /\ wclosed' = TRUE
        /\ CallSink("close")
     \/ /\ werr \/ wclosed
        /\ UNCHANGED <<wclosed, sink, frames>>
  /\ UNCHANGED <<rsVars, attached, werr, locked, sent, delivered, answers, ends>>

\* The mark of an error: one without a reason takes it off.
Marks(reason, calls) ==
  /\ werr' = reason
  /\ lapses' = IF reason THEN lapses ELSE lapses \cup {calls}
  /\ UNCHANGED <<ended, misled>>

\* ws_writer_abort and ws_abort.
AbortStream(reason) ==
  /\ Calls /\ ~In("start")
  /\ Marks(reason, Len(sink) + 1)
  /\ CallSink("abort")
  /\ UNCHANGED <<rsVars, attached, wclosed, locked, sent, delivered, answers>>

\* ws_ctl_error.
ErrorSink(reason) ==
  /\ Calls
  /\ Marks(reason, Len(sink))
  /\ UNCHANGED <<rsVars, attached, wclosed, locked, frames, hist>>

\* ws_getWriter, refused while locked; ws_writer_releaseLock.
GetWriter ==
  /\ Calls /\ ~In("start") /\ ~locked
  /\ locked' = TRUE
  /\ UNCHANGED <<rsVars, attached, wclosed, werr, frames, hist, ends>>

ReleaseWriter ==
  /\ Calls /\ locked
  /\ locked' = FALSE
  /\ UNCHANGED <<rsVars, attached, wclosed, werr, frames, hist, ends>>

\* rs_reader_releaseLock, and rs_getReader, which never refuses.
ReleaseReader ==
  /\ Calls /\ attached /\ ~In("start")
  /\ attached' = FALSE
  /\ UNCHANGED <<rsVars, wsVars, frames, hist, ends>>

GetReader ==
  /\ Calls /\ ~attached
  /\ attached' = TRUE
  /\ UNCHANGED <<rsVars, wsVars, frames, hist, ends>>

----------------------------------------------------------------------------

\* The script function returns to the operation that called it.
Return ==
  /\ frames # <<>> /\ Top.in /\ Top.what # "pull"
  /\ frames' = Beneath
  /\ UNCHANGED <<rsVars, attached, wsVars, ops, hist, ends>>

Next ==
  \/ Enqueue \/ CloseSource \/ DrainNext
  \/ Read \/ PullReturns \/ (\E tells \in BOOLEAN : Cancel(tells)) \/ CallCancel
  \/ ReleaseReader \/ GetReader
  \/ Write \/ Finish \/ GetWriter \/ ReleaseWriter
  \/ \E reason \in BOOLEAN : ErrorSource(reason) \/ AbortStream(reason) \/ ErrorSink(reason)
  \/ Return

Spec == Init /\ [][Next]_vars

----------------------------------------------------------------------------
(* Properties, for every script.  They name what the standard would not have, *)
(* and the code does after an error without a reason, or one that a pull       *)
(* reports.                                                                    *)

\* Every chunk goes to one read, in the order of the enqueues, whether it was
\* queued, pulled for, or handed to a parked read, also when the source enqueues
\* while reads of its own are under way; and a read that is parked can still be
\* answered: the stream is open and bears no error, or a drain is about to answer
\* it, or its own pull has reported the error (rs_ctl_enqueue, rs_reader_read,
\* rs_ctl_close, rs_ctl_error, rs_cancel).  The sink sees nothing but aborts after a
\* close, and neither a write nor a close after an abort, unless an error without
\* a reason came after it, also when its own methods call the writer
\* (ws_writer_write, ws_writer_close, ws_abort, ws_ctl_error).
InOrder ==
  /\ sent = delivered \o queue
  /\ pending # <<>> => \/ In("drain")
                       \/ ~closed /\ (errored => Range(pending) \subseteq misled)
SinkEnds ==
  \A i, j \in DOMAIN sink :
    i < j => /\ sink[i] = "close" => sink[j] = "abort"
             /\ sink[i] = "abort" /\ sink[j] # "abort" => \E k \in lapses : i <= k /\ k < j
ReadsAndWritesServed == InOrder /\ SinkEnds

\* The answer of a read is final.  After a read was told that the stream is done
\* or failed, a later read gets no chunk but one that the source enqueued after
\* the end, which the code lets it do; or, after a failure, when an error without a
\* reason has taken the mark off, or when the source enqueued and failed in that
\* read's own pull (rs_drain_pending's order against reactions that read again).
EndIsFinal ==
  [][\A r \in Ids :
       /\ answers[r] # "none" => answers'[r] = answers[r]
       /\ answers[r] \in {"done", "error"} /\ delivered' # delivered =>
            \/ Last(delivered') > ended
            \/ /\ answers[r] = "error"
               /\ ~errored \/ \E q \in misled : answers[q] = "none" /\ answers'[q] = "chunk"]_vars
=============================================================================
