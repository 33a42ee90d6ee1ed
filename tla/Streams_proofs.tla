---------------------------- MODULE Streams_proofs ----------------------------
(***************************************************************************)
(* The streams, for every script and every number of operations: chunks    *)
(* go to the reads in order, and the end of a stream is final.  What       *)
(* carries the proof is who still owes an answer: a read that is parked or *)
(* in the middle of its pull is in one place only and has no answer, and a *)
(* drain tells reads of an end that the stream has already come to.        *)
(***************************************************************************)
EXTENDS Streams, SequenceTheorems, TLAPS

Answers == {"none", "chunk", "done", "error"}
FrameType == [what : {"start", "reaction", "drain", "pull", "cancel", "sink"},
              in : BOOLEAN, read : Ids \cup {0}, answer : {"none", "done", "error"}]

Types ==
  /\ queue \in Seq(Ids) /\ pending \in Seq(Ids)
  /\ closed \in BOOLEAN /\ errored \in BOOLEAN
  /\ wclosed \in BOOLEAN /\ werr \in BOOLEAN
  /\ frames \in Seq(FrameType)
  /\ ops \in 0 .. MaxOps
  /\ sent \in Seq(Ids) /\ delivered \in Seq(Ids)
  /\ sink \in Seq({"write", "close", "abort"})
  /\ answers \in [Ids -> Answers]
  /\ ended \in Nat

\* Reads without an answer: those parked, and those in the middle of a pull.
Owed(r) == r \in 1 .. ops /\ answers[r] = "none"
ParkedApart ==
  /\ \A i \in 1 .. Len(pending) : Owed(pending[i])
  /\ \A i, j \in 1 .. Len(pending) : pending[i] = pending[j] => i = j
PullsApart ==
  \A i \in DOMAIN frames : frames[i].what = "pull" =>
    /\ Owed(frames[i].read)
    /\ \A j \in 1 .. Len(pending) : pending[j] # frames[i].read
    /\ \A j \in DOMAIN frames :
         frames[j].what = "pull" /\ frames[j].read = frames[i].read => i = j
ReadsToCome == \A r \in Ids : r > ops => answers[r] = "none"
ReadsApart == ParkedApart /\ PullsApart /\ ReadsToCome

\* A drain tells of an end that has come; a pull that still runs when the stream
\* bears an error has reported it.
DrainsTellTheTruth ==
  \A i \in DOMAIN frames :
    /\ frames[i].what = "drain" =>
         /\ ~frames[i].in /\ ended <= ops
         /\ (frames[i].answer = "done" /\ closed) \/ frames[i].answer = "error"
    /\ frames[i].what = "pull" => ~errored \/ frames[i].read \in misled

\* What was enqueued before the end is gone when a read is told that it is done.
QueuedLate == \A i \in 1 .. Len(queue) : queue[i] > ended
EndsAreKnown ==
  /\ pending # <<>> => queue = <<>>
  /\ closed \/ errored => ended <= ops
  /\ \A r \in Ids : /\ answers[r] = "done" => closed /\ ended <= ops /\ QueuedLate
                    /\ answers[r] = "error" => ended <= ops

SinkIsKnown ==
  /\ \A k \in lapses : k \in 0 .. Len(sink)
  /\ \A i \in 1 .. Len(sink) :
       /\ sink[i] = "close" => wclosed
       /\ sink[i] = "abort" => werr \/ \E k \in lapses : i <= k

ReaderInv == ReadsApart /\ DrainsTellTheTruth /\ EndsAreKnown /\ InOrder
WriterInv == SinkIsKnown /\ SinkEnds
IInv == Types /\ ReaderInv /\ WriterInv
----------------------------------------------------------------------------
(* Sequences. *)

LEMMA PushedType ==
  ASSUME NEW S, NEW s \in Seq(S), NEW e \in S
  PROVE  /\ Append(s, e) \in Seq(S) /\ Append(s, e) # <<>>
         /\ Len(Append(s, e)) = Len(s) + 1 /\ Len(s) \in Nat
         /\ DOMAIN s = 1 .. Len(s) /\ DOMAIN Append(s, e) = 1 .. Len(s) + 1
         /\ \A i \in 1 .. Len(s) : Append(s, e)[i] = s[i]
         /\ Append(s, e)[Len(s) + 1] = e
BY AppendProperties, LenProperties

LEMMA TailType ==
  ASSUME NEW S, NEW s \in Seq(S), s # <<>>
  PROVE  /\ Len(s) \in Nat \ {0} /\ Head(s) = s[1] /\ Head(s) \in S
         /\ Tail(s) \in Seq(S) /\ Len(Tail(s)) = Len(s) - 1
         /\ \A i \in 1 .. Len(s) - 1 : Tail(s)[i] = s[i + 1]
         /\ s = <<Head(s)>> \o Tail(s)
<1>1. /\ Len(s) \in Nat \ {0} /\ Head(s) = s[1] /\ Head(s) \in S
      /\ Tail(s) \in Seq(S) /\ Len(Tail(s)) = Len(s) - 1
      /\ \A i \in 1 .. Len(s) - 1 : Tail(s)[i] = s[i + 1]
  BY HeadTailProperties, EmptySeq, LenProperties
<1> DEFINE h == Head(s)
           one == <<h>>
           t == Tail(s)
<1>2. one \in Seq(S) /\ Len(one) = 1 /\ one[1] = h
  BY <1>1
<1>3. h = s[1] /\ t \in Seq(S) /\ Len(t) = Len(s) - 1
      /\ \A i \in 1 .. Len(s) - 1 : t[i] = s[i + 1]
  BY <1>1
<1> HIDE DEF one, t, h
<1>4. /\ one \o t \in Seq(S) /\ Len(one \o t) = Len(s)
      /\ \A i \in 1 .. Len(s) : (one \o t)[i] = IF i <= 1 THEN h ELSE t[i - 1]
  <2>1. /\ one \o t \in Seq(S) /\ Len(one \o t) = Len(one) + Len(t)
        /\ \A i \in 1 .. Len(one) + Len(t) :
             (one \o t)[i] = IF i <= Len(one) THEN one[i] ELSE t[i - Len(one)]
    <3>1. one \in Seq(S) /\ t \in Seq(S)
      BY <1>2, <1>3
    <3> QED
      BY <3>1, ConcatProperties, Zenon
  <2>2. Len(one) + Len(t) = Len(s)
    BY <1>1, <1>2, <1>3
  <2> QED
    BY <1>2, <2>1, <2>2
<1>5. \A i \in 1 .. Len(s) : (one \o t)[i] = s[i]
  <2> SUFFICES ASSUME NEW i \in 1 .. Len(s) PROVE (one \o t)[i] = s[i]
    OBVIOUS
  <2>1. CASE i = 1
    BY <1>1, <1>3, <1>4, <2>1
  <2>2. CASE i # 1
    <3>1. i - 1 \in 1 .. Len(s) - 1
      BY <1>1, <2>2
    <3>2. t[i - 1] = s[(i - 1) + 1]
      BY <1>3, <3>1
    <3> QED
      BY <1>1, <1>4, <2>2, <3>2
  <2> QED
    BY <2>1, <2>2
<1>6. one \o t = s
  BY <1>4, <1>5, SeqEqual
<1> QED
  BY <1>1, <1>6 DEF one, t, h

\* The frames that wait while something runs.
LEMMA FramesType ==
  ASSUME Types, frames # <<>>
  PROVE  /\ Len(frames) \in Nat \ {0} /\ DOMAIN frames = 1 .. Len(frames)
         /\ Top = frames[Len(frames)] /\ Top \in FrameType
         /\ Beneath \in Seq(FrameType) /\ Len(Beneath) = Len(frames) - 1
         /\ DOMAIN Beneath = 1 .. Len(frames) - 1
         /\ \A i \in 1 .. Len(frames) - 1 : Beneath[i] = frames[i]
<1>1. Len(frames) \in Nat \ {0} /\ DOMAIN frames = 1 .. Len(frames)
  BY EmptySeq, LenProperties DEF Types
<1>2. \A i \in 1 .. Len(frames) : frames[i] \in FrameType
  BY ElementOfSeq DEF Types
<1>3. /\ Beneath \in Seq(FrameType) /\ Len(Beneath) = Len(frames) - 1
      /\ \A i \in 1 .. Len(frames) - 1 : Beneath[i] = frames[i]
  BY <1>1, <1>2, SubSeqProperties DEF Beneath, Front
<1> QED
  BY <1>1, <1>2, <1>3, LenProperties DEF Top, Last

LEMMA CallingType ==
  ASSUME NEW what \in {"start", "reaction", "cancel", "sink"}
  PROVE  /\ Calling(what) \in FrameType /\ Calling(what).what = what
         /\ Calling(what).in = TRUE
BY DEF Calling, Frame, FrameType

----------------------------------------------------------------------------
(* Steps that owe nobody an answer. *)

\* The drains and the pulls that wait are the same.
SameWork ==
  /\ \A i \in DOMAIN frames : frames[i].what \in {"drain", "pull"} =>
       i \in DOMAIN frames' /\ frames'[i] = frames[i]
  /\ \A i \in DOMAIN frames' : frames'[i].what \in {"drain", "pull"} =>
       i \in DOMAIN frames /\ frames[i] = frames'[i]

LEMMA ReaderKept ==
  ASSUME Types, Types', ReaderInv, SameWork, ops' >= ops,
         UNCHANGED <<queue, pending, closed, errored, sent, delivered, answers, ended, misled>>
  PROVE  ReaderInv'
<1>0. ReadsApart /\ DrainsTellTheTruth /\ EndsAreKnown /\ InOrder
  BY DEF ReaderInv
<1>1. ops \in Nat /\ ops' \in Nat /\ ended \in Nat /\ (ended <= ops => ended <= ops')
  BY DEF Types
<1>2. ReadsApart'
  <2>1. ReadsToCome'
    BY <1>0, <1>1 DEF ReadsApart, ReadsToCome, Ids
  <2>2. PullsApart'
    BY <1>0, <1>1 DEF ReadsApart, PullsApart, Owed, SameWork
  <2>3. ParkedApart'
    BY <1>0, <1>1 DEF ReadsApart, ParkedApart, Owed
  <2> QED
    BY <2>1, <2>2, <2>3 DEF ReadsApart
<1>3. DrainsTellTheTruth'
  BY <1>0, <1>1 DEF DrainsTellTheTruth, SameWork
<1>4. EndsAreKnown' /\ InOrder'
  <2>1. In("drain") => In("drain")'
    BY DEF In, SameWork
  <2> QED
    BY <1>0, <1>1, <2>1 DEF EndsAreKnown, QueuedLate, InOrder
<1> QED
  BY <1>2, <1>3, <1>4 DEF ReaderInv

LEMMA WriterKept ==
  ASSUME WriterInv, UNCHANGED <<sink, werr, wclosed, lapses>>
  PROVE  WriterInv'
BY DEF WriterInv, SinkIsKnown, SinkEnds

\* A frame of script is pushed, or none.
LEMMA PushedWork ==
  ASSUME Types, NEW what \in {"reaction", "cancel", "sink"},
         frames' = frames \/ frames' = Append(frames, Calling(what))
  PROVE  frames' \in Seq(FrameType) /\ SameWork
<1> DEFINE f == Calling(what)
<1>1. f \in FrameType /\ f.what \notin {"drain", "pull"}
  BY CallingType
<1> HIDE DEF f
<1>2. CASE frames' = frames
  BY <1>2 DEF Types, SameWork
<1>3. CASE frames' = Append(frames, f)
  <2>1. /\ frames' \in Seq(FrameType)
        /\ DOMAIN frames = 1 .. Len(frames) /\ DOMAIN frames' = 1 .. Len(frames) + 1
        /\ \A i \in 1 .. Len(frames) : frames'[i] = frames[i]
        /\ frames'[Len(frames) + 1] = f /\ Len(frames) \in Nat
    BY <1>1, <1>3, PushedType DEF Types
  <2> QED
    BY <1>1, <2>1 DEF SameWork
<1> QED
  BY <1>2, <1>3 DEF f

\* One more call of the sink: an abort, which marks the stream or is a lapse, or a
\* call that finds it open and without a mark.
LEMMA SinkCalled ==
  ASSUME Types, WriterInv, NEW m \in {"write", "close", "abort"}, sink' = Append(sink, m),
         wclosed => wclosed', m = "close" => wclosed',
         m = "abort" => \/ werr' /\ lapses' = lapses
                        \/ lapses' = lapses \cup {Len(sink) + 1},
         m # "abort" => ~wclosed /\ ~werr /\ ~werr' /\ lapses' = lapses
  PROVE  WriterInv' /\ sink' \in Seq({"write", "close", "abort"})
<1> DEFINE n == Len(sink)
<1>1. /\ sink' \in Seq({"write", "close", "abort"}) /\ DOMAIN sink' = 1 .. n + 1 /\ n \in Nat
      /\ DOMAIN sink = 1 .. n /\ Len(sink') = n + 1
      /\ \A i \in 1 .. n : sink'[i] = sink[i]
      /\ sink'[n + 1] = m
  BY PushedType DEF Types
<1>2. /\ \A k \in lapses : k \in 0 .. n
      /\ \A i \in 1 .. n : /\ sink[i] = "close" => wclosed
                           /\ sink[i] = "abort" => werr \/ \E k \in lapses : i <= k
      /\ SinkEnds
  BY DEF WriterInv, SinkIsKnown
<1>3. \/ m = "abort" /\ werr' /\ lapses' = lapses
      \/ m = "abort" /\ lapses' = lapses \cup {n + 1}
      \/ m # "abort" /\ ~wclosed /\ ~werr /\ ~werr' /\ lapses' = lapses
  OBVIOUS
<1> HIDE DEF n
<1>4. SinkIsKnown'
  <2>1. \A k \in lapses' : k \in 0 .. n + 1
    BY <1>1, <1>2, <1>3
  <2>2. \A i \in 1 .. n + 1 : sink'[i] = "close" => wclosed'
    BY <1>1, <1>2, <1>3
  <2>3. ASSUME NEW i \in 1 .. n + 1, sink'[i] = "abort"
        PROVE  werr' \/ \E k \in lapses' : i <= k
    <3>1. CASE m = "abort" /\ lapses' = lapses \cup {n + 1}
      <4>1. n + 1 \in lapses' /\ i <= n + 1
        BY <1>1, <3>1
      <4> QED
        BY <4>1
    <3>2. CASE m # "abort" /\ ~werr /\ lapses' = lapses
      <4>1. i \in 1 .. n /\ sink[i] = "abort"
        BY <1>1, <2>3, <3>2
      <4> QED
        BY <1>2, <3>2, <4>1
    <3> QED
      BY <1>3, <3>1, <3>2
  <2> QED
    BY <1>1, <2>1, <2>2, <2>3 DEF SinkIsKnown
<1>5. SinkEnds'
  <2> SUFFICES ASSUME NEW i \in 1 .. n + 1, NEW j \in 1 .. n + 1, i < j
               PROVE  /\ sink'[i] = "close" => sink'[j] = "abort"
                      /\ sink'[i] = "abort" /\ sink'[j] # "abort" =>
                           \E k \in lapses' : i <= k /\ k < j
    BY <1>1 DEF SinkEnds
  <2>1. i \in 1 .. n /\ sink'[i] = sink[i]
    BY <1>1
  <2>2. CASE j \in 1 .. n
    <3>1. lapses \subseteq lapses' /\ sink'[j] = sink[j]
      BY <1>1, <1>3, <2>2
    <3> QED
      BY <1>1, <1>2, <2>1, <2>2, <3>1 DEF SinkEnds
  <2>3. CASE j = n + 1 /\ m # "abort"
    <3>1. /\ sink[i] # "close" /\ lapses' = lapses
          /\ sink[i] = "abort" => \E k \in lapses : i <= k
      BY <1>2, <1>3, <2>1, <2>3
    <3>2. \A k \in lapses : k < j
      BY <1>1, <1>2, <2>3
    <3> QED
      BY <2>1, <3>1, <3>2
  <2>4. CASE j = n + 1 /\ m = "abort"
    BY <1>1, <2>4
  <2> QED
    BY <1>1, <2>2, <2>3, <2>4
<1> QED
  BY <1>1, <1>4, <1>5 DEF WriterInv

----------------------------------------------------------------------------
(* One lemma per action. *)

LEMMA InitIInv == Init => IInv
<1> SUFFICES ASSUME Init PROVE IInv
  OBVIOUS
<1> DEFINE f == Calling("start")
<1>1. f \in FrameType /\ f.what = "start"
  BY CallingType
<1>2. frames = Append(<<>>, f)
  BY DEF Init
<1> HIDE DEF f
<1>3. frames \in Seq(FrameType) /\ DOMAIN frames = {1} /\ frames[1] = f
  BY <1>1, <1>2, AppendProperties, EmptySeq, LenProperties
<1>4. /\ queue = <<>> /\ pending = <<>> /\ sent = <<>> /\ delivered = <<>> /\ sink = <<>>
      /\ closed \in BOOLEAN /\ errored \in BOOLEAN /\ wclosed \in BOOLEAN /\ werr \in BOOLEAN
      /\ ops = 0 /\ answers = [r \in Ids |-> "none"]
      /\ ended = MaxOps + 1 /\ lapses = {} /\ ~closed /\ ~errored
  BY DEF Init
<1>5. Types
  BY <1>3, <1>4, EmptySeq, StreamsAssumption DEF Types, Answers
<1>6. ReadsApart
  BY <1>1, <1>3, <1>4, EmptySeq DEF ReadsApart, ParkedApart, PullsApart, ReadsToCome
<1>7. DrainsTellTheTruth
  BY <1>1, <1>3 DEF DrainsTellTheTruth
<1>8. EndsAreKnown
  BY <1>4 DEF EndsAreKnown
<1>9. InOrder
  BY <1>4, ConcatEmptySeq, EmptySeq DEF InOrder
<1>10. WriterInv
  BY <1>4 DEF WriterInv, SinkIsKnown, SinkEnds
<1> QED
  BY <1>5, <1>6, <1>7, <1>8, <1>9, <1>10 DEF IInv, ReaderInv

LEMMA CountType ==
  ASSUME Types, Calls
  PROVE  /\ ops \in Nat /\ ops + 1 \in Ids /\ ops + 1 \in 0 .. MaxOps
         /\ ops' = ops + 1 /\ ops' > ops
BY StreamsAssumption DEF Types, Calls, Ids

\* The mark changes, and the sink is not called.
LEMMA Remarked ==
  ASSUME Types, WriterInv, NEW reason \in BOOLEAN, Marks(reason, Len(sink)),
         UNCHANGED <<sink, wclosed>>
  PROVE  WriterInv'
<1> DEFINE n == Len(sink)
<1>1. n \in Nat /\ DOMAIN sink = 1 .. n
  BY LenProperties DEF Types
<1>2. /\ \A k \in lapses : k \in 0 .. n
      /\ \A i \in 1 .. n : /\ sink[i] = "close" => wclosed
                           /\ sink[i] = "abort" => werr \/ \E k \in lapses : i <= k
      /\ SinkEnds
  BY DEF WriterInv, SinkIsKnown
<1>3. werr' = reason /\ lapses' = IF reason THEN lapses ELSE lapses \cup {n}
  BY DEF Marks
<1> HIDE DEF n
<1>4. /\ \A k \in lapses' : k \in 0 .. n
      /\ \A i \in 1 .. n : /\ sink[i] = "close" => wclosed
                           /\ werr' \/ \E k \in lapses' : i <= k
  BY <1>1, <1>2, <1>3
<1>5. SinkIsKnown'
  BY <1>4 DEF SinkIsKnown, n
<1>6. lapses \subseteq lapses'
  BY <1>3
<1>7. SinkEnds'
  BY <1>2, <1>6 DEF SinkEnds
<1> QED
  BY <1>5, <1>7 DEF WriterInv

LEMMA WriterIInv ==
  ASSUME IInv,
         \/ Write \/ Finish
         \/ \E reason \in BOOLEAN : AbortStream(reason) \/ ErrorSink(reason)
  PROVE  IInv'
<1>0. Types /\ ReaderInv /\ WriterInv
  BY DEF IInv
<1>1. /\ queue' = queue /\ pending' = pending /\ closed' = closed /\ errored' = errored
      /\ sent' = sent /\ delivered' = delivered /\ answers' = answers
      /\ ended' = ended /\ misled' = misled
      /\ Calls
  BY DEF Write, Finish, AbortStream, ErrorSink, Marks, rsVars, hist, ends
<1>2. wclosed \in BOOLEAN /\ werr \in BOOLEAN
  BY <1>0 DEF Types
<1>3. frames' \in Seq(FrameType) /\ SameWork
  <2>1. frames' = frames \/ frames' = Append(frames, Calling("sink"))
    BY DEF Write, Finish, AbortStream, ErrorSink, CallSink
  <2> QED
    BY <1>0, <2>1, PushedWork
<1>4. /\ WriterInv' /\ sink' \in Seq({"write", "close", "abort"})
      /\ wclosed' \in BOOLEAN /\ werr' \in BOOLEAN
  <2>1. CASE Write
    <3>1. wclosed' = wclosed /\ werr' = werr /\ lapses' = lapses
      BY <2>1, Zenon DEF Write, wsVars, ends
    <3>2. CASE ~werr /\ ~wclosed /\ sink' = Append(sink, "write")
      <4>1. ~werr'
        BY <3>1, <3>2, Zenon
      <4> QED
        BY <1>0, <1>2, <3>1, <3>2, <4>1, SinkCalled
    <3>3. CASE UNCHANGED <<sink, werr, wclosed, lapses>>
      BY <1>0, <1>2, <3>3, WriterKept DEF Types
    <3> QED
      BY <2>1, <3>1, <3>2, <3>3 DEF Write, CallSink
  <2>2. CASE Finish
    <3>1. werr' = werr /\ lapses' = lapses
      BY <2>2, Zenon DEF Finish, ends
    <3>2. CASE ~werr /\ ~wclosed /\ sink' = Append(sink, "close") /\ wclosed' = TRUE
      <4>1. ~werr' /\ wclosed' /\ wclosed' \in BOOLEAN
        BY <3>1, <3>2, Zenon
      <4> QED
        BY <1>0, <1>2, <3>1, <3>2, <4>1, SinkCalled
    <3>3. CASE UNCHANGED <<sink, werr, wclosed, lapses>>
      BY <1>0, <1>2, <3>3, WriterKept DEF Types
    <3> QED
      BY <2>2, <3>1, <3>2, <3>3 DEF Finish, CallSink
  <2>3. ASSUME NEW reason \in BOOLEAN, AbortStream(reason)
        PROVE  /\ WriterInv' /\ sink' \in Seq({"write", "close", "abort"})
               /\ wclosed' \in BOOLEAN /\ werr' \in BOOLEAN
    <3>1. /\ sink' = Append(sink, "abort") /\ wclosed' = wclosed /\ werr' = reason
          /\ lapses' = IF reason THEN lapses ELSE lapses \cup {Len(sink) + 1}
      BY <2>3 DEF AbortStream, CallSink, Marks
    <3>2. (werr' /\ lapses' = lapses) \/ lapses' = lapses \cup {Len(sink) + 1}
      BY <3>1, Zenon
    <3> QED
      BY <1>0, <1>2, <3>1, <3>2, SinkCalled
  <2>4. ASSUME NEW reason \in BOOLEAN, ErrorSink(reason)
        PROVE  /\ WriterInv' /\ sink' \in Seq({"write", "close", "abort"})
               /\ wclosed' \in BOOLEAN /\ werr' \in BOOLEAN
    <3>1. /\ sink' = sink /\ wclosed' = wclosed /\ werr' = reason
          /\ Marks(reason, Len(sink))
      BY <2>4 DEF ErrorSink, Marks, hist
    <3> QED
      BY <1>0, <1>2, <3>1, Remarked DEF Types
  <2> QED
    BY <2>1, <2>2, <2>3, <2>4
<1>5. Types'
  BY <1>0, <1>1, <1>3, <1>4, CountType DEF Types
<1>6. ReaderInv'
  BY <1>0, <1>1, <1>3, <1>5, CountType, ReaderKept
<1> QED
  BY <1>4, <1>5, <1>6 DEF IInv

LEMMA LocksIInv ==
  ASSUME IInv, GetWriter \/ ReleaseWriter \/ ReleaseReader \/ GetReader
  PROVE  IInv'
<1>0. Types /\ ReaderInv /\ WriterInv
  BY DEF IInv
<1>1. /\ queue' = queue /\ pending' = pending /\ closed' = closed /\ errored' = errored
      /\ sent' = sent /\ delivered' = delivered /\ answers' = answers /\ sink' = sink
      /\ wclosed' = wclosed /\ werr' = werr /\ frames' = frames /\ Calls
      /\ ended' = ended /\ misled' = misled /\ lapses' = lapses
  BY DEF GetWriter, ReleaseWriter, ReleaseReader, GetReader, rsVars, wsVars, hist, ends
<1>2. Types' /\ SameWork
  BY <1>0, <1>1, CountType DEF Types, SameWork
<1> QED
  BY <1>0, <1>1, <1>2, CountType, ReaderKept, WriterKept DEF IInv

LEMMA ReturnIInv ==
  ASSUME IInv, Return \/ CallCancel
  PROVE  IInv'
<1> DEFINE n == Len(frames)
<1>0. Types /\ ReaderInv /\ WriterInv /\ DrainsTellTheTruth /\ frames # <<>>
  BY DEF IInv, ReaderInv, Return, CallCancel
<1>1. /\ queue' = queue /\ pending' = pending /\ closed' = closed /\ errored' = errored
      /\ sent' = sent /\ delivered' = delivered /\ answers' = answers /\ sink' = sink
      /\ wclosed' = wclosed /\ werr' = werr /\ ops' = ops
      /\ ended' = ended /\ misled' = misled /\ lapses' = lapses
  BY DEF Return, CallCancel, rsVars, wsVars, hist, ends
<1>2. /\ n \in Nat \ {0} /\ DOMAIN frames = 1 .. n
      /\ Beneath \in Seq(FrameType) /\ Len(Beneath) = n - 1 /\ DOMAIN Beneath = 1 .. n - 1
      /\ \A i \in 1 .. n - 1 : Beneath[i] = frames[i]
      /\ Top = frames[n]
  BY <1>0, FramesType
<1> HIDE DEF n
<1>3. frames[n].what \notin {"drain", "pull"}
  BY <1>0, <1>2 DEF DrainsTellTheTruth, Return, CallCancel
<1>4. frames' \in Seq(FrameType) /\ SameWork
  <2>1. CASE frames' = Beneath
    BY <1>2, <1>3, <2>1 DEF SameWork
  <2>2. CASE frames' = Append(Beneath, Calling("cancel"))
    <3> DEFINE f == Calling("cancel")
    <3>1. f \in FrameType /\ f.what = "cancel"
      BY CallingType
    <3> HIDE DEF f
    <3>2. /\ frames' \in Seq(FrameType) /\ DOMAIN frames' = 1 .. Len(Beneath) + 1
          /\ \A i \in 1 .. Len(Beneath) : frames'[i] = Beneath[i]
          /\ frames'[Len(Beneath) + 1] = f
      BY <1>2, <2>2, <3>1, PushedType DEF f
    <3>3. /\ DOMAIN frames' = 1 .. n
          /\ \A i \in 1 .. n - 1 : frames'[i] = frames[i]
          /\ frames'[n] = f
      BY <1>2, <3>2
    <3> QED
      BY <1>2, <1>3, <3>1, <3>2, <3>3 DEF SameWork
  <2> QED
    BY <2>1, <2>2 DEF Return, CallCancel
<1>5. Types'
  BY <1>0, <1>1, <1>4 DEF Types
<1>6. ops' >= ops
  BY <1>0, <1>1 DEF Types
<1> QED
  BY <1>0, <1>1, <1>4, <1>5, <1>6, ReaderKept, WriterKept DEF IInv

----------------------------------------------------------------------------
(* The actions of the reader and of the source. *)

\* Every frame that waited still does.
Grown == \A i \in DOMAIN frames : i \in DOMAIN frames' /\ frames'[i] = frames[i]
\* No drain or pull is new.
NoNewWork == \A i \in DOMAIN frames' : frames'[i].what \in {"drain", "pull"} =>
               i \in DOMAIN frames /\ frames[i] = frames'[i]

\* The stream comes to an end, and a drain is there to tell of it.
LEMMA EndReported ==
  ASSUME Types, Types', ReaderInv, Grown, In("drain")', ops' >= ops,
         UNCHANGED <<queue, pending, sent, delivered, answers>>,
         closed => closed', ended <= ops => ended' = ended, ended' <= ops',
         \A i \in DOMAIN frames : frames[i].what = "pull" =>
           ~errored' \/ frames[i].read \in misled',
         \A i \in DOMAIN frames' : i \notin DOMAIN frames =>
           /\ frames'[i].what # "pull"
           /\ frames'[i].what = "drain" =>
                /\ ~frames'[i].in
                /\ (frames'[i].answer = "done" /\ closed') \/ frames'[i].answer = "error"
  PROVE  ReaderInv'
<1>0. /\ ParkedApart /\ PullsApart /\ ReadsToCome
      /\ DrainsTellTheTruth /\ EndsAreKnown /\ InOrder
  BY DEF ReaderInv, ReadsApart
<1>1. ops \in Nat /\ ops' \in Nat
  BY DEF Types
<1>2. ReadsToCome' /\ ParkedApart'
  BY <1>0, <1>1 DEF ReadsToCome, ParkedApart, Owed, Ids
<1>3. PullsApart'
  BY <1>0, <1>1 DEF PullsApart, Owed, Grown
<1>4. DrainsTellTheTruth'
  BY <1>0 DEF DrainsTellTheTruth, Grown, In
<1>5. EndsAreKnown' /\ InOrder'
  BY <1>0 DEF EndsAreKnown, QueuedLate, InOrder
<1> QED
  BY <1>2, <1>3, <1>4, <1>5 DEF ReaderInv, ReadsApart

\* The read that was parked first is answered.
LEMMA HeadAnswered ==
  ASSUME Types, ReaderInv, NEW a \in {"chunk", "done", "error"}, pending # <<>>,
         pending' = Tail(pending), Answered(Head(pending), a), NoNewWork,
         ops' \in Nat, ops' >= ops
  PROVE  /\ ReadsApart' /\ pending' \in Seq(Ids) /\ answers' \in [Ids -> Answers]
         /\ Head(pending) \in Ids /\ answers[Head(pending)] = "none"
         /\ \A r \in Ids : answers'[r] = IF r = Head(pending) THEN a ELSE answers[r]
<1> DEFINE h == Head(pending)
           n == Len(pending)
<1>0. ParkedApart /\ PullsApart /\ ReadsToCome
  BY DEF ReaderInv, ReadsApart
<1>1. /\ n \in Nat \ {0} /\ h = pending[1] /\ h \in Ids
      /\ pending' \in Seq(Ids) /\ Len(pending') = n - 1
      /\ \A i \in 1 .. n - 1 : pending'[i] = pending[i + 1]
  BY TailType DEF Types
<1>2. answers' = [answers EXCEPT ![h] = a]
  BY DEF Answered
<1>3. \A i \in 1 .. n : Owed(pending[i])
  BY <1>0 DEF ParkedApart
<1>4. \A i, j \in 1 .. n : pending[i] = pending[j] => i = j
  BY <1>0 DEF ParkedApart
<1>5. \A i \in DOMAIN frames : frames[i].what = "pull" =>
        Owed(frames[i].read) /\ \A j \in 1 .. n : pending[j] # frames[i].read
  BY <1>0 DEF PullsApart
<1> HIDE DEF h, n
<1>6. /\ answers' \in [Ids -> Answers]
      /\ \A r \in Ids : answers'[r] = IF r = h THEN a ELSE answers[r]
  BY <1>1, <1>2 DEF Types, Answers
<1>7. Owed(h) /\ ops \in Nat /\ h <= ops
  BY <1>1, <1>3 DEF Owed, Types
<1>8. \A r : Owed(r) /\ r # h => r \in 1 .. ops' /\ answers'[r] = "none"
  BY <1>2, <1>6, <1>7 DEF Owed, Types, Ids
<1>9. \A i \in 1 .. n - 1 : i + 1 \in 1 .. n /\ pending[i + 1] # h
  BY <1>1, <1>4
<1>10. ParkedApart'
  <2>1. \A i \in 1 .. n - 1 : pending'[i] \in 1 .. ops' /\ answers'[pending'[i]] = "none"
    BY <1>1, <1>3, <1>8, <1>9
  <2>2. \A i, j \in 1 .. n - 1 : pending'[i] = pending'[j] => i = j
    <3> SUFFICES ASSUME NEW i \in 1 .. n - 1, NEW j \in 1 .. n - 1, pending'[i] = pending'[j]
                 PROVE  i = j
      OBVIOUS
    <3>1. pending[i + 1] = pending[j + 1]
      BY <1>1
    <3>2. i + 1 = j + 1
      BY <1>4, <1>9, <3>1
    <3> QED
      BY <3>2
  <2> QED
    BY <1>1, <2>1, <2>2 DEF ParkedApart, Owed
<1>11. PullsApart'
  <2> SUFFICES ASSUME NEW i \in DOMAIN frames', frames'[i].what = "pull"
               PROVE  /\ frames'[i].read \in 1 .. ops' /\ answers'[frames'[i].read] = "none"
                      /\ \A j \in 1 .. Len(pending') : pending'[j] # frames'[i].read
                      /\ \A j \in DOMAIN frames' :
                           frames'[j].what = "pull" /\ frames'[j].read = frames'[i].read => i = j
    BY DEF PullsApart, Owed
  <2>1. i \in DOMAIN frames /\ frames[i] = frames'[i] /\ frames[i].what = "pull"
    BY DEF NoNewWork
  <2>2. frames[i].read # h
    BY <1>1, <1>5, <2>1
  <2>3. frames'[i].read \in 1 .. ops' /\ answers'[frames'[i].read] = "none"
    BY <1>5, <1>8, <2>1, <2>2
  <2>4. \A j \in 1 .. Len(pending') : pending'[j] # frames'[i].read
    BY <1>1, <1>5, <1>9, <2>1
  <2>5. \A j \in DOMAIN frames' :
           frames'[j].what = "pull" /\ frames'[j].read = frames'[i].read => i = j
    BY <1>0, <2>1 DEF PullsApart, NoNewWork
  <2> QED
    BY <2>3, <2>4, <2>5
<1>12. ReadsToCome'
  BY <1>0, <1>6, <1>7 DEF ReadsToCome, Ids
<1> QED
  BY <1>1, <1>6, <1>7, <1>10, <1>11, <1>12 DEF ReadsApart, Owed, h

\* What a step may do to the answers that reads have got, and to the chunks.
LateOrMisled(r) ==
  \/ Last(delivered') > ended
  \/ /\ answers[r] = "error"
     /\ ~errored \/ \E q \in misled : answers[q] = "none" /\ answers'[q] = "chunk"
Final ==
  \A r \in Ids :
    /\ answers[r] # "none" => answers'[r] = answers[r]
    /\ answers[r] \in {"done", "error"} /\ delivered' # delivered => LateOrMisled(r)

LEMMA LastAppended ==
  ASSUME NEW S, NEW s \in Seq(S), NEW e \in S
  PROVE  Last(Append(s, e)) = e
BY PushedType DEF Last

\* A read that nobody else answers takes a chunk, is told of the end, or parks.
LEMMA TakenOrParked ==
  ASSUME Types, ReaderInv, NEW r \in Ids, TakeOrPark(r), NoNewWork,
         In("drain") => In("drain")', errored => r \in misled,
         closed' = closed, errored' = errored, sent' = sent,
         ended' = ended, misled' = misled,
         ops' \in Nat, ops' >= ops, r <= ops', answers[r] = "none",
         \A j \in 1 .. Len(pending) : pending[j] # r,
         \A i \in DOMAIN frames' : frames'[i].what = "pull" => frames'[i].read # r
  PROVE  /\ ReaderInv'
         /\ queue' \in Seq(Ids) /\ pending' \in Seq(Ids) /\ delivered' \in Seq(Ids)
         /\ answers' \in [Ids -> Answers]
         /\ Final
<1>0. /\ ParkedApart /\ PullsApart /\ ReadsToCome
      /\ DrainsTellTheTruth /\ EndsAreKnown /\ InOrder
  BY DEF ReaderInv, ReadsApart
<1>1. r \in 1 .. ops' /\ ops \in Nat /\ ended \in Nat /\ (ended <= ops => ended <= ops')
  BY DEF Ids, Types
<1>2. DrainsTellTheTruth'
  BY <1>0, <1>1 DEF DrainsTellTheTruth, NoNewWork
\* It is answered.
<1>4. ASSUME NEW a \in {"chunk", "done"}, answers' = [answers EXCEPT ![r] = a],
             pending' = pending
      PROVE  /\ ReadsApart' /\ answers' \in [Ids -> Answers]
             /\ \A q \in Ids : answers'[q] = IF q = r THEN a ELSE answers[q]
  <2>1. /\ answers' \in [Ids -> Answers]
        /\ \A q \in Ids : answers'[q] = IF q = r THEN a ELSE answers[q]
    BY <1>4 DEF Types, Answers
  <2>2. \A q : Owed(q) /\ q # r => q \in 1 .. ops' /\ answers'[q] = "none"
    BY <1>1, <2>1, <1>4 DEF Owed, Types, Ids
  <2>3. ParkedApart'
    BY <1>0, <1>4, <2>2 DEF ParkedApart, Owed
  <2>4. PullsApart'
    BY <1>0, <1>4, <2>2 DEF PullsApart, Owed, NoNewWork
  <2>5. ReadsToCome'
    BY <1>0, <1>1, <2>1 DEF ReadsToCome, Ids
  <2> QED
    BY <2>1, <2>3, <2>4, <2>5 DEF ReadsApart
<1>5. CASE /\ queue # <<>> /\ queue' = Tail(queue) /\ pending' = pending
           /\ delivered' = Append(delivered, Head(queue)) /\ Answered(r, "chunk")
  <2> DEFINE h == Head(queue)
             t == Tail(queue)
  <2>1. h \in Ids /\ t \in Seq(Ids) /\ queue = <<h>> \o t /\ delivered \in Seq(Ids)
    BY <1>5, TailType DEF Types
  <2>2. /\ ReadsApart' /\ answers' \in [Ids -> Answers]
        /\ \A q \in Ids : answers'[q] = IF q = r THEN "chunk" ELSE answers[q]
    BY <1>4, <1>5 DEF Answered
  <2> HIDE DEF h, t
  <2>3. delivered' = delivered \o <<h>> /\ delivered' \in Seq(Ids)
    <3>1. delivered' = Append(delivered, h)
      BY <1>5 DEF h
    <3> QED
      BY <2>1, <3>1, AppendIsConcat, AppendProperties
  <2>4. sent' = delivered' \o queue'
    <3>1. <<h>> \in Seq(Ids)
      BY <2>1
    <3>2. delivered \o (<<h>> \o t) = (delivered \o <<h>>) \o t
      BY SMTT(60), <2>1, <3>1, ConcatAssociative
    <3> QED
      BY <1>0, <1>5, <2>1, <2>3, <3>2 DEF InOrder, t
  <2>5. /\ pending' = <<>>
        /\ closed \/ errored => ended <= ops
        /\ \A q \in Ids : /\ answers[q] = "done" => closed /\ ended <= ops /\ QueuedLate
                          /\ answers[q] = "error" => ended <= ops
    BY <1>0, <1>5 DEF EndsAreKnown
  <2>6. EndsAreKnown' /\ InOrder'
    <3>1. QueuedLate => QueuedLate'
      <4>1. /\ Len(queue) \in Nat /\ Len(t) = Len(queue) - 1
            /\ \A i \in 1 .. Len(queue) - 1 : t[i] = queue[i + 1]
        BY <1>5, TailType DEF Types, t
      <4>2. queue' = t
        BY <1>5 DEF t
      <4> QED
        BY <4>1, <4>2 DEF QueuedLate
    <3> QED
      BY <1>1, <2>2, <2>4, <2>5, <3>1 DEF EndsAreKnown, InOrder
  <2>7. Final
    <3>1. ASSUME NEW q \in Ids, answers[q] \in {"done", "error"}
          PROVE  LateOrMisled(q)
      <4>1. CASE answers[q] = "done"
        <5>1. /\ 1 \in 1 .. Len(queue) /\ h = queue[1]
          BY <1>5, TailType DEF Types, h
        <5>2. h > ended
          BY <2>5, <4>1, <5>1 DEF QueuedLate
        <5>3. Last(delivered') = h
          BY <1>5, <2>1, LastAppended DEF h
        <5> QED
          BY <5>2, <5>3 DEF LateOrMisled
      <4>2. CASE answers[q] = "error"
        <5>1. answers[r] = "none" /\ answers'[r] = "chunk"
          BY <2>2
        <5> QED
          BY <4>2, <5>1 DEF LateOrMisled
      <4> QED
        BY <3>1, <4>1, <4>2
    <3>2. \A q \in Ids : answers[q] # "none" => answers'[q] = answers[q]
      BY <2>2
    <3> QED
      BY <3>1, <3>2 DEF Final
  <2> QED
    BY <1>2, <1>5, <2>1, <2>2, <2>3, <2>6, <2>7 DEF ReaderInv, Types, t
<1>6. CASE /\ queue = <<>> /\ closed /\ Answered(r, "done")
           /\ queue' = queue /\ pending' = pending /\ delivered' = delivered
  <2>1. /\ ReadsApart' /\ answers' \in [Ids -> Answers]
        /\ \A q \in Ids : answers'[q] = IF q = r THEN "done" ELSE answers[q]
    BY <1>4, <1>6 DEF Answered
  <2>2. EndsAreKnown' /\ InOrder'
    <3>1. QueuedLate' /\ ended <= ops
      BY <1>0, <1>6, EmptySeq DEF EndsAreKnown, QueuedLate
    <3> QED
      BY <1>0, <1>1, <1>6, <2>1, <3>1 DEF EndsAreKnown, InOrder
  <2>3. Final
    BY <1>6, <2>1 DEF Final
  <2> QED
    BY <1>2, <1>6, <2>1, <2>2, <2>3 DEF ReaderInv, Types
<1>7. CASE /\ queue = <<>> /\ ~closed /\ pending' = Append(pending, r)
           /\ queue' = queue /\ delivered' = delivered /\ answers' = answers
  <2> DEFINE n == Len(pending)
  <2>1. /\ pending' \in Seq(Ids) /\ Len(pending') = n + 1 /\ n \in Nat
        /\ \A i \in 1 .. n : pending'[i] = pending[i]
        /\ pending'[n + 1] = r
    BY <1>7, PushedType DEF Types
  <2>2. /\ \A i \in 1 .. n : Owed(pending[i]) /\ pending[i] # r
        /\ \A i, j \in 1 .. n : pending[i] = pending[j] => i = j
        /\ \A i \in DOMAIN frames : frames[i].what = "pull" =>
              \A j \in 1 .. n : pending[j] # frames[i].read
    BY <1>0 DEF ParkedApart, PullsApart
  <2> HIDE DEF n
  <2>3. \A q : Owed(q) => q \in 1 .. ops' /\ answers'[q] = "none"
    BY <1>1, <1>7 DEF Owed, Types, Ids
  <2>4. ParkedApart'
    BY <1>1, <1>7, <2>1, <2>2, <2>3 DEF ParkedApart, Owed
  <2>5. PullsApart'
    BY <1>0, <2>1, <2>2, <2>3 DEF PullsApart, Owed, NoNewWork
  <2>6. ReadsToCome'
    BY <1>0, <1>1, <1>7 DEF ReadsToCome, Ids
  <2>7. EndsAreKnown'
    BY <1>0, <1>1, <1>7 DEF EndsAreKnown, QueuedLate
  <2>8. InOrder'
    <3>1. Range(pending') = Range(pending) \cup {r}
      <4>1. DOMAIN pending = 1 .. n /\ DOMAIN pending' = 1 .. n + 1
        BY <1>7, PushedType DEF Types, n
      <4> QED
        BY <2>1, <4>1 DEF Range
    <3>2. pending = <<>> => Range(pending) = {}
      BY EmptySeq DEF Range
    <3> QED
      BY <1>0, <1>7, <3>1, <3>2 DEF InOrder
  <2>9. Final
    BY <1>7 DEF Final
  <2> QED
    BY <1>2, <1>7, <2>1, <2>4, <2>5, <2>6, <2>7, <2>8, <2>9 DEF ReaderInv, ReadsApart, Types
<1> QED
  BY <1>5, <1>6, <1>7 DEF TakeOrPark

LEMMA EnqueueIInv ==
  ASSUME IInv, Enqueue
  PROVE  IInv' /\ Final
<1> DEFINE c == ops + 1
<1>0. Types /\ ReaderInv /\ WriterInv /\ DrainsTellTheTruth /\ EndsAreKnown /\ InOrder
  BY DEF IInv, ReaderInv
<1>1. /\ closed' = closed /\ errored' = errored /\ wclosed' = wclosed /\ werr' = werr
      /\ sink' = sink /\ Calls /\ sent' = Append(sent, c)
      /\ ended' = ended /\ misled' = misled /\ lapses' = lapses
  BY DEF Enqueue, wsVars, ends
<1>2. /\ c \in Ids /\ ops' \in 0 .. MaxOps /\ ops \in Nat /\ ops' \in Nat /\ ops' >= ops
      /\ ended \in Nat /\ (ended <= ops => ended <= ops' /\ c > ended)
  BY <1>0, <1>1, CountType DEF Types
<1> HIDE DEF c
<1>3. frames' \in Seq(FrameType) /\ SameWork /\ NoNewWork
  <2>1. frames' = frames \/ frames' = Append(frames, Calling("reaction"))
    BY DEF Enqueue
  <2>2. frames' \in Seq(FrameType) /\ SameWork
    BY <1>0, <2>1, PushedWork
  <2> QED
    BY <2>2 DEF SameWork, NoNewWork
<1>4. DrainsTellTheTruth' /\ (In("drain") => In("drain")')
  BY <1>0, <1>1, <1>2, <1>3 DEF DrainsTellTheTruth, SameWork, In
<1>5. \A q \in Ids : answers[q] \in {"done", "error"} => c > ended
  BY <1>0, <1>2 DEF EndsAreKnown
<1>6. sent' = sent \o <<c>> /\ sent' \in Seq(Ids) /\ <<c>> \in Seq(Ids)
  BY <1>0, <1>1, <1>2, AppendIsConcat, AppendProperties DEF Types
<1>7. WriterInv'
  BY <1>0, <1>1, WriterKept
<1>8. CASE /\ pending # <<>> /\ pending' = Tail(pending) /\ Answered(Head(pending), "chunk")
           /\ delivered' = Append(delivered, c) /\ queue' = queue
  <2>1. /\ ReadsApart' /\ pending' \in Seq(Ids) /\ answers' \in [Ids -> Answers]
        /\ Head(pending) \in Ids /\ answers[Head(pending)] = "none"
        /\ \A r \in Ids : answers'[r] = IF r = Head(pending) THEN "chunk" ELSE answers[r]
    BY <1>0, <1>2, <1>3, <1>8, HeadAnswered
  <2>2. queue = <<>> /\ sent = delivered /\ delivered' \in Seq(Ids)
    BY <1>0, <1>2, <1>8, ConcatEmptySeq, AppendProperties DEF EndsAreKnown, InOrder, Types
  <2>3. sent' = delivered' \o queue'
    BY <1>1, <1>8, <2>2, ConcatEmptySeq
  <2>4. EndsAreKnown' /\ InOrder'
    <3>1. Range(pending') \subseteq Range(pending)
      <4>1. /\ Len(pending) \in Nat \ {0} /\ Len(pending') = Len(pending) - 1
            /\ \A i \in 1 .. Len(pending) - 1 : pending'[i] = pending[i + 1]
        BY <1>0, <1>8, TailType DEF Types
      <4>2. DOMAIN pending = 1 .. Len(pending) /\ DOMAIN pending' = 1 .. Len(pending')
        BY <1>0, <2>1, LenProperties DEF Types
      <4> QED
        BY <4>1, <4>2 DEF Range
    <3>2. InOrder'
      BY <1>0, <1>1, <1>4, <1>8, <2>3, <3>1 DEF InOrder
    <3>3. QueuedLate'
      BY <1>8, <2>2, EmptySeq DEF QueuedLate
    <3> QED
      BY <1>0, <1>1, <1>2, <1>8, <2>1, <2>2, <3>2, <3>3 DEF EndsAreKnown
  <2>5. Types'
    BY <1>0, <1>1, <1>2, <1>3, <1>6, <1>8, <2>1, <2>2 DEF Types
  <2>6. Final
    <3>1. Last(delivered') = c
      BY <1>0, <1>2, <1>8, LastAppended DEF Types
    <3> QED
      BY <1>5, <2>1, <3>1 DEF Final, LateOrMisled
  <2> QED
    BY <1>4, <1>7, <2>1, <2>4, <2>5, <2>6 DEF IInv, ReaderInv
<1>9. CASE /\ pending = <<>> /\ pending' = pending /\ answers' = answers
           /\ delivered' = delivered /\ queue' = Append(queue, c)
  <2>1. queue' \in Seq(Ids) /\ queue' = queue \o <<c>>
    BY <1>0, <1>2, <1>9, AppendIsConcat, AppendProperties DEF Types
  <2>2. sent' = delivered' \o queue'
    BY SMTT(60), <1>0, <1>6, <1>9, <2>1, ConcatAssociative DEF InOrder, Types
  <2>3. ReadsApart'
    <3>1. ReadsToCome' /\ PullsApart'
      BY <1>0, <1>2, <1>3, <1>9
      DEF ReaderInv, ReadsApart, ReadsToCome, PullsApart, Owed, NoNewWork, Ids
    <3>2. ParkedApart'
      BY <1>9, EmptySeq DEF ParkedApart
    <3> QED
      BY <3>1, <3>2 DEF ReadsApart
  <2>4. EndsAreKnown' /\ InOrder'
    <3>1. ended <= ops /\ QueuedLate => QueuedLate'
      BY <1>0, <1>1, <1>2, <1>9, PushedType DEF QueuedLate, Types
    <3> QED
      BY <1>0, <1>1, <1>2, <1>9, <2>2, <3>1 DEF EndsAreKnown, InOrder
  <2>5. Types'
    BY <1>0, <1>1, <1>2, <1>3, <1>6, <1>9, <2>1 DEF Types
  <2>6. Final
    BY <1>9 DEF Final
  <2> QED
    BY <1>4, <1>7, <2>3, <2>4, <2>5, <2>6 DEF IInv, ReaderInv
<1> QED
  BY <1>8, <1>9 DEF Enqueue, c

LEMMA DrainType ==
  ASSUME NEW a \in {"done", "error"}
  PROVE  /\ Drain(a) \in FrameType /\ Drain(a).what = "drain"
         /\ Drain(a).in = FALSE /\ Drain(a).answer = a
BY DEF Drain, Frame, FrameType

\* A drain on top of frames that were there, and of others that owe nothing.
LEMMA DrainPushed ==
  ASSUME Types, NEW a \in {"done", "error"}, NEW m \in Seq(FrameType),
         Len(m) >= Len(frames),
         \A i \in 1 .. Len(frames) : m[i] = frames[i],
         \A i \in 1 .. Len(m) : i \in 1 .. Len(frames) \/ m[i].what = "cancel",
         frames' = Append(m, Drain(a))
  PROVE  /\ frames' \in Seq(FrameType) /\ Grown /\ In("drain")'
         /\ \A i \in DOMAIN frames' : i \notin DOMAIN frames =>
              frames'[i].what # "pull" /\ (frames'[i].what = "drain" => frames'[i] = Drain(a))
<1> DEFINE d == Drain(a)
           k == Len(m)
           n == Len(frames)
<1>1. d \in FrameType /\ d.what = "drain"
  BY DrainType
<1> HIDE DEF d
<1>2. /\ frames' \in Seq(FrameType) /\ DOMAIN frames' = 1 .. k + 1
      /\ \A i \in 1 .. k : frames'[i] = m[i]
      /\ frames'[k + 1] = d
  BY <1>1, PushedType DEF d
<1>3. /\ k \in Nat /\ n \in Nat /\ n <= k /\ DOMAIN frames = 1 .. n
      /\ \A i \in 1 .. n : m[i] = frames[i]
      /\ \A i \in 1 .. k : i \in 1 .. n \/ m[i].what = "cancel"
  BY LenProperties DEF Types
<1> HIDE DEF k, n
<1>4. Grown
  BY <1>2, <1>3 DEF Grown
<1>5. In("drain")'
  BY <1>1, <1>2, <1>3 DEF In
<1>6. \A i \in DOMAIN frames' : i \notin DOMAIN frames =>
        frames'[i].what # "pull" /\ (frames'[i].what = "drain" => frames'[i] = d)
  BY <1>1, <1>2, <1>3
<1> QED
  BY <1>2, <1>4, <1>5, <1>6 DEF d

\* What the end of a stream puts on the stack.
LEMMA EndPushed ==
  ASSUME Types, NEW a \in {"done", "error"}, NEW told \in BOOLEAN,
         frames' = (frames \o (IF told THEN <<Frame("cancel", FALSE, 0, "none")>> ELSE <<>>))
                   \o <<Drain(a)>>
  PROVE  /\ frames' \in Seq(FrameType) /\ Grown /\ In("drain")'
         /\ \A i \in DOMAIN frames' : i \notin DOMAIN frames =>
              frames'[i].what # "pull" /\ (frames'[i].what = "drain" => frames'[i] = Drain(a))
<1> DEFINE d == Drain(a)
           f == Frame("cancel", FALSE, 0, "none")
           m == IF told THEN Append(frames, f) ELSE frames
<1>1. d \in FrameType /\ d.what = "drain"
  BY DrainType
<1>2. f \in FrameType /\ f.what = "cancel"
  BY DEF Frame, FrameType
<1>3. frames \in Seq(FrameType) /\ Len(frames) \in Nat /\ DOMAIN frames = 1 .. Len(frames)
  BY LenProperties DEF Types
<1> HIDE DEF d, f
<1>4. /\ m \in Seq(FrameType) /\ Len(m) \in Nat /\ Len(m) >= Len(frames)
      /\ \A i \in 1 .. Len(frames) : m[i] = frames[i]
      /\ \A i \in 1 .. Len(m) : i \in 1 .. Len(frames) \/ m[i] = f
  <2>1. CASE told
    <3>1. m = Append(frames, f)
      BY <2>1
    <3> HIDE DEF m
    <3>2. /\ m \in Seq(FrameType) /\ Len(m) = Len(frames) + 1
          /\ \A i \in 1 .. Len(frames) : m[i] = frames[i]
          /\ m[Len(frames) + 1] = f
      BY <1>2, <1>3, <3>1, PushedType
    <3> QED
      BY <1>3, <3>2
  <2>2. CASE ~told
    BY <1>3, <2>2
  <2> QED
    BY <2>1, <2>2
<1>5. frames' = Append(m, d)
  <2>1. CASE told
    <3>1. frames \o <<f>> = m
      BY <1>2, <1>3, <2>1, AppendIsConcat
    <3> QED
      BY <1>1, <1>4, <2>1, <3>1, AppendIsConcat DEF d, f
  <2>2. CASE ~told
    <3>1. frames \o <<>> = m
      BY <1>3, <2>2, ConcatEmptySeq
    <3> QED
      BY <1>1, <1>4, <2>2, <3>1, AppendIsConcat DEF d
  <2> QED
    BY <2>1, <2>2
<1> HIDE DEF m
<1> QED
  BY <1>2, <1>4, <1>5, DrainPushed DEF d

LEMMA EndIInv ==
  ASSUME IInv,
         \/ CloseSource
         \/ \E reason \in BOOLEAN : ErrorSource(reason)
         \/ \E tells \in BOOLEAN : Cancel(tells)
  PROVE  IInv' /\ Final
<1>0. Types /\ ReaderInv /\ WriterInv /\ DrainsTellTheTruth
  BY DEF IInv, ReaderInv
<1>1. /\ queue' = queue /\ pending' = pending /\ wclosed' = wclosed /\ werr' = werr
      /\ sent' = sent /\ delivered' = delivered /\ answers' = answers /\ sink' = sink
      /\ lapses' = lapses /\ Calls /\ Ends
  BY DEF CloseSource, ErrorSource, Cancel, wsVars, hist
<1>2. /\ ops' \in 0 .. MaxOps /\ ops' >= ops
      /\ ended' \in Nat /\ ended' <= ops' /\ (ended <= ops => ended' = ended)
  BY <1>0, <1>1, CountType DEF Ends, Types
<1>3. \E a \in {"done", "error"}, told \in BOOLEAN :
        /\ frames' = (frames \o (IF told THEN <<Frame("cancel", FALSE, 0, "none")>> ELSE <<>>))
                     \o <<Drain(a)>>
        /\ a = "done" => closed' = TRUE
  <2>1. frames \o <<>> = frames /\ frames \in Seq(FrameType)
    BY <1>0, ConcatEmptySeq DEF Types
  <2>2. CASE CloseSource
    <3>1. frames' = (frames \o <<>>) \o <<Drain("done")>>
      BY <2>1, <2>2, DrainType, AppendIsConcat DEF CloseSource
    <3>2. closed' = TRUE
      BY <2>2 DEF CloseSource
    <3> QED
      BY <3>1, <3>2
  <2>3. CASE \E reason \in BOOLEAN : ErrorSource(reason)
    <3>1. frames' = (frames \o <<>>) \o <<Drain("error")>>
      BY <2>1, <2>3, DrainType, AppendIsConcat DEF ErrorSource
    <3> QED
      BY <3>1
  <2>4. CASE \E tells \in BOOLEAN : Cancel(tells)
    <3>1. closed' = TRUE
      BY <2>4 DEF Cancel
    <3> QED
      BY <2>4, <3>1 DEF Cancel
  <2> QED
    BY <2>2, <2>3, <2>4
<1>4. PICK a \in {"done", "error"}, told \in BOOLEAN :
        /\ frames' = (frames \o (IF told THEN <<Frame("cancel", FALSE, 0, "none")>> ELSE <<>>))
                     \o <<Drain(a)>>
        /\ a = "done" => closed' = TRUE
  BY <1>3
<1>5. /\ frames' \in Seq(FrameType) /\ Grown /\ In("drain")'
      /\ \A i \in DOMAIN frames' : i \notin DOMAIN frames =>
           frames'[i].what # "pull" /\ (frames'[i].what = "drain" => frames'[i] = Drain(a))
  BY <1>0, <1>4, EndPushed
<1>6. /\ closed' \in BOOLEAN /\ errored' \in BOOLEAN
      /\ closed' = TRUE \/ closed' = closed
      /\ \A i \in DOMAIN frames : frames[i].what = "pull" =>
           ~errored' \/ frames[i].read \in misled'
  <2>1. CASE CloseSource \/ \E tells \in BOOLEAN : Cancel(tells)
    <3>1. closed' = TRUE /\ errored' = errored /\ misled' = misled
      BY <2>1 DEF CloseSource, Cancel
    <3>2. errored \in BOOLEAN
      BY <1>0 DEF Types
    <3> QED
      BY <1>0, <3>1, <3>2 DEF DrainsTellTheTruth
  <2>2. ASSUME NEW reason \in BOOLEAN, ErrorSource(reason)
        PROVE  /\ closed' = closed /\ errored' \in BOOLEAN
               /\ \A i \in DOMAIN frames : frames[i].what = "pull" => frames[i].read \in misled'
    BY <2>2 DEF ErrorSource, Range
  <2>3. closed \in BOOLEAN
    BY <1>0 DEF Types
  <2> QED
    BY <2>1, <2>2, <2>3
<1>7. Types'
  BY <1>0, <1>1, <1>2, <1>5, <1>6 DEF Types
<1>8. /\ closed => closed'
      /\ a = "done" => closed'
  <2>1. closed => closed'
    BY <1>6
  <2>2. a = "done" => closed'
    BY <1>4, Zenon
  <2> QED
    BY <2>1, <2>2, Zenon
<1>9. ReaderInv'
  BY <1>0, <1>1, <1>2, <1>5, <1>6, <1>7, <1>8, DrainType, EndReported
<1> QED
  BY <1>0, <1>1, <1>7, <1>9, WriterKept DEF IInv, Final

LEMMA DrainNextIInv ==
  ASSUME IInv, DrainNext
  PROVE  IInv' /\ Final
<1> DEFINE n == Len(frames)
<1>0. /\ Types /\ ReaderInv /\ WriterInv /\ ParkedApart /\ PullsApart /\ ReadsToCome
      /\ DrainsTellTheTruth /\ EndsAreKnown /\ InOrder
  BY DEF IInv, ReaderInv, ReadsApart
<1>1. /\ queue' = queue /\ closed' = closed /\ errored' = errored /\ wclosed' = wclosed
      /\ werr' = werr /\ sent' = sent /\ delivered' = delivered /\ sink' = sink
      /\ ops' = ops /\ frames # <<>> /\ Top.what = "drain"
      /\ ended' = ended /\ misled' = misled /\ lapses' = lapses
  BY DEF DrainNext, wsVars, ends
<1>2. ops \in Nat /\ ops' \in Nat /\ ops' >= ops
  BY <1>0, <1>1 DEF Types
<1>3. /\ n \in Nat \ {0} /\ DOMAIN frames = 1 .. n
      /\ Beneath \in Seq(FrameType) /\ DOMAIN Beneath = 1 .. n - 1
      /\ \A i \in 1 .. n - 1 : Beneath[i] = frames[i]
      /\ Top = frames[n]
  BY <1>0, <1>1, FramesType
<1> HIDE DEF n
<1>4. WriterInv'
  BY <1>0, <1>1, WriterKept
<1>5. CASE /\ pending # <<>> /\ pending' = Tail(pending) /\ Answered(Head(pending), Top.answer)
           /\ frames' = Append(frames, Calling("reaction"))
  <2>1. frames' \in Seq(FrameType) /\ SameWork
    BY <1>0, <1>5, PushedWork
  <2>2. NoNewWork /\ In("drain")'
    BY <1>1, <1>3, <2>1 DEF SameWork, NoNewWork, In
  <2>3. /\ Top.answer \in {"done", "error"}
        /\ Top.answer = "done" => closed
        /\ ended <= ops
    BY <1>0, <1>1, <1>3 DEF DrainsTellTheTruth
  <2>4. /\ ReadsApart' /\ pending' \in Seq(Ids) /\ answers' \in [Ids -> Answers]
        /\ Head(pending) \in Ids /\ answers[Head(pending)] = "none"
        /\ \A r \in Ids : answers'[r] = IF r = Head(pending) THEN Top.answer ELSE answers[r]
    BY <1>0, <1>2, <1>5, <2>2, <2>3, HeadAnswered
  <2>5. DrainsTellTheTruth'
    BY <1>0, <1>1, <2>1 DEF DrainsTellTheTruth, SameWork
  <2>6. EndsAreKnown' /\ InOrder'
    <3>1. QueuedLate'
      BY <1>0, <1>1, <1>5, EmptySeq DEF EndsAreKnown, QueuedLate
    <3> QED
      BY <1>0, <1>1, <1>5, <2>2, <2>3, <2>4, <3>1 DEF EndsAreKnown, InOrder
  <2>7. Types'
    BY <1>0, <1>1, <2>1, <2>4 DEF Types
  <2>8. Final
    BY <1>1, <2>4 DEF Final
  <2> QED
    BY <1>4, <2>4, <2>5, <2>6, <2>7, <2>8 DEF IInv, ReaderInv
<1>6. CASE pending = <<>> /\ pending' = pending /\ answers' = answers /\ frames' = Beneath
  <2>1. NoNewWork
    BY <1>3, <1>6 DEF NoNewWork
  <2>2. ReadsApart'
    <3>1. ReadsToCome' /\ ParkedApart'
      BY <1>0, <1>1, <1>6 DEF ReadsToCome, ParkedApart, Owed
    <3>2. PullsApart'
      BY <1>0, <1>1, <1>6, <2>1 DEF PullsApart, Owed, NoNewWork
    <3> QED
      BY <3>1, <3>2 DEF ReadsApart
  <2>3. DrainsTellTheTruth'
    BY <1>0, <1>1, <2>1 DEF DrainsTellTheTruth, NoNewWork
  <2>4. EndsAreKnown' /\ InOrder'
    BY <1>0, <1>1, <1>6 DEF EndsAreKnown, QueuedLate, InOrder
  <2>5. Types'
    BY <1>0, <1>1, <1>3, <1>6 DEF Types
  <2>6. Final
    BY <1>1, <1>6 DEF Final
  <2> QED
    BY <1>4, <2>2, <2>3, <2>4, <2>5, <2>6 DEF IInv, ReaderInv
<1> QED
  BY <1>5, <1>6 DEF DrainNext

LEMMA ReadIInv ==
  ASSUME IInv, Read
  PROVE  IInv' /\ Final
<1> DEFINE r == ops + 1
           n == Len(frames)
<1>0. /\ Types /\ ReaderInv /\ WriterInv /\ ParkedApart /\ PullsApart /\ ReadsToCome
      /\ DrainsTellTheTruth /\ EndsAreKnown /\ InOrder
  BY DEF IInv, ReaderInv, ReadsApart
<1>1. /\ closed' = closed /\ errored' = errored /\ wclosed' = wclosed /\ werr' = werr
      /\ sent' = sent /\ sink' = sink /\ Calls
      /\ ended' = ended /\ misled' = misled /\ lapses' = lapses
  BY DEF Read, wsVars, ends
<1>2. /\ r \in Ids /\ ops' = r /\ ops' \in 0 .. MaxOps /\ ops \in Nat /\ ops' \in Nat /\ ops' > ops
      /\ ended \in Nat /\ (ended <= ops => ended <= ops')
  BY <1>0, <1>1, CountType DEF Types
<1> HIDE DEF r
<1>3. answers[r] = "none" /\ \A q : Owed(q) => q # r
  BY <1>0, <1>2 DEF ReadsToCome, Owed
<1>4. WriterInv'
  BY <1>0, <1>1, WriterKept
<1>5. frames \in Seq(FrameType) /\ DOMAIN frames = 1 .. n /\ n \in Nat
  BY <1>0, LenProperties DEF Types
<1>6. CASE UNCHANGED <<queue, pending, delivered, answers, frames>>
  <2>1. Types' /\ SameWork
    BY <1>0, <1>1, <1>2, <1>6 DEF Types, SameWork
  <2>2. ReaderInv'
    BY <1>0, <1>1, <1>2, <1>6, <2>1, ReaderKept
  <2> QED
    BY <1>4, <1>6, <2>1, <2>2 DEF IInv, Final
<1>7. CASE /\ errored /\ Answered(r, "error")
           /\ UNCHANGED <<queue, pending, delivered, frames>>
  <2>1. /\ answers' \in [Ids -> Answers]
        /\ \A q \in Ids : answers'[q] = IF q = r THEN "error" ELSE answers[q]
    BY <1>0, <1>2, <1>7 DEF Answered, Types, Answers
  <2>2. \A q : Owed(q) => q \in 1 .. ops' /\ answers'[q] = "none"
    <3> SUFFICES ASSUME NEW q, Owed(q) PROVE q \in 1 .. ops' /\ answers'[q] = "none"
      OBVIOUS
    <3>1. q # r /\ q \in 1 .. ops /\ answers[q] = "none"
      BY <1>3 DEF Owed
    <3>2. q \in 1 .. ops' /\ q \in Ids
      BY <1>0, <1>2, <3>1, StreamsAssumption DEF Types, Ids
    <3> QED
      BY <2>1, <3>1, <3>2
  <2>3. ReadsToCome'
    BY <1>0, <1>2, <2>1 DEF ReadsToCome, Ids
  <2>4. ParkedApart' /\ PullsApart'
    BY <1>0, <1>7, <2>2 DEF ParkedApart, PullsApart, Owed
  <2>5. DrainsTellTheTruth' /\ EndsAreKnown' /\ InOrder'
    BY <1>0, <1>1, <1>2, <1>7, <2>1
    DEF DrainsTellTheTruth, EndsAreKnown, QueuedLate, InOrder, In
  <2>6. Types'
    BY <1>0, <1>1, <1>2, <1>7, <2>1 DEF Types
  <2>7. Final
    BY <1>3, <1>7, <2>1 DEF Final
  <2> QED
    BY <1>4, <2>3, <2>4, <2>5, <2>6, <2>7 DEF IInv, ReaderInv, ReadsApart
<1>8. CASE /\ ~errored /\ frames' = Append(frames, Frame("pull", TRUE, r, "none"))
           /\ UNCHANGED <<queue, pending, delivered, answers>>
  <2> DEFINE f == Frame("pull", TRUE, r, "none")
  <2>1. f \in FrameType /\ f.what = "pull" /\ f.in /\ f.read = r
    BY <1>2 DEF Frame, FrameType
  <2> HIDE DEF f
  <2>2. /\ frames' \in Seq(FrameType) /\ DOMAIN frames' = 1 .. n + 1
        /\ \A i \in 1 .. n : frames'[i] = frames[i]
        /\ frames'[n + 1] = f
    <3>1. frames' = Append(frames, f)
      BY <1>8 DEF f
    <3> QED
      BY <1>5, <2>1, <3>1, PushedType
  <2> HIDE DEF n
  <2>3. \A q : Owed(q) => q \in 1 .. ops' /\ answers'[q] = "none"
    BY <1>0, <1>2, <1>8 DEF Owed, Types, Ids
  <2>4. ReadsToCome' /\ ParkedApart'
    BY <1>0, <1>2, <1>8, <2>3 DEF ReadsToCome, ParkedApart, Owed, Ids
  <2>5. PullsApart'
    <3>1. r \in 1 .. ops' /\ answers'[r] = "none"
      BY <1>2, <1>3, <1>8 DEF Ids
    <3>2. \A j \in 1 .. Len(pending) : pending[j] # r
      BY <1>0, <1>3 DEF ParkedApart
    <3>3. \A i \in 1 .. n : frames[i].what = "pull" => frames[i].read # r
      BY <1>0, <1>3, <1>5 DEF PullsApart
    <3>4. \A i \in DOMAIN frames' : i \in 1 .. n \/ i = n + 1
      BY <1>5, <2>2
    <3>5. ASSUME NEW i \in 1 .. n, frames[i].what = "pull"
          PROVE  /\ frames[i].read \in 1 .. ops' /\ answers'[frames[i].read] = "none"
                 /\ \A j \in 1 .. Len(pending) : pending[j] # frames[i].read
                 /\ \A j \in 1 .. n :
                      frames[j].what = "pull" /\ frames[j].read = frames[i].read => i = j
      BY <1>0, <1>5, <2>3, <3>5 DEF PullsApart
    <3>6. ASSUME NEW i \in DOMAIN frames', frames'[i].what = "pull"
          PROVE  /\ frames'[i].read \in 1 .. ops' /\ answers'[frames'[i].read] = "none"
                 /\ \A j \in 1 .. Len(pending) : pending[j] # frames'[i].read
                 /\ \A j \in DOMAIN frames' :
                      frames'[j].what = "pull" /\ frames'[j].read = frames'[i].read => i = j
      <4>1. CASE i \in 1 .. n
        <5>1. frames'[i] = frames[i] /\ frames[i].read # r
          BY <2>2, <3>3, <3>6, <4>1
        <5> QED
          BY <2>1, <2>2, <3>4, <3>5, <3>6, <4>1, <5>1
      <4>2. CASE i = n + 1
        BY <2>1, <2>2, <3>1, <3>2, <3>3, <3>4, <4>2
      <4> QED
        BY <3>4, <3>6, <4>1, <4>2
    <3>7. pending' = pending
      BY <1>8
    <3> QED
      BY <3>6, <3>7 DEF PullsApart, Owed
  <2>6. DrainsTellTheTruth'
    <3>1. closed' = closed /\ errored' = errored /\ ended' = ended /\ misled' = misled
      BY <1>1
    <3>2. ASSUME NEW i \in DOMAIN frames'
          PROVE  /\ frames'[i].what = "drain" =>
                      /\ ~frames'[i].in /\ ended <= ops'
                      /\ \/ frames'[i].answer = "done" /\ closed
                         \/ frames'[i].answer = "error"
                 /\ frames'[i].what = "pull" => ~errored \/ frames'[i].read \in misled
      <4>1. CASE i \in 1 .. n
        BY <1>0, <1>2, <1>5, <2>2, <4>1 DEF DrainsTellTheTruth
      <4>2. CASE i = n + 1
        BY <1>8, <2>1, <2>2, <4>2
      <4> QED
        BY <1>5, <2>2, <3>2, <4>1, <4>2
    <3> QED
      BY <3>1, <3>2 DEF DrainsTellTheTruth
  <2>8. EndsAreKnown' /\ InOrder'
    <3>1. In("drain") => In("drain")'
      BY <1>5, <2>2 DEF In
    <3>2. /\ queue' = queue /\ pending' = pending /\ delivered' = delivered
          /\ answers' = answers
      BY <1>8
    <3> QED
      BY <1>0, <1>1, <1>2, <3>1, <3>2 DEF EndsAreKnown, QueuedLate, InOrder
  <2>7. Types' /\ Final
    BY <1>0, <1>1, <1>2, <1>8, <2>2 DEF Types, Final
  <2> QED
    BY <1>4, <2>4, <2>5, <2>6, <2>7, <2>8 DEF IInv, ReaderInv, ReadsApart
<1>9. CASE ~errored /\ TakeOrPark(r) /\ frames' = frames
  <2>1. /\ NoNewWork
        /\ In("drain") => In("drain")'
        /\ \A j \in 1 .. Len(pending) : pending[j] # r
        /\ \A i \in DOMAIN frames' : frames'[i].what = "pull" => frames'[i].read # r
    BY <1>0, <1>3, <1>9 DEF NoNewWork, In, ParkedApart, PullsApart
  <2>2. /\ ReaderInv'
        /\ queue' \in Seq(Ids) /\ pending' \in Seq(Ids) /\ delivered' \in Seq(Ids)
        /\ answers' \in [Ids -> Answers]
        /\ Final
    BY <1>0, <1>1, <1>2, <1>3, <1>9, <2>1, TakenOrParked
  <2>3. Types'
    BY <1>0, <1>1, <1>2, <1>9, <2>2 DEF Types
  <2> QED
    BY <1>4, <2>2, <2>3 DEF IInv
<1> QED
  BY <1>6, <1>7, <1>8, <1>9 DEF Read, r

LEMMA PullReturnsIInv ==
  ASSUME IInv, PullReturns
  PROVE  IInv' /\ Final
<1> DEFINE r == Top.read
           n == Len(frames)
<1>0. /\ Types /\ ReaderInv /\ WriterInv /\ ParkedApart /\ PullsApart /\ ReadsToCome
      /\ DrainsTellTheTruth /\ EndsAreKnown /\ InOrder
  BY DEF IInv, ReaderInv, ReadsApart
<1>1. /\ closed' = closed /\ errored' = errored /\ wclosed' = wclosed /\ werr' = werr
      /\ sent' = sent /\ sink' = sink /\ ops' = ops
      /\ frames # <<>> /\ Top.what = "pull" /\ TakeOrPark(r) /\ frames' = Beneath
      /\ ended' = ended /\ misled' = misled /\ lapses' = lapses
  BY DEF PullReturns, wsVars, ends
<1>2. /\ n \in Nat \ {0} /\ DOMAIN frames = 1 .. n
      /\ Beneath \in Seq(FrameType) /\ DOMAIN Beneath = 1 .. n - 1
      /\ \A i \in 1 .. n - 1 : Beneath[i] = frames[i]
      /\ Top = frames[n]
  BY <1>0, <1>1, FramesType
<1> HIDE DEF n
<1>3. r = frames[n].read /\ n \in DOMAIN frames /\ frames[n].what = "pull"
  BY <1>1, <1>2
<1> HIDE DEF r
<1>4. /\ Owed(r) /\ (errored => r \in misled)
      /\ \A j \in 1 .. Len(pending) : pending[j] # r
      /\ \A i \in 1 .. n - 1 : frames[i].what = "pull" => frames[i].read # r
  BY <1>0, <1>2, <1>3 DEF PullsApart, DrainsTellTheTruth
<1>5. r \in Ids /\ answers[r] = "none" /\ ops' \in Nat /\ ops' >= ops /\ r <= ops'
  BY <1>0, <1>1, <1>4, StreamsAssumption DEF Owed, Types, Ids
<1>6. /\ NoNewWork /\ frames' \in Seq(FrameType)
      /\ \A i \in DOMAIN frames' : frames'[i].what = "pull" => frames'[i].read # r
  BY <1>1, <1>2, <1>4 DEF NoNewWork
<1>7. In("drain") => In("drain")'
  BY <1>1, <1>2, <1>3 DEF In
<1>8. /\ ReaderInv'
      /\ queue' \in Seq(Ids) /\ pending' \in Seq(Ids) /\ delivered' \in Seq(Ids)
      /\ answers' \in [Ids -> Answers]
      /\ Final
  BY <1>0, <1>1, <1>4, <1>5, <1>6, <1>7, TakenOrParked
<1>9. Types'
  BY <1>0, <1>1, <1>6, <1>8 DEF Types
<1> QED
  BY <1>0, <1>1, <1>8, <1>9, WriterKept DEF IInv

LEMMA StutterIInv ==
  ASSUME IInv, UNCHANGED vars
  PROVE  IInv' /\ Final
BY DEF IInv, vars, rsVars, wsVars, hist, ends, Types, ReaderInv, WriterInv, ReadsApart,
   ParkedApart, PullsApart, ReadsToCome, Owed, DrainsTellTheTruth, EndsAreKnown, QueuedLate, InOrder, In,
   SinkIsKnown, SinkEnds, Final

\* The steps that answer no read.
LEMMA OthersFinal ==
  ASSUME UNCHANGED <<answers, delivered>>
  PROVE  Final
BY DEF Final

LEMMA NextIInv ==
  ASSUME IInv, [Next]_vars
  PROVE  IInv' /\ Final
<1>1. CASE Enqueue
  BY <1>1, EnqueueIInv
<1>2. CASE \/ CloseSource
           \/ \E reason \in BOOLEAN : ErrorSource(reason)
           \/ \E tells \in BOOLEAN : Cancel(tells)
  BY <1>2, EndIInv
<1>3. CASE DrainNext
  BY <1>3, DrainNextIInv
<1>4. CASE Read
  BY <1>4, ReadIInv
<1>5. CASE PullReturns
  BY <1>5, PullReturnsIInv
<1>6. CASE Return \/ CallCancel
  <2>1. UNCHANGED <<answers, delivered>>
    BY <1>6 DEF Return, CallCancel, hist
  <2> QED
    BY <1>6, <2>1, ReturnIInv, OthersFinal
<1>7. CASE GetWriter \/ ReleaseWriter \/ ReleaseReader \/ GetReader
  <2>1. UNCHANGED <<answers, delivered>>
    BY <1>7 DEF GetWriter, ReleaseWriter, ReleaseReader, GetReader, hist
  <2> QED
    BY <1>7, <2>1, LocksIInv, OthersFinal
<1>8. CASE \/ Write \/ Finish
           \/ \E reason \in BOOLEAN : AbortStream(reason) \/ ErrorSink(reason)
  <2>1. UNCHANGED <<answers, delivered>>
    BY <1>8 DEF Write, Finish, AbortStream, ErrorSink, hist
  <2> QED
    BY <1>8, <2>1, WriterIInv, OthersFinal
<1>9. CASE UNCHANGED vars
  BY <1>9, StutterIInv
<1> QED
  BY <1>1, <1>2, <1>3, <1>4, <1>5, <1>6, <1>7, <1>8, <1>9 DEF Next

----------------------------------------------------------------------------
(* The theorems. *)

\* Whatever script does: every chunk goes to one read, in the order of the
\* enqueues, no read stays parked on a stream that has come to its end unless a
\* drain is about to answer it or its own pull reported the error, and the sink
\* sees no write after the end, unless an error without a reason took it back.
THEOREM StreamsServe == Spec => []ReadsAndWritesServed
<1>1. IInv /\ [Next]_vars => IInv'
  BY NextIInv
<1>2. IInv => ReadsAndWritesServed
  BY DEF IInv, ReaderInv, WriterInv, ReadsAndWritesServed
<1> QED
  BY <1>1, <1>2, InitIInv, PTL DEF Spec

\* Whatever script does: the answer of a read is final, and after one was told that
\* the stream is done no read gets a chunk that was there before the end; nor after
\* one was told that it failed, unless an error without a reason has taken that
\* back or the read's own pull reported the error.
THEOREM EndsAreFinal == Spec => EndIsFinal
<1>1. IInv /\ [Next]_vars => IInv'
  BY NextIInv
<1> DEFINE A == \A r \in Ids :
                  /\ answers[r] # "none" => answers'[r] = answers[r]
                  /\ answers[r] \in {"done", "error"} /\ delivered' # delivered =>
                       \/ Last(delivered') > ended
                       \/ /\ answers[r] = "error"
                          /\ ~errored \/ \E q \in misled : answers[q] = "none" /\ answers'[q] = "chunk"
<1>2. IInv /\ [Next]_vars => [A]_vars
  BY NextIInv DEF Final, LateOrMisled
<1> QED
  BY <1>1, <1>2, InitIInv, PTL DEF Spec, EndIsFinal

=============================================================================
