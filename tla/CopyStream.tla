----------------------------- MODULE CopyStream -----------------------------
(***************************************************************************)
(* Service.CopyStream (pkg/storage/io.go) with the standard middlewares of *)
(* pkg/storage/validation.go: the request body is read into one buffer,    *)
(* each read is validated and written to the object.                       *)
(*                                                                         *)
(* A symbol stands for a run of bytes.  "H" is the whole GPG header; the   *)
(* footer is "F" followed by "G", so that a read can end inside it; "x" is *)
(* anything else.  Lengths count symbols.                                  *)
(***************************************************************************)
EXTENDS Integers, Sequences, SequencesExt

CONSTANTS
    BufferLen,   \* bufferLen: symbols that fit in the buffer
    MaxBody,     \* bound on the length of a body
    MaxFileSize  \* limit of the quota middleware

ASSUME BufferLenAssumption == BufferLen \in Nat \ {0}
ASSUME MaxBodyAssumption == MaxBody \in Nat
ASSUME MaxFileSizeAssumption == MaxFileSize \in Nat

Symbols == {"H", "F", "G", "x"}
Zeros == [i \in 1..BufferLen |-> "0"]  \* a buffer as make() returns it
Header == <<"H">>
Footer == <<"F", "G">>

VARIABLES
    body,       \* what the client sends
    pos,        \* how much of it has been read
    buff,       \* the buffer every read goes into
    prevLen,    \* previousBuff = buff[:prevLen]; -1: still its own zeroed array
    chunkNum,   \* reads done
    written,    \* what has been written to the object
    cancelled,  \* the context is done
    state,      \* "reading", "accepted", or the reason of the refusal
    hunks       \* history: the chunks as they were read

vars == <<body, pos, buff, prevLen, chunkNum, written, cancelled, state, hunks>>

Refusals == {"refused: header", "refused: footer", "refused: quota",
             "refused: cancelled", "refused: read", "refused: write"}

TypeOK ==
    /\ body \in Seq(Symbols) /\ Len(body) <= MaxBody
    /\ pos \in 0..Len(body)
    /\ buff \in [1..BufferLen -> Symbols \cup {"0"}]
    /\ prevLen \in -1..BufferLen
    /\ chunkNum \in Nat
    /\ written \in Seq(Symbols)
    /\ cancelled \in BOOLEAN
    /\ state \in {"reading", "accepted"} \cup Refusals
    /\ hunks \in Seq(Seq(Symbols))

Init ==
    /\ body \in UNION {[1..n -> Symbols] : n \in 0..MaxBody}
    /\ pos = 0
    /\ buff = Zeros
    /\ prevLen = -1
    /\ chunkNum = 0
    /\ written = <<>>
    /\ cancelled = FALSE
    /\ state = "reading"
    /\ hunks = <<>>

-----------------------------------------------------------------------------

\* Mutant of Filled: the buffer is cut down to what was read.
Shrunk(chunk) == chunk

\* inputStream.Read(buff) overwrites the front of the buffer and leaves the
\* rest of it as it was.
Filled(chunk) ==
    [i \in 1..BufferLen |-> IF i <= Len(chunk) THEN chunk[i] ELSE buff[i]]

Chunk(n) == SubSeq(body, pos + 1, pos + n)

\* Mutant of Previous: previousBuff is never assigned.
NeverAssigned(b) == Zeros

\* What the slice previousBuff shows when the buffer holds b.
Previous(b) == IF prevLen = -1 THEN Zeros ELSE SubSeq(b, 1, prevLen)

\* bytes.Contains
Occurs(t, s) == \E i \in 1..Len(s) : IsPrefix(t, SubSeq(s, i, Len(s)))

\* Mutants of Objection: no quota middleware; chunks counted from zero.
ObjectionWithoutQuota(chunk, total, previousHunk, number) ==
    IF cancelled THEN "refused: cancelled"
    ELSE IF number = 1 /\ ~Occurs(Header, chunk) THEN "refused: header"
    ELSE IF previousHunk # <<>> /\ ~Occurs(Footer, previousHunk \o chunk)
         THEN "refused: footer"
    ELSE ""
ObjectionToSecondChunk(chunk, total, previousHunk, number) ==
    IF cancelled THEN "refused: cancelled"
    ELSE IF total > MaxFileSize THEN "refused: quota"
    ELSE IF number = 2 /\ ~Occurs(Header, chunk) THEN "refused: header"
    ELSE IF previousHunk # <<>> /\ ~Occurs(Footer, previousHunk \o chunk)
         THEN "refused: footer"
    ELSE ""

\* processChunk: the middlewares in their order, the first objection ends it; ""
\* when none objects.  previousHunk is not empty only at the end of the stream.
Objection(chunk, total, previousHunk, number) ==
    IF cancelled THEN "refused: cancelled"
    ELSE IF total > MaxFileSize THEN "refused: quota"
    ELSE IF number = 1 /\ ~Occurs(Header, chunk) THEN "refused: header"
    ELSE IF previousHunk # <<>> /\ ~Occurs(Footer, previousHunk \o chunk)
         THEN "refused: footer"
    ELSE ""

Refuse(reason) ==
    /\ state' = reason
    /\ UNCHANGED <<pos, buff, prevLen, chunkNum, written, hunks>>

\* select on ctx.Done before each read
ContextIsDone ==
    /\ state = "reading"
    /\ cancelled
    /\ Refuse("refused: cancelled")
    /\ UNCHANGED <<body, cancelled>>

\* What every read does, whatever it is answered with.
Read(chunk) ==
    /\ buff' = Filled(chunk)
    /\ pos' = pos + Len(chunk)
    /\ chunkNum' = chunkNum + 1
    /\ hunks' = Append(hunks, chunk)

\* Read a chunk that is not the end: previousBuff becomes this very chunk.
\* The context may have been cancelled since the select.
\* A Read that returns no bytes and no error is not modelled: an HTTP body
\* does not do that.  checkFinalStatusAfterFilesWasUploaded can object to an
\* empty upload only, and here something has been read.
ReadChunk ==
    /\ state = "reading"
    /\ \E n \in 1..BufferLen :
          LET chunk == Chunk(n)
              objection == Objection(chunk, pos + n, <<>>, chunkNum + 1)
          IN  /\ n <= Len(body) - pos
              /\ Read(chunk)
              /\ prevLen' = n
              /\ IF objection = ""
                 THEN written' = written \o chunk /\ UNCHANGED state
                 ELSE state' = objection /\ UNCHANGED written
    /\ UNCHANGED <<body, cancelled>>

\* Read the end: io.EOF comes with the last bytes, or alone after them.
\* previousBuff still points into the buffer that this read has overwritten.
ReadEof ==
    /\ state = "reading"
    /\ LET n == Len(body) - pos
           chunk == Chunk(n)
           objection == Objection(chunk, pos + n, Previous(Filled(chunk)), chunkNum + 1)
       IN  /\ n <= BufferLen
           /\ Read(chunk)
           /\ IF objection = ""
              THEN written' = written \o chunk /\ state' = "accepted"
              ELSE state' = objection /\ UNCHANGED written
    /\ UNCHANGED <<body, prevLen, cancelled>>

\* The connection breaks, or the object writer fails.
StreamBreaks ==
    /\ state = "reading"
    /\ ~cancelled
    /\ Refuse("refused: read") \/ Refuse("refused: write")
    /\ UNCHANGED <<body, cancelled>>

Cancel ==
    /\ state = "reading"
    /\ ~cancelled
    /\ cancelled' = TRUE
    /\ UNCHANGED <<body, pos, buff, prevLen, chunkNum, written, state, hunks>>

Done == state # "reading" /\ UNCHANGED vars

Next == ContextIsDone \/ ReadChunk \/ ReadEof \/ StreamBreaks \/ Cancel \/ Done

Spec == Init /\ [][Next]_vars

-----------------------------------------------------------------------------

\* However the body is cut into reads, what has been written is a prefix of
\* it, all of it when the stream was accepted, and never more than the quota.
\* Upload relies on both: an accepted body is stored whole, and what a failed
\* stream leaves behind is within the limit.
WrittenIsBody ==
    /\ IsPrefix(written, body)
    /\ Len(written) <= MaxFileSize
    /\ state = "accepted" => written = body

\* Nothing is written that has not passed the header check, and an accepted
\* body is not empty, although the reporter of the non-empty middleware is
\* never asked at the end of the stream.
WrittenHasHeader ==
    written # <<>> \/ state = "accepted" => Occurs(Header, hunks[1])

\* The last hunk with any data in it
IsLastData(i) ==
    /\ i \in DOMAIN hunks /\ hunks[i] # <<>>
    /\ \A j \in DOMAIN hunks : j > i => hunks[j] = <<>>

\* A footer that came whole in the last hunk is found, whether io.EOF came with
\* that hunk or in a read of its own.
WholeFooterIsFound ==
    state = "refused: footer" =>
        /\ \E i \in DOMAIN hunks : IsLastData(i)
        /\ \A i \in DOMAIN hunks : IsLastData(i) => ~Occurs(Footer, hunks[i])

\* validation.go: "if current buffer is an END OF STREAM, then this parameter
\* will contain previous hunk, so you can join previous+last to have full
\* information in case, when last hunk would be too small".  A body that ends
\* with the footer is then not refused for want of one.
SplitFooterIsFound ==
    state = "refused: footer" => ~IsSuffix(Footer, body)
=============================================================================
