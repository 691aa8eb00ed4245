-------------------------- MODULE CopyStreamProofs --------------------------
(***************************************************************************)
(* CopyStream for every length of buffer and body, every quota and every   *)
(* way the body is cut into reads: what is written is the body, what is    *)
(* written has passed the header check, and a footer that came whole in    *)
(* the last hunk is found although the buffer is shared.                   *)
(***************************************************************************)
EXTENDS CopyStream, SequenceTheorems, TLAPS

\* While it reads, all that has been read has been written.
WrittenFits ==
    /\ Len(written) <= Len(body) /\ written = SubSeq(body, 1, Len(written))
    /\ Len(written) <= MaxFileSize
    /\ state = "reading" => Len(written) = pos
    /\ state = "accepted" => written = body

\* Reads are counted, only the last one can be empty, and the first has the header.
HunksFit ==
    /\ chunkNum = Len(hunks)
    /\ state = "reading" => \A i \in 1..Len(hunks) : hunks[i] # <<>>
    /\ state = "reading" /\ written # <<>> => hunks # <<>>
    /\ (state \in {"reading", "accepted"} /\ hunks # <<>>) \/ written # <<>> =>
          hunks # <<>> /\ Occurs(Header, hunks[1])
    /\ state = "accepted" => hunks # <<>>

\* Before the next read, previousBuff shows the hunk that was read last.
PreviousFits ==
    state = "reading" =>
        /\ hunks = <<>> <=> prevLen = -1
        /\ hunks # <<>> => /\ prevLen = Len(hunks[Len(hunks)])
                           /\ SubSeq(buff, 1, prevLen) = hunks[Len(hunks)]

CopyInv == TypeOK /\ WrittenFits /\ HunksFit /\ PreviousFits /\ WholeFooterIsFound

-----------------------------------------------------------------------------
(* Operators *)

\* A chunk is a stretch of the body.
LEMMA ChunkIsRead ==
  ASSUME TypeOK, NEW n \in Nat, n <= Len(body) - pos
  PROVE  /\ Chunk(n) \in Seq(Symbols) /\ Len(Chunk(n)) = n
         /\ SubSeq(body, 1, pos) \o Chunk(n) = SubSeq(body, 1, pos + n)
<1>1. body \in Seq(Symbols) /\ Len(body) \in Nat /\ pos \in 0..Len(body)
  BY DEF TypeOK
<1>2. \A i \in (pos + 1)..(pos + n) : body[i] \in Symbols
  BY <1>1
<1>3. pos + 1 \in Int /\ pos + n \in Int
  BY <1>1
<1>4. Chunk(n) \in Seq(Symbols) /\ Len(Chunk(n)) = IF pos + 1 <= pos + n THEN (pos + n) - (pos + 1) + 1 ELSE 0
  BY <1>2, <1>3, SubSeqProperties DEF Chunk
<1>5. Len(Chunk(n)) = n
  BY <1>1, <1>4
<1>6. 1 \in 1..(Len(body) + 1) /\ pos \in (1 - 1)..Len(body) /\ pos + n \in pos..Len(body)
  BY <1>1
<1>7. SubSeq(body, 1, pos) \o SubSeq(body, pos + 1, pos + n) = SubSeq(body, 1, pos + n)
  BY <1>1, <1>6, ConcatAdjacentSubSeq
<1> QED BY <1>4, <1>5, <1>7 DEF Chunk

\* What the middlewares answer
LEMMA Objections ==
  ASSUME NEW chunk, NEW total \in Nat, NEW previous, NEW number
  PROVE  LET objection == Objection(chunk, total, previous, number) IN
         /\ objection \in Refusals \cup {""}
         /\ objection = "" => total <= MaxFileSize /\ (number = 1 => Occurs(Header, chunk))
         /\ objection = "refused: footer" =>
               /\ number = 1 => Occurs(Header, chunk)
               /\ previous # <<>> /\ ~Occurs(Footer, previous \o chunk)
  BY MaxFileSizeAssumption DEF Objection, Refusals

\* Nothing occurs in an empty chunk.
LEMMA NothingOccursInNothing == ASSUME NEW t PROVE ~Occurs(t, <<>>)
  BY DEF Occurs

\* What occurs in the second part occurs in the whole.
LEMMA OccursInConcat ==
  ASSUME NEW S, NEW s \in Seq(S), NEW u \in Seq(S), NEW t, Occurs(t, u)
  PROVE  Occurs(t, s \o u)
<1>1. PICK i \in 1..Len(u) : IsPrefix(t, SubSeq(u, i, Len(u)))
  BY DEF Occurs
<1>2. Len(s) \in Nat /\ Len(u) \in Nat /\ Len(s \o u) = Len(s) + Len(u)
  BY ConcatProperties, LenProperties
<1> DEFINE m == Len(s) + i
           n == Len(s) + Len(u)
<1>3. m \in (Len(s) + 1)..(Len(s) + Len(u)) /\ n \in (Len(s) + 1)..(Len(s) + Len(u))
  BY <1>1, <1>2
<1>4. SubSeq(s \o u, m, n) = SubSeq(u, m - Len(s), n - Len(s))
  <2> HIDE DEF m, n
  <2> QED BY <1>3, SubSeqOfConcat2
<1>5. m - Len(s) = i /\ n - Len(s) = Len(u) /\ m \in 1..Len(s \o u) /\ n = Len(s \o u)
  BY <1>1, <1>2
<1>6. SubSeq(s \o u, m, Len(s \o u)) = SubSeq(u, i, Len(u))
  BY <1>4, <1>5
<1>7. m \in 1..Len(s \o u) /\ IsPrefix(t, SubSeq(s \o u, m, Len(s \o u)))
  BY <1>1, <1>5, <1>6
<1> QED BY <1>7 DEF Occurs

\* The buffer after a read starts with what was read.
LEMMA FilledStartsWith ==
  ASSUME TypeOK, NEW chunk \in Seq(Symbols), Len(chunk) <= BufferLen
  PROVE  /\ Filled(chunk) \in [1..BufferLen -> Symbols \cup {"0"}]
         /\ SubSeq(Filled(chunk), 1, Len(chunk)) = chunk
         /\ chunk = <<>> => Filled(chunk) = buff
<1> DEFINE S == Symbols \cup {"0"}
           b == Filled(chunk)
           n == Len(chunk)
<1>0. BufferLen \in Nat /\ buff \in [1..BufferLen -> S] /\ n \in Nat /\ n <= BufferLen
      /\ \A i \in 1..n : chunk[i] \in S
  BY BufferLenAssumption DEF TypeOK
<1>1. b \in [1..BufferLen -> S]
  BY <1>0 DEF Filled
<1>2. chunk = <<>> => b = buff
  BY <1>0 DEF Filled
<1>3. \A i \in 1..n : b[i] = chunk[i]
  BY <1>0 DEF Filled
<1> HIDE DEF b
<1>4. /\ SubSeq(b, 1, n) \in Seq(S) /\ Len(SubSeq(b, 1, n)) = n
      /\ \A i \in 1..n : SubSeq(b, 1, n)[i] = b[i]
  <2>1. \A i \in 1..n : b[i] \in S
    BY <1>0, <1>1
  <2> HIDE DEF n, S
  <2>2. 1 \in Int /\ n \in Int
    BY <1>0
  <2>3. /\ SubSeq(b, 1, n) \in Seq(S)
        /\ Len(SubSeq(b, 1, n)) = IF 1 <= n THEN n - 1 + 1 ELSE 0
        /\ \A i \in 1..(n - 1 + 1) : SubSeq(b, 1, n)[i] = b[1 + i - 1]
    BY <2>1, <2>2, SubSeqProperties
  <2> QED BY <1>0, <2>3
<1>5. chunk \in Seq(S)
  BY SeqMonotonic, Symbols \subseteq S
<1>6. SubSeq(b, 1, n) = chunk
  BY <1>3, <1>4, <1>5, SeqEqual
<1> QED BY <1>1, <1>2, <1>6 DEF b

-----------------------------------------------------------------------------
(* The invariant *)

\* Nothing has been read, nothing has been written.
LEMMA CopyStarts == Init => CopyInv
<1> SUFFICES ASSUME Init PROVE CopyInv
  OBVIOUS
<1>1. PICK n \in 0..MaxBody : body \in [1..n -> Symbols]
  BY DEF Init
<1>2. body \in Seq(Symbols) /\ Len(body) = n
  BY <1>1, MaxBodyAssumption
<1>3. Zeros \in [1..BufferLen -> Symbols \cup {"0"}]
  BY DEF Zeros
<1>4. TypeOK
  <2>1. Len(body) <= MaxBody /\ 0 \in 0..Len(body) /\ -1 \in -1..BufferLen
    BY <1>1, <1>2, MaxBodyAssumption, BufferLenAssumption
  <2>2. <<>> \in Seq(Symbols) /\ <<>> \in Seq(Seq(Symbols))
    OBVIOUS
  <2>3. buff \in [1..BufferLen -> Symbols \cup {"0"}]
    BY <1>3 DEF Init
  <2> QED BY <1>2, <2>1, <2>2, <2>3 DEF TypeOK, Init
<1>5. SubSeq(body, 1, 0) = <<>>
  BY <1>2
<1>6. WrittenFits
  BY <1>2, <1>5, MaxFileSizeAssumption DEF WrittenFits, Init
<1>7. HunksFit /\ PreviousFits /\ WholeFooterIsFound
  BY DEF HunksFit, PreviousFits, WholeFooterIsFound, Init
<1> QED BY <1>4, <1>6, <1>7 DEF CopyInv

\* The types that every read keeps
LEMMA ReadTypes ==
  ASSUME CopyInv, NEW n \in 0..BufferLen, n <= Len(body) - pos, Read(Chunk(n)), body' = body,
         \/ written' = written
         \/ written' = written \o Chunk(n)
  PROVE  /\ pos' \in 0..Len(body') /\ chunkNum' \in Nat
         /\ buff' \in [1..BufferLen -> Symbols \cup {"0"}]
         /\ written' \in Seq(Symbols)
         /\ hunks' \in Seq(Seq(Symbols))
<1>1. TypeOK /\ n \in Nat /\ n <= BufferLen /\ BufferLen \in Nat
  BY BufferLenAssumption DEF CopyInv
<1>2. Chunk(n) \in Seq(Symbols) /\ Len(Chunk(n)) = n
  BY <1>1, ChunkIsRead
<1>3. pos' = pos + n /\ chunkNum' = chunkNum + 1 /\ hunks' = Append(hunks, Chunk(n))
      /\ buff' = Filled(Chunk(n))
  BY <1>2 DEF Read
<1>4. Filled(Chunk(n)) \in [1..BufferLen -> Symbols \cup {"0"}]
  BY <1>1, <1>2, FilledStartsWith
<1>5. Len(body) \in Nat /\ pos \in 0..Len(body) /\ chunkNum \in Nat /\ written \in Seq(Symbols)
      /\ hunks \in Seq(Seq(Symbols))
  BY <1>1 DEF TypeOK
<1>6. pos' \in 0..Len(body')
  BY <1>1, <1>3, <1>5
<1>7. written' \in Seq(Symbols)
  BY <1>2, <1>5, ConcatProperties
<1>8. hunks' \in Seq(Seq(Symbols))
  BY <1>2, <1>3, <1>5, AppendProperties
<1> QED BY <1>3, <1>4, <1>5, <1>6, <1>7, <1>8

\* What has been read has been written, unless there was an objection.
LEMMA ReadWrites ==
  ASSUME CopyInv, state = "reading", NEW n \in 0..BufferLen, n <= Len(body) - pos,
         Read(Chunk(n)), body' = body,
         \/ state' \in Refusals /\ written' = written
         \/ /\ state' = "reading" \/ (state' = "accepted" /\ n = Len(body) - pos)
            /\ pos + n <= MaxFileSize
            /\ written' = written \o Chunk(n)
  PROVE  WrittenFits'
<1>1. TypeOK /\ WrittenFits /\ n \in Nat /\ BufferLen \in Nat
  BY BufferLenAssumption DEF CopyInv
<1>2. Len(body) \in Nat /\ pos \in 0..Len(body) /\ body \in Seq(Symbols)
  BY <1>1 DEF TypeOK
<1>3. written = SubSeq(body, 1, pos) /\ Len(written) = pos
  BY <1>1 DEF WrittenFits
<1>4. Len(Chunk(n)) = n /\ SubSeq(body, 1, pos) \o Chunk(n) = SubSeq(body, 1, pos + n)
  BY <1>1, ChunkIsRead
<1>5. pos' = pos + n
  BY <1>4 DEF Read
<1>6. CASE state' \in Refusals /\ written' = written
  <2>1. state' # "reading" /\ state' # "accepted"
    BY <1>6 DEF Refusals
  <2> QED BY <1>1, <1>6, <2>1 DEF WrittenFits
<1>7. CASE /\ state' = "reading" \/ (state' = "accepted" /\ n = Len(body) - pos)
           /\ pos + n <= MaxFileSize
           /\ written' = written \o Chunk(n)
  <2>1. written' = SubSeq(body, 1, pos + n)
    BY <1>3, <1>4, <1>7
  <2>2. pos + n \in Nat /\ pos + n <= Len(body)
    BY <1>1, <1>2
  <2> DEFINE m == pos + n
  <2>3. Len(SubSeq(body, 1, m)) = m
    <3> HIDE DEF m
    <3>1. m \in Nat /\ m <= Len(body)
      BY <2>2 DEF m
    <3> QED BY <1>2, <3>1
  <2>4. Len(written') = m
    BY <2>1, <2>3
  <2>5. state' = "accepted" => written' = body'
    <3> SUFFICES ASSUME state' = "accepted" PROVE written' = body
      OBVIOUS
    <3>1. m = Len(body)
      BY <1>1, <1>2, <1>7
    <3>2. SubSeq(body, 1, Len(body)) = body
      BY <1>2
    <3> QED BY <2>1, <3>1, <3>2
  <2> QED BY <1>5, <1>7, <2>1, <2>2, <2>4, <2>5 DEF WrittenFits
<1> QED BY <1>6, <1>7

\* The reads are counted, and the first of them is held to the header.
LEMMA ReadCounts ==
  ASSUME CopyInv, state = "reading", NEW n \in 0..BufferLen, n <= Len(body) - pos,
         Read(Chunk(n)),
         \/ state' \in Refusals /\ written' = written
         \/ /\ (state' = "reading" /\ n # 0) \/ state' = "accepted"
            /\ chunkNum + 1 = 1 => Occurs(Header, Chunk(n))
            /\ written' = written \o Chunk(n)
  PROVE  HunksFit'
<1>1. TypeOK /\ HunksFit /\ n \in Nat
  BY BufferLenAssumption DEF CopyInv
<1>2. Chunk(n) \in Seq(Symbols) /\ Len(Chunk(n)) = n
  BY <1>1, ChunkIsRead
<1>3. hunks \in Seq(Seq(Symbols)) /\ written \in Seq(Symbols) /\ chunkNum = Len(hunks)
      /\ Len(hunks) \in Nat
  BY <1>1 DEF TypeOK, HunksFit
<1>4. hunks' = Append(hunks, Chunk(n)) /\ chunkNum' = chunkNum + 1
  BY DEF Read
<1>5. Len(hunks') = Len(hunks) + 1 /\ hunks' # <<>> /\ hunks'[Len(hunks) + 1] = Chunk(n)
      /\ \A i \in 1..Len(hunks) : hunks'[i] = hunks[i]
  BY <1>2, <1>3, <1>4
<1>6. state' = "reading" => \A i \in 1..Len(hunks') : hunks'[i] # <<>>
  <2> SUFFICES ASSUME state' = "reading", NEW i \in 1..Len(hunks') PROVE hunks'[i] # <<>>
    OBVIOUS
  <2>1. Chunk(n) # <<>>
    BY <1>2 DEF Refusals
  <2>2. i \in 1..Len(hunks) \/ i = Len(hunks) + 1
    BY <1>3, <1>5
  <2>3. \A j \in 1..Len(hunks) : hunks[j] # <<>>
    BY <1>1 DEF HunksFit
  <2> QED BY <1>5, <2>1, <2>2, <2>3
<1>7. (state' \in {"reading", "accepted"} /\ hunks' # <<>>) \/ written' # <<>> =>
         Occurs(Header, hunks'[1])
  <2>1. CASE hunks # <<>>
    <3>1. Occurs(Header, hunks[1])
      BY <1>1, <2>1 DEF HunksFit
    <3>2. 1 \in 1..Len(hunks)
      BY <1>3, <2>1
    <3> QED BY <1>5, <3>1, <3>2
  <2>2. CASE hunks = <<>>
    <3>1. written = <<>>
      BY <1>1, <2>2 DEF HunksFit
    <3>2. Len(hunks) = 0 /\ hunks'[1] = Chunk(n) /\ chunkNum + 1 = 1
      BY <1>3, <1>5, <2>2
    <3> QED BY <3>1, <3>2 DEF Refusals
  <2> QED BY <2>1, <2>2
<1> QED BY <1>3, <1>4, <1>5, <1>6, <1>7 DEF HunksFit

\* previousBuff shows the chunk just read.
LEMMA ReadIsPrevious ==
  ASSUME CopyInv, NEW n \in 1..BufferLen, n <= Len(body) - pos, Read(Chunk(n)), prevLen' = n
  PROVE  PreviousFits'
<1>1. TypeOK /\ n \in Nat /\ n <= BufferLen /\ BufferLen \in Nat
  BY BufferLenAssumption DEF CopyInv
<1>2. Chunk(n) \in Seq(Symbols) /\ Len(Chunk(n)) = n
  BY <1>1, ChunkIsRead
<1>3. hunks \in Seq(Seq(Symbols))
  BY <1>1 DEF TypeOK
<1>4. hunks' = Append(hunks, Chunk(n)) /\ buff' = Filled(Chunk(n))
  BY DEF Read
<1>5. hunks' # <<>> /\ hunks'[Len(hunks')] = Chunk(n)
  BY <1>2, <1>3, <1>4
<1>6. SubSeq(buff', 1, n) = Chunk(n)
  BY <1>1, <1>2, <1>4, FilledStartsWith
<1> QED BY <1>2, <1>5, <1>6 DEF PreviousFits

\* At the end of the stream: a footer is missed only when the last data had none.
LEMMA EndFindsFooter ==
  ASSUME CopyInv, state = "reading", NEW n \in 0..BufferLen, n = Len(body) - pos,
         Read(Chunk(n)),
         chunkNum + 1 = 1 => Occurs(Header, Chunk(n)),
         ~Occurs(Footer, Previous(Filled(Chunk(n))) \o Chunk(n))
  PROVE  /\ \E i \in DOMAIN hunks' : IsLastData(i)'
         /\ \A i \in DOMAIN hunks' : IsLastData(i)' => ~Occurs(Footer, hunks'[i])
<1>0. PICK N : N = Len(hunks)
  OBVIOUS
<1> DEFINE chunk == Chunk(n)
           S == Symbols \cup {"0"}
<1>1. TypeOK /\ HunksFit /\ PreviousFits /\ n \in Nat /\ n <= BufferLen /\ BufferLen \in Nat
      /\ Len(body) \in Nat /\ pos \in 0..Len(body) /\ n <= Len(body) - pos
  BY BufferLenAssumption DEF CopyInv, TypeOK
<1>2. chunk \in Seq(Symbols) /\ Len(chunk) = n
  BY <1>1, ChunkIsRead
<1>3. hunks \in Seq(Seq(Symbols)) /\ N \in Nat /\ chunkNum = N
  BY <1>0, <1>1 DEF TypeOK, HunksFit
<1>4. hunks' = Append(hunks, chunk)
  BY DEF Read
<1>5. DOMAIN hunks' = 1..(N + 1) /\ hunks'[N + 1] = chunk /\ \A i \in 1..N : hunks'[i] = hunks[i]
  BY <1>0, <1>2, <1>3, <1>4
<1>6. \A i \in 1..N : hunks[i] # <<>>
  BY <1>0, <1>1 DEF HunksFit
<1>7. Symbols \subseteq S
  OBVIOUS
<1> HIDE DEF chunk, S
<1>8. CASE chunk # <<>>
  <2>1. Previous(Filled(chunk)) \in Seq(S)
    <3>1. CASE prevLen = -1
      <4>1. Zeros \in [1..BufferLen -> S]
        BY DEF Zeros, S
      <4>2. Zeros \in Seq(S)
        BY <1>1, <4>1
      <4> QED BY <3>1, <4>2 DEF Previous
    <3>2. CASE prevLen # -1
      <4>1. prevLen \in 0..BufferLen
        BY <1>1, <3>2 DEF TypeOK
      <4>2. Filled(chunk) \in [1..BufferLen -> S]
        BY <1>1, <1>2, FilledStartsWith DEF S
      <4>3. \A i \in 1..prevLen : Filled(chunk)[i] \in S
        BY <1>1, <4>1, <4>2
      <4>4. 1 \in Int /\ prevLen \in Int
        BY <4>1
      <4>5. SubSeq(Filled(chunk), 1, prevLen) \in Seq(S)
        BY <4>3, <4>4, SubSeqProperties
      <4> QED BY <3>2, <4>5 DEF Previous
    <3> QED BY <3>1, <3>2
  <2>2. chunk \in Seq(S)
    BY <1>2, <1>7, SeqMonotonic
  <2>3. ~Occurs(Footer, Previous(Filled(chunk)) \o chunk)
    BY DEF chunk
  <2>4. ~Occurs(Footer, chunk)
    BY <2>1, <2>2, <2>3, OccursInConcat
  <2>5. N + 1 \in 1..(N + 1) /\ \A j \in 1..(N + 1) : ~(j > N + 1)
    BY <1>3
  <2>6. IsLastData(N + 1)'
    BY <1>5, <1>8, <2>5 DEF IsLastData
  <2>7. ASSUME NEW i \in 1..(N + 1), IsLastData(i)' PROVE i = N + 1
    <3>1. i # N + 1 => N + 1 > i
      BY <1>3
    <3>2. N + 1 > i => hunks'[N + 1] = <<>>
      BY <1>5, <2>5, <2>7 DEF IsLastData
    <3> QED BY <1>5, <1>8, <3>1, <3>2
  <2> QED BY <1>5, <2>4, <2>5, <2>6, <2>7
<1>9. CASE chunk = <<>>
  <2>1. hunks # <<>> /\ N \in 1..N
    <3>1. ~Occurs(Header, chunk)
      BY <1>9, NothingOccursInNothing
    <3>2. N # 0
      BY <1>3, <3>1 DEF chunk
    <3> QED BY <1>0, <1>3, <3>2
  <2>2. prevLen = Len(hunks[N]) /\ SubSeq(buff, 1, prevLen) = hunks[N]
    BY <1>0, <1>1, <2>1 DEF PreviousFits
  <2>3. hunks[N] \in Seq(Symbols)
    BY <1>0, <1>3, <2>1
  <2>4. prevLen # -1
    BY <2>2, <2>3
  <2>5. Filled(chunk) = buff
    BY <1>1, <1>2, <1>9, FilledStartsWith
  <2>6. Previous(Filled(chunk)) = hunks[N]
    BY <2>2, <2>4, <2>5 DEF Previous
  <2>7. hunks[N] \o chunk = hunks[N]
    BY <1>9, <2>3, ConcatEmptySeq
  <2>8. ~Occurs(Footer, hunks[N])
    BY <2>6, <2>7 DEF chunk
  <2>9. N \in 1..(N + 1) /\ N + 1 \notin 1..N /\ \A j \in 1..(N + 1) : j > N => j = N + 1
    BY <1>3, <2>1
  <2>10. IsLastData(N)'
    BY <1>5, <1>6, <1>9, <2>1, <2>9 DEF IsLastData
  <2>11. ASSUME NEW i \in 1..(N + 1), IsLastData(i)' PROVE i = N
    <3>1. i # N + 1
      BY <1>5, <1>9, <2>11 DEF IsLastData
    <3>2. i # N => N > i
      BY <1>3, <3>1
    <3>3. N > i => hunks'[N] = <<>>
      BY <1>5, <2>9, <2>11 DEF IsLastData
    <3> QED BY <1>5, <1>6, <2>1, <3>2, <3>3
  <2> QED BY <1>5, <2>1, <2>8, <2>9, <2>10, <2>11
<1> QED BY <1>8, <1>9

\* A stream that ends without another read has nothing more to show.
LEMMA RefusalKeeps ==
  ASSUME CopyInv, NEW reason \in Refusals \ {"refused: footer"}, Refuse(reason),
         UNCHANGED <<body, cancelled>>
  PROVE  CopyInv'
<1>1. reason # "reading" /\ reason # "accepted"
  BY DEF Refusals
<1> USE DEF CopyInv, Refuse
<1>2. TypeOK'
  BY DEF TypeOK
<1>3. WrittenFits'
  BY <1>1 DEF WrittenFits
<1>4. HunksFit'
  BY <1>1 DEF HunksFit
<1>5. PreviousFits' /\ WholeFooterIsFound'
  BY <1>1 DEF PreviousFits, WholeFooterIsFound
<1> QED BY <1>2, <1>3, <1>4, <1>5

\* A read in the middle of the stream
LEMMA ReadChunkKeeps == ASSUME CopyInv, ReadChunk PROVE CopyInv'
<1>1. PICK n \in 1..BufferLen :
         LET chunk == Chunk(n)
             objection == Objection(chunk, pos + n, <<>>, chunkNum + 1)
         IN  /\ n <= Len(body) - pos
             /\ Read(chunk)
             /\ prevLen' = n
             /\ IF objection = ""
                THEN written' = written \o chunk /\ UNCHANGED state
                ELSE state' = objection /\ UNCHANGED written
  BY DEF ReadChunk
<1> DEFINE chunk == Chunk(n)
           objection == Objection(chunk, pos + n, <<>>, chunkNum + 1)
<1>2. state = "reading" /\ UNCHANGED <<body, cancelled>>
  BY DEF ReadChunk
<1>3. n \in 0..BufferLen /\ n # 0 /\ BufferLen \in Nat
  BY BufferLenAssumption
<1>4. pos + n \in Nat
  BY <1>3 DEF CopyInv, TypeOK
<1>5. /\ objection \in Refusals \cup {""}
      /\ objection = "" => pos + n <= MaxFileSize /\ (chunkNum + 1 = 1 => Occurs(Header, chunk))
      /\ objection # "refused: footer"
  BY <1>4, Objections
<1>6. IF objection = "" THEN written' = written \o chunk /\ state' = "reading"
                        ELSE state' = objection /\ written' = written
  BY <1>1, <1>2
<1> HIDE DEF objection
<1>7. \/ state' \in Refusals \ {"refused: footer"} /\ written' = written
      \/ /\ state' = "reading" /\ pos + n <= MaxFileSize
         /\ chunkNum + 1 = 1 => Occurs(Header, chunk)
         /\ written' = written \o chunk
  <2>1. objection = "" \/ objection \in Refusals \ {"refused: footer"}
    BY <1>5
  <2> HIDE DEF chunk
  <2> QED BY <1>5, <1>6, <2>1
<1> HIDE DEF chunk
<1>8. WrittenFits'
  <2>1. \/ state' \in Refusals /\ written' = written
        \/ /\ state' = "reading" \/ (state' = "accepted" /\ n = Len(body) - pos)
           /\ pos + n <= MaxFileSize
           /\ written' = written \o Chunk(n)
    BY <1>7 DEF chunk
  <2>2. n <= Len(body) - pos /\ Read(Chunk(n)) /\ body' = body
    BY <1>1, <1>2
  <2> QED BY ONLY CopyInv, <1>2, <1>3, <2>1, <2>2, ReadWrites
<1>9. HunksFit'
  BY <1>1, <1>2, <1>3, <1>7, ReadCounts DEF chunk
<1>10. PreviousFits'
  BY <1>1, ReadIsPrevious
<1>11. TypeOK'
  <2>1. /\ pos' \in 0..Len(body') /\ chunkNum' \in Nat
        /\ buff' \in [1..BufferLen -> Symbols \cup {"0"}]
        /\ written' \in Seq(Symbols)
        /\ hunks' \in Seq(Seq(Symbols))
    BY <1>1, <1>2, <1>3, <1>7, ReadTypes DEF chunk
  <2>2. prevLen' \in -1..BufferLen
    <3>1. prevLen' = n
      BY <1>1
    <3> QED BY <1>3, <3>1
  <2> QED BY <1>2, <1>7, <2>1, <2>2 DEF TypeOK, CopyInv
<1>12. WholeFooterIsFound'
  BY <1>7 DEF WholeFooterIsFound
<1> QED BY <1>8, <1>9, <1>10, <1>11, <1>12 DEF CopyInv

\* The read that meets the end of the stream
LEMMA ReadEofKeeps == ASSUME CopyInv, ReadEof PROVE CopyInv'
<1> DEFINE n == Len(body) - pos
           chunk == Chunk(n)
           previous == Previous(Filled(chunk))
           objection == Objection(chunk, pos + n, previous, chunkNum + 1)
<1>1. /\ state = "reading" /\ UNCHANGED <<body, prevLen, cancelled>>
      /\ n <= BufferLen
      /\ Read(chunk)
      /\ IF objection = ""
         THEN written' = written \o chunk /\ state' = "accepted"
         ELSE state' = objection /\ written' = written
  BY DEF ReadEof
<1>2. n \in 0..BufferLen /\ n = Len(body) - pos /\ n <= Len(body) - pos /\ pos + n \in Nat
  <2>1. Len(body) \in Nat /\ pos \in 0..Len(body) /\ BufferLen \in Nat
    BY BufferLenAssumption DEF CopyInv, TypeOK
  <2>2. n <= BufferLen
    BY <1>1
  <2> QED BY ONLY <2>1, <2>2 DEF n
<1> HIDE DEF n
<1>3. /\ objection \in Refusals \cup {""}
      /\ objection = "" => pos + n <= MaxFileSize /\ (chunkNum + 1 = 1 => Occurs(Header, chunk))
      /\ objection = "refused: footer" =>
            /\ chunkNum + 1 = 1 => Occurs(Header, chunk)
            /\ ~Occurs(Footer, previous \o chunk)
  <2> HIDE DEF chunk, previous
  <2> QED BY <1>2, Objections
<1> HIDE DEF objection
<1>4. \/ state' \in Refusals /\ written' = written
      \/ /\ state' = "accepted" /\ n = Len(body) - pos
         /\ pos + n <= MaxFileSize
         /\ chunkNum + 1 = 1 => Occurs(Header, chunk)
         /\ written' = written \o chunk
  BY <1>1, <1>2, <1>3
<1> HIDE DEF chunk
<1>5. WrittenFits'
  BY <1>1, <1>2, <1>4, ReadWrites DEF chunk
<1>6. HunksFit'
  BY <1>1, <1>2, <1>4, ReadCounts DEF chunk
<1>7. PreviousFits'
  BY <1>4 DEF PreviousFits, Refusals
<1>8. TypeOK'
  <2>1. /\ pos' \in 0..Len(body') /\ chunkNum' \in Nat
        /\ buff' \in [1..BufferLen -> Symbols \cup {"0"}]
        /\ written' \in Seq(Symbols)
        /\ hunks' \in Seq(Seq(Symbols))
    BY <1>1, <1>2, <1>4, ReadTypes DEF chunk
  <2> QED BY <1>1, <1>4, <2>1 DEF TypeOK, CopyInv
<1>9. WholeFooterIsFound'
  <2> SUFFICES ASSUME state' = "refused: footer"
               PROVE  /\ \E i \in DOMAIN hunks' : IsLastData(i)'
                      /\ \A i \in DOMAIN hunks' : IsLastData(i)' => ~Occurs(Footer, hunks'[i])
    BY DEF WholeFooterIsFound
  <2>1. objection = "refused: footer"
    BY <1>1
  <2> QED BY <1>1, <1>2, <1>3, <2>1, EndFindsFooter DEF chunk
<1> QED BY <1>5, <1>6, <1>7, <1>8, <1>9 DEF CopyInv

\* Every step keeps the invariant.
LEMMA CopyStep == CopyInv /\ [Next]_vars => CopyInv'
<1> SUFFICES ASSUME CopyInv, [Next]_vars PROVE CopyInv'
  OBVIOUS
<1>1. CASE ContextIsDone
  BY <1>1, RefusalKeeps DEF ContextIsDone, Refusals
<1>2. CASE ReadChunk
  BY <1>2, ReadChunkKeeps
<1>3. CASE ReadEof
  BY <1>3, ReadEofKeeps
<1>4. CASE StreamBreaks
  BY <1>4, RefusalKeeps DEF StreamBreaks, Refusals
<1>5. CASE Cancel
  BY <1>5 DEF Cancel, CopyInv, TypeOK, WrittenFits, HunksFit, PreviousFits, WholeFooterIsFound,
              IsLastData
<1>6. CASE UNCHANGED vars
  BY <1>6 DEF vars, CopyInv, TypeOK, WrittenFits, HunksFit, PreviousFits, WholeFooterIsFound,
              IsLastData
<1> QED BY <1>1, <1>2, <1>3, <1>4, <1>5, <1>6 DEF Next, Done

\* CopyStream keeps its invariant, however the body is cut into reads.
THEOREM CopyInvariance == Spec => []CopyInv
  BY CopyStarts, CopyStep, PTL DEF Spec

\* Everything keeps its type, the buffer its length among them.
THEOREM CopyTypeCorrect == Spec => []TypeOK
<1>1. CopyInv => TypeOK
  BY DEF CopyInv
<1> QED BY <1>1, CopyInvariance, PTL

\* What is written is a prefix of the body within the quota, all of it when the
\* stream was accepted: for every buffer, body, limit and cut into reads.
THEOREM CopyWritesTheBody == Spec => []WrittenIsBody
<1>1. CopyInv => WrittenIsBody
  <2> SUFFICES ASSUME CopyInv PROVE WrittenIsBody
    OBVIOUS
  <2>1. body \in Seq(Symbols) /\ written \in Seq(Symbols)
    BY DEF CopyInv, TypeOK
  <2>2. Len(written) <= Len(body) /\ written = SubSeq(body, 1, Len(written))
    BY DEF CopyInv, WrittenFits
  <2>3. IsPrefix(written, body)
    BY <2>1, <2>2 DEF IsPrefix
  <2> QED BY <2>3 DEF CopyInv, WrittenFits, WrittenIsBody
<1> QED BY <1>1, CopyInvariance, PTL

\* Nothing is written before the header has been seen in the first read, and
\* what is accepted has a header, so it is not empty.
THEOREM CopyHasHeader == Spec => []WrittenHasHeader
<1>1. CopyInv => WrittenHasHeader
  BY DEF CopyInv, HunksFit, WrittenHasHeader
<1> QED BY <1>1, CopyInvariance, PTL

\* A footer that came whole in the last hunk is found, although previousBuff
\* shares its array with the buffer that the last read may have overwritten.
THEOREM CopyFindsWholeFooter == Spec => []WholeFooterIsFound
<1>1. CopyInv => WholeFooterIsFound
  BY DEF CopyInv
<1> QED BY <1>1, CopyInvariance, PTL
=============================================================================
