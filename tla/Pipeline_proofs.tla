--------------------------- MODULE Pipeline_proofs ---------------------------
(***************************************************************************)
(* What is accepted after a restore is what the database held, whatever    *)
(* its rows, policies and chunk size, and whatever befalls the object.     *)
(***************************************************************************)
EXTENDS Pipeline, SequenceTheorems, TLAPS

Uploading == {"upload", "record", "recorded"}
Dumped == {"hash"} \cup Uploading

\* The dump, its checksum and the preflight that allowed it.
DumpOK ==
    /\ backup.saw # None => ~Uncovered(backup.saw)
    /\ backup.pc \in Dumped =>
          backup.file \in Plaintexts /\ (Steady => backup.file = source)
    /\ backup.pc \in Uploading => backup.sum = backup.file
    /\ backup.pc \in {"start", "dump", "hash"} => enc.pc = "off" /\ enc.at = 0
    /\ enc.pc # "off" => backup.file \in Plaintexts /\ enc.at <= Len(backup.file)

\* Materialize has an object to read, and accepts by its checksum.
ReadOK ==
    /\ backup.pc \in {"record", "recorded"} => object \in Seq(Items)
    /\ mat.pc # "off" => backup.pc = "recorded"
    /\ mat.pc = "ok" => mat.dst = backup.sum

IInv == TypeOK /\ DumpOK /\ ReadOK

-----------------------------------------------------------------------------

\* Policies that cover a table show every row of it.
LEMMA CoveredIsVisible ==
    ASSUME NEW ps \in PolicySets, ~Uncovered(ps)
    PROVE  Visible(ps) = Rows
  BY DEF Uncovered, Visible, Admits, Applying

\* A dump of rows that are all visible is the source.
LEMMA ExportsAll == \A d \in Exports(Rows) : source \in Plaintexts => d = source
  <1>1. source \in Plaintexts => SetOfRows(source) \subseteq Rows
    <2> SUFFICES ASSUME source \in Plaintexts PROVE SetOfRows(source) \subseteq Rows
      OBVIOUS
    <2>1. source \in Seq(Rows)
      BY PlaintextsTyped
    <2> QED
      BY <2>1, ElementOfSeq DEF SetOfRows
  <1> QED
    BY <1>1 DEF Exports

LEMMA DumpsAreSequences == \A d \in Plaintexts : d \in Seq(Rows) /\ Len(d) \in Nat
  BY PlaintextsTyped, LenProperties

LEMMA OneItem == \A item \in Items : <<item>> \in Seq(Items) /\ Len(<<item>>) = 1
  OBVIOUS

LEMMA MarksAreItems == Magic \in Items /\ End \in Items /\ Torn \in Items /\ Noise \in Items
  BY DEF Items

\* A piece of a dump that is no longer than a chunk makes a frame.
LEMMA ChunksAreItems ==
    ASSUME NEW d \in Plaintexts, NEW at \in Nat, NEW n \in 1..ChunkSize, at + n <= Len(d)
    PROVE  Frame(SubSeq(d, at + 1, at + n)) \in Items
  <1>1. d \in Seq(Rows) /\ Len(d) \in Nat
    BY DumpsAreSequences
  <1>2. \A i \in at + 1 .. at + n : d[i] \in Rows
    BY <1>1, ElementOfSeq, ChunksHoldRows
  <1>3. SubSeq(d, at + 1, at + n) \in Seq(Rows) /\ Len(SubSeq(d, at + 1, at + n)) = n
    BY <1>2, SubSeqProperties, ChunksHoldRows
  <1>4. SubSeq(d, at + 1, at + n) \in [1..n -> Rows]
    BY <1>3, LenProperties
  <1> QED
    BY <1>4 DEF Items

LEMMA RowsOfItems == \A item \in Items : item.rows \in Seq(Rows)
  <1> SUFFICES ASSUME NEW item \in Items PROVE item.rows \in Seq(Rows)
    OBVIOUS
  <1>1. <<>> \in Seq(Rows)
    OBVIOUS
  <1>2. CASE item \in {Magic, End, Torn, Noise}
    <2>1. Magic.rows = <<>> /\ End.rows = <<>> /\ Torn.rows = <<>> /\ Noise.rows = <<>>
      BY DEF Magic, End, Torn, Noise, Item
    <2>2. item = Magic \/ item = End \/ item = Torn \/ item = Noise
      BY <1>2
    <2> QED
      BY <1>1, <2>1, <2>2, Zenon
  <1>3. CASE item \notin {Magic, End, Torn, Noise}
    <2>1. PICK n \in 1..ChunkSize : \E r \in [1..n -> Rows] : item = Frame(r)
      BY <1>3 DEF Items
    <2>2. PICK r \in [1..n -> Rows] : item = Frame(r)
      BY <2>1
    <2>3. r \in Seq(Rows)
      BY SeqDef, ChunksHoldRows
    <2> QED
      BY <2>2, <2>3 DEF Frame, Item
  <1> QED
    BY <1>2, <1>3

LEMMA CutsAreSequences ==
    ASSUME NEW s \in Seq(Items), NEW i \in 0..Len(s)
    PROVE  Cut(s, i) \in Seq(Items)
  <1>1. Len(s) \in Nat
    OBVIOUS
  <1>2. \A j \in 1..i : s[j] \in Items
    BY <1>1, ElementOfSeq
  <1> QED
    BY <1>1, <1>2, SubSeqProperties DEF Cut

LEMMA AccidentsAreSequences ==
    ASSUME NEW s \in Seq(Items), NEW t \in Accidents(s)
    PROVE  t \in Seq(Items)
  <1> DEFINE n == Len(s)
             At(i) == {Cut(s, i - 1), Append(Cut(s, i - 1), Torn), Without(s, i), Twice(s, i),
                       [s EXCEPT ![i] = Noise], [s EXCEPT ![i] = End]}
  <1>1. n \in Nat /\ \A i \in 1..n : s[i] \in Items
    BY ElementOfSeq
  <1>2. \A i, j \in Int : 1 <= i /\ j <= n => SubSeq(s, i, j) \in Seq(Items)
    <2> TAKE i, j \in Int
    <2> HAVE 1 <= i /\ j <= n
    <2>1. \A k \in i..j : s[k] \in Items
      BY <1>1
    <2> QED
      BY <2>1, SubSeqProperties
  <1>3. CASE t = Append(s, Noise)
    BY <1>3, MarksAreItems, AppendProperties
  <1>4. CASE \E i, j \in 1..n : t = Swapped(s, i, j)
    <2>1. PICK i \in 1..n, j \in 1..n : t = Swapped(s, i, j)
      BY <1>4
    <2>2. s[i] \in Items /\ s[j] \in Items
      BY <1>1
    <2>3. [s EXCEPT ![i] = s[j]] \in Seq(Items) /\ Len([s EXCEPT ![i] = s[j]]) = n
      BY <2>2, ExceptSeq
    <2>4. [[s EXCEPT ![i] = s[j]] EXCEPT ![j] = s[i]] \in Seq(Items)
      BY <2>2, <2>3, ExceptSeq
    <2> QED
      BY <2>1, <2>4 DEF Swapped
  <1>5. ASSUME NEW i \in 1..n, t \in At(i)
        PROVE  t \in Seq(Items)
    <2>1. Cut(s, i - 1) \in Seq(Items)
      BY <1>1, CutsAreSequences
    <2>2. Append(Cut(s, i - 1), Torn) \in Seq(Items)
      BY <2>1, MarksAreItems, AppendProperties
    <2>3. Without(s, i) \in Seq(Items)
      <3>1. SubSeq(s, 1, i - 1) \in Seq(Items) /\ SubSeq(s, i + 1, n) \in Seq(Items)
        BY <1>1, <1>2
      <3> QED
        BY <3>1, ConcatProperties DEF Without
    <2>4. Twice(s, i) \in Seq(Items)
      <3>1. SubSeq(s, 1, i) \in Seq(Items) /\ SubSeq(s, i, n) \in Seq(Items)
        BY <1>1, <1>2
      <3> QED
        BY <3>1, ConcatProperties DEF Twice
    <2>5. [s EXCEPT ![i] = Noise] \in Seq(Items) /\ [s EXCEPT ![i] = End] \in Seq(Items)
      BY MarksAreItems, ExceptSeq
    <2> QED
      BY <1>5, <2>1, <2>2, <2>3, <2>4, <2>5
  <1>6. t \in (UNION {At(i) : i \in 1..n}) \cup {Swapped(s, i, j) : i, j \in 1..n}
              \cup {Append(s, Noise)}
    BY DEF Accidents
  <1> HIDE DEF At, n
  <1>7. \/ t = Append(s, Noise)
        \/ \E i, j \in 1..n : t = Swapped(s, i, j)
        \/ \E i \in 1..n : t \in At(i)
    BY <1>6
  <1> QED
    BY <1>3, <1>4, <1>5, <1>7

-----------------------------------------------------------------------------

LEMMA InitOK == Init => IInv
  <1> SUFFICES ASSUME Init PROVE IInv
    OBVIOUS
  <1>1. <<>> \in Seq(Items) /\ <<>> \in Seq(Rows) /\ Len(<<>>) = 0
    OBVIOUS
  <1> QED
    BY <1>1, MaxDamageIsNatural DEF Init, IInv, TypeOK, DumpOK, ReadOK, Dumped, Uploading

\* The steps of backup.Run.
LEMMA BackupSteps ==
    ASSUME IInv, Preflight \/ NoPreflight \/ Dump \/ Hash \/ BackupFails \/ Record
                 \/ PutStores \/ PutFails \/ PutGivesUp
    PROVE  IInv'
  <1> USE DEF IInv, TypeOK, DumpOK, ReadOK, Dumped, Uploading, upload, stored, reading
  <1>1. CASE Preflight
    BY <1>1 DEF Preflight, Goes
  <1>2. CASE NoPreflight
    BY <1>2 DEF NoPreflight, Goes
  <1>3. CASE Dump
    <2>1. PICK ps \in PolicySets :
             /\ Steady => backup.saw \in {None, ps}
             /\ \E d \in IF backup.saw = None THEN {source} ELSE Exports(Visible(ps)) :
                  Goes([backup EXCEPT !.pc = "hash", !.saw = None, !.file = d])
      BY <1>3 DEF Dump
    <2>2. PICK d \in IF backup.saw = None THEN {source} ELSE Exports(Visible(ps)) :
             Goes([backup EXCEPT !.pc = "hash", !.saw = None, !.file = d])
      BY <2>1
    <2>3. d \in Plaintexts
      BY <2>2 DEF Exports
    <2>4. Steady => d = source
      <3> SUFFICES ASSUME Steady, backup.saw # None PROVE d = source
        BY <2>2
      <3>1. ~Uncovered(ps)
        BY <2>1
      <3>2. d \in Exports(Rows)
        BY <2>2, <3>1, CoveredIsVisible
      <3> QED
        BY <3>2, ExportsAll
    <2> QED
      BY <1>3, <2>2, <2>3, <2>4 DEF Dump, Goes
  <1>4. CASE Hash
    <2>1. backup.file \in Plaintexts /\ Len(backup.file) \in Nat
      BY <1>4, DumpsAreSequences DEF Hash
    <2>2. /\ backup'.pc = "upload" /\ backup'.saw = backup.saw
          /\ backup'.file = backup.file /\ backup'.sum = backup.file
          /\ backup' \in [pc : {"upload"}, saw : {None} \cup PolicySets,
                          file : {None} \cup Plaintexts, sum : {None} \cup Plaintexts]
      BY <1>4, <2>1 DEF Hash
    <2>3. enc' = [pc |-> "magic", at |-> 0]
      BY <1>4 DEF Hash
    <2>4. mat.pc = "off"
      BY <1>4 DEF Hash
    <2> QED
      BY <1>4, <2>1, <2>2, <2>3, <2>4 DEF Hash
  <1>5. CASE BackupFails
    BY <1>5 DEF BackupFails, Goes
  <1>6. CASE Record
    BY <1>6 DEF Record, Goes
  <1>7. CASE PutStores
    BY <1>7 DEF PutStores
  <1>8. CASE PutFails
    BY <1>8 DEF PutFails, Goes
  <1>9. CASE PutGivesUp
    BY <1>9 DEF PutGivesUp
  <1> QED
    BY <1>1, <1>2, <1>3, <1>4, <1>5, <1>6, <1>7, <1>8, <1>9

\* A step of the goroutine that stays within the dump and leaves the pipe in order.
LEMMA EncryptStays ==
    ASSUME IInv, enc.pc # "off",
           enc' \in [pc : {"magic", "read", "end", "close", "exited"}, at : Nat],
           enc'.at <= Len(backup.file),
           pipe' \in Seq(Items), Len(pipe') <= 1, shut' \in {"open", "eof", "error"},
           UNCHANGED <<source, backup, got, stored, reading>>
    PROVE  IInv'
  <1>1. UNCHANGED <<source, backup, got, object, damage, mat, fetched, fault>>
    BY DEF stored, reading
  <1>2. /\ enc' \in [pc : {"off", "magic", "read", "end", "close", "exited"}, at : Nat]
        /\ enc'.pc # "off"
    OBVIOUS
  <1>3. TypeOK'
    BY <1>1, <1>2 DEF IInv, TypeOK
  <1>4. backup.pc \notin {"start", "dump", "hash"}
    BY DEF IInv, DumpOK
  <1>5. DumpOK'
    BY <1>1, <1>2, <1>4 DEF IInv, DumpOK
  <1>6. ReadOK'
    BY <1>1 DEF IInv, ReadOK
  <1> QED
    BY <1>3, <1>5, <1>6 DEF IInv

\* The steps of the encrypting goroutine, and Put reading what it wrote.
LEMMA EncryptSteps ==
    ASSUME IInv, EncryptStep \/ PutReads
    PROVE  IInv'
  <1>0. /\ enc \in [pc : {"off", "magic", "read", "end", "close", "exited"}, at : Nat]
        /\ pipe \in Seq(Items) /\ Len(pipe) <= 1 /\ shut \in {"open", "eof", "error"}
        /\ enc.pc # "off" => backup.file \in Plaintexts /\ enc.at <= Len(backup.file)
    BY DEF IInv, TypeOK, DumpOK
  <1>1. CASE SendMagic
    <2>1. pipe' \in Seq(Items) /\ Len(pipe') <= 1
      BY <1>1, OneItem, MarksAreItems DEF SendMagic, Writes
    <2>2. enc.pc = "magic" /\ shut' = shut /\ Encrypts([enc EXCEPT !.pc = "read"])
      BY <1>1 DEF SendMagic
    <2> QED
      BY <1>0, <2>1, <2>2, EncryptStays DEF Encrypts
  <1>2. CASE SealChunk
    <2> DEFINE n == Lesser(ChunkSize, Left)
    <2>1. backup.file \in Plaintexts /\ Len(backup.file) \in Nat /\ enc.at \in Nat
          /\ enc.at <= Len(backup.file)
      BY <1>0, <1>2, DumpsAreSequences DEF SealChunk
    <2>2. n \in Nat /\ n <= ChunkSize /\ enc.at + n <= Len(backup.file)
      BY <2>1, ChunksHoldRows DEF Lesser, Left
    <2>3. n > 0 => Frame(Chunk(n)) \in Items
      BY <2>1, <2>2, ChunksAreItems DEF Chunk
    <2>4. pipe' \in Seq(Items) /\ Len(pipe') <= 1
      <3>1. pipe' = pipe \/ (n > 0 /\ pipe' = <<Frame(Chunk(n))>>)
        BY <1>2 DEF SealChunk, Writes
      <3>2. n > 0 => <<Frame(Chunk(n))>> \in Seq(Items) /\ Len(<<Frame(Chunk(n))>>) <= 1
        BY ONLY <2>3, OneItem
      <3> QED
        BY ONLY <1>0, <3>1, <3>2, Zenon
    <2> HIDE DEF n
    <2>5. /\ Encrypts([pc |-> IF n < ChunkSize THEN "end" ELSE "read", at |-> enc.at + n])
          /\ enc.pc = "read" /\ shut' = shut
      BY <1>2 DEF SealChunk, n
    <2>6. /\ enc' \in [pc : {"magic", "read", "end", "close", "exited"}, at : Nat]
          /\ enc'.at <= Len(backup.file)
      BY <2>1, <2>2, <2>5 DEF Encrypts
    <2> QED
      BY <1>0, <2>4, <2>5, <2>6, EncryptStays DEF Encrypts
  <1>3. CASE SendEnd
    <2>1. pipe' \in Seq(Items) /\ Len(pipe') <= 1
      BY <1>3, OneItem, MarksAreItems DEF SendEnd, Writes
    <2>2. enc.pc = "end" /\ shut' = shut /\ Encrypts([enc EXCEPT !.pc = "close"])
      BY <1>3 DEF SendEnd
    <2> QED
      BY <1>0, <2>1, <2>2, EncryptStays DEF Encrypts
  <1>4. CASE Close \/ EncryptFails
    <2>1. /\ enc.pc # "off" /\ pipe' = pipe /\ shut' \in {"eof", "error"}
          /\ Encrypts([enc EXCEPT !.pc = "exited"])
      BY <1>4 DEF Close, EncryptFails
    <2> QED
      BY <1>0, <2>1, EncryptStays DEF Encrypts
  <1>5. CASE PutReads
    <2>1. got \o pipe \in Seq(Items) /\ <<>> \in Seq(Items) /\ Len(<<>>) = 0
      BY ConcatProperties DEF IInv, TypeOK
    <2>2. /\ got' \in Seq(Items) /\ pipe' \in Seq(Items) /\ Len(pipe') <= 1
          /\ UNCHANGED <<source, backup, enc, shut, object, damage, mat, fetched, fault>>
      BY <1>5, <2>1 DEF PutReads, stored, reading
    <2>3. TypeOK'
      BY <2>2 DEF IInv, TypeOK
    <2>4. DumpOK' /\ ReadOK'
      BY <2>2 DEF IInv, DumpOK, ReadOK
    <2> QED
      BY <2>3, <2>4 DEF IInv
  <1> QED
    BY <1>1, <1>2, <1>3, <1>4, <1>5 DEF EncryptStep

\* A step of Materialize, that accepts by the checksum if it accepts.
LEMMA ReadStays ==
    ASSUME IInv, backup.pc = "recorded",
           mat' \in [pc : {"off", "magic", "frames", "sum", "ok", "failed"}, rest : Seq(Items),
                     dst : Seq(Rows), cause : {"none", "fetch", "decrypt", "checksum"}],
           mat'.pc = "ok" => mat'.dst = backup.sum,
           fetched' \in Seq(Items), fault' \in {"none", "read"},
           UNCHANGED <<source, backup, upload, stored>>
    PROVE  IInv'
  <1>1. UNCHANGED <<source, backup, enc, pipe, shut, got, object, damage>>
    BY DEF upload, stored
  <1>2. TypeOK'
    BY <1>1 DEF IInv, TypeOK
  <1>3. DumpOK'
    BY <1>1 DEF IInv, DumpOK
  <1>4. ReadOK'
    BY <1>1 DEF IInv, ReadOK
  <1> QED
    BY <1>2, <1>3, <1>4 DEF IInv

\* What befalls the object, and Materialize.
LEMMA ReadSteps ==
    ASSUME IInv, Damage \/ Get \/ ReadMagic \/ ReadFrame \/ ReadEnd \/ DecryptFails
                 \/ GetFails \/ ReadFails \/ Accept \/ Reject
    PROVE  IInv'
  <1>0. /\ mat \in [pc : {"off", "magic", "frames", "sum", "ok", "failed"}, rest : Seq(Items),
                    dst : Seq(Rows), cause : {"none", "fetch", "decrypt", "checksum"}]
        /\ fetched \in Seq(Items) /\ fault \in {"none", "read"}
        /\ backup.pc = "recorded" => object \in Seq(Items)
        /\ mat.pc # "off" => backup.pc = "recorded"
    BY DEF IInv, TypeOK, ReadOK
  <1>1. CASE Damage
    <2>1. object' \in Seq(Items) /\ damage' \in 0..MaxDamage
      BY <1>0, <1>1, AccidentsAreSequences, MaxDamageIsNatural DEF Damage, IInv, TypeOK
    <2>2. UNCHANGED <<source, backup, enc, pipe, shut, got, mat, fetched, fault>>
      BY <1>1 DEF Damage, upload, reading
    <2>3. TypeOK'
      BY <2>1, <2>2 DEF IInv, TypeOK
    <2>4. DumpOK' /\ ReadOK'
      BY <2>1, <2>2 DEF IInv, DumpOK, ReadOK
    <2> QED
      BY <2>3, <2>4 DEF IInv
  <1>2. CASE Get
    BY <1>0, <1>2, ReadStays DEF Get
  <1>3. CASE ReadMagic
    <2>1. Tail(mat.rest) \in Seq(Items)
      BY <1>0, <1>3, HeadTailProperties DEF ReadMagic, Comes
    <2>2. mat.pc = "magic" /\ Reads([mat EXCEPT !.pc = "frames", !.rest = Tail(@)])
      BY <1>3 DEF ReadMagic
    <2> QED
      BY <1>0, <2>1, <2>2, ReadStays DEF Reads
  <1>4. CASE ReadFrame
    <2>1. Tail(mat.rest) \in Seq(Items) /\ Head(mat.rest) \in Items
      BY <1>0, <1>4, HeadTailProperties DEF ReadFrame, Comes
    <2>2. mat.dst \o Head(mat.rest).rows \in Seq(Rows)
      BY <1>0, <2>1, RowsOfItems, ConcatProperties
    <2>3. mat.pc = "frames" /\ Reads([mat EXCEPT !.rest = Tail(@), !.dst = @ \o Head(mat.rest).rows])
      BY <1>4 DEF ReadFrame
    <2> QED
      BY <1>0, <2>1, <2>2, <2>3, ReadStays DEF Reads
  <1>5. CASE ReadEnd
    BY <1>0, <1>5, ReadStays DEF ReadEnd, Reads
  <1>6. CASE DecryptFails
    BY <1>0, <1>6, ReadStays DEF DecryptFails, Reads
  <1>7. CASE GetFails
    BY <1>0, <1>7, ReadStays DEF GetFails, Reads
  <1>8. CASE ReadFails
    BY <1>0, <1>8, ReadStays DEF ReadFails
  <1>9. CASE Accept
    BY <1>0, <1>9, ReadStays DEF Accept, Reads
  <1>10. CASE Reject
    BY <1>0, <1>10, ReadStays DEF Reject, Reads
  <1> QED
    BY <1>1, <1>2, <1>3, <1>4, <1>5, <1>6, <1>7, <1>8, <1>9, <1>10

LEMMA StepOK == IInv /\ [Next]_vars => IInv'
  <1>1. ASSUME IInv, Next PROVE IInv'
    BY <1>1, BackupSteps, EncryptSteps, ReadSteps DEF Next, PutStep
  <1>2. ASSUME IInv, UNCHANGED vars PROVE IInv'
    BY <1>2 DEF IInv, TypeOK, DumpOK, ReadOK, vars, upload, stored, reading
  <1> QED
    BY <1>1, <1>2

LEMMA Invariance == Spec => []IInv
  BY InitOK, StepOK, PTL DEF Spec

\* Every variable of the pipeline keeps its type: no frame is longer than a chunk,
\* and no more than one write waits in the pipe (crypto.go:45, backup.go:81).
THEOREM TypeCorrect == Spec => []TypeOK
  <1>1. IInv => TypeOK
    BY DEF IInv
  <1> QED
    BY <1>1, Invariance, PTL

\* What a verify or a restore accepts is what the database held, if the policies
\* did not change between preflight and dump (backup.go:37, artifact.go:63).
THEOREM AcceptedIsSource == Spec => []RestoredIsSource
  <1>1. IInv => RestoredIsSource
    BY DEF IInv, DumpOK, ReadOK, Dumped, Uploading, RestoredIsSource
  <1> QED
    BY <1>1, Invariance, PTL

-----------------------------------------------------------------------------
(* The stream as a whole: what Encrypt has written is a beginning of it,   *)
(* and what Decrypt has read, of an object cut anywhere, one of the dump.  *)

Frames(d) == (Len(d) + ChunkSize - 1) \div ChunkSize
FrameAt(d, i) == Frame(SubSeq(d, (i - 1) * ChunkSize + 1, Lesser(i * ChunkSize, Len(d))))

LEMMA QuotientIsUnique ==
    ASSUME NEW c \in Nat \ {0}, NEW p \in Int, NEW q \in Int, NEW x \in Int,
           p * c <= x, x < p * c + c, q * c <= x, x < q * c + c
    PROVE  p = q
  <1>1. ASSUME NEW a \in Int, NEW b \in Int, a * c <= x, x < b * c + c PROVE a <= b
    <2> SUFFICES ASSUME a >= b + 1 PROVE FALSE
      BY <1>1
    <2>1. (a - b - 1) * c >= 0
      OBVIOUS
    <2>2. (a - b - 1) * c = a * c - b * c - c
      OBVIOUS
    <2> QED
      BY <1>1, <2>1, <2>2
  <1> QED
    BY <1>1

\* How many frames there are, from how much of the dump k full ones hold.
LEMMA FramesOf ==
    ASSUME NEW d \in Plaintexts, NEW k \in Nat
    PROVE  /\ Frames(d) \in Nat
           /\ Len(d) <= Frames(d) * ChunkSize
           /\ (k + 1) * ChunkSize <= Len(d) => k + 1 <= Frames(d)
           /\ k * ChunkSize < Len(d) /\ Len(d) < (k + 1) * ChunkSize => Frames(d) = k + 1
           /\ k * ChunkSize = Len(d) => Frames(d) = k
           /\ k + 1 <= Frames(d) => k * ChunkSize < Len(d)
  <1> DEFINE c == ChunkSize
             x == Len(d) + c - 1
             q == Frames(d)
  <1>1. c \in Nat \ {0} /\ Len(d) \in Nat /\ x \in Nat
    BY ChunksHoldRows, DumpsAreSequences
  <1>2. q \in Nat /\ q * c <= x /\ x < q * c + c
    <2>1. q = x \div c
      BY DEF Frames
    <2> HIDE DEF c, x, q
    <2> QED
      BY <1>1, <2>1
  <1>3. (k + 1) * c = k * c + c /\ k * c \in Nat
    BY <1>1
  <1>4. k * c = Len(d) => q = k
    BY <1>1, <1>2, <1>3, QuotientIsUnique
  <1>5. k * c < Len(d) /\ Len(d) < (k + 1) * c => q = k + 1
    <2> SUFFICES ASSUME k * c < Len(d), Len(d) < (k + 1) * c PROVE q = k + 1
      OBVIOUS
    <2>1. (k + 1) * c <= x /\ x < (k + 1) * c + c /\ k + 1 \in Int
      BY <1>1, <1>3
    <2> HIDE DEF c, x, q
    <2> QED
      BY <1>1, <1>2, <2>1, QuotientIsUnique
  <1>6. ASSUME NEW a \in Nat, NEW b \in Nat, a * c < b * c + c PROVE a <= b
    <2> SUFFICES ASSUME a >= b + 1 PROVE FALSE
      OBVIOUS
    <2>1. (a - b - 1) * c >= 0 /\ (a - b - 1) * c = a * c - b * c - c
      BY <1>1
    <2>2. a * c \in Int /\ b * c \in Int
      BY <1>1
    <2> HIDE DEF c
    <2> QED
      BY <1>1, <1>6, <2>1, <2>2
  <1>7. (k + 1) * c <= Len(d) => k + 1 <= q
    BY <1>1, <1>2, <1>6
  <1>8. k + 1 <= q => k * c < Len(d)
    <2> SUFFICES ASSUME k + 1 <= q PROVE k * c < Len(d)
      OBVIOUS
    <2>1. (q - k - 1) * c >= 0 /\ (q - k - 1) * c = q * c - k * c - c
      BY <1>1, <1>2
    <2>2. q * c \in Int /\ k * c \in Int
      BY <1>1, <1>2
    <2> HIDE DEF c, q
    <2> QED
      BY <1>1, <1>2, <2>1, <2>2
  <1> QED
    BY <1>1, <1>2, <1>4, <1>5, <1>7, <1>8

LEMMA FramesAreItems ==
    ASSUME NEW d \in Plaintexts, NEW i \in 1..Frames(d)
    PROVE  FrameAt(d, i) \in Items
  <1> DEFINE at == (i - 1) * ChunkSize
             n == Lesser(i * ChunkSize, Len(d)) - at
  <1>1. ChunkSize \in Nat \ {0} /\ Len(d) \in Nat /\ i - 1 \in Nat /\ Frames(d) \in Nat
    BY ChunksHoldRows, DumpsAreSequences, FramesOf
  <1>2. at \in Nat /\ i * ChunkSize = at + ChunkSize
    BY <1>1
  <1>3. at < Len(d)
    <2> DEFINE k == i - 1
    <2>1. k \in Nat /\ k + 1 <= Frames(d)
      BY <1>1
    <2> HIDE DEF k
    <2>2. k * ChunkSize < Len(d)
      BY <2>1, FramesOf
    <2> QED
      BY <2>2 DEF k
  <1>4. n \in 1..ChunkSize /\ at + n <= Len(d) /\ Lesser(i * ChunkSize, Len(d)) = at + n
    <2> HIDE DEF at
    <2> QED
      BY <1>1, <1>2, <1>3 DEF Lesser
  <1> HIDE DEF n
  <1>5. Frame(SubSeq(d, at + 1, at + n)) \in Items
    BY <1>2, <1>4, ChunksAreItems
  <1> QED
    BY <1>4, <1>5 DEF FrameAt

LEMMA SealedShape ==
    ASSUME NEW d \in Plaintexts
    PROVE  /\ Sealed(d) \in Seq(Items)
           /\ Len(Sealed(d)) = Frames(d) + 2
           /\ Sealed(d)[1] = Magic
           /\ \A i \in 1..Frames(d) : Sealed(d)[i + 1] = FrameAt(d, i)
           /\ Sealed(d)[Frames(d) + 2] = End
  <1> DEFINE mid == [i \in 1..Frames(d) |-> FrameAt(d, i)]
  <1>1. Frames(d) \in Nat
    BY FramesOf
  <1>2. mid \in [1..Frames(d) -> Items]
    BY FramesAreItems
  <1>3. mid \in Seq(Items) /\ Len(mid) = Frames(d)
    BY <1>1, <1>2, SeqDef
  <1>4. <<Magic>> \in Seq(Items) /\ Len(<<Magic>>) = 1 /\ <<Magic>>[1] = Magic
    BY MarksAreItems
  <1>5. <<End>> \in Seq(Items) /\ Len(<<End>>) = 1 /\ <<End>>[1] = End
    BY MarksAreItems
  <1>6. \A i \in 1..Frames(d) : mid[i] = FrameAt(d, i)
    OBVIOUS
  <1>7. Sealed(d) = (<<Magic>> \o mid) \o <<End>>
    BY DEF Sealed, Frames, FrameAt
  <1> HIDE DEF mid
  <1> DEFINE front == <<Magic>> \o mid
  <1>8. /\ front \in Seq(Items) /\ Len(front) = Frames(d) + 1
        /\ front[1] = Magic
        /\ \A i \in 1..Frames(d) : front[i + 1] = FrameAt(d, i)
    BY <1>1, <1>3, <1>4, <1>6, ConcatProperties
  <1> HIDE DEF front
  <1>9. Sealed(d) = front \o <<End>>
    BY <1>7 DEF front
  <1>10. /\ Sealed(d) \in Seq(Items)
         /\ Len(Sealed(d)) = Frames(d) + 2
         /\ \A i \in 1..Frames(d) + 1 : Sealed(d)[i] = front[i]
         /\ Sealed(d)[Frames(d) + 2] = End
    BY <1>1, <1>5, <1>8, <1>9, ConcatProperties
  <1> QED
    BY <1>1, <1>8, <1>10

\* s is what Sealed(d) begins with, n items of it.
Begins(s, d, n) == Len(s) = n /\ \A i \in 1..n : s[i] = Sealed(d)[i]

Sent == got \o pipe

\* Where the goroutine is, so far has it written the stream.
WriteOK ==
    /\ enc.pc \in {"off", "magic"} => got = <<>> /\ pipe = <<>> /\ enc.at = 0
    /\ enc.pc = "read" => \E k \in Nat :
          k <= Frames(backup.file) /\ enc.at = k * ChunkSize /\ Begins(Sent, backup.file, k + 1)
    /\ enc.pc = "end" => Begins(Sent, backup.file, Frames(backup.file) + 1)
    /\ enc.pc = "close" => Begins(Sent, backup.file, Frames(backup.file) + 2)
    /\ shut # "open" => enc.pc = "exited" /\ pipe = <<>>
    /\ shut = "eof" => got = Sealed(backup.file)
    /\ object # None => backup.pc \in {"record", "recorded", "failed"}
    /\ backup.pc \in {"record", "recorded"} /\ damage = 0 => object = Sealed(backup.file)

SInv == IInv /\ WriteOK /\ StoredIsWhole

LEMMA OneMore ==
    ASSUME NEW d \in Plaintexts, NEW s \in Seq(Items), NEW n \in Nat, NEW item \in Items,
           Begins(s, d, n), item = Sealed(d)[n + 1]
    PROVE  Begins(s \o <<item>>, d, n + 1)
  <1>1. <<item>> \in Seq(Items) /\ Len(<<item>>) = 1 /\ <<item>>[1] = item
    OBVIOUS
  <1> QED
    BY <1>1, ConcatProperties DEF Begins

LEMMA AllOfIt ==
    ASSUME NEW d \in Plaintexts, NEW s \in Seq(Items), Begins(s, d, Frames(d) + 2)
    PROVE  s = Sealed(d)
  BY SealedShape, SeqEqual DEF Begins

\* What the goroutine needs to know before it writes.
LEMMA BeforeWriting ==
    ASSUME IInv, Written, enc.pc # "off"
    PROVE  /\ backup.file \in Plaintexts /\ Frames(backup.file) \in Nat
           /\ got \in Seq(Items) /\ Sent = got
           /\ backup.pc \notin {"start", "dump", "hash"}
  BY FramesOf, ConcatEmptySeq DEF IInv, TypeOK, DumpOK, Written, Sent

\* A step of the goroutine that writes one item of the stream, its n + 1st.
LEMMA WritesNext ==
    ASSUME IInv, Written, enc.pc # "off", NEW n \in Nat, Begins(Sent, backup.file, n),
           NEW item \in Items, item = Sealed(backup.file)[n + 1],
           pipe' = <<item>>, got' = got, backup' = backup
    PROVE  Begins(Sent', backup'.file, n + 1)
  <1>1. Sent' = got \o <<item>>
    BY DEF Sent
  <1> QED
    BY <1>1, BeforeWriting, OneMore

LEMMA SealChunkWrites ==
    ASSUME SInv, SealChunk
    PROVE  WriteOK'
  <1> DEFINE d == backup.file
             n == Lesser(ChunkSize, Left)
  <1>1. /\ d \in Plaintexts /\ Len(d) \in Nat /\ Frames(d) \in Nat
        /\ enc.at \in Nat /\ enc.at <= Len(d)
        /\ enc.pc = "read" /\ Written /\ got \in Seq(Items) /\ Sent = got
        /\ shut = "open"
    BY DumpsAreSequences, BeforeWriting DEF SInv, IInv, TypeOK, DumpOK, WriteOK, SealChunk
  <1>2. PICK k \in Nat : k <= Frames(d) /\ enc.at = k * ChunkSize /\ Begins(Sent, d, k + 1)
    BY <1>1 DEF SInv, WriteOK
  <1>3. ChunkSize \in Nat \ {0} /\ (k + 1) * ChunkSize = enc.at + ChunkSize
    BY <1>2, ChunksHoldRows
  <1>4. n \in Nat /\ n <= ChunkSize /\ enc.at + n <= Len(d)
        /\ (n < ChunkSize => enc.at + n = Len(d))
    BY <1>1, <1>3 DEF Lesser, Left
  <1>5. /\ enc' = [pc |-> IF n < ChunkSize THEN "end" ELSE "read", at |-> enc.at + n]
        /\ backup' = backup /\ got' = got /\ object' = object /\ shut' = shut /\ damage' = damage
        /\ n > 0 => pipe' = <<Frame(Chunk(n))>>
        /\ ~(n > 0) => pipe' = pipe
    BY DEF SealChunk, Encrypts, Writes, stored
  <1> HIDE DEF n
  <1>6. ASSUME n > 0, k + 1 <= Frames(d), Lesser((k + 1) * ChunkSize, Len(d)) = enc.at + n
        PROVE  Begins(Sent', backup'.file, k + 2)
    <2>1. Frame(Chunk(n)) = FrameAt(d, k + 1)
      <3>1. (k + 1) - 1 = k
        OBVIOUS
      <3> QED
        BY <1>2, <1>6, <3>1 DEF Chunk, FrameAt
    <2>2. k + 1 \in 1..Frames(d)
      BY <1>1, <1>6
    <2>3. FrameAt(d, k + 1) \in Items /\ FrameAt(d, k + 1) = Sealed(d)[(k + 1) + 1]
      BY <1>1, <2>2, FramesAreItems, SealedShape
    <2>4. k + 1 \in Nat /\ (k + 1) + 1 = k + 2
      OBVIOUS
    <2>5. pipe' = <<FrameAt(d, k + 1)>>
      BY <1>5, <1>6, <2>1
    <2> QED
      BY <1>1, <1>2, <1>5, <2>3, <2>4, <2>5, WritesNext DEF SInv
  <1>7. CASE n = ChunkSize
    <2>1. k + 1 <= Frames(d)
      BY <1>1, <1>3, <1>4, <1>7, FramesOf
    <2>2. Lesser((k + 1) * ChunkSize, Len(d)) = enc.at + n
      BY <1>1, <1>3, <1>4, <1>7 DEF Lesser
    <2>3. Begins(Sent', backup'.file, (k + 1) + 1)
      BY <1>3, <1>6, <1>7, <2>1, <2>2
    <2>4. enc'.pc = "read" /\ enc'.at = (k + 1) * ChunkSize /\ shut' = "open" /\ k + 1 \in Nat
      BY <1>1, <1>3, <1>5, <1>7
    <2> QED
      BY <1>5, <2>1, <2>3, <2>4 DEF SInv, WriteOK
  <1>8. CASE 0 < n /\ n < ChunkSize
    <2>1. Frames(d) = k + 1
      <3>1. Len(d) = k * ChunkSize + n
        BY <1>2, <1>4, <1>8
      <3>2. k * ChunkSize < Len(d) /\ Len(d) < (k + 1) * ChunkSize
        BY <1>1, <1>2, <1>3, <1>4, <1>8, <3>1
      <3> QED
        BY <1>1, <3>2, FramesOf
    <2>2. Lesser((k + 1) * ChunkSize, Len(d)) = enc.at + n
      BY <1>1, <1>3, <1>4, <1>8 DEF Lesser
    <2>3. Begins(Sent', backup'.file, Frames(backup'.file) + 1)
      BY <1>1, <1>5, <1>6, <1>8, <2>1, <2>2
    <2>4. enc'.pc = "end" /\ shut' = "open"
      BY <1>1, <1>5, <1>8
    <2> QED
      BY <1>5, <2>3, <2>4 DEF SInv, WriteOK
  <1>9. CASE n = 0
    <2>1. Frames(d) = k
      BY <1>1, <1>2, <1>3, <1>4, <1>9, FramesOf
    <2>2. Sent' = Sent /\ enc'.pc = "end" /\ shut' = "open"
      BY <1>1, <1>3, <1>5, <1>9 DEF Sent
    <2>3. Begins(Sent', backup'.file, Frames(backup'.file) + 1)
      BY <1>2, <1>5, <2>1, <2>2
    <2> QED
      BY <1>5, <2>2, <2>3 DEF SInv, WriteOK
  <1> QED
    BY <1>3, <1>4, <1>7, <1>8, <1>9

LEMMA WriteInit == Init => WriteOK /\ StoredIsWhole
  BY DEF Init, WriteOK, StoredIsWhole

\* Steps that leave the goroutine, the pipe and its file alone.
LEMMA ElsewhereWrites ==
    ASSUME SInv, UNCHANGED upload, backup'.file = backup.file,
           object' # None => backup'.pc \in {"record", "recorded", "failed"},
           backup'.pc \in {"record", "recorded"} /\ damage' = 0 => object' = Sealed(backup.file),
           damage' \in Nat,
           damage' = 0 => damage = 0 /\ (object' = object \/ object' = Sealed(backup.file))
    PROVE  WriteOK' /\ StoredIsWhole'
  <1>1. got' = got /\ pipe' = pipe /\ enc' = enc /\ shut' = shut /\ Sent' = Sent
    BY DEF upload, Sent
  <1>2. WriteOK'
    BY <1>1 DEF SInv, WriteOK
  <1>3. StoredIsWhole'
    BY DEF SInv, StoredIsWhole
  <1> QED
    BY <1>2, <1>3

LEMMA BackupWrites ==
    ASSUME SInv, Preflight \/ NoPreflight \/ Dump \/ Hash \/ BackupFails \/ Record
                 \/ PutStores \/ PutFails \/ PutGivesUp
    PROVE  WriteOK' /\ StoredIsWhole'
  <1> USE DEF SInv, IInv, TypeOK, DumpOK
  <1>0. damage \in Nat
    BY MaxDamageIsNatural
  <1>1. CASE Preflight \/ NoPreflight \/ BackupFails \/ Record \/ PutFails
    <2>1. UNCHANGED <<upload, object, damage>> /\ backup'.file = backup.file
      BY <1>1 DEF Preflight, NoPreflight, BackupFails, Record, PutFails, Goes, stored
    <2>2. /\ object # None => backup'.pc \in {"record", "recorded", "failed"}
          /\ backup'.pc \in {"record", "recorded"} /\ damage = 0 => object = Sealed(backup.file)
      BY <1>1 DEF WriteOK, Preflight, NoPreflight, BackupFails, Record, PutFails, Goes
    <2> QED
      BY <1>0, <2>1, <2>2, ElsewhereWrites
  <1>2. CASE Dump
    <2>1. /\ backup.pc = "dump" /\ enc.pc = "off" /\ object = None /\ shut = "open"
          /\ UNCHANGED <<upload, object, damage>>
          /\ backup'.pc = "hash"
      BY <1>2 DEF Dump, Goes, WriteOK, stored
    <2>2. object' = None /\ enc'.pc = "off" /\ shut' = "open" /\ got' = got /\ pipe' = pipe /\ enc' = enc
      BY <2>1 DEF upload
    <2>3. WriteOK'
      BY <2>1, <2>2 DEF WriteOK
    <2> QED
      BY <2>2, <2>3 DEF StoredIsWhole
  <1>3. CASE Hash
    <2>1. /\ backup.pc = "hash" /\ enc.pc = "off" /\ object = None /\ shut = "open"
          /\ enc' = [pc |-> "magic", at |-> 0]
          /\ UNCHANGED <<pipe, got, shut, object, damage>> /\ backup'.pc = "upload"
      BY <1>3 DEF Hash, WriteOK, stored
    <2>2. got' = <<>> /\ pipe' = <<>> /\ shut' = "open" /\ object' = None /\ enc'.pc = "magic" /\ enc'.at = 0
      BY <2>1 DEF WriteOK
    <2>3. WriteOK'
      BY <2>1, <2>2 DEF WriteOK
    <2> QED
      BY <2>2, <2>3 DEF StoredIsWhole
  <1>4. CASE PutStores \/ PutGivesUp
    <2>1. /\ UNCHANGED <<upload, damage>> /\ backup'.file = backup.file
          /\ backup'.pc \in {"record", "failed"}
          /\ object' = object \/ (shut = "eof" /\ object' = got)
          /\ backup'.pc = "record" => shut = "eof" /\ object' = got
      BY <1>4 DEF PutStores, PutGivesUp
    <2>2. /\ object' = object \/ object' = Sealed(backup.file)
          /\ backup'.pc \in {"record", "recorded"} => object' = Sealed(backup.file)
      BY <2>1 DEF WriteOK
    <2> QED
      BY <1>0, <2>1, <2>2, ElsewhereWrites
  <1> QED
    BY <1>1, <1>2, <1>3, <1>4

LEMMA EncryptWrites ==
    ASSUME SInv, EncryptStep \/ PutReads
    PROVE  WriteOK' /\ StoredIsWhole'
  <1>0. backup' = backup /\ object' = object /\ damage' = damage
    BY DEF EncryptStep, PutReads, SendMagic, SealChunk, SendEnd, Close, EncryptFails, Encrypts, stored
  <1>1. StoredIsWhole'
    BY <1>0 DEF SInv, StoredIsWhole
  <1>2. CASE SendMagic
    <2>1. /\ enc.pc = "magic" /\ Written /\ got = <<>> /\ pipe = <<>> /\ enc.at = 0 /\ shut = "open"
          /\ pipe' = <<Magic>> /\ got' = got /\ shut' = shut
          /\ enc'.pc = "read" /\ enc'.at = enc.at
      BY <1>2 DEF SInv, IInv, TypeOK, WriteOK, SendMagic, Writes, Encrypts
    <2>2. /\ backup.file \in Plaintexts /\ Frames(backup.file) \in Nat /\ Sent = got
          /\ Sealed(backup.file)[0 + 1] = Magic /\ Magic \in Items
      BY <2>1, BeforeWriting, SealedShape, MarksAreItems DEF SInv
    <2>3. Begins(Sent, backup.file, 0)
      BY <2>1, <2>2 DEF Begins
    <2>4. Begins(Sent', backup'.file, 0 + 1)
      BY <1>0, <2>1, <2>2, <2>3, WritesNext DEF SInv
    <2>5. enc'.at = 0 * ChunkSize /\ 0 \in Nat /\ 0 <= Frames(backup'.file)
      BY <1>0, <2>1, <2>2, ChunksHoldRows
    <2>6. WriteOK'
      BY <1>0, <2>1, <2>4, <2>5 DEF SInv, WriteOK
    <2> QED
      BY <1>1, <2>6
  <1>3. CASE SealChunk
    BY <1>1, <1>3, SealChunkWrites
  <1>4. CASE SendEnd
    <2>1. /\ enc.pc = "end" /\ Written /\ shut = "open"
          /\ Begins(Sent, backup.file, Frames(backup.file) + 1)
          /\ pipe' = <<End>> /\ got' = got /\ shut' = shut /\ enc'.pc = "close"
      BY <1>4 DEF SInv, IInv, TypeOK, WriteOK, SendEnd, Writes, Encrypts
    <2> DEFINE n == Frames(backup.file) + 1
    <2>2. /\ backup.file \in Plaintexts /\ n \in Nat /\ n + 1 = Frames(backup.file) + 2
          /\ Sealed(backup.file)[n + 1] = End /\ End \in Items
      BY <2>1, BeforeWriting, SealedShape, MarksAreItems DEF SInv
    <2> HIDE DEF n
    <2>3. Begins(Sent, backup.file, n)
      BY <2>1 DEF n
    <2>4. Begins(Sent', backup'.file, n + 1)
      BY <1>0, <2>1, <2>2, <2>3, WritesNext DEF SInv
    <2>5. Begins(Sent', backup'.file, Frames(backup'.file) + 2)
      BY <1>0, <2>2, <2>4
    <2>6. WriteOK'
      BY <1>0, <2>1, <2>5 DEF SInv, WriteOK
    <2> QED
      BY <1>1, <2>6
  <1>5. CASE Close
    <2>1. /\ enc.pc = "close" /\ Written /\ pipe = <<>>
          /\ Begins(Sent, backup.file, Frames(backup.file) + 2)
          /\ pipe' = pipe /\ got' = got /\ shut' = "eof" /\ enc'.pc = "exited"
      BY <1>5 DEF SInv, IInv, TypeOK, WriteOK, Close, Encrypts, Written
    <2>2. got = Sealed(backup.file)
      BY <2>1, BeforeWriting, AllOfIt DEF SInv
    <2>3. WriteOK'
      BY <1>0, <2>1, <2>2 DEF SInv, WriteOK
    <2> QED
      BY <1>1, <2>3
  <1>6. CASE EncryptFails
    <2>1. pipe = <<>> /\ pipe' = pipe /\ shut' = "error" /\ enc'.pc = "exited"
      BY <1>6 DEF SInv, IInv, TypeOK, EncryptFails, Encrypts, Written
    <2>2. WriteOK'
      BY <1>0, <2>1 DEF SInv, WriteOK
    <2> QED
      BY <1>1, <2>2
  <1>7. CASE PutReads
    <2>1. /\ got' = Sent /\ pipe' = <<>> /\ enc' = enc /\ shut' = shut /\ pipe # <<>>
          /\ Sent \in Seq(Items)
      BY <1>7, ConcatProperties DEF SInv, IInv, TypeOK, PutReads, Written, Sent
    <2>2. Sent' = Sent
      BY <2>1, ConcatEmptySeq DEF Sent
    <2>3. WriteOK'
      BY <1>0, <2>1, <2>2 DEF SInv, WriteOK
    <2> QED
      BY <1>1, <2>3
  <1> QED
    BY <1>2, <1>3, <1>4, <1>5, <1>6, <1>7 DEF EncryptStep

LEMMA ReadWrites ==
    ASSUME SInv, Damage \/ Get \/ ReadMagic \/ ReadFrame \/ ReadEnd \/ DecryptFails
                 \/ GetFails \/ ReadFails \/ Accept \/ Reject
    PROVE  WriteOK' /\ StoredIsWhole'
  <1>0. /\ damage \in Nat /\ (object # None => backup.pc \in {"record", "recorded", "failed"})
        /\ backup.pc \in {"record", "recorded"} /\ damage = 0 => object = Sealed(backup.file)
    BY MaxDamageIsNatural DEF SInv, IInv, TypeOK, WriteOK
  <1>1. CASE Damage
    <2>1. UNCHANGED <<upload, backup>> /\ damage' = damage + 1 /\ backup.pc = "recorded"
      BY <1>1 DEF Damage
    <2> QED
      BY <1>0, <2>1, ElsewhereWrites
  <1>2. CASE ~Damage
    <2>1. UNCHANGED <<upload, backup, object, damage>>
      BY <1>2 DEF Get, GetFails, ReadMagic, ReadFrame, ReadEnd, DecryptFails, ReadFails, Accept, Reject,
                  Reads, stored
    <2> QED
      BY <1>0, <2>1, ElsewhereWrites
  <1> QED
    BY <1>1, <1>2

LEMMA StoredStep == SInv /\ [Next]_vars => SInv'
  <1>1. ASSUME SInv, [Next]_vars PROVE IInv'
    BY <1>1, StepOK DEF SInv
  <1>2. ASSUME SInv, Next PROVE WriteOK' /\ StoredIsWhole'
    BY <1>2, BackupWrites, EncryptWrites, ReadWrites DEF Next, PutStep
  <1>3. ASSUME SInv, UNCHANGED vars PROVE WriteOK' /\ StoredIsWhole'
    BY <1>3 DEF SInv, WriteOK, StoredIsWhole, vars, upload, stored, Sent
  <1> QED
    BY <1>1, <1>2, <1>3 DEF SInv

\* The store never holds a part of a stream, whatever fails in the goroutine and
\* however long the dump is (backup.go:83, crypto.go:47).
THEOREM StoredStreamsAreWhole == Spec => []StoredIsWhole
  <1>1. Init => SInv
    BY InitOK, WriteInit DEF SInv
  <1>2. SInv => StoredIsWhole
    BY DEF SInv
  <1> QED
    BY <1>1, <1>2, StoredStep, PTL DEF Spec

-----------------------------------------------------------------------------

\* f is a beginning of Sealed(d), or has torn items where it is not.
Clean(f, d) == \A j \in 1..Len(f) :
    f[j] = Torn \/ (j <= Frames(d) + 2 /\ f[j] = Sealed(d)[j])

\* k frames have been read.
ReadSoFar(k, d) ==
    /\ k <= Frames(d)
    /\ mat.rest = SubSeq(fetched, k + 2, Len(fetched))
    /\ mat.dst = SubSeq(d, 1, Lesser(k * ChunkSize, Len(d)))

ReadPosOK ==
    /\ mat.pc \notin {"off", "failed"} /\ damage = 0 => fetched = Sealed(backup.file)
    /\ mat.pc = "magic" => mat.rest = fetched /\ mat.dst = <<>>
    /\ mat.pc = "off" => mat.dst = <<>> /\ mat.cause = "none"
    /\ mat.pc = "frames" /\ Clean(fetched, backup.file) =>
          \E k \in Nat : ReadSoFar(k, backup.file)
    /\ mat.pc \in {"sum", "ok"} /\ Clean(fetched, backup.file) => mat.dst = backup.file
    /\ GoodBytesPass

RInv == SInv /\ ReadPosOK

LEMMA SealedIsClean ==
    ASSUME NEW d \in Plaintexts
    PROVE  Clean(Sealed(d), d)
  BY SealedShape DEF Clean

LEMMA CutsAreClean ==
    ASSUME NEW d \in Plaintexts, NEW i \in 0..Len(Sealed(d)), NEW f,
           f = Cut(Sealed(d), i) \/ f = Append(Cut(Sealed(d), i), Torn)
    PROVE  Clean(f, d)
  <1> DEFINE s == Sealed(d)
             c == Cut(s, i)
  <1>1. s \in Seq(Items) /\ Len(s) = Frames(d) + 2 /\ Frames(d) \in Nat
    BY SealedShape, FramesOf
  <1>2. \A j \in 1..i : s[j] \in Items
    BY <1>1, ElementOfSeq
  <1>3. c \in Seq(Items) /\ Len(c) = i /\ \A j \in 1..i : c[j] = s[j]
    <2>1. i \in Nat /\ i <= Frames(d) + 2
      BY <1>1
    <2> QED
      BY <1>2, <2>1, SubSeqProperties DEF Cut
  <1>4. CASE f = c
    BY <1>1, <1>3, <1>4 DEF Clean
  <1>5. CASE f = Append(c, Torn)
    <2>1. Len(f) = i + 1 /\ f[i + 1] = Torn /\ \A j \in 1..i : f[j] = c[j]
      BY <1>3, <1>5, MarksAreItems, AppendProperties
    <2> QED
      BY <1>1, <1>3, <2>1 DEF Clean
  <1> QED
    BY <1>4, <1>5

\* Decrypt finds the type of an item by what the item is.
LEMMA TypesOfItems ==
    /\ Magic.type = "magic" /\ End.type = "end" /\ Torn.type = "torn" /\ Noise.type = "noise"
    /\ \A d, i : FrameAt(d, i).type = "frame"
    /\ \A d, i : FrameAt(d, i).rows = SubSeq(d, (i - 1) * ChunkSize + 1, Lesser(i * ChunkSize, Len(d)))
  BY DEF Magic, End, Torn, Noise, Frame, FrameAt, Item

\* What comes after k frames of a clean object, if anything does.
LEMMA NextItem ==
    ASSUME NEW d \in Plaintexts, NEW k \in Nat, fetched \in Seq(Items), Clean(fetched, d),
           ReadSoFar(k, d), mat.rest # <<>>
    PROVE  /\ Head(mat.rest) \in {Torn, Sealed(d)[k + 2]}
           /\ Head(mat.rest) = Torn \/ k + 2 <= Frames(d) + 2
           /\ Tail(mat.rest) = SubSeq(fetched, k + 3, Len(fetched))
  <1> DEFINE n == Len(fetched)
  <1>1. n \in Nat /\ mat.rest = SubSeq(fetched, k + 2, n)
    BY DEF ReadSoFar
  <1>2. k + 2 <= n
    <2> SUFFICES ASSUME n < k + 2 PROVE FALSE
      BY <1>1
    <2> QED
      BY <1>1, SubSeqEmpty
  <1>3. Head(mat.rest) = fetched[k + 2] /\ Tail(mat.rest) = SubSeq(fetched, k + 3, n)
    <2> DEFINE m == k + 2
    <2>1. m \in 1..n /\ n \in m..n /\ m + 1 = k + 3
      BY <1>1, <1>2
    <2> HIDE DEF m, n
    <2>2. Head(SubSeq(fetched, m, n)) = fetched[m] /\ Tail(SubSeq(fetched, m, n)) = SubSeq(fetched, m + 1, n)
      BY <2>1, HeadTailOfSubSeq DEF n
    <2> QED
      BY <1>1, <2>1, <2>2 DEF m
  <1> QED
    BY <1>1, <1>2, <1>3 DEF Clean

LEMMA ItemAfter ==
    ASSUME NEW d \in Plaintexts, NEW k \in Nat, k <= Frames(d)
    PROVE  Sealed(d)[k + 2] = IF k < Frames(d) THEN FrameAt(d, k + 1) ELSE End
  <1>1. Frames(d) \in Nat
    BY FramesOf
  <1>2. k < Frames(d) => k + 1 \in 1..Frames(d) /\ (k + 1) + 1 = k + 2
    BY <1>1
  <1>3. ~(k < Frames(d)) => k + 2 = Frames(d) + 2
    BY <1>1
  <1> QED
    BY <1>2, <1>3, SealedShape

LEMMA FrameRead ==
    ASSUME NEW d \in Plaintexts, NEW k \in Nat, fetched \in Seq(Items), Clean(fetched, d),
           ReadSoFar(k, d), Comes("frame")
    PROVE  /\ k + 1 <= Frames(d)
           /\ Tail(mat.rest) = SubSeq(fetched, (k + 1) + 2, Len(fetched))
           /\ mat.dst \o Head(mat.rest).rows = SubSeq(d, 1, Lesser((k + 1) * ChunkSize, Len(d)))
  <1>1. Frames(d) \in Nat /\ k <= Frames(d) /\ d \in Seq(Rows) /\ Len(d) \in Nat /\ ChunkSize \in Nat \ {0}
    BY FramesOf, DumpsAreSequences, ChunksHoldRows DEF ReadSoFar
  <1>2. Head(mat.rest) = Sealed(d)[k + 2]
    BY NextItem, TypesOfItems DEF Comes
  <1>3. k < Frames(d) /\ Head(mat.rest) = FrameAt(d, k + 1)
    BY <1>1, <1>2, ItemAfter, TypesOfItems DEF Comes
  <1>4. (k + 1) + 2 = k + 3 /\ Tail(mat.rest) = SubSeq(fetched, k + 3, Len(fetched))
    BY NextItem DEF Comes
  <1> DEFINE at == k * ChunkSize
             to == Lesser((k + 1) * ChunkSize, Len(d))
  <1>5. at \in Nat /\ at < Len(d) /\ (k + 1) * ChunkSize = at + ChunkSize
    <2>1. k + 1 <= Frames(d)
      BY <1>1, <1>3
    <2> QED
      BY <1>1, <2>1, FramesOf
  <1>6. Lesser(at, Len(d)) = at /\ to \in at..Len(d)
    <2> HIDE DEF at
    <2> QED
      BY <1>1, <1>5 DEF Lesser
  <1>7. mat.dst = SubSeq(d, 1, at)
    BY <1>6 DEF ReadSoFar
  <1>8. Head(mat.rest).rows = SubSeq(d, at + 1, to)
    <2>1. (k + 1) - 1 = k
      OBVIOUS
    <2> QED
      BY <1>3, <2>1, TypesOfItems
  <1> HIDE DEF at, to
  <1>9. SubSeq(d, 1, at) \o SubSeq(d, at + 1, to) = SubSeq(d, 1, to)
    BY <1>1, <1>5, <1>6, ConcatAdjacentSubSeq
  <1>10. mat.dst \o Head(mat.rest).rows = SubSeq(d, 1, to)
    BY <1>7, <1>8, <1>9
  <1>11. k + 1 <= Frames(d)
    BY <1>1, <1>3
  <1>12. Tail(mat.rest) = SubSeq(fetched, (k + 1) + 2, Len(fetched))
    BY <1>4
  <1> QED
    BY <1>10, <1>11, <1>12 DEF to

LEMMA EndRead ==
    ASSUME NEW d \in Plaintexts, NEW k \in Nat, fetched \in Seq(Items), Clean(fetched, d),
           ReadSoFar(k, d), Comes("end")
    PROVE  mat.dst = d
  <1>1. /\ Frames(d) \in Nat /\ k <= Frames(d) /\ d \in Seq(Rows) /\ Len(d) \in Nat
        /\ Len(d) <= Frames(d) * ChunkSize
    BY FramesOf, DumpsAreSequences DEF ReadSoFar
  <1>2. Head(mat.rest) = Sealed(d)[k + 2]
    BY NextItem, TypesOfItems DEF Comes
  <1>3. k = Frames(d)
    BY <1>1, <1>2, ItemAfter, TypesOfItems DEF Comes
  <1>4. Lesser(k * ChunkSize, Len(d)) = Len(d)
    <2> DEFINE all == Frames(d) * ChunkSize
    <2>1. all \in Nat /\ Len(d) <= all
      BY <1>1, ChunksHoldRows
    <2> HIDE DEF all
    <2>2. Lesser(all, Len(d)) = Len(d)
      BY <1>1, <2>1 DEF Lesser
    <2> QED
      BY <1>3, <2>2 DEF all
  <1> QED
    BY <1>1, <1>4, SubSeqFull DEF ReadSoFar

LEMMA ReadInit == Init => ReadPosOK
  BY DEF Init, ReadPosOK, GoodBytesPass

\* Once there is something to read, there is a dump it was made of.
LEMMA WhenReading ==
    ASSUME SInv, mat.pc # "off"
    PROVE  /\ backup.pc = "recorded" /\ backup.file \in Plaintexts /\ backup.sum = backup.file
           /\ fetched \in Seq(Items)
  BY DEF SInv, IInv, TypeOK, DumpOK, ReadOK, Dumped, Uploading

\* An undamaged stream is always found to go on as Decrypt expects.
LEMMA GoodComes ==
    ASSUME RInv, damage = 0, mat.pc \in {"magic", "frames"}
    PROVE  /\ mat.pc = "magic" => Comes("magic")
           /\ mat.pc = "frames" => Comes("frame") \/ Comes("end")
  <1> DEFINE d == backup.file
  <1>1. d \in Plaintexts /\ fetched = Sealed(d) /\ Clean(fetched, d)
    BY WhenReading, SealedIsClean DEF RInv, ReadPosOK
  <1>2. /\ Frames(d) \in Nat /\ fetched \in Seq(Items) /\ Len(fetched) = Frames(d) + 2
        /\ fetched[1] = Magic
    BY <1>1, SealedShape, FramesOf
  <1>3. CASE mat.pc = "magic"
    <2>1. mat.rest = fetched /\ fetched # <<>> /\ Head(fetched) = Magic
      BY <1>2, <1>3 DEF RInv, ReadPosOK
    <2> QED
      BY <1>3, <2>1, TypesOfItems DEF Comes
  <1>4. CASE mat.pc = "frames"
    <2>1. PICK k \in Nat : ReadSoFar(k, d)
      BY <1>1, <1>4 DEF RInv, ReadPosOK
    <2>2. k <= Frames(d) /\ mat.rest = SubSeq(fetched, k + 2, Len(fetched))
      BY <2>1 DEF ReadSoFar
    <2> DEFINE m == k + 2
               n == Len(fetched)
    <2>3. m \in 1..n /\ n \in m..n /\ n \in Nat
      BY <1>2, <2>2
    <2>4. \A i \in m..n : fetched[i] \in Items
      BY <1>2, <2>3, ElementOfSeq
    <2>5. Len(SubSeq(fetched, m, n)) # 0 /\ Head(SubSeq(fetched, m, n)) = fetched[m]
      <3> HIDE DEF m, n
      <3>1. Len(SubSeq(fetched, m, n)) = n - m + 1
        BY <2>3, <2>4, SubSeqProperties
      <3>2. Head(SubSeq(fetched, m, n)) = fetched[m]
        BY <1>2, <2>3, HeadTailOfSubSeq DEF n
      <3> QED
        BY <2>3, <3>1, <3>2
    <2>6. mat.rest # <<>> /\ Head(mat.rest) = Sealed(d)[k + 2]
      <3>1. mat.rest = SubSeq(fetched, m, n)
        BY <2>2
      <3>2. Len(<<>>) = 0
        OBVIOUS
      <3>3. fetched[m] = Sealed(d)[k + 2]
        BY <1>1
      <3> HIDE DEF m, n
      <3> QED
        BY ONLY <2>5, <3>1, <3>2, <3>3, Zenon
    <2>7. Head(mat.rest) = FrameAt(d, k + 1) \/ Head(mat.rest) = End
      BY <1>1, <2>2, <2>6, ItemAfter
    <2> QED
      BY <1>4, <2>6, <2>7, TypesOfItems DEF Comes
  <1> QED
    BY <1>3, <1>4

LEMMA ReadPosSteps ==
    ASSUME RInv, Get \/ ReadMagic \/ ReadFrame \/ ReadEnd \/ DecryptFails
                 \/ GetFails \/ ReadFails \/ Accept \/ Reject
    PROVE  ReadPosOK'
  <1> DEFINE d == backup.file
  <1>1. CASE Get
    <2>1. /\ backup.pc = "recorded" /\ mat.pc = "off" /\ object \in Seq(Items)
          /\ fetched' = object /\ backup' = backup /\ damage' = damage /\ fault' = fault
          /\ mat'.pc = "magic" /\ mat'.rest = object /\ mat'.dst = mat.dst /\ mat'.cause = mat.cause
          /\ damage = 0 => object = Sealed(d)
      BY <1>1 DEF Get, RInv, SInv, IInv, TypeOK, ReadOK, WriteOK, stored
    <2> QED
      BY <2>1 DEF RInv, ReadPosOK, GoodBytesPass
  <1>2. ASSUME mat.pc \notin {"off", "failed"}, UNCHANGED <<backup, damage, fetched>>
        PROVE  /\ d \in Plaintexts /\ backup.sum = d /\ fetched \in Seq(Items)
               /\ backup'.file = d
               /\ damage' = 0 => fetched' = Sealed(backup'.file)
    BY <1>2, WhenReading DEF RInv, ReadPosOK
  <1>3. CASE ReadMagic
    <2>1. /\ mat.pc = "magic" /\ mat.rest = fetched /\ mat.dst = <<>> /\ fetched # <<>>
          /\ UNCHANGED <<backup, damage, fetched, fault>>
          /\ mat'.pc = "frames" /\ mat'.rest = Tail(mat.rest) /\ mat'.dst = mat.dst /\ mat'.cause = mat.cause
      BY <1>3 DEF ReadMagic, Reads, Comes, RInv, SInv, IInv, TypeOK, ReadPosOK, stored
    <2>2. Tail(fetched) = SubSeq(fetched, 0 + 2, Len(fetched))
      BY <1>2, <2>1, TailIsSubSeq
    <2>3. Lesser(0 * ChunkSize, Len(d)) = 0 /\ 0 <= Frames(d) /\ SubSeq(d, 1, 0) = <<>>
      BY <1>2, <2>1, FramesOf, DumpsAreSequences, ChunksHoldRows, SubSeqEmpty DEF Lesser
    <2>4. ReadSoFar(0, d)'
      BY <1>2, <2>1, <2>2, <2>3 DEF ReadSoFar
    <2> QED
      BY <1>2, <2>1, <2>4 DEF RInv, ReadPosOK, GoodBytesPass
  <1>4. CASE ReadFrame
    <2>1. /\ mat.pc = "frames" /\ Comes("frame")
          /\ UNCHANGED <<backup, damage, fetched, fault>>
          /\ mat'.pc = "frames" /\ mat'.rest = Tail(mat.rest)
          /\ mat'.dst = mat.dst \o Head(mat.rest).rows /\ mat'.cause = mat.cause
      BY <1>4 DEF ReadFrame, Reads, RInv, SInv, IInv, TypeOK, stored
    <2>2. ASSUME Clean(fetched, d) PROVE \E k \in Nat : ReadSoFar(k, d)'
      <3>1. PICK k \in Nat : ReadSoFar(k, d)
        BY <2>1, <2>2 DEF RInv, ReadPosOK
      <3>2. ReadSoFar(k + 1, d)'
        BY <1>2, <2>1, <2>2, <3>1, FrameRead DEF ReadSoFar
      <3>3. k + 1 \in Nat
        OBVIOUS
      <3> QED
        BY <3>2, <3>3
    <2> QED
      BY <1>2, <2>1, <2>2 DEF RInv, ReadPosOK, GoodBytesPass
  <1>5. CASE ReadEnd
    <2>1. /\ mat.pc = "frames" /\ Comes("end")
          /\ UNCHANGED <<backup, damage, fetched, fault>>
          /\ mat'.pc = "sum" /\ mat'.dst = mat.dst /\ mat'.cause = mat.cause
      BY <1>5 DEF ReadEnd, Reads, RInv, SInv, IInv, TypeOK, stored
    <2>2. Clean(fetched, d) => mat.dst = d
      BY <1>2, <2>1, EndRead DEF RInv, ReadPosOK
    <2> QED
      BY <1>2, <2>1, <2>2 DEF RInv, ReadPosOK, GoodBytesPass
  <1>6. CASE DecryptFails
    <2>1. /\ mat.pc \in {"magic", "frames"}
          /\ UNCHANGED <<backup, damage, fetched, fault>> /\ mat'.pc = "failed"
      BY <1>6 DEF DecryptFails, Reads, RInv, SInv, IInv, TypeOK, stored
    <2>2. damage # 0 /\ damage \in Nat
      BY <1>6, GoodComes, MaxDamageIsNatural DEF DecryptFails, RInv, SInv, IInv, TypeOK
    <2> QED
      BY <1>2, <2>1, <2>2 DEF RInv, ReadPosOK, GoodBytesPass
  <1>7. CASE ReadFails
    <2>1. /\ mat.pc \in {"magic", "frames"} /\ UNCHANGED <<backup, damage, fetched>>
          /\ mat'.pc = "failed" /\ mat'.cause = "decrypt" /\ fault' = "read"
      BY <1>7 DEF ReadFails, RInv, SInv, IInv, TypeOK, stored
    <2> QED
      BY <1>2, <2>1 DEF RInv, ReadPosOK, GoodBytesPass
  <1>10. CASE GetFails
    <2>1. /\ UNCHANGED <<backup, damage, fetched, fault>>
          /\ mat'.pc = "failed" /\ mat'.cause = "fetch"
      BY <1>10 DEF GetFails, Reads, RInv, SInv, IInv, TypeOK, stored
    <2> QED
      BY <2>1 DEF RInv, ReadPosOK, GoodBytesPass
  <1>8. CASE Accept
    <2>1. /\ mat.pc = "sum" /\ UNCHANGED <<backup, damage, fetched, fault>>
          /\ mat'.pc = "ok" /\ mat'.dst = mat.dst /\ mat'.cause = mat.cause
      BY <1>8 DEF Accept, Reads, RInv, SInv, IInv, TypeOK, stored
    <2> QED
      BY <1>2, <2>1 DEF RInv, ReadPosOK, GoodBytesPass
  <1>9. CASE Reject
    <2>1. /\ mat.pc = "sum" /\ mat.dst # backup.sum /\ UNCHANGED <<backup, damage, fetched, fault>>
          /\ mat'.pc = "failed"
      BY <1>9 DEF Reject, Reads, RInv, SInv, IInv, TypeOK, stored
    <2>2. damage # 0 /\ damage \in Nat
      BY <1>2, <2>1, SealedIsClean, MaxDamageIsNatural DEF RInv, SInv, IInv, TypeOK, ReadPosOK
    <2> QED
      BY <1>2, <2>1, <2>2 DEF RInv, ReadPosOK, GoodBytesPass
  <1> QED
    BY <1>1, <1>3, <1>4, <1>5, <1>6, <1>7, <1>8, <1>9, <1>10

LEMMA ReadPosStep == RInv /\ [Next]_vars => RInv'
  <1>1. ASSUME RInv, [Next]_vars PROVE SInv'
    BY <1>1, StoredStep DEF RInv
  <1>2. ASSUME RInv, Get \/ ReadMagic \/ ReadFrame \/ ReadEnd \/ DecryptFails
                     \/ GetFails \/ ReadFails \/ Accept \/ Reject
        PROVE  ReadPosOK'
    BY <1>2, ReadPosSteps
  <1>3. ASSUME RInv, Damage PROVE ReadPosOK'
    <2>1. mat.pc = "off" /\ mat' = mat /\ fault' = fault
      BY <1>3 DEF Damage, reading
    <2> QED
      BY <1>3, <2>1 DEF RInv, ReadPosOK, GoodBytesPass
  <1>4. ASSUME RInv, EncryptStep \/ PutReads PROVE ReadPosOK'
    <2>1. UNCHANGED <<mat, fetched, fault, damage, backup>>
      BY <1>4 DEF EncryptStep, PutReads, SendMagic, SealChunk, SendEnd, Close, EncryptFails,
                  Encrypts, stored, reading
    <2> QED
      BY <1>4, <2>1 DEF RInv, ReadPosOK, ReadSoFar, GoodBytesPass
  <1>5. ASSUME RInv, Preflight \/ NoPreflight \/ Dump \/ Hash \/ BackupFails \/ Record
                     \/ PutStores \/ PutFails \/ PutGivesUp
        PROVE  ReadPosOK'
    <2>1. UNCHANGED <<mat, fetched, fault>> /\ backup.pc # "recorded"
      BY <1>5 DEF Preflight, NoPreflight, Dump, Hash, BackupFails, Record, PutStores, PutFails,
                  PutGivesUp, Goes, reading
    <2>2. mat.pc = "off"
      BY <1>5, <2>1, WhenReading DEF RInv
    <2> QED
      BY <1>5, <2>1, <2>2 DEF RInv, ReadPosOK, GoodBytesPass
  <1>6. ASSUME RInv, UNCHANGED vars PROVE ReadPosOK'
    BY <1>6 DEF RInv, ReadPosOK, ReadSoFar, GoodBytesPass, vars, stored, reading
  <1> QED
    BY <1>1, <1>2, <1>3, <1>4, <1>5, <1>6 DEF RInv, Next, PutStep

LEMMA ReadInvariance == Spec => []RInv
  <1>1. Init => RInv
    BY InitOK, WriteInit, ReadInit DEF RInv, SInv
  <1> QED
    BY <1>1, ReadPosStep, PTL DEF Spec

\* Decrypt takes no beginning of a stream for a whole one, wherever it was cut:
\* the terminator and the frames of any dump tell (crypto.go:103).
THEOREM DecryptCatchesTruncation == Spec => []TruncationIsCaught
  <1>1. RInv => TruncationIsCaught
    <2> SUFFICES ASSUME RInv, mat.pc \in {"sum", "ok"},
                        NEW i \in 0..Len(Sealed(backup.file)),
                        fetched \in {Cut(Sealed(backup.file), i),
                                     Append(Cut(Sealed(backup.file), i), Torn)}
                 PROVE  mat.dst = backup.file
      BY DEF TruncationIsCaught
    <2>1. backup.file \in Plaintexts
      BY WhenReading DEF RInv
    <2>2. Clean(fetched, backup.file)
      BY <2>1, CutsAreClean
    <2> QED
      BY <2>2 DEF RInv, ReadPosOK
  <1> QED
    BY <1>1, ReadInvariance, PTL

\* A stream that nothing befell decrypts to its dump, however many frames it has:
\* its checksum matches, and Decrypt rejects none of its bytes; it fails only if a
\* read, a write or the key does (artifact.go:59).
THEOREM UndamagedBytesPass == Spec => []GoodBytesPass
  <1>1. RInv => GoodBytesPass
    BY DEF RInv, ReadPosOK
  <1> QED
    BY <1>1, ReadInvariance, PTL
=============================================================================
