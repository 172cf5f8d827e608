------------------------------ MODULE Pipeline ------------------------------
(***************************************************************************)
(* The way of the bytes: the row security preflight, pg_dump, the checksum *)
(* of the dump, Encrypt in a goroutine that writes into a pipe, Put, which *)
(* reads from it, the object in the store and what can befall it there,    *)
(* and Materialize: Get, Decrypt and the comparison of the checksum.       *)
(*                                                                         *)
(* A dump is a sequence of rows, ChunkSize of which fill a frame.  A       *)
(* stream is a sequence of items: the magic, frames and the terminator.    *)
(* An item is written with several calls; one cut short is Torn, one that  *)
(* no longer authenticates is Noise.  A checksum names its content.        *)
(***************************************************************************)
EXTENDS Integers, Sequences, FiniteSets

CONSTANTS
    Rows,          \* the rows of the source database
    Plaintexts,    \* the dumps considered
    ChunkSize,     \* rows in a full frame
    PolicySets,    \* sets of row security policies a table may have
    Always,        \* the qualifier "true"
    NoQual,        \* a policy without a USING clause
    Steady,        \* hypothesis: policies do not change between preflight and dump
    MaxDamage,     \* bound: accidents that befall the object
    None           \* no object, no dump, no policies read

ASSUME ChunksHoldRows == ChunkSize \in Nat \ {0}
ASSUME PlaintextsTyped == Plaintexts \subseteq Seq(Rows)
ASSUME PoliciesTyped ==
    PolicySets \subseteq SUBSET [permissive : BOOLEAN, selects : BOOLEAN, applies : BOOLEAN,
                                 qual : {Always, NoQual} \cup SUBSET Rows]
ASSUME SteadyTyped == Steady \in BOOLEAN
ASSUME MaxDamageIsNatural == MaxDamage \in Nat
ASSUME NoneIsNothing == None \notin Plaintexts /\ None \notin PolicySets

VARIABLES
    source,   \* the rows the database holds
    backup,   \* backup.Run: where it is, policies it saw, the dump file, its checksum
    enc,      \* the encrypting goroutine: where it is, rows read so far
    pipe,     \* the item the goroutine is writing, until Put has read it
    shut,     \* how the goroutine closed the pipe
    got,      \* what Put has read
    object,   \* the artifact in the store
    damage,   \* history: accidents so far
    mat,      \* Materialize: where it is, items not yet read, rows written
    fetched,  \* history: the object Materialize was given
    fault     \* history: whether a read, a write or the key failed Decrypt

upload == <<enc, pipe, shut, got>>
stored == <<object, damage>>
reading == <<mat, fetched, fault>>
vars == <<source, backup, upload, stored, reading>>

Item(type, rows) == [type |-> type, rows |-> rows]
Magic == Item("magic", <<>>)
End == Item("end", <<>>)
Torn == Item("torn", <<>>)
Noise == Item("noise", <<>>)
Frame(rows) == Item("frame", rows)
Items == {Magic, End, Torn, Noise} \cup {Frame(r) : r \in UNION {[1..n -> Rows] : n \in 1..ChunkSize}}

Lesser(m, n) == IF m < n THEN m ELSE n
SetOfRows(d) == {d[i] : i \in 1..Len(d)}

TypeOK ==
    /\ source \in Plaintexts
    /\ backup \in [pc : {"start", "dump", "hash", "upload", "record", "recorded", "failed"},
                   saw : {None} \cup PolicySets, file : {None} \cup Plaintexts,
                   sum : {None} \cup Plaintexts]
    /\ enc \in [pc : {"off", "magic", "read", "end", "close", "exited"}, at : Nat]
    /\ pipe \in Seq(Items) /\ Len(pipe) <= 1
    /\ shut \in {"open", "eof", "error"}
    /\ got \in Seq(Items)
    /\ object = None \/ object \in Seq(Items)
    /\ damage \in 0..MaxDamage
    /\ mat \in [pc : {"off", "magic", "frames", "sum", "ok", "failed"}, rest : Seq(Items),
                dst : Seq(Rows), cause : {"none", "fetch", "decrypt", "checksum"}]
    /\ fetched \in Seq(Items)
    /\ fault \in {"none", "read"}

Init ==
    /\ source \in Plaintexts
    /\ backup = [pc |-> "start", saw |-> None, file |-> None, sum |-> None]
    /\ enc = [pc |-> "off", at |-> 0]
    /\ pipe = <<>> /\ shut = "open" /\ got = <<>>
    /\ object = None /\ damage = 0
    /\ mat = [pc |-> "off", rest |-> <<>>, dst |-> <<>>, cause |-> "none"]
    /\ fetched = <<>> /\ fault = "none"

-----------------------------------------------------------------------------
(* The preflight and the dump.                                             *)

Applying(ps) == {p \in ps : p.selects /\ p.applies}

\* Mutant: restrictive policies are forgotten.
UncoveredByNone(ps) == ~\E p \in Applying(ps) : p.permissive /\ p.qual = Always

\* RLSUncoveredTables: no permissive policy lets the role read all, or a
\* restrictive one may filter.
Uncovered(ps) ==
    \/ ~\E p \in Applying(ps) : p.permissive /\ p.qual = Always
    \/ \E p \in Applying(ps) : ~p.permissive /\ p.qual \notin {Always, NoQual}

\* The rows Postgres shows: some permissive policy admits them, all restrictive ones do.
Admits(p, r) == p.qual = Always \/ (p.qual # NoQual /\ r \in p.qual)
Visible(ps) ==
    {r \in Rows : /\ \E p \in Applying(ps) : p.permissive /\ Admits(p, r)
                  /\ \A p \in Applying(ps) : p.permissive \/ p.qual = NoQual \/ Admits(p, r)}

\* pg_dump: the visible rows and no others, all of them if all are visible.
Exports(seen) ==
    {d \in Plaintexts : SetOfRows(d) \subseteq seen /\ (SetOfRows(source) \subseteq seen => d = source)}

\* A step of backup.Run that changes only its locals.
Goes(locals) == backup' = locals /\ UNCHANGED <<source, upload, stored, reading>>

Preflight ==
    /\ backup.pc = "start"
    /\ \E ps \in PolicySets : ~Uncovered(ps) /\ Goes([backup EXCEPT !.pc = "dump", !.saw = ps])

\* Row security is not to be applied: pg_dump fails rather than be filtered.
NoPreflight ==
    /\ backup.pc = "start"
    /\ Goes([backup EXCEPT !.pc = "dump"])

Dump ==
    /\ backup.pc = "dump"
    /\ \E ps \in PolicySets :
          /\ Steady => backup.saw \in {None, ps}
          /\ \E d \in IF backup.saw = None THEN {source} ELSE Exports(Visible(ps)) :
                Goes([backup EXCEPT !.pc = "hash", !.saw = None, !.file = d])

\* The checksum is taken from the file; then the goroutine is started.
Hash ==
    /\ backup.pc = "hash"
    /\ backup' = [backup EXCEPT !.pc = "upload", !.sum = backup.file]
    /\ enc' = [enc EXCEPT !.pc = "magic"]
    /\ UNCHANGED <<source, pipe, shut, got, stored, reading>>

\* The preflight refuses, or a tool, the disk or the store fails.
BackupFails ==
    /\ backup.pc \in {"start", "dump", "hash", "record"}
    /\ Goes([backup EXCEPT !.pc = "failed", !.saw = None])

-----------------------------------------------------------------------------
(* Encrypt, in its goroutine.  A write into the pipe returns when it has   *)
(* been read, so no step follows a write that nobody reads.                *)

Writes(item) == pipe' = <<item>>
Written == pipe = <<>>
Encrypts(locals) == enc' = locals /\ UNCHANGED <<source, backup, got, stored, reading>>

SendMagic ==
    /\ enc.pc = "magic" /\ Written
    /\ Writes(Magic)
    /\ Encrypts([enc EXCEPT !.pc = "read"]) /\ UNCHANGED shut

Left == Len(backup.file) - enc.at
Chunk(n) == SubSeq(backup.file, enc.at + 1, enc.at + n)

\* Mutant: a short chunk is taken for the end of the dump.
SealFullChunks ==
    /\ enc.pc = "read" /\ Written
    /\ LET n == Lesser(ChunkSize, Left) IN
          /\ IF n = ChunkSize THEN Writes(Frame(Chunk(n))) ELSE UNCHANGED pipe
          /\ Encrypts([pc |-> IF n < ChunkSize THEN "end" ELSE "read", at |-> enc.at + n])
          /\ UNCHANGED shut

\* Mutant: a chunk is as long as the rest of the dump.
SealAll ==
    /\ enc.pc = "read" /\ Written
    /\ IF Left > 0 THEN Writes(Frame(Chunk(Left))) ELSE UNCHANGED pipe
    /\ Encrypts([pc |-> "end", at |-> enc.at + Left]) /\ UNCHANGED shut

\* io.ReadFull: a full chunk, a short one at the end, or none after a full one.
SealChunk ==
    /\ enc.pc = "read" /\ Written
    /\ LET n == Lesser(ChunkSize, Left) IN
          /\ IF n > 0 THEN Writes(Frame(Chunk(n))) ELSE UNCHANGED pipe
          /\ Encrypts([pc |-> IF n < ChunkSize THEN "end" ELSE "read", at |-> enc.at + n])
          /\ UNCHANGED shut

SendEnd ==
    /\ enc.pc = "end" /\ Written
    /\ Writes(End)
    /\ Encrypts([enc EXCEPT !.pc = "close"]) /\ UNCHANGED shut

Close ==
    /\ enc.pc = "close" /\ Written
    /\ shut' = "eof"
    /\ Encrypts([enc EXCEPT !.pc = "exited"]) /\ UNCHANGED pipe

\* Mutant: the pipe is closed as if the stream were complete.
EncryptFailsAsEOF ==
    /\ enc.pc \in {"magic", "read"} /\ Written
    /\ shut' = "eof"
    /\ Encrypts([enc EXCEPT !.pc = "exited"]) /\ UNCHANGED pipe

\* Mutant: the goroutine returns without closing the pipe.
EncryptFailsOpen ==
    /\ enc.pc \in {"magic", "read"} /\ Written
    /\ Encrypts([enc EXCEPT !.pc = "exited"]) /\ UNCHANGED <<pipe, shut>>

\* The key is wrong, or reading the dump or the random source fails.
EncryptFails ==
    /\ enc.pc \in {"magic", "read"} /\ Written
    /\ shut' = "error"
    /\ Encrypts([enc EXCEPT !.pc = "exited"]) /\ UNCHANGED pipe

-----------------------------------------------------------------------------
(* Put.                                                                    *)

PutReads ==
    /\ backup.pc = "upload" /\ ~Written
    /\ got' = got \o pipe
    /\ pipe' = <<>>
    /\ UNCHANGED <<source, backup, enc, shut, stored, reading>>

PutStores ==
    /\ backup.pc = "upload" /\ Written /\ shut = "eof"
    /\ object' = got
    /\ backup' = [backup EXCEPT !.pc = "record"]
    /\ UNCHANGED <<source, upload, damage, reading>>

PutFails ==
    /\ backup.pc = "upload" /\ Written /\ shut = "error"
    /\ Goes([backup EXCEPT !.pc = "failed"])

\* The store fails.  Nobody closes the other end of the pipe: a goroutine that
\* is writing stays where it is.
PutGivesUp ==
    /\ backup.pc = "upload"
    /\ object' \in {object} \cup (IF Written /\ shut = "eof" THEN {got} ELSE {})
    /\ backup' = [backup EXCEPT !.pc = "failed"]
    /\ UNCHANGED <<source, upload, damage, reading>>

Record ==
    /\ backup.pc = "record"
    /\ Goes([backup EXCEPT !.pc = "recorded"])

-----------------------------------------------------------------------------
(* What can befall the object before it is read.                           *)

Without(s, i) == SubSeq(s, 1, i - 1) \o SubSeq(s, i + 1, Len(s))
Twice(s, i) == SubSeq(s, 1, i) \o SubSeq(s, i, Len(s))
Swapped(s, i, j) == [s EXCEPT ![i] = s[j], ![j] = s[i]]
Cut(s, i) == SubSeq(s, 1, i)

\* Cut off, also inside an item; items lost, repeated, exchanged, spoilt (a
\* length that became zero is a terminator); bytes appended.
Accidents(s) ==
    (UNION {{Cut(s, i - 1), Append(Cut(s, i - 1), Torn), Without(s, i), Twice(s, i),
             [s EXCEPT ![i] = Noise], [s EXCEPT ![i] = End]} : i \in 1..Len(s)})
    \cup {Swapped(s, i, j) : i, j \in 1..Len(s)}
    \cup {Append(s, Noise)}

Damage ==
    /\ object # None /\ backup.pc = "recorded" /\ mat.pc = "off" /\ damage < MaxDamage
    /\ object' \in Accidents(object)
    /\ damage' = damage + 1
    /\ UNCHANGED <<source, backup, upload, reading>>

-----------------------------------------------------------------------------
(* Materialize.                                                            *)

\* A step of Materialize that changes only its locals.
Reads(locals) == mat' = locals /\ UNCHANGED <<source, backup, upload, stored, fetched, fault>>

Get ==
    /\ backup.pc = "recorded" /\ mat.pc = "off"
    /\ fetched' = object
    /\ mat' = [mat EXCEPT !.pc = "magic", !.rest = object]
    /\ UNCHANGED <<source, backup, upload, stored, fault>>

\* The store fails, or has no such key.
GetFails ==
    /\ backup.pc = "recorded" /\ mat.pc = "off"
    /\ Reads([mat EXCEPT !.pc = "failed", !.cause = "fetch"])

Comes(type) == mat.rest # <<>> /\ Head(mat.rest).type = type

ReadMagic ==
    /\ mat.pc = "magic" /\ Comes("magic")
    /\ Reads([mat EXCEPT !.pc = "frames", !.rest = Tail(@)])

\* Each frame is written as soon as it has authenticated.
ReadFrame ==
    /\ mat.pc = "frames" /\ Comes("frame")
    /\ Reads([mat EXCEPT !.rest = Tail(@), !.dst = @ \o Head(mat.rest).rows])

\* Mutant: the end of the bytes at the end of a frame is the end of the stream.
ReadEndOrEOF ==
    /\ mat.pc = "frames" /\ (mat.rest = <<>> \/ Comes("end"))
    /\ Reads([mat EXCEPT !.pc = "sum"])

\* What follows the terminator is not looked at.
ReadEnd ==
    /\ mat.pc = "frames" /\ Comes("end")
    /\ Reads([mat EXCEPT !.pc = "sum"])

\* The stream ends, or what comes next is not what Decrypt expects.
DecryptFails ==
    /\ \/ mat.pc = "magic" /\ ~Comes("magic")
       \/ mat.pc = "frames" /\ ~Comes("frame") /\ ~Comes("end")
    /\ Reads([mat EXCEPT !.pc = "failed", !.cause = "decrypt"])

\* The key is wrong, or reading on or writing the plaintext fails: to Materialize
\* a failure of Decrypt like any other.
ReadFails ==
    /\ mat.pc \in {"magic", "frames"}
    /\ mat' = [mat EXCEPT !.pc = "failed", !.cause = "decrypt"]
    /\ fault' = "read"
    /\ UNCHANGED <<source, backup, upload, stored, fetched>>

\* Mutant: the checksum is not compared.
AcceptUnchecked ==
    /\ mat.pc = "sum"
    /\ Reads([mat EXCEPT !.pc = "ok"])

Accept ==
    /\ mat.pc = "sum" /\ mat.dst = backup.sum
    /\ Reads([mat EXCEPT !.pc = "ok"])

Reject ==
    /\ mat.pc = "sum" /\ mat.dst # backup.sum
    /\ Reads([mat EXCEPT !.pc = "failed", !.cause = "checksum"])

EncryptStep == SendMagic \/ SealChunk \/ SendEnd \/ Close \/ EncryptFails
PutStep == PutReads \/ PutStores \/ PutFails

Next ==
    \/ Preflight \/ NoPreflight \/ Dump \/ Hash \/ BackupFails \/ Record
    \/ EncryptStep \/ PutStep \/ PutGivesUp
    \/ Damage
    \/ Get \/ GetFails \/ ReadMagic \/ ReadFrame \/ ReadEnd \/ DecryptFails \/ ReadFails
    \/ Accept \/ Reject

Spec == Init /\ [][Next]_vars

\* The goroutine and the store go on.
FairSpec == Spec /\ WF_vars(EncryptStep) /\ WF_vars(PutStep)

-----------------------------------------------------------------------------
(* Properties.                                                             *)

\* The stream a dump is encrypted to, as a whole.
Sealed(d) ==
    LET frames == (Len(d) + ChunkSize - 1) \div ChunkSize IN
    <<Magic>>
    \o [i \in 1..frames |->
          Frame(SubSeq(d, (i - 1) * ChunkSize + 1, Lesser(i * ChunkSize, Len(d))))]
    \o <<End>>

\* What verify restores is what the database held: filtered rows are refused,
\* and frames lost, repeated, exchanged, cut off or spoilt in the store never
\* add up to a plaintext that is accepted, although each frame authenticates on
\* its own (backup.go:37, crypto.go:98, artifact.go:63).
RestoredIsSource == Steady /\ mat.pc = "ok" => mat.dst = source

\* The store never holds part of a stream: whatever fails in the goroutine, the
\* pipe carries the failure to Put before Put can take it for the end, and a
\* dump of full chunks only, or of none, ends properly (backup.go:83, crypto.go:47).
StoredIsWhole == object # None /\ damage = 0 => object = Sealed(backup.file)

\* Decrypt by itself takes no truncated stream for a whole one, wherever it was
\* cut: that is what the terminator is for (crypto.go:103).
TruncationIsCaught ==
    mat.pc \in {"sum", "ok"}
    /\ (\E i \in 0..Len(Sealed(backup.file)) :
           fetched \in {Cut(Sealed(backup.file), i), Append(Cut(Sealed(backup.file), i), Torn)})
        => mat.dst = backup.file

\* A stream that nothing befell is decrypted to the dump it was made of, whatever
\* its length: its checksum matches, and Decrypt fails on it only if a read, a
\* write or the key does, which the stage of the error does not tell apart from
\* bad bytes (artifact.go:59, crypto.go:91-122).
GoodBytesPass ==
    /\ mat.cause = "checksum" => damage > 0
    /\ mat.cause = "decrypt" /\ fault = "none" => damage > 0

\* Every upload comes to an end, and the goroutine with it, unless Put gave up
\* and left it behind (backup.go:87).
UploadEnds ==
    backup.pc = "upload" ~> backup.pc # "upload" /\ (enc.pc = "exited" \/ backup.pc = "failed")
=============================================================================
