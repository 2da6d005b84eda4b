--------------------------- MODULE ArchiverProofs ---------------------------
(* Proofs about Archiver: no file is lost but through the errors that the  *)
(* archiver swallows, and no truncated copy is archived, for any number of *)
(* files and wherever either process is stopped.                           *)
EXTENDS Archiver, TLAPS

\* A file is being handled, and something of it was read.
Handling == pc \in {"gcs", "bq", "remove"} => cur \in File /\ buf # "none"

\* What the archiver may read is complete, unless it is root.
ReadIsComplete == ~root => buf # "partial"

\* cloud storage has the file, or has failed with an error that is logged
InGCS(f) == gcs[f] # "none" \/ <<f, "gcs">> \in swallowed

InBigQuery(f) == f \in loaded \/ <<f, "bq">> \in swallowed

\* The archives are dealt with in this order before the file is removed.
StoredSoFar ==
    /\ pc \in {"bq", "remove"} => InGCS(cur)
    /\ pc = "remove" => InBigQuery(cur)

IInv ==
    /\ TypeOK
    /\ Handling
    /\ ReadIsComplete
    /\ StoredSoFar
    /\ ArchivesAreComplete
    /\ NothingElseIsLost

USE NAssumption

LEMMA InitIInv == Init => IInv
<1> SUFFICES ASSUME Init PROVE IInv
  OBVIOUS
<1>1. TypeOK
  BY DEF Init, TypeOK, FileState, Content
<1>2. Handling /\ ReadIsComplete /\ StoredSoFar
  BY DEF Init, Handling, ReadIsComplete, StoredSoFar
<1>3. ArchivesAreComplete /\ NothingElseIsLost
  BY DEF Init, ArchivesAreComplete, NothingElseIsLost
<1> QED  BY <1>1, <1>2, <1>3 DEF IInv

\* The steps of the collector, which never remove a file or touch an archive.
LEMMA CollectorIInv ==
    ASSUME IInv, Collector
    PROVE  IInv'
<1>1. PICK f \in File : WriteEnds(f) \/ Chmod(f) \/ \E lines \in BOOLEAN : WriteBegins(f, lines)
  BY DEF Collector
<1>2. /\ UNCHANGED archiver
      /\ empty' \in {empty, empty \cup {f}}
      /\ \E s \in {"writing", "sealed", "readable"} : file' = [file EXCEPT ![f] = s]
  BY <1>1 DEF WriteBegins, WriteEnds, Chmod
<1>3. TypeOK'
  BY <1>2 DEF IInv, TypeOK, FileState, archiver
<1>4. Handling' /\ ReadIsComplete' /\ StoredSoFar' /\ ArchivesAreComplete'
  BY <1>2 DEF IInv, Handling, ReadIsComplete, StoredSoFar, InGCS, InBigQuery,
              ArchivesAreComplete, archiver
<1>5. NothingElseIsLost'
  BY <1>2 DEF IInv, TypeOK, NothingElseIsLost, archiver
<1> QED  BY <1>3, <1>4, <1>5 DEF IInv

\* Steps that leave the directory and the archives alone, and do not begin to
\* deal with an archive.
LEMMA PassIInv ==
    ASSUME IInv, TypeOK', Handling', ReadIsComplete',
           UNCHANGED <<root, file, empty, gcs, loaded, broken, swallowed>>,
           pc' \notin {"bq", "remove"}
    PROVE  IInv'
<1>1. StoredSoFar'
  BY DEF StoredSoFar
<1>2. ArchivesAreComplete' /\ NothingElseIsLost'
  BY DEF IInv, ArchivesAreComplete, NothingElseIsLost
<1> QED  BY <1>1, <1>2 DEF IInv

LEMMA ReadIInv ==
    ASSUME IInv, NEW f \in File, ReadFile(f) \/ SkipEmpty(f) \/ ReadFails(f)
    PROVE  IInv'
<1>1. CASE ReadFile(f)
  <2>1. /\ cur' = f /\ pc' = "gcs" /\ globbed' = globbed \ {f}
        /\ buf' \in {"partial", "full"}
        /\ UNCHANGED <<root, file, empty, gcs, loaded, broken, swallowed>>
    BY <1>1 DEF ReadFile
  <2>2. TypeOK'
    <3>1. cur' \in 0..N
      BY <2>1 DEF File
    <3>2. buf' \in Content
      BY <2>1 DEF Content
    <3>3. globbed' \in SUBSET File
      BY <2>1 DEF IInv, TypeOK
    <3> QED  BY <2>1, <3>1, <3>2, <3>3 DEF IInv, TypeOK
  <2>3. Handling' /\ ReadIsComplete'
    BY <1>1 DEF ReadFile, MayRead, Handling, ReadIsComplete
  <2> QED  BY <1>1, <2>2, <2>3, PassIInv DEF ReadFile
<1>2. CASE SkipEmpty(f)
  <2>1. TypeOK' /\ Handling' /\ ReadIsComplete'
    BY <1>2 DEF IInv, TypeOK, SkipEmpty, Handling, ReadIsComplete
  <2> QED  BY <1>2, <2>1, PassIInv DEF SkipEmpty
<1>3. CASE ReadFails(f)
  <2>1. TypeOK' /\ Handling' /\ ReadIsComplete'
    BY <1>3 DEF IInv, TypeOK, ReadFails, Exit, Content, Handling, ReadIsComplete
  <2> QED  BY <1>3, <2>1, PassIInv DEF ReadFails, Exit
<1> QED  BY <1>1, <1>2, <1>3

\* The steps between two files, and the ends of the process.
LEMMA RestIInv ==
    ASSUME IInv, Glob \/ PassDone \/ Restart \/ CopyGCSFails \/ RemoveFails \/ Dies
    PROVE  IInv'
<1>1. TypeOK'
  BY DEF IInv, TypeOK, Glob, PassDone, Restart, CopyGCSFails, RemoveFails, Dies, Exit, Content
<1>2. Handling' /\ ReadIsComplete'
  BY DEF IInv, Glob, PassDone, Restart, CopyGCSFails, RemoveFails, Dies, Exit, Handling,
         ReadIsComplete
<1>3. /\ UNCHANGED <<root, file, empty, gcs, loaded, broken, swallowed>>
      /\ pc' \notin {"bq", "remove"}
  BY DEF Glob, PassDone, Restart, CopyGCSFails, RemoveFails, Dies, Exit
<1> QED  BY <1>1, <1>2, <1>3, PassIInv

LEMMA GCSIInv ==
    ASSUME IInv, CopyGCS \/ \E b \in BOOLEAN : CloseGCSFails(b)
    PROVE  IInv'
<1>1. /\ pc = "gcs" /\ pc' = "bq"
      /\ UNCHANGED <<root, file, empty, globbed, cur, buf, loaded, broken>>
      /\ gcs' = gcs \/ (gcs[cur] = "none" /\ gcs' = [gcs EXCEPT ![cur] = buf])
      /\ \/ swallowed' = swallowed /\ gcs' = [gcs EXCEPT ![cur] = buf]
         \/ swallowed' = swallowed \cup {<<cur, "gcs">>}
  BY DEF CopyGCS, CloseGCSFails
<1>2. cur \in File /\ buf # "none"
  BY <1>1 DEF IInv, Handling
<1>3. TypeOK'
  BY <1>1, <1>2 DEF IInv, TypeOK
<1>4. Handling' /\ ReadIsComplete'
  BY <1>1, <1>2 DEF IInv, Handling, ReadIsComplete
<1>5. StoredSoFar'
  BY <1>1, <1>2 DEF IInv, TypeOK, StoredSoFar, InGCS
<1>6. ArchivesAreComplete'
  BY <1>1, <1>2 DEF IInv, TypeOK, ReadIsComplete, ArchivesAreComplete
<1>7. NothingElseIsLost'
  BY <1>1, <1>2 DEF IInv, TypeOK, NothingElseIsLost
<1> QED  BY <1>3, <1>4, <1>5, <1>6, <1>7 DEF IInv

LEMMA BigQueryIInv ==
    ASSUME IInv, LoadBigQuery \/ LoadJobFails \/ \E b \in BOOLEAN : LoadRunFails(b)
    PROVE  IInv'
<1>1. /\ pc = "bq"
      /\ UNCHANGED <<root, file, empty, gcs>>
      /\ (loaded' = loaded /\ broken' = broken) \/ Loaded
      /\ swallowed' = swallowed \/ swallowed' = swallowed \cup {<<cur, "bq">>}
      /\ \/ Exit
         \/ /\ pc' = "remove" /\ UNCHANGED <<globbed, cur, buf>>
            /\ Loaded \/ swallowed' = swallowed \cup {<<cur, "bq">>}
  BY DEF LoadBigQuery, LoadJobFails, LoadRunFails
<1>2. cur \in File /\ buf # "none"
  BY <1>1 DEF IInv, Handling
<1>3. TypeOK'
  <2>1. loaded' \in SUBSET File /\ broken' \in SUBSET File
    BY <1>1, <1>2 DEF IInv, TypeOK, Loaded
  <2>2. swallowed' \in SUBSET (File \X {"gcs", "bq"})
    BY <1>1, <1>2 DEF IInv, TypeOK
  <2>3. /\ pc' \in {"tick", "next", "gcs", "bq", "remove", "exited"}
        /\ globbed' \in SUBSET File /\ cur' \in 0..N /\ buf' \in Content
    BY <1>1 DEF IInv, TypeOK, Exit, Content
  <2> QED  BY <1>1, <2>1, <2>2, <2>3 DEF IInv, TypeOK
<1>4. Handling' /\ ReadIsComplete'
  BY <1>1, <1>2 DEF IInv, Handling, ReadIsComplete, Exit
<1>5. StoredSoFar'
  BY <1>1, <1>2 DEF IInv, StoredSoFar, InGCS, InBigQuery, Exit, Loaded
<1>6. ArchivesAreComplete'
  BY <1>1 DEF IInv, ReadIsComplete, ArchivesAreComplete, Loaded
<1>7. NothingElseIsLost'
  BY <1>1 DEF IInv, NothingElseIsLost, Loaded
<1> QED  BY <1>3, <1>4, <1>5, <1>6, <1>7 DEF IInv

LEMMA RemoveIInv ==
    ASSUME IInv, Remove
    PROVE  IInv'
<1>1. cur \in File /\ InGCS(cur) /\ InBigQuery(cur)
  BY DEF IInv, Remove, Handling, StoredSoFar
<1>2. TypeOK'
  BY <1>1 DEF IInv, TypeOK, Remove, FileState, Content
<1>3. Handling' /\ ReadIsComplete' /\ StoredSoFar' /\ ArchivesAreComplete'
  BY DEF IInv, Remove, Handling, ReadIsComplete, StoredSoFar, ArchivesAreComplete
<1>4. NothingElseIsLost'
  BY <1>1 DEF IInv, TypeOK, Remove, NothingElseIsLost, InGCS, InBigQuery
<1> QED  BY <1>2, <1>3, <1>4 DEF IInv

LEMMA InductiveInvariant == Spec => []IInv
<1>1. IInv /\ [Next]_vars => IInv'
  <2> SUFFICES ASSUME IInv, [Next]_vars PROVE IInv'
    OBVIOUS
  <2>1. CASE UNCHANGED vars
    BY <2>1 DEF vars, IInv, TypeOK, Handling, ReadIsComplete, StoredSoFar, InGCS, InBigQuery,
                ArchivesAreComplete, NothingElseIsLost
  <2>2. CASE Next
    BY <2>2, CollectorIInv, ReadIInv, RestIInv, GCSIInv, BigQueryIInv, RemoveIInv
       DEF Next, Succeeds, Setback
  <2> QED  BY <2>1, <2>2
<1> QED  BY InitIInv, <1>1, PTL DEF Spec

\* The archiver's variables keep their types.
THEOREM TypeCorrect == Spec => []TypeOK
<1>1. IInv => TypeOK
  BY DEF IInv
<1> QED  BY <1>1, InductiveInvariant, PTL

\* No truncated copy reaches an archive, however the two processes interleave,
\* unless the archiver is root.
THEOREM OnlyCompleteFiles == Spec => []ArchivesAreComplete
<1>1. IInv => ArchivesAreComplete
  BY DEF IInv
<1> QED  BY <1>1, InductiveInvariant, PTL

\* No crash, retry or returned error loses a file: what is removed has been
\* through both archives.
THEOREM NoOtherLoss == Spec => []NothingElseIsLost
<1>1. IInv => NothingElseIsLost
  BY DEF IInv
<1> QED  BY <1>1, InductiveInvariant, PTL
=============================================================================
