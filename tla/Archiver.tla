------------------------------ MODULE Archiver ------------------------------
(***************************************************************************)
(* The files between the collector and the archives.  The collector's      *)
(* goroutine saveMetricsToLocalFile (pkg/collector/collector.go, local.go) *)
(* writes a sample file without read permission and opens it to readers    *)
(* when it is complete; umc-archiver (cmd/umc-archiver/cmds/main.go) copies *)
(* what it finds to cloud storage and to BigQuery and removes it.          *)
(*                                                                         *)
(* Files are numbered in the order of their names, which is the order of   *)
(* filepath.Glob.  The two processes share nothing but the directory;      *)
(* either may stop at any step, and the archiver is started again.         *)
(***************************************************************************)
EXTENDS Integers

CONSTANT N  \* files the collector writes

ASSUME NAssumption == N \in Nat

File == 1..N

Content == {"none", "partial", "full"}

VARIABLES
    root,      \* the archiver runs as root and reads what it likes
    file,      \* each file in the directory
    empty,     \* files the collector had nothing to write into
    pc,        \* where archiveFiles stands
    globbed,   \* the files of this pass that are still to be handled
    cur,       \* the file being handled, 0 if none
    buf,       \* what was read of it
    gcs,       \* the object of each file in cloud storage
    loaded,    \* files loaded into BigQuery, once or more
    broken,    \* history: files of which a truncated copy was loaded
    swallowed  \* history: files an error was logged for and not returned, and
               \* where

vars == <<root, file, empty, pc, globbed, cur, buf, gcs, loaded, broken, swallowed>>

\* absent: not written yet.  writing: being written, without read permission.
\* sealed: complete, without read permission.  readable: complete and open to
\* readers.  gone: removed.
FileState == {"absent", "writing", "sealed", "readable", "gone"}

TypeOK ==
    /\ root \in BOOLEAN
    /\ file \in [File -> FileState]
    /\ empty \in SUBSET File
    /\ pc \in {"tick", "next", "gcs", "bq", "remove", "exited"}
    /\ globbed \in SUBSET File
    /\ cur \in 0..N
    /\ buf \in Content
    /\ gcs \in [File -> Content]
    /\ loaded \in SUBSET File
    /\ broken \in SUBSET File
    /\ swallowed \in SUBSET (File \X {"gcs", "bq"})

Init ==
    /\ root \in BOOLEAN
    /\ file = [f \in File |-> "absent"]
    /\ empty = {}
    /\ pc = "tick"
    /\ globbed = {}
    /\ cur = 0
    /\ buf = "none"
    /\ gcs = [f \in File |-> "none"]
    /\ loaded = {}
    /\ broken = {}
    /\ swallowed = {}

----------------------------------------------------------------------------
(* The collector.                                                          *)

archiver == <<root, pc, globbed, cur, buf, gcs, loaded, broken, swallowed>>

\* os.WriteFile creates the file with mode 0200.  The samples of a scrape may
\* have no values, and so their buffer no lines.
WriteBegins(f, lines) ==
    /\ file[f] = "absent"
    /\ file' = [file EXCEPT ![f] = "writing"]
    /\ empty' = IF lines THEN empty ELSE empty \cup {f}
    /\ UNCHANGED archiver

WriteEnds(f) ==
    /\ file[f] = "writing"
    /\ file' = [file EXCEPT ![f] = "sealed"]
    /\ UNCHANGED <<empty, archiver>>

\* os.Chmod(filename, 0600)
Chmod(f) ==
    /\ file[f] = "sealed"
    /\ file' = [file EXCEPT ![f] = "readable"]
    /\ UNCHANGED <<empty, archiver>>

----------------------------------------------------------------------------
(* The archiver.                                                           *)

Exit ==
    /\ pc' = "exited"
    /\ globbed' = {}
    /\ cur' = 0
    /\ buf' = "none"

\* The clients are created and the files listed.
Glob ==
    /\ pc = "tick"
    /\ globbed' = {f \in File : file[f] \in {"writing", "sealed", "readable"}}
    /\ pc' = "next"
    /\ UNCHANGED <<root, file, empty, cur, buf, gcs, loaded, broken, swallowed>>

First(f) == f \in globbed /\ \A g \in globbed : f <= g

\* Fault: the mode of the file keeps nobody out.
MayReadAny(f) == TRUE

\* The kernel lets the archiver read the file.
MayRead(f) == root \/ file[f] = "readable"

\* Fault: the index is one too high.
ReadFileOffByOne(f) ==
    /\ pc = "next"
    /\ First(f)
    /\ MayRead(f)
    /\ globbed' = globbed \ {f}
    /\ cur' = f + 1
    /\ buf' = "full"
    /\ pc' = "gcs"
    /\ UNCHANGED <<root, file, empty, gcs, loaded, broken, swallowed>>

\* The next file is read.  One that is still written yields a part.
ReadFile(f) ==
    /\ pc = "next"
    /\ First(f)
    /\ MayRead(f) /\ f \notin empty
    /\ globbed' = globbed \ {f}
    /\ cur' = f
    /\ buf' = IF file[f] = "writing" THEN "partial" ELSE "full"
    /\ pc' = "gcs"
    /\ UNCHANGED <<root, file, empty, gcs, loaded, broken, swallowed>>

\* A file without contents is passed over and stays where it is: one that a
\* writer has just created, and a complete one the collector had nothing to
\* write into.
SkipEmpty(f) ==
    /\ pc = "next"
    /\ First(f)
    /\ MayRead(f) /\ (file[f] = "writing" \/ f \in empty)
    /\ globbed' = globbed \ {f}
    /\ UNCHANGED <<root, file, empty, pc, cur, buf, gcs, loaded, broken, swallowed>>

\* The first file that cannot be read ends the pass, and the process.
ReadFails(f) ==
    /\ pc = "next"
    /\ First(f)
    /\ ~MayRead(f)
    /\ Exit
    /\ UNCHANGED <<root, file, empty, gcs, loaded, broken, swallowed>>

PassDone ==
    /\ pc = "next"
    /\ globbed = {}
    /\ pc' = "tick"
    /\ UNCHANGED <<root, file, empty, globbed, cur, buf, gcs, loaded, broken, swallowed>>

\* copyGCS: the object is created unless it exists.
CopyGCS ==
    /\ pc = "gcs"
    /\ gcs[cur] = "none"
    /\ gcs' = [gcs EXCEPT ![cur] = buf]
    /\ pc' = "bq"
    /\ UNCHANGED <<root, file, empty, globbed, cur, buf, loaded, broken, swallowed>>

\* Fault: the error of closing the upload is returned.
CloseGCSFailsReturned(stored) ==
    /\ pc = "gcs"
    /\ gcs' = IF stored /\ gcs[cur] = "none" THEN [gcs EXCEPT ![cur] = buf] ELSE gcs
    /\ Exit
    /\ UNCHANGED <<root, file, empty, loaded, broken, swallowed>>

\* The error of closing the upload is logged and nil returned: the object may
\* exist already (a second attempt), the upload may have failed, or its
\* confirmation was lost.
CloseGCSFails(stored) ==
    /\ pc = "gcs"
    /\ gcs' = IF stored /\ gcs[cur] = "none" THEN [gcs EXCEPT ![cur] = buf] ELSE gcs
    /\ swallowed' = swallowed \cup {<<cur, "gcs">>}
    /\ pc' = "bq"
    /\ UNCHANGED <<root, file, empty, globbed, cur, buf, loaded, broken>>

\* Writing the compressed contents fails.
CopyGCSFails ==
    /\ pc = "gcs"
    /\ Exit
    /\ UNCHANGED <<root, file, empty, gcs, loaded, broken, swallowed>>

Loaded ==
    /\ loaded' = loaded \cup {cur}
    /\ broken' = IF buf = "partial" THEN broken \cup {cur} ELSE broken

LoadBigQuery ==
    /\ pc = "bq"
    /\ Loaded
    /\ pc' = "remove"
    /\ UNCHANGED <<root, file, empty, globbed, cur, buf, gcs, swallowed>>

\* The job ends with errors: they are logged and err, which is nil, returned.
LoadJobFails ==
    /\ pc = "bq"
    /\ swallowed' = swallowed \cup {<<cur, "bq">>}
    /\ pc' = "remove"
    /\ UNCHANGED <<root, file, empty, globbed, cur, buf, gcs, loaded, broken>>

\* Fault: whatever the job does, the file is removed.
LoadRunFailsGoesOn(ran) ==
    /\ pc = "bq"
    /\ IF ran THEN Loaded ELSE UNCHANGED <<loaded, broken>>
    /\ pc' = "remove"
    /\ UNCHANGED <<root, file, empty, globbed, cur, buf, gcs, swallowed>>

\* The job cannot be started, or waiting for it fails: it may have run.
LoadRunFails(ran) ==
    /\ pc = "bq"
    /\ IF ran THEN Loaded ELSE UNCHANGED <<loaded, broken>>
    /\ Exit
    /\ UNCHANGED <<root, file, empty, gcs, swallowed>>

Remove ==
    /\ pc = "remove"
    /\ file' = [file EXCEPT ![cur] = "gone"]
    /\ cur' = 0
    /\ buf' = "none"
    /\ pc' = "next"
    /\ UNCHANGED <<root, empty, globbed, gcs, loaded, broken, swallowed>>

RemoveFails ==
    /\ pc = "remove"
    /\ Exit
    /\ UNCHANGED <<root, file, empty, gcs, loaded, broken, swallowed>>

\* The process is killed, a client or the glob fails, or the five minutes for
\* a file are over.
Dies ==
    /\ pc # "exited"
    /\ Exit
    /\ UNCHANGED <<root, file, empty, gcs, loaded, broken, swallowed>>

Restart ==
    /\ pc = "exited"
    /\ pc' = "tick"
    /\ UNCHANGED <<root, file, empty, globbed, cur, buf, gcs, loaded, broken, swallowed>>

----------------------------------------------------------------------------
Collector ==
    \E f \in File :
        WriteEnds(f) \/ Chmod(f) \/ \E lines \in BOOLEAN : WriteBegins(f, lines)

Succeeds ==
    \/ Glob \/ PassDone \/ Restart
    \/ \E f \in File : ReadFile(f)
    \/ CopyGCS \/ LoadBigQuery \/ Remove

Setback ==
    \/ \E f \in File : SkipEmpty(f) \/ ReadFails(f)
    \/ \E b \in BOOLEAN : CloseGCSFails(b) \/ LoadRunFails(b)
    \/ CopyGCSFails \/ LoadJobFails \/ RemoveFails \/ Dies

Next == Collector \/ Succeeds \/ Setback

Spec == Init /\ [][Next]_vars

\* The archiver runs and is restarted.  The services are not down for ever and
\* it is not killed each time: a step that is tried again and again succeeds.
Fairness ==
    /\ WF_vars(Succeeds \/ Setback)
    /\ SF_vars(Glob) /\ SF_vars(CopyGCS \/ \E b \in BOOLEAN : CloseGCSFails(b))
    /\ SF_vars(LoadBigQuery) /\ SF_vars(Remove)
    /\ SF_vars(\E f \in File : ReadFile(f))
    /\ SF_vars(\E f \in File : SkipEmpty(f))

FairSpec == Spec /\ Fairness

----------------------------------------------------------------------------
(* Properties.                                                             *)

\* Neither archive gets a file the collector has not finished: the archiver
\* cannot read a file before Chmod, whatever the two processes do.
ArchivesAreComplete ==
    ~root => broken = {} /\ \A f \in File : gcs[f] # "partial"

\* A file is removed only when every archive has it, or has failed with an
\* error that the archiver logs and does not return: no crash, retry or
\* other failure loses a file.  For an archiver that is root a truncated copy
\* counts as the file.
NothingElseIsLost ==
    \A f \in File :
        file[f] = "gone" => /\ gcs[f] # "none" \/ <<f, "gcs">> \in swallowed
                            /\ f \in loaded \/ <<f, "bq">> \in swallowed

\* The first file that cannot be read stops every pass; if there is none, in
\* the end, each file that is complete and has contents is archived and
\* removed, with empty files before and between them.
CompleteFilesLeave ==
    <>[](\A f \in File : file[f] \notin {"writing", "sealed"})
        => \A f \in File : (file[f] = "readable" /\ f \notin empty) ~> (file[f] = "gone")
=============================================================================
