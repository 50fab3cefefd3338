----------------------------- MODULE PduLogger -----------------------------
(***************************************************************************)
(* The pdu_logger block: appends the data of PDUs to numbered files        *)
(* (lib/pdu_logger_impl.cc).                                               *)
(*                                                                         *)
(* There is one series of files for each type of data, but one counter for *)
(* all.  The files outlive the block: a new run starts at number 0 again.  *)
(* A PDU is named by its run and its position among the logged ones.       *)
(***************************************************************************)
EXTENDS Naturals, Sequences

CONSTANTS
  Types,            \* types of data that are logged
  PdusPerFile,      \* values of pdus_per_file, 0 for one endless file
  MaxPdus,          \* bound: PDUs of a run
  MaxRuns           \* bound: runs

LoggerAssumption ==
  PdusPerFile \subseteq Nat /\ MaxPdus \in Nat /\ MaxRuns \in Nat

Numbers == 0..MaxPdus

VARIABLES
  files,            \* contents of file number n of type t
  d_pdus_per_file, d_burstnum, d_filenum,
  run,              \* number of the run
  logged            \* history: types of the PDUs of this run, and if the file opened

vars == <<files, d_pdus_per_file, d_burstnum, d_filenum, run, logged>>

Init ==
  /\ files = [t \in Types |-> [n \in Numbers |-> <<>>]]
  /\ d_pdus_per_file \in PdusPerFile
  /\ d_burstnum = 0 /\ d_filenum = 0
  /\ run = 1 /\ logged = <<>>

(* Mutant of Count: the file number stays.                                 *)
CountInOneFile ==
  /\ d_burstnum' = IF d_burstnum + 1 = d_pdus_per_file THEN 0 ELSE d_burstnum + 1
  /\ UNCHANGED d_filenum

(* ++d_burstnum == d_pdus_per_file                                         *)
Count ==
  IF d_burstnum + 1 = d_pdus_per_file
  THEN d_burstnum' = 0 /\ d_filenum' = d_filenum + 1
  ELSE d_burstnum' = d_burstnum + 1 /\ UNCHANGED d_filenum

(* Mutant of Written: no file is truncated.                                *)
WrittenBehind(type) == Append(files[type][d_filenum], <<run, Len(logged) + 1>>)

(* The first PDU of a file number truncates the file of its own type.      *)
Written(type) ==
  Append(IF d_burstnum = 0 THEN <<>> ELSE files[type][d_filenum],
         <<run, Len(logged) + 1>>)

(* A file that cannot be opened is reported, and its PDU counted.          *)
HandlePdu(type, opened) ==
  /\ Len(logged) < MaxPdus
  /\ files' = IF opened THEN [files EXCEPT ![type][d_filenum] = Written(type)] ELSE files
  /\ logged' = Append(logged, [type |-> type, opened |-> opened])
  /\ Count
  /\ UNCHANGED <<d_pdus_per_file, run>>

NewRun ==
  /\ run < MaxRuns
  /\ run' = run + 1
  /\ logged' = <<>>
  /\ d_burstnum' = 0 /\ d_filenum' = 0
  /\ d_pdus_per_file' \in PdusPerFile

(* The program ends, and is started again.                                 *)
Restart == NewRun /\ UNCHANGED files

(* It dies after fopen, before the data is in the file.                    *)
Crash(type) ==
  /\ NewRun /\ Len(logged) < MaxPdus
  /\ files' = IF d_burstnum = 0 THEN [files EXCEPT ![type][d_filenum] = <<>>] ELSE files

Next ==
  \/ \E type \in Types, opened \in BOOLEAN : HandlePdu(type, opened)
  \/ Restart
  \/ \E type \in Types : Crash(type)

Spec == Init /\ [][Next]_vars

-----------------------------------------------------------------------------
(* Properties                                                              *)

FileOf(k) == IF d_pdus_per_file = 0 THEN 0 ELSE (k - 1) \div d_pdus_per_file

Belongs(k, type, n) == logged[k].type = type /\ logged[k].opened /\ FileOf(k) = n

(* The PDUs of this run that belong in a file, in order.                   *)
Expected(type, n) ==
  LET Filed[k \in 0..Len(logged)] ==
        IF k = 0 THEN <<>>
        ELSE IF Belongs(k, type, n) THEN Append(Filed[k - 1], <<run, k>>) ELSE Filed[k - 1]
  IN  Filed[Len(logged)]

EndsWith(s, t) ==
  /\ Len(t) <= Len(s)
  /\ SubSeq(s, Len(s) - Len(t) + 1, Len(s)) = t

(* No PDU of the run is lost to a later truncation or filed under a wrong  *)
(* number, however the types are mixed and whichever files fail to open:   *)
(* each file ends with the PDUs of the run that belong there, in order.    *)
PdusFiled ==
  \A type \in Types, n \in Numbers :
    EndsWith(files[type][n], Expected(type, n))

(* The first PDU of a file number decides which file is truncated: what an *)
(* earlier run left is only found in front of PDUs of this run in a file   *)
(* whose number another type, or a file that did not open, began.          *)
StaleOnlyWhenMixed ==
  \A type \in Types, k \in 1..Len(logged) :
    LET n == FileOf(k)
        first == IF d_pdus_per_file = 0 THEN 1 ELSE n * d_pdus_per_file + 1
    IN  logged[first].type = type /\ logged[first].opened =>
          files[type][n] = Expected(type, n)
=============================================================================
