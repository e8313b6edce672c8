----------------------------- MODULE FileTransfer -----------------------------
(***************************************************************************)
(* Files over one connection: downloads by fileOpen, fileRead, fileClose,  *)
(* and uploads by obtainFile, for which the server opens, reads and closes *)
(* the file it was offered with requests of its own (the reverse read).    *)
(*                                                                         *)
(* The server has one obtainFile at a time (ConnState::obtain) and takes   *)
(* every confirmed response of the client for the answer to its latest     *)
(* request, whatever the invokeID; the client's reader task answers the    *)
(* reverse requests from the files on offer, or not at all.                *)
(***************************************************************************)
EXTENDS Integers, Sequences, FiniteSets

CONSTANTS
  FileNames,    \* files of the server
  Blocks,       \* number of blocks of an uploaded file
  MaxTransfers, \* bound on the number of transfers
  MaxRemovals   \* bound on files removed by others

ASSUME FileAssumption == Blocks \in Nat /\ MaxTransfers \in Nat /\ MaxRemovals \in Nat

VARIABLES
  filestore,    \* what the FileProvider has, by name: blocks, or NoFile
  removals,     \* how many files others removed
  openFiles,    \* ConnState::files, by frsmID
  obtain,       \* ConnState::obtain, at most one
  offered,      \* Shared::offered_files: the uploads whose data is on offer
  reverseReads, \* Shared::reverse_reads, by frsmID
  toServer,     \* messages under way
  toClient,
  transfers,    \* the client's calls, by number
  truth         \* history: what the server opened for each transfer, or did store

fileVars == <<filestore, removals, openFiles, obtain, offered, reverseReads,
              toServer, toClient, transfers, truth>>

NoFile == <<<<0, 0>>>>
Contents(n) == [b \in 1..Blocks |-> <<n, b>>]

TransferNumbers == DOMAIN transfers
Uploads == {n \in TransferNumbers : transfers[n].do = "upload"}
Busy(n) == transfers[n].phase = "busy"

FileInit ==
  /\ filestore = [f \in FileNames |-> Contents(0)]
  /\ removals = 0
  /\ openFiles = <<>>
  /\ obtain = {}
  /\ offered = {}
  /\ reverseReads = <<>>
  /\ toServer = <<>> /\ toClient = <<>>
  /\ transfers = <<>>
  /\ truth = <<>>

(* The messages: requests and answers of a transfer n, and those of the     *)
(* reverse read, which carry no number the receiver looks at.               *)
Request(kind, n, frsm) == [kind |-> kind, n |-> n, frsm |-> frsm]
Opened(n, frsm) == [kind |-> "opened", n |-> n, frsm |-> frsm]
Chunk(n, data, more) == [kind |-> "chunk", n |-> n, data |-> data, more |-> more]
Done(kind, n) == [kind |-> kind, n |-> n]

(* One block of an open file: fileRead on either side.                      *)
NextBlock(file) == IF file.pos < Len(file.data) THEN <<file.data[file.pos + 1]>> ELSE <<>>
Advanced(file) == [file EXCEPT !.pos = IF @ < Len(file.data) THEN @ + 1 ELSE @]
MoreFollows(file) == Advanced(file).pos < Len(file.data)

-----------------------------------------------------------------------------
(* The client.                                                              *)

ReverseKinds == {"opened", "chunk", "closed"}
ReverseUnderWay ==
  \/ obtain # {}
  \/ \E k \in DOMAIN toServer : toServer[k].kind \in ReverseKinds \cup {"obtain"}
  \/ \E k \in DOMAIN toClient : toClient[k].kind \in {"open", "read", "close"}

(* upload_file and download_file up to their first request.                 *)
(* `alone' is history: no other upload is under way.                        *)
Transfer(do, f) ==
  LET n == Len(transfers) + 1
      others == IF do = "upload"
                  THEN [k \in TransferNumbers |-> [transfers[k] EXCEPT !.alone = @ /\ ~Busy(k)]]
                  ELSE transfers
  IN  /\ n <= MaxTransfers
      /\ transfers' = Append(others,
           [do |-> do, file |-> f, phase |-> "busy", got |-> <<>>, frsm |-> 0,
            alone |-> ~ReverseUnderWay /\ \A k \in Uploads : ~Busy(k)])
      /\ truth' = Append(truth, NoFile)
      /\ offered' = IF do = "upload" THEN offered \cup {n} ELSE offered
      /\ toServer' = Append(toServer, Request(IF do = "upload" THEN "obtain" ELSE "open", n, 0))
      /\ UNCHANGED <<filestore, removals, openFiles, obtain, reverseReads, toClient>>

(* request_timeout: the call ends, its data is no longer on offer.          *)
GiveUpTransfer(n) ==
  /\ Busy(n)
  /\ transfers' = [transfers EXCEPT ![n].phase = "failed"]
  /\ offered' = offered \ {n}
  /\ UNCHANGED <<filestore, removals, openFiles, obtain, reverseReads, toServer, toClient, truth>>

MaxFrsm == CHOOSE m \in {0} \cup DOMAIN reverseReads : \A k \in DOMAIN reverseReads : k <= m
WithoutFrsm(table, frsm) == [k \in DOMAIN table \ {frsm} |-> table[k]]
WithFrsm(table, frsm, file) == [k \in DOMAIN table \cup {frsm} |-> IF k = frsm THEN file ELSE table[k]]

Answers(msgs) == toServer' = toServer \o msgs

(* handle_reverse_request: a file that is not on offer, or a frsmID that is *)
(* not open, gets no answer.                                                *)
ServeReverse(m) ==
  /\ UNCHANGED <<transfers, offered>>
  /\ CASE m.kind = "open" ->
            IF m.n \in offered
              THEN /\ reverseReads' = WithFrsm(reverseReads, MaxFrsm + 1,
                                               [data |-> Contents(m.n), pos |-> 0])
                   /\ Answers(<<Opened(0, MaxFrsm + 1)>>)
              ELSE UNCHANGED <<reverseReads, toServer>>
       [] m.kind = "read" ->
            IF m.frsm \in DOMAIN reverseReads
              THEN LET file == reverseReads[m.frsm]
                   IN  /\ reverseReads' = [reverseReads EXCEPT ![m.frsm] = Advanced(file)]
                       /\ Answers(<<Chunk(0, NextBlock(file), MoreFollows(file))>>)
              ELSE UNCHANGED <<reverseReads, toServer>>
       [] m.kind = "close" ->
            /\ reverseReads' = WithoutFrsm(reverseReads, m.frsm)
            /\ Answers(<<Done("closed", 0)>>)

(* An answer finds its call by invokeID, here the transfer's number; the    *)
(* call goes on with its next request. A late answer finds nobody.          *)
ResumeTransfer(m) ==
  LET n == m.n
      t == transfers[n]
      Finish(phase) == /\ transfers' = [transfers EXCEPT ![n].phase = phase]
                       /\ offered' = offered \ {n}
                       /\ UNCHANGED toServer
  IN  /\ UNCHANGED reverseReads
      /\ IF ~Busy(n) THEN UNCHANGED <<transfers, offered, toServer>>
         ELSE CASE m.kind = "opened" ->
                     /\ transfers' = [transfers EXCEPT ![n].frsm = m.frsm]
                     /\ Answers(<<Request("read", n, m.frsm)>>)
                     /\ UNCHANGED offered
                [] m.kind = "chunk" ->
                     /\ transfers' = [transfers EXCEPT ![n].got = @ \o m.data]
                     /\ Answers(<<Request(IF m.more THEN "read" ELSE "close", n, t.frsm)>>)
                     /\ UNCHANGED offered
                [] m.kind \in {"closed", "obtained"} -> Finish("ok")
                [] m.kind = "error" -> Finish("failed")

ClientReads ==
  /\ toClient # <<>>
  /\ toClient' = Tail(toClient)
  /\ LET m == Head(toClient)
     IN  IF m.kind \in {"open", "read", "close"} THEN ServeReverse(m) ELSE ResumeTransfer(m)
  /\ UNCHANGED <<filestore, removals, openFiles, obtain, truth>>

-----------------------------------------------------------------------------
(* The server.                                                              *)

(* DirFileProvider::write and rename; a write may fail before or after it   *)
(* cut the file.                                                            *)
Stored(f, data) == [filestore EXCEPT ![f] = data]
NotStored(f, data) == {filestore} \cup {Stored(f, SubSeq(data, 1, k)) : k \in 0..(Len(data) - 1)}
Renamed(f, g) == [filestore EXCEPT ![f] = NoFile, ![g] = filestore[f]]

Tells(msgs) == toClient' = toClient \o msgs

Refused(n) == <<Done("error", n)>>

(* handle_file_open, _read, _close: the whole file is read into memory when *)
(* it is opened. The number of the download stands for next_frsm.           *)
ServeDownload(m) ==
  /\ UNCHANGED <<filestore, obtain>>
  /\ CASE m.kind = "open" ->
            LET data == filestore[transfers[m.n].file]
            IN  IF data = NoFile THEN Tells(Refused(m.n)) /\ UNCHANGED <<openFiles, truth>>
                ELSE /\ openFiles' = WithFrsm(openFiles, m.n, [data |-> data, pos |-> 0])
                     /\ truth' = [truth EXCEPT ![m.n] = data]
                     /\ Tells(<<Opened(m.n, m.n)>>)
       [] m.kind = "read" ->
            /\ UNCHANGED truth
            /\ IF m.frsm \in DOMAIN openFiles
                 THEN LET file == openFiles[m.frsm]
                      IN  /\ openFiles' = [openFiles EXCEPT ![m.frsm] = Advanced(file)]
                          /\ Tells(<<Chunk(m.n, NextBlock(file), MoreFollows(file))>>)
                 ELSE Tells(Refused(m.n)) /\ UNCHANGED openFiles
       [] m.kind = "close" ->
            /\ openFiles' = WithoutFrsm(openFiles, m.frsm)
            /\ Tells(<<Done("closed", m.n)>>)
            /\ UNCHANGED truth

(* start_obtain_file: one at a time.                                        *)
StartObtain(m) ==
  /\ UNCHANGED <<filestore, openFiles, truth>>
  /\ IF obtain # {}
       THEN Tells(Refused(m.n)) /\ UNCHANGED obtain
       ELSE /\ obtain' = {[n |-> m.n, frsm |-> 0, data |-> <<>>]}
            /\ Tells(<<Request("open", m.n, 0)>>)

CollectedLast(st, m) == m.data
Collected(st, m) == st.data \o m.data

(* obtain_file_step for one answer of the client.                           *)
ObtainStep(m) ==
  /\ UNCHANGED openFiles
  /\ IF obtain = {} THEN UNCHANGED <<filestore, obtain, truth, toClient>>
     ELSE \E st \in obtain :
       IF st.frsm = 0 /\ m.kind = "opened"
         THEN /\ obtain' = {[st EXCEPT !.frsm = m.frsm]}
              /\ Tells(<<Request("read", 0, m.frsm)>>)
              /\ UNCHANGED <<filestore, truth>>
       ELSE IF st.frsm # 0 /\ m.kind = "chunk"
         THEN IF m.more
                THEN /\ obtain' = {[st EXCEPT !.data = Collected(st, m)]}
                     /\ Tells(<<Request("read", 0, st.frsm)>>)
                     /\ UNCHANGED <<filestore, truth>>
                ELSE /\ obtain' = {}
                     /\ \/ /\ filestore' = Stored(transfers[st.n].file, Collected(st, m))
                           /\ truth' = [truth EXCEPT ![st.n] = Collected(st, m)]
                           /\ Tells(<<Request("close", 0, st.frsm), Done("obtained", st.n)>>)
                        \/ /\ filestore' \in NotStored(transfers[st.n].file, Collected(st, m))
                           /\ UNCHANGED truth
                           /\ Tells(<<Request("close", 0, st.frsm), Done("error", st.n)>>)
       ELSE /\ obtain' = {}
            /\ Tells(Refused(st.n))
            /\ UNCHANGED <<filestore, truth>>

ServerReads ==
  /\ toServer # <<>>
  /\ toServer' = Tail(toServer)
  /\ LET m == Head(toServer)
     IN  IF m.kind = "obtain" THEN StartObtain(m)
         ELSE IF m.kind \in ReverseKinds THEN ObtainStep(m)
         ELSE ServeDownload(m)
  /\ UNCHANGED <<removals, offered, reverseReads, transfers>>

(* Another connection deletes a file, or renames one over another.          *)
RemoveFile(f) ==
  /\ removals < MaxRemovals /\ filestore[f] # NoFile
  /\ removals' = removals + 1
  /\ \/ filestore' = [filestore EXCEPT ![f] = NoFile]
     \/ \E g \in FileNames \ {f} : filestore' = Renamed(f, g)
  /\ UNCHANGED <<openFiles, obtain, offered, reverseReads, toServer, toClient, transfers, truth>>

FileNext ==
  \/ \E do \in {"upload", "download"}, f \in FileNames : Transfer(do, f)
  \/ \E n \in TransferNumbers : GiveUpTransfer(n)
  \/ ClientReads
  \/ ServerReads
  \/ \E f \in FileNames : RemoveFile(f)

FileSpec == FileInit /\ [][FileNext]_fileVars

(* The reader task and the connection task run.                             *)
FileFairness == WF_fileVars(ClientReads) /\ WF_fileVars(ServerReads)

FileFairSpec == FileSpec /\ FileFairness

-----------------------------------------------------------------------------
FileTypeOK ==
  /\ offered \subseteq Uploads
  /\ Cardinality(obtain) <= 1 /\ \A o \in obtain : o.n \in Uploads
  /\ \A n \in DOMAIN openFiles : openFiles[n].pos <= Len(openFiles[n].data)
  /\ \A n \in TransferNumbers : transfers[n].phase \in {"busy", "ok", "failed"}

(* What a download returns is the file as it was when it was opened, though *)
(* it is overwritten, deleted or renamed while its blocks are read; and an  *)
(* upload that had the connection for itself is stored as it was offered,   *)
(* or the server says that it was not; and is stored if the call says so.   *)
TransfersAreExact ==
  /\ \A n \in TransferNumbers :
       transfers[n].do = "download" /\ transfers[n].phase = "ok" => transfers[n].got = truth[n]
  /\ \A n \in Uploads : transfers[n].alone =>
       /\ truth[n] \in {NoFile, Contents(n)}
       /\ transfers[n].phase = "ok" => truth[n] = Contents(n)

(* Every download, and every upload that had the connection for itself,     *)
(* comes to an end without any timer.                                       *)
TransfersEnd ==
  \A n \in 1..MaxTransfers :
    n \in TransferNumbers ~> (n \in TransferNumbers /\ (Busy(n) => transfers[n].do = "upload" /\ ~transfers[n].alone))

(* upload_file: the server stores what was offered.                         *)
UploadIsExact == \A n \in Uploads : truth[n] \in {NoFile, Contents(n)}
=============================================================================
