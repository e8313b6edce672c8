----------------------------- MODULE TsduTransport -----------------------------
(***************************************************************************)
(* One direction of a connection: TSDUs are cut into DT TPDUs (cotp.rs),   *)
(* each goes out in a TPKT packet (tpkt.rs), and the other end puts them   *)
(* together again (connection.rs).                                         *)
(*                                                                         *)
(* Several tasks of the writing end share the socket behind a mutex.  The  *)
(* reading end is one of two loops: the client reads in a task of its own  *)
(* (client.rs, reader_loop); the server reads in one arm of a select       *)
(* (server.rs, handle_connection), and drops the unfinished read when      *)
(* another arm, a change of a value or a notification, is ready.           *)
(*                                                                         *)
(* The octets of a TSDU are left out, the part of it that a TPDU carries   *)
(* is known by its number.  A packet is two units on the stream, its TPKT  *)
(* header and its TPDU; a unit that was partly read leaves a tail.         *)
(***************************************************************************)
EXTENDS Naturals, Sequences

CONSTANTS
  Tasks,       \* tasks of the writing end
  Tsdus,       \* the TSDUs that may be sent
  Length,      \* Length[t]: the octets of TSDU t
  MaxTpdu,     \* DEFAULT_TPDU_SIZE: octets of a TPDU, with its header
  MaxTsduLen,  \* MAX_TSDU_LEN: octets that a reader puts together
  SelectLoop,  \* TRUE if the reader is one arm of a select
  MaxSends     \* bound on the TSDUs sent

ASSUME LengthAssumption == Length \in [Tsdus -> Nat]
ASSUME TransportSizesAssumption ==
  /\ MaxTpdu \in Nat /\ MaxTsduLen \in Nat /\ MaxSends \in Nat
  /\ SelectLoop \in BOOLEAN

VARIABLES
  sent,      \* the TSDUs in the order in which their sender got the mutex
  writing,   \* writing[k]: the TPDUs that task k has yet to write
  stream,    \* units written and not yet read
  inPacket,  \* the reader has the header of a packet and awaits its TPDU
  parts,     \* the TPDUs put together so far (out in recv_data)
  gathered,  \* their octets (out.len())
  received,  \* the TSDUs handed to the layers above, each as its TPDUs
  open       \* the connection works

readerVars == <<inPacket, parts, gathered, received>>
linkVars == <<sent, writing, stream, readerVars, open>>

HeaderLen == 3

LinkInit ==
  /\ sent = <<>>
  /\ writing = [k \in Tasks |-> <<>>]
  /\ stream = <<>>
  /\ inPacket = FALSE
  /\ parts = <<>>
  /\ gathered = 0
  /\ received = <<>>
  /\ open = TRUE

-----------------------------------------------------------------------------
(* data_tpdus: the TPDUs of the n-th TSDU sent, of len octets.              *)
Chunk == IF MaxTpdu > HeaderLen THEN MaxTpdu - HeaderLen ELSE 1
NumTpdus(len) == IF len <= Chunk THEN 1 ELSE (len + Chunk - 1) \div Chunk

(* Slip: a TSDU that fills its TPDUs has none with EOT.                     *)
TpdusNoneLast(n, len) ==
  [j \in 1..NumTpdus(len) |->
     [tsdu |-> n, part |-> j, eot |-> j * Chunk > len,
      size |-> IF j < NumTpdus(len) THEN Chunk ELSE len - Chunk * (j - 1)]]

DataTpdus(n, len) ==
  [j \in 1..NumTpdus(len) |->
     [tsdu |-> n, part |-> j, eot |-> j = NumTpdus(len),
      size |-> IF j < NumTpdus(len) THEN Chunk ELSE len - Chunk * (j - 1)]]

(* The n-th TSDU sent, as the TPDUs it was cut into.                        *)
Whole(n) == DataTpdus(n, Length[sent[n]])

-----------------------------------------------------------------------------
(* The writing end: a task gets the mutex and keeps it for the whole TSDU.  *)
(* Slip: it does not wait for the mutex.                                    *)
StartSendUnlocked(k, t) ==
  /\ Len(sent) < MaxSends
  /\ writing[k] = <<>>
  /\ sent' = Append(sent, t)
  /\ writing' = [writing EXCEPT ![k] = DataTpdus(Len(sent) + 1, Length[t])]
  /\ UNCHANGED <<stream, readerVars, open>>

StartSend(k, t) ==
  /\ Len(sent) < MaxSends
  /\ \A j \in Tasks : writing[j] = <<>>
  /\ sent' = Append(sent, t)
  /\ writing' = [writing EXCEPT ![k] = DataTpdus(Len(sent) + 1, Length[t])]
  /\ UNCHANGED <<stream, readerVars, open>>

Packet(f) == <<[unit |-> "header", tpdu |-> f], [unit |-> "tpdu", tpdu |-> f]>>

WriteTpdu(k) ==
  /\ open
  /\ writing[k] # <<>>
  /\ stream' = stream \o Packet(Head(writing[k]))
  /\ writing' = [writing EXCEPT ![k] = Tail(@)]
  /\ UNCHANGED <<sent, readerVars, open>>

(* Writing to a broken connection fails, and the rest is not written.       *)
WriteFails(k) ==
  /\ ~open
  /\ writing[k] # <<>>
  /\ writing' = [writing EXCEPT ![k] = <<>>]
  /\ UNCHANGED <<sent, stream, readerVars, open>>

-----------------------------------------------------------------------------
(* The reading end.                                                         *)
UnitReady(u) == open /\ stream # <<>> /\ Head(stream).unit = u

ReadHeader ==
  /\ ~inPacket
  /\ UnitReady("header")
  /\ inPacket' = TRUE
  /\ stream' = Tail(stream)
  /\ UNCHANGED <<sent, writing, parts, gathered, received, open>>

(* What is not a TPKT header fails the check of its version.  (The tail of  *)
(* a unit may happen to pass it; what is read then is no better.)           *)
ReadBadHeader ==
  /\ ~inPacket
  /\ UnitReady("tpdu") \/ UnitReady("tail")
  /\ open' = FALSE
  /\ UNCHANGED <<sent, writing, stream, readerVars>>

(* The TPDU of the packet: the TSDU grows, and is complete with EOT.        *)
(* Slip: the parts stay.                                                    *)
ReadTpduKeepingParts ==
  LET f == Head(stream).tpdu
  IN  /\ inPacket
      /\ UnitReady("tpdu")
      /\ gathered + f.size <= MaxTsduLen
      /\ inPacket' = FALSE
      /\ stream' = Tail(stream)
      /\ parts' = Append(parts, f)
      /\ gathered' = gathered + f.size
      /\ received' = IF f.eot THEN Append(received, Append(parts, f)) ELSE received
      /\ UNCHANGED <<sent, writing, open>>

ReadTpdu ==
  LET f == Head(stream).tpdu
  IN  /\ inPacket
      /\ UnitReady("tpdu")
      /\ gathered + f.size <= MaxTsduLen
      /\ inPacket' = FALSE
      /\ stream' = Tail(stream)
      /\ parts' = IF f.eot THEN <<>> ELSE Append(parts, f)
      /\ gathered' = IF f.eot THEN 0 ELSE gathered + f.size
      /\ received' = IF f.eot THEN Append(received, Append(parts, f)) ELSE received
      /\ UNCHANGED <<sent, writing, open>>

(* The TSDU grows beyond its bound: the reader gives the connection up.     *)
RefuseTpdu ==
  /\ inPacket
  /\ UnitReady("tpdu")
  /\ gathered + Head(stream).tpdu.size > MaxTsduLen
  /\ open' = FALSE
  /\ UNCHANGED <<sent, writing, stream, readerVars>>

(* Another arm of the select is ready: recv_data is dropped with all that   *)
(* it has read of a TSDU, maybe in the middle of a unit.                    *)
DropRead ==
  /\ SelectLoop
  /\ open
  /\ inPacket' = FALSE
  /\ parts' = <<>>
  /\ gathered' = 0
  /\ \/ UNCHANGED stream
     \/ stream # <<>> /\ stream' = [stream EXCEPT ![1].unit = "tail"]
  /\ UNCHANGED <<sent, writing, received, open>>

Break ==
  /\ open
  /\ open' = FALSE
  /\ UNCHANGED <<sent, writing, stream, readerVars>>

Read == ReadHeader \/ ReadBadHeader \/ ReadTpdu \/ RefuseTpdu

LinkNext ==
  \/ \E k \in Tasks, t \in Tsdus : StartSend(k, t)
  \/ \E k \in Tasks : WriteTpdu(k) \/ WriteFails(k)
  \/ Read
  \/ DropRead
  \/ Break

LinkSpec == LinkInit /\ [][LinkNext]_linkVars

(* Both ends keep running.                                                  *)
LinkFairSpec == LinkSpec /\ WF_linkVars(Read) /\ \A k \in Tasks : WF_linkVars(WriteTpdu(k))

-----------------------------------------------------------------------------
Tpdu == [tsdu : Nat, part : Nat, eot : BOOLEAN, size : Nat]

(* Types; what a reader puts together never exceeds MAX_TSDU_LEN.           *)
LinkTypeOK ==
  /\ sent \in Seq(Tsdus) /\ Len(sent) <= MaxSends
  /\ writing \in [Tasks -> Seq(Tpdu)]
  /\ stream \in Seq([unit : {"header", "tpdu", "tail"}, tpdu : Tpdu])
  /\ inPacket \in BOOLEAN
  /\ parts \in Seq(Tpdu)
  /\ gathered \in 0..MaxTsduLen
  /\ received \in Seq(Seq(Tpdu))
  /\ open \in BOOLEAN

(* Every TSDU is received as it was sent, in order, none missing (client.rs *)
(* relies on it to match responses; connection.rs, recv_data: a whole TSDU).*)
ReceivedAsSent ==
  /\ Len(received) <= Len(sent)
  /\ \A n \in DOMAIN received : received[n] = Whole(n)

(* However reads are dropped, a TSDU that is received is the end of one     *)
(* that was sent, later ones were sent later: nothing is received twice, out*)
(* of order, or mixed with another TSDU.                                    *)
IsEndOf(ps, n) ==
  \E from \in DOMAIN Whole(n) : ps = SubSeq(Whole(n), from, Len(Whole(n)))

ReceivedEndsInOrder ==
  /\ \A i \in DOMAIN received :
       LET n == received[i][1].tsdu
       IN  n \in DOMAIN sent /\ IsEndOf(received[i], n)
  /\ \A i, j \in DOMAIN received :
       i < j => received[i][1].tsdu < received[j][1].tsdu

(* The two ends together are a connection that delivers whole TSDUs.        *)
Garbage == "not a TSDU that was sent"

Content(ps) ==
  IF \E n \in DOMAIN sent : ps = Whole(n)
    THEN sent[CHOOSE n \in DOMAIN sent : ps = Whole(n)]
    ELSE Garbage

Delivery == INSTANCE TsduDelivery
              WITH delivered <- [i \in DOMAIN received |-> Content(received[i])]

ImplementsDelivery == Delivery!DeliverySpec

(* Whatever was sent has arrived, again and again, unless the connection   *)
(* breaks.                                                                  *)
NothingUnderWay == Len(received) = Len(sent) \/ ~open
EverythingArrives == []<>NothingUnderWay
=============================================================================
