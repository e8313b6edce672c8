----------------------------- MODULE MmsFilePdus -----------------------------
(***************************************************************************)
(* The services of files (file.rs) and of logs (journal.rs). A file of a   *)
(* directory is the tuple of its name, its size and, when it is known, the *)
(* time of its last change; an entry of a log is the tuple of its          *)
(* identifier, its time and its values.                                    *)
(***************************************************************************)
EXTENDS MmsPdus

(* A name of a file: of several components, the last one counts.            *)
GraphicString == Universal(25)
FileNameOf(name) == <<Tlv(GraphicString, name)>>
ReadFileName(content) == Ok(IF content = <<>> THEN "" ELSE Last(content).content)

ReadPair(service, first, second) ==
  Then(ReadFileName(first), LAMBDA a :
    Then(ReadFileName(second), LAMBDA b : Ok(<<service, a, b>>)))

-----------------------------------------------------------------------------
(* fileDirectory                                                            *)
WriteDirectory(prefix, after) ==
  Tlv(Constr(77), Optional(Constr(0), IF prefix = <<>> THEN <<>> ELSE <<FileNameOf(prefix[1])>>)
                    \o Optional(Constr(1), IF after = <<>> THEN <<>> ELSE <<FileNameOf(after[1])>>))
ReadDirectory(svc) ==
  ExpectService(svc, Constr(77), LAMBDA c :
    Fields(c, <<May(Constr(0)), May(Constr(1))>>, LAMBDA f :
      Then(IfThere(f[1], ReadFileName), LAMBDA prefix :
        Then(IfThere(f[2], ReadFileName), LAMBDA after : Ok(<<"directory", prefix, after>>)))))

Attributes(size, changed) == <<WriteUnsigned(Prim(0), size)>> \o Optional(Prim(1), changed)
ReadAttributes(content) ==
  Fields(content, <<Must(Prim(0)), May(Prim(1))>>, LAMBDA f :
    Then(DecodeUnsigned(f[1][1]), LAMBDA n : Ok(<<n, f[2]>>)))

WriteEntries(entries, more) ==
  LET Entry(e) == Tlv(SEQUENCE, <<Tlv(Constr(0), FileNameOf(e[1])),
                                  Tlv(Constr(1), Attributes(e[2], e[3]))>>)
  IN  Tlv(Constr(77), <<Tlv(Constr(0), [i \in DOMAIN entries |-> Entry(entries[i])])>>
                        \o IF more THEN <<Tlv(Prim(1), TRUE)>> ELSE <<>>)

ReadFileEntry(content) ==
  Fields(content, <<Must(Constr(0)), Must(Constr(1))>>, LAMBDA f :
    Then(ReadFileName(f[1][1]), LAMBDA name :
      Then(ReadAttributes(f[2][1]), LAMBDA a : Ok(<<name, a[1], a[2]>>))))
(* The entries of a list: what does not begin with a name is a list around  *)
(* them, as another implementation writes it.                               *)
RECURSIVE CollectEntries(_, _)
CollectEntries(content, depth) ==
  LET One(c) ==
        IF c.content # <<>> /\ DecodeTag(Head(c.content).id) = Constr(0)
        THEN Then(ReadFileEntry(c.content), LAMBDA e : Ok(<<e>>))
        ELSE CollectEntries(c.content, depth + 1)
  IN  IF depth > 2 THEN Ok(<<>>)
      ELSE Then(Each(content, One), LAMBDA ls : Ok(FlattenSeq(ls)))
ReadEntries(svc) ==
  ExpectService(svc, Constr(77), LAMBDA c :
    Fields(c, <<Must(Constr(0)), May(Prim(1))>>, LAMBDA f :
      Then(CollectEntries(f[1][1], 0), LAMBDA es : Ok(<<es, OrElse(f[2], FALSE)>>))))

-----------------------------------------------------------------------------
(* fileOpen, fileRead, fileClose: a block without moreFollows has more.     *)
WriteOpen(name, position) ==
  Tlv(Constr(72), <<Tlv(Constr(0), FileNameOf(name)), WriteUnsigned(Prim(1), position)>>)
ReadOpen(svc) ==
  ExpectService(svc, Constr(72), LAMBDA c :
    Fields(c, <<Must(Constr(0)), Must(Prim(1))>>, LAMBDA f :
      Then(ReadFileName(f[1][1]), LAMBDA name :
        Then(DecodeUnsigned(f[2][1]), LAMBDA pos : Ok(<<"open", name, pos>>)))))
WriteOpened(frsm, size, changed) ==
  Tlv(Constr(72), <<WriteInteger(Prim(0), frsm), Tlv(Constr(1), Attributes(size, changed))>>)
ReadOpened(svc) ==
  ExpectService(svc, Constr(72), LAMBDA c :
    Fields(c, <<Must(Prim(0)), Must(Constr(1))>>, LAMBDA f :
      Then(DecodeInteger(f[1][1]), LAMBDA id :
        Then(ReadAttributes(f[2][1]), LAMBDA a : Ok(<<id, a[1], a[2]>>)))))

WriteFileRead(frsm) == WriteInteger(Prim(73), frsm)
ReadFileRead(svc) ==
  ExpectService(svc, Prim(73), LAMBDA os :
    Then(DecodeInteger(os), LAMBDA id : Ok(<<"fileRead", id>>)))
WriteBlock(data, more) ==
  Tlv(Constr(73), <<Tlv(Prim(0), data)>> \o IF more THEN <<>> ELSE <<Tlv(Prim(1), FALSE)>>)
(* Slip: a block is the last one unless it says that there are more.        *)
ReadBlockAsLast(svc) ==
  ExpectService(svc, Constr(73), LAMBDA c :
    Fields(c, <<Must(Prim(0)), May(Prim(1))>>, LAMBDA f : Ok(<<f[1][1], OrElse(f[2], FALSE)>>)))

ReadBlock(svc) ==
  ExpectService(svc, Constr(73), LAMBDA c :
    Fields(c, <<Must(Prim(0)), May(Prim(1))>>, LAMBDA f : Ok(<<f[1][1], OrElse(f[2], TRUE)>>)))

WriteClose(frsm) == WriteInteger(Prim(74), frsm)
ReadClose(svc) ==
  ExpectService(svc, Prim(74), LAMBDA os :
    Then(DecodeInteger(os), LAMBDA id : Ok(<<"close", id>>)))
WriteClosed == WriteNull(Prim(74))

-----------------------------------------------------------------------------
(* fileDelete, fileRename, obtainFile: of the answer only the number of its *)
(* tag is looked at.                                                        *)
ReadNumber(svc, service) == IF DecodeTag(svc.id).number = service THEN Ok(<<>>) ELSE Failed

WriteRemove(name) == Tlv(Constr(76), FileNameOf(name))
ReadRemove(svc) ==
  ExpectService(svc, Constr(76), LAMBDA c :
    Then(ReadFileName(c), LAMBDA name : Ok(<<"remove", name>>)))
WriteRemoved == WriteNull(Prim(76))
ReadRemoved(svc) == ReadNumber(svc, 76)

WriteRename(from, to) ==
  Tlv(Constr(75), <<Tlv(Constr(0), FileNameOf(from)), Tlv(Constr(1), FileNameOf(to))>>)
ReadRename(svc) ==
  ExpectService(svc, Constr(75), LAMBDA c :
    Fields(c, <<Must(Constr(0)), Must(Constr(1))>>, LAMBDA f :
      ReadPair("rename", f[1][1], f[2][1])))
WriteRenamed == WriteNull(Prim(75))
ReadRenamed(svc) == ReadNumber(svc, 75)

WriteObtain(from, to) ==
  Tlv(Constr(46), <<Tlv(Constr(1), FileNameOf(from)), Tlv(Constr(2), FileNameOf(to))>>)
ReadObtain(svc) ==
  ExpectService(svc, Constr(46), LAMBDA c :
    Fields(c, <<May(Constr(0)), Must(Constr(1)), Must(Constr(2))>>, LAMBDA f :
      ReadPair("obtain", f[2][1], f[3][1])))
WriteObtained == WriteNull(Prim(46))
ReadObtained(svc) == ReadNumber(svc, 46)

-----------------------------------------------------------------------------
(* Logs: everything between the beginning and the end of time is asked for, *)
(* and the server does not look at the range.                               *)
WriteLogRequest(name) ==
  LET Time(n, o) == Tlv(Constr(n), <<Tlv(Prim(0), [i \in 1..6 |-> o])>>)
  IN  Tlv(Constr(65), <<Tlv(Constr(0), <<ObjectName(name)>>), Time(1, 0), Time(2, 255)>>)
ReadLogRequest(svc) ==
  ExpectService(svc, Constr(65), LAMBDA c :
    Inside(c, <<Constr(0)>>, LAMBDA n :
      Then(ReadObjectName(n), LAMBDA name : Ok(<<"readLog", name>>))))
WriteLog(entries, more) ==
  LET Variable(d) == Tlv(SEQUENCE, <<Tlv(Prim(0), ""), Tlv(Constr(1), <<EncodeData(d)>>)>>)
      Variables(ds) ==
        IF ds = <<>> THEN <<>> ELSE <<Tlv(Constr(2), [i \in DOMAIN ds |-> Variable(ds[i])])>>
      LogEntry(e) ==
        Tlv(SEQUENCE, <<Tlv(Prim(0), e[1]), Tlv(Constr(2), <<Tlv(Prim(0), e[2])>> \o Variables(e[3]))>>)
  IN  Tlv(Constr(65), <<Tlv(Constr(0), [i \in DOMAIN entries |-> LogEntry(entries[i])]),
                        Tlv(Prim(1), more)>>)

(* A value that cannot be read is left out, and what has other tags too.    *)
EntryValues(vs) ==
  FlattenSeq([i \in DOMAIN vs |->
    FlattenSeq([j \in DOMAIN Tagged(vs[i].content, Constr(1)) |->
      LET spec == Tagged(vs[i].content, Constr(1))[j]
      IN  IF spec = <<>> THEN <<>> ELSE DecodeData(spec[1])])])
LastOrNone(s) == IF s = <<>> THEN <<>> ELSE Last(s)
EntryContent(inside) ==
  <<LastOrNone(Tagged(inside, Prim(0))), EntryValues(FlattenSeq(Tagged(inside, Constr(2))))>>
ReadEventEntry(content) ==
  Fields(content, <<Must(Prim(0))>>, LAMBDA f :
    Ok(<<f[1][1]>> \o EntryContent(FlattenSeq(Tagged(Tail(content), Constr(2))))))
ReadLog(svc) ==
  ExpectService(svc, Constr(65), LAMBDA c :
    Fields(c, <<Must(Constr(0)), May(Prim(1))>>, LAMBDA f :
      Then(Each(f[1][1], LAMBDA e : ReadEventEntry(e.content)), LAMBDA es :
        Ok(<<es, OrElse(f[2], FALSE)>>))))
=============================================================================
