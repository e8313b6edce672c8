--------------------------- MODULE ServerNamespace ---------------------------
(***************************************************************************)
(* What a server has to show of its model (ServerModel): the names of its  *)
(* variables, its data sets and its control blocks. A name is the tuple of *)
(* its segments, <<ln, fc, ...>>, and a domain that of its parts; '$' comes*)
(* before every character of a segment, so names are in the order of their *)
(* tuples.                                                                 *)
(***************************************************************************)
EXTENDS Integers, Sequences, SequencesExt, FiniteSets

CONSTANTS
  Ied,         (* [name, devices], as the SCL has it: a device is [inst,     *)
               (* ldName, lns], its ldName empty without one; a node [name,  *)
               (* attributes, dataSets, reports, groups, logs], an attribute *)
               (* [fc, path, type, val], a member of a data set [inst, ln,   *)
               (* path, fc]                                                  *)
  NameOrder,   (* every segment of a name, in the order of octets            *)
  Unindexed,   (* the names of report control blocks that end in 01, without *)
  PageSize,    (* ServerModel::page_size                                     *)
  Written      (* what the application has set: <<domain, item>> -> value    *)

Rank(segment) == CHOOSE k \in DOMAIN NameOrder : NameOrder[k] = segment
Before(a, b) ==
  \E n \in 0..Len(a) :
    /\ n < Len(b)
    /\ SubSeq(a, 1, n) = SubSeq(b, 1, n)
    /\ n = Len(a) \/ Rank(a[n + 1]) < Rank(b[n + 1])
InOrder(names) ==
  [k \in 1..Cardinality(names) |->
     CHOOSE x \in names : Cardinality({y \in names : Before(y, x)}) = k - 1]

(* Model::effective_ld_name.                                                *)
DomainOf(ld) == IF ld.ldName = <<>> THEN <<Ied.name, ld.inst>> ELSE ld.ldName
DevicesAt(domain) == SelectSeq(Ied.devices, LAMBDA ld : DomainOf(ld) = domain)
Zeros(n) == [k \in 1..n |-> 0]
NodesAt(domain) == FlattenSeq([i \in DOMAIN DevicesAt(domain) |-> DevicesAt(domain)[i].lns])

-----------------------------------------------------------------------------
(* The components of the control blocks with the values they begin with, in *)
(* the order of IEC 61850-8-1. A reference is a value of its parts.         *)
No == <<"bool", FALSE>>
Zero == <<"uint", 0>>
Bits(set, width) == <<"bits", [k \in 1..width |-> k - 1 \in set]>>
OrEmpty(dataset) == <<"visible", IF dataset = <<>> THEN <<>> ELSE dataset[1]>>

RcbComponents(domain, ln, r) ==
  <<<<"RptID", <<"visible", IF r.rptId = <<>> THEN <<domain, ln.name, r.name>> ELSE r.rptId[1]>>>>,
    <<"RptEna", No>>>>
    \o (IF r.buffered THEN <<>> ELSE <<<<"Resv", No>>>>)
    \o <<<<"DatSet", OrEmpty(IF r.dataset = <<>> THEN <<>>
                             ELSE <<<<domain, ln.name, r.dataset[1]>>>>)>>,
         <<"ConfRev", <<"uint", IF r.confRev = <<>> THEN 1 ELSE r.confRev[1]>>>>,
         <<"OptFlds", Bits(IF r.buffered THEN {1, 4, 6, 7} ELSE {1, 4}, 10)>>,
         <<"BufTm", Zero>>, <<"SqNum", Zero>>, <<"TrgOps", Bits({1}, 2)>>, <<"IntgPd", Zero>>,
         <<"GI", No>>>>
    \o (IF r.buffered THEN <<<<"PurgeBuf", No>>, <<"EntryID", <<"octets", <<>>>>>>,
                             <<"TimeofEntry", <<"binarytime", Zeros(6)>>>>, <<"ResvTms", <<"int", 0>>>>>>
                       ELSE <<>>)
SgcbComponents(g) ==
  <<<<"NumOfSG", <<"uint", g.num>>>>, <<"ActSG", <<"uint", g.act>>>>, <<"EditSG", Zero>>,
    <<"CnfEdit", No>>, <<"LActTm", <<"utc", 0>>>>>>
    \o (IF g.resvTms THEN <<<<"ResvTms", Zero>>>> ELSE <<>>)
LcbComponents(domain, ln, l) ==
  <<<<"LogEna", <<"bool", l.logEna>>>>, <<"LogRef", <<"visible", <<domain, ln.name, l.name>>>>>>,
    <<"DatSet", OrEmpty(l.dataset)>>,
    <<"OldEntrTm", <<"binarytime", Zeros(6)>>>>, <<"NewEntrTm", <<"binarytime", Zeros(6)>>>>,
    <<"OldEntr", <<"octets", Zeros(8)>>>>, <<"NewEntr", <<"octets", Zeros(8)>>>>,
    <<"TrgOps", Bits({1, 2}, 3)>>, <<"IntgPd", Zero>>>>

BlocksOf(domain, ln) ==
  {[base |-> <<ln.name, "LG", l.name>>, components |-> LcbComponents(domain, ln, l)] :
     l \in Range(ln.logs)}
    \cup {[base |-> <<ln.name, "SP", "SGCB">>, components |-> SgcbComponents(g)] :
            g \in Range(ln.groups)}
    \cup {[base |-> <<ln.name, IF r.buffered THEN "BR" ELSE "RP", r.name>>,
           components |-> RcbComponents(domain, ln, r)] : r \in Range(ln.reports)}
BlocksAt(domain) == UNION {BlocksOf(domain, ln) : ln \in Range(NodesAt(domain))}
(* sg_domains: the numbers of groups that the blocks of a domain give.      *)
GroupsAt(domain) ==
  {g.num : g \in UNION {Range(ln.groups) : ln \in Range(NodesAt(domain))}}
(* iter_data_attributes: the attributes of a domain with their names, the   *)
(* compound ones and what is inside them alike.                             *)
AttributesAt(domain) ==
  {<<<<x[1].name, x[2].fc>> \o x[2].path, x[2]>> :
     x \in UNION {{ln} \X Range(ln.attributes) : ln \in Range(NodesAt(domain))}}

-----------------------------------------------------------------------------
(* from_model: the variables of each domain: the attributes of its nodes,   *)
(* its control blocks with their components, and for every setting that has *)
(* groups its view for editing.                                             *)
ItemsOf(domain) ==
  LET attributes == {x[1] : x \in AttributesAt(domain)}
      blocks == UNION {{b.base} \cup {b.base \o <<c[1]>> : c \in Range(b.components)} :
                         b \in BlocksAt(domain)}
      grouped == \E n \in GroupsAt(domain) : n > 0
      edited == {[i EXCEPT ![2] = "SE"] : i \in {x \in attributes : grouped /\ x[2] = "SG"}}
  IN  attributes \cup blocks \cup edited

Domains == InOrder({DomainOf(ld) : ld \in Range(Ied.devices)})
DomainItems == [d \in Range(Domains) |-> InOrder(ItemsOf(d))]
HasVariable(name) == name[1] \in Range(Domains) /\ name[2] \in Range(DomainItems[name[1]])

(* build_name_list: the page after a name, and whether there is more.       *)
ListSource(class, scope) ==
  CASE class = "domain" /\ scope = <<>> -> Domains
    [] class = "variable" /\ scope # <<>> ->
         IF scope[1] \in Range(Domains) THEN DomainItems[scope[1]] ELSE <<>>
    [] OTHER -> <<>>
PageFrom(source, start) ==
  LET end == IF start + PageSize < Len(source) THEN start + PageSize ELSE Len(source)
  IN  <<SubSeq(source, start + 1, end), end < Len(source)>>
(* Slip: the page begins with the name it should follow.                    *)
NamePageWith(class, scope, after) ==
  LET source == ListSource(class, scope)
  IN  PageFrom(source, IF after = <<>> THEN 0
                       ELSE Cardinality({k \in DOMAIN source : Before(source[k], after[1])}))
NamePage(class, scope, after) ==
  LET source == ListSource(class, scope)
  IN  PageFrom(source, IF after = <<>> THEN 0
                       ELSE Cardinality({k \in DOMAIN source : source[k] = after[1]
                                                                  \/ Before(source[k], after[1])}))

-----------------------------------------------------------------------------
(* resolve_dataset: the members of the first data set of a domain that has  *)
(* the name. A member is of the domain, or of another device of the IED,    *)
(* found by its instance; its constraint is that of the attribute it names, *)
(* or the one it is given.                                                  *)
MemberName(domain, e) ==
  LET at == IF e.inst = "" THEN domain ELSE <<Ied.name, e.inst>>
      nodes == SelectSeq(NodesAt(at), LAMBDA ln : ln.name = e.ln)
      attributes == IF nodes = <<>> THEN <<>>
                    ELSE SelectSeq(nodes[1].attributes, LAMBDA a : a.path = e.path)
      fc == IF attributes = <<>> THEN e.fc ELSE <<attributes[1].fc>>
  IN  IF fc = <<>> THEN <<>> ELSE <<<<at, <<e.ln, fc[1]>> \o e.path>>>>
ResolveDataSet(domain, name) ==
  LET named == FlattenSeq([i \in DOMAIN NodesAt(domain) |->
                             SelectSeq(NodesAt(domain)[i].dataSets, LAMBDA ds : ds.name = name)])
  IN  FlattenSeq([i \in DOMAIN named[1].entries |-> MemberName(domain, named[1].entries[i])])

(* dataset_members: a data set has two keys, its name with its node's and   *)
(* its name alone.                                                          *)
DataSetKeys(domain) ==
  UNION {{<<ln.name, ds.name>>, <<ds.name>>} :
           <<ln, ds>> \in UNION {{n} \X Range(n.dataSets) : n \in Range(NodesAt(domain))}}
StaticMembers(name) ==
  IF name[2] \in DataSetKeys(name[1]) THEN <<ResolveDataSet(name[1], Last(name[2]))>> ELSE <<>>

(* journal_entries: a log has two entries, whatever happened.               *)
JournalEntries(name) ==
  IF \E ln \in Range(NodesAt(name[1])) :
       \E l \in Range(ln.logs) : name[2] = <<ln.name, l.name>>
  THEN <<<<<<1, "then", <<<<"bool", TRUE>>>>>>, <<2, "then", <<<<"bool", FALSE>>>>>>>>>>
  ELSE <<>>

-----------------------------------------------------------------------------
(* value_to_mms: what an attribute of a type has from the text of the SCL,  *)
(* a number or a word, if it is of the type. An enum has its literals and   *)
(* their numbers.                                                           *)
FromText(type, text) ==
  LET number == text[1] = "number"
  IN  CASE type[1] = "bool" /\ text \in {<<"number", 1>>, <<"word", "true">>} -> <<<<"bool", TRUE>>>>
        [] type[1] = "bool" /\ text \in {<<"number", 0>>, <<"word", "false">>} -> <<No>>
        [] type[1] \in {"int", "uint"} /\ number -> <<<<type[1], text[2]>>>>
        [] type[1] = "enum" /\ number -> <<<<"int", text[2]>>>>
        [] type[1] = "enum" /\ ~number ->
             <<IF text[2] \in DOMAIN type[2] THEN <<"int", type[2][text[2]]>>
                                             ELSE <<"visible", text[2]>>>>
        [] type[1] = "string" -> <<<<"visible", text[2]>>>>
        [] OTHER -> <<>>
(* A compound attribute has a default like any other.                       *)
DefaultFor(type) ==
  CASE type[1] = "bool" -> No
    [] type[1] = "uint" -> Zero
    [] type[1] = "string" -> <<"visible", "">>
    [] type[1] = "quality" -> Bits({}, 13)
    [] type[1] = "time" -> <<"utc", 0>>
    [] type[1] = "octets" -> <<"octets", <<>>>>
    [] OTHER -> <<"int", 0>>
FirstValue(a) ==
  LET given == IF a.val = <<>> THEN <<>> ELSE FromText(a.type, a.val[1])
  IN  IF given = <<>> THEN DefaultFor(a.type) ELSE given[1]

(* setting_ref: whether a name is that of a setting, in the view of the     *)
(* active group or in that of the one being edited; sg_group_key: the key   *)
(* of a group's value, common to both views.                                *)
IsSetting(domain, item) ==
  GroupsAt(domain) # {} /\ Len(item) > 2 /\ item[2] \in {"SG", "SE"}
GroupKey(domain, g, item) ==
  <<domain, <<"@sg", g, item[1]>> \o SubSeq(item, 3, Len(item))>>

(* init_store: the attributes, each setting once more for every group, and  *)
(* the components of the control blocks.                                    *)
SeedsOf(domain) ==
  {<<<<domain, x[1]>>, FirstValue(x[2])>> : x \in AttributesAt(domain)}
    \cup {<<GroupKey(domain, y[2], y[1][1]), FirstValue(y[1][2])>> :
            y \in {x \in AttributesAt(domain) : IsSetting(domain, x[1]) /\ x[1][2] = "SG"}
                   \X UNION {1..n : n \in GroupsAt(domain)}}
    \cup UNION {{<<<<domain, b.base \o <<c[1]>>>>, c[2]>> : c \in Range(b.components)} :
                  b \in BlocksAt(domain)}
InitStore ==
  LET seeds == UNION {SeedsOf(d) : d \in Range(Domains)}
  IN  [n \in {s[1] : s \in seeds} |-> (CHOOSE s \in seeds : s[1] = n)[2]]
Store ==
  [n \in DOMAIN InitStore \cup DOMAIN Written |->
     IF n \in DOMAIN Written THEN Written[n] ELSE InitStore[n]]

-----------------------------------------------------------------------------
(* normalize_rcb_item: the instance of a control block is dropped when the  *)
(* block exists without it.                                                 *)
NormalizeRcbItem(domain, item) ==
  LET Places(fc) == {k \in 2..Len(item) - 1 : item[k] = fc}
      Fits(fc) ==
        /\ Places(fc) # {}
        /\ LET k == CHOOSE k \in Places(fc) : \A j \in Places(fc) : k <= j
           IN  /\ item[k + 1] \in DOMAIN Unindexed
               /\ \E b \in BlocksAt(domain) :
                    b.base = [SubSeq(item, 1, k + 1) EXCEPT ![k + 1] = Unindexed[@]]
      Dropped(fc) ==
        LET k == CHOOSE k \in Places(fc) : \A j \in Places(fc) : k <= j
        IN  [item EXCEPT ![k + 1] = Unindexed[@]]
  IN  CASE Fits("RP") -> Dropped("RP")
        [] ~Fits("RP") /\ Fits("BR") -> Dropped("BR")
        [] OTHER -> item

(* assemble_structured: the structure of what is below a name, component by *)
(* component in the order of the names.                                     *)
ChildrenOf(domain, item) ==
  FoldLeft(LAMBDA cs, i : LET c == SubSeq(i, 1, Len(item) + 1)
                          IN  IF c \in Range(cs) THEN cs ELSE Append(cs, c),
           <<>>, SelectSeq(DomainItems[domain], LAMBDA i : IsStrictPrefix(item, i)))
ValueAt(name) == IF name \in DOMAIN Store THEN Store[name] ELSE <<"bool", FALSE>>
RECURSIVE AssembleStructured(_, _, _)
AssembleStructured(domain, item, children) ==
  IF children = <<>> THEN ValueAt(<<domain, item>>)
  ELSE <<"structure", [k \in DOMAIN children |->
                         AssembleStructured(domain, children[k], ChildrenOf(domain, children[k]))]>>

(* resolve_setting, of a device whose edit buffer is empty: the value that  *)
(* the setting has in the group that the block gives, or in the first.      *)
ReadSetting(domain, item) ==
  LET block == CHOOSE b \in BlocksAt(domain) : b.base[2] = "SP"
      attr == IF item[2] = "SE" THEN "EditSG" ELSE "ActSG"
      group == Store[<<domain, block.base \o <<attr>>>>][2]
      key == GroupKey(domain, IF \E n \in GroupsAt(domain) : group \in 1..n THEN group ELSE 1, item)
  IN  IF key \in DOMAIN Store THEN <<"value", Store[key]>> ELSE <<"failure", 5>>

(* handle_read, of one name whose reading is no selection: a control block  *)
(* by its components, a setting, a leaf, or a structure. A compound         *)
(* attribute is a leaf to it, for it has a value of its own.                *)
ReadStructured(domain, item, children) ==
  IF children = <<>> THEN <<"failure", 5>>
  ELSE <<"value", AssembleStructured(domain, item, children)>>
ComponentsAt(domain, item) ==
  LET found == {b.components : b \in {b \in BlocksAt(domain) : b.base = item}}
  IN  IF found = {} THEN <<>>
      ELSE LET cs == CHOOSE cs \in found : TRUE IN [k \in DOMAIN cs |-> cs[k][1]]
ReadItem(domain, item) ==
  LET names == ComponentsAt(domain, item)
      name == <<domain, item>>
  IN  CASE names # <<>> ->
             <<"value", <<"structure",
                          [k \in DOMAIN names |-> ValueAt(<<domain, item \o <<names[k]>>>>)]>>>>
        [] names = <<>> /\ IsSetting(domain, item) -> ReadSetting(domain, item)
        [] names = <<>> /\ ~IsSetting(domain, item) /\ name \in DOMAIN Store ->
             <<"value", Store[name]>>
        [] OTHER ->
             ReadStructured(domain, item,
                            IF domain \in DOMAIN DomainItems THEN ChildrenOf(domain, item) ELSE <<>>)
ReadName(name) == ReadItem(name[1], NormalizeRcbItem(name[1], name[2]))

=============================================================================
