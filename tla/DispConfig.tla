----------------------------- MODULE DispConfig -----------------------------
(***************************************************************************)
(* The configuration of a disposer: how a YAML document becomes a sequence *)
(* of patterns and action templates (disposer/Disposer.cpp, misc/Parser.h, *)
(* PatternAction.h, ActionTemplate.cpp), which actions a product's name    *)
(* then selects, and the document that getYaml() makes of them.            *)
(*                                                                         *)
(* What is read from a node is a set: of one value, or empty if an         *)
(* exception is thrown instead.                                            *)
(***************************************************************************)
EXTENDS Integers, Sequences, SequencesExt, Functions, Yaml

CONSTANTS
  Documents, \* Documents that are configured
  KeepOpens, \* Values of the argument maxKeepOpen
  IntOf,     \* Integers by their texts (external)
  BoolOf,    \* Booleans by their texts (external)
  Matching,  \* std::regex_match(): pairs of a pattern and a product name (external)
  BadRegex,  \* Patterns that std::regex refuses (external)
  Products   \* Names of products

VARIABLES
  document,    \* What is read
  maxKeepOpen,
  patActs,     \* Disposer::Impl::patActs
  item,        \* Number of items of "patternActions" that were parsed
  phase,       \* "reading", "read", "threw"
  first        \* What was read before the document was written, and read again

config == <<document, maxKeepOpen, patActs, item, phase, first>>

-----------------------------------------------------------------------------
(* Nodes *)

\* Parser::tryDecode(): the default if there's no such key. A scalar's type has
\* its readable texts in DOMAIN of.
TryDecode(node, key, of, default) ==
  IF ~Has(node, key) THEN {value \in {default} : node.kind = "map"}
  ELSE LET child == node.keys[key]
       IN IF child.kind = "scalar" /\ child.text \in DOMAIN of THEN {of[child.text]} ELSE {}
TryText(node, key, default) ==
  IF Has(node, key) /\ node.keys[key].kind = "scalar" THEN {node.keys[key].text}
                                                     ELSE TryDecode(node, key, <<>>, default)
\* Parser::tryDecode() of a sequence
TryTexts(node, key) ==
  LET child == node.keys[key]
  IN IF child.kind = "seq" /\ \A k \in DOMAIN child.items : child.items[k].kind = "scalar"
     THEN {[k \in DOMAIN child.items |-> child.items[k].text]} ELSE {}

\* Pattern::Pattern(): the regular expression must be valid.
Pattern(text) == {text} \ BadRegex

-----------------------------------------------------------------------------
(* Templates of actions *)

Template(type, args, keepOpen) == [type |-> type, args |-> args, keepOpen |-> keepOpen]

\* ExecTemplateImpl: never keeps anything open. PipeTemplateImpl. Both need a program.
ExecTemplate(args, keepOpen) == {t \in {Template("exec", args, FALSE)} : args # <<>>}
PipeTemplate(args, keepOpen) == {t \in {Template("pipe", args, keepOpen)} : args # <<>>}
\* FileTemplateImpl, AppendTemplateImpl
FileTemplate(path, keepOpen)   == {Template("file", <<path>>, keepOpen)}
AppendTemplate(path, keepOpen) == {Template("append", <<path>>, keepOpen)}

ActionKeys == {"exec", "pipe", "file", "append"}
\* parseAction() of one type of action
ParseAs(node, type, keepOpen) ==
  CASE type = "exec"   -> UNION {ExecTemplate(args, keepOpen) : args \in TryTexts(node, type)}
    [] type = "pipe"   -> UNION {PipeTemplate(args, keepOpen) : args \in TryTexts(node, type)}
    [] type = "file"   -> UNION {FileTemplate(path, keepOpen) : path \in TryText(node, type, "")}
    [] type = "append" -> UNION {AppendTemplate(path, keepOpen) : path \in TryText(node, type, "")}

\* parseAction(): exactly one action
ParseAction(node) ==
  UNION {ParseAs(node, type, keepOpen) :
    type \in {t \in ActionKeys : {k \in ActionKeys : Has(node, k)} = {t}},
    keepOpen \in TryDecode(node, "keepOpen", BoolOf, FALSE)}

\* parseActions()
ParseActions(node) ==
  IF node.kind = "seq" /\ \A k \in DOMAIN node.items : ParseAction(node.items[k]) # {}
  THEN {[k \in DOMAIN node.items |-> CHOOSE t \in ParseAction(node.items[k]) : TRUE]} ELSE {}

\* parsePatActNode(): everything is included and nothing excluded by default. A
\* single action and a sequence of them exclude each other.
PatternAction(include, exclude, template) ==
  [include |-> include, exclude |-> exclude, template |-> template]
Templates(node) ==
  IF ~Has(node, "actions") THEN {<<t>> : t \in ParseAction(node)}
  ELSE {ts \in ParseActions(node.keys["actions"]) : \A k \in ActionKeys : ~Has(node, k)}
ParsePatActNode(node) ==
  {[k \in DOMAIN ts |-> PatternAction(include, exclude, ts[k])] :
     include \in UNION {Pattern(text) : text \in TryText(node, "include", ".*")},
     exclude \in UNION {Pattern(text) : text \in TryText(node, "exclude", "")},
     ts \in Templates(node)}

-----------------------------------------------------------------------------
(* Reading *)

Items(doc) == IF Has(doc, "patternActions") THEN doc.keys["patternActions"].items ELSE <<>>
\* createFromYaml(): the argument gives way to the file. parsePatternActions()
Opens(doc, argument) ==
  IF doc.kind = "map" /\ (Has(doc, "patternActions") => doc.keys["patternActions"].kind = "seq")
  THEN {max \in TryDecode(doc, "maxKeepOpen", IntOf, argument) : max >= 0} ELSE {}

Begin(doc, argument) ==
  /\ document' = doc /\ patActs' = <<>> /\ item' = 0
  /\ IF Opens(doc, argument) = {} THEN phase' = "threw" /\ maxKeepOpen' = argument
                                  ELSE phase' = "reading" /\ maxKeepOpen' \in Opens(doc, argument)
Nothing == [maxKeepOpen |-> -1]

Init ==
  /\ document \in Documents /\ maxKeepOpen \in KeepOpens
  /\ patActs = <<>> /\ item = 0 /\ phase = "new" /\ first = Nothing

CreateFromYaml == phase = "new" /\ Begin(document, maxKeepOpen) /\ UNCHANGED first

\* One turn of the loop in parsePatternActions()
ParseItem ==
  /\ phase = "reading" /\ item < Len(Items(document))
  /\ item' = item + 1
  /\ LET parsed == ParsePatActNode(Items(document)[item'])
     IN IF parsed = {} THEN phase' = "threw" /\ UNCHANGED patActs
                       ELSE \E more \in parsed : patActs' = patActs \o more /\ UNCHANGED phase
  /\ UNCHANGED <<document, maxKeepOpen, first>>
Created ==
  /\ phase = "reading" /\ item = Len(Items(document)) /\ phase' = "read"
  /\ UNCHANGED <<document, maxKeepOpen, patActs, item, first>>

-----------------------------------------------------------------------------
(* Writing *)

\* Disposer::getYaml(): one argument is written as a scalar, several as a sequence.
WrittenArgs(args) ==
  IF Len(args) > 1 THEN List([k \in DOMAIN args |-> Scalar(args[k])]) ELSE Scalar(args[1])
Entry(key, node) == [k \in {key} |-> node]
WrittenKeepOpen(keepOpen) == IF keepOpen THEN Entry("keepOpen", Scalar("true")) ELSE <<>>
WrittenExclude(exclude) == IF exclude = "" THEN <<>> ELSE Entry("exclude", Scalar(exclude))
Merged(f, g) == [k \in DOMAIN f \cup DOMAIN g |-> IF k \in DOMAIN f THEN f[k] ELSE g[k]]
WrittenItem(patAct) == Map(
  Merged(Merged(Entry("include", Scalar(patAct.include)), WrittenExclude(patAct.exclude)),
         Merged(Entry(patAct.template.type, WrittenArgs(patAct.template.args)),
                WrittenKeepOpen(patAct.template.keepOpen))))
IntText(n) == CHOOSE text \in DOMAIN IntOf : IntOf[text] = n
GetYaml == Map(Merged(
  Entry("maxKeepOpen", Scalar(IntText(maxKeepOpen))),
  Entry("patternActions", List([k \in DOMAIN patActs |-> WrittenItem(patActs[k])]))))

\* What is written is read, with another argument.
ReadBack ==
  /\ phase = "read" /\ first = Nothing
  /\ first' = [maxKeepOpen |-> maxKeepOpen, patActs |-> patActs]
  /\ \E argument \in KeepOpens : Begin(GetYaml, argument)

Next == CreateFromYaml \/ ParseItem \/ Created \/ ReadBack
Spec == Init /\ [][Next]_config

-----------------------------------------------------------------------------
(* Actions *)

\* dispose(): the patterns in their order. A back-reference is replaced by the
\* product's name here; an action is known by its type and arguments.
Selects(patAct, product) ==
  <<patAct.include, product>> \in Matching /\ <<patAct.exclude, product>> \notin Matching
Reify(template, product) ==
  [type |-> template.type, keepOpen |-> template.keepOpen,
   args |-> [k \in DOMAIN template.args |-> IF template.args[k] = "$1" THEN product ELSE template.args[k]]]
SameAction(a, b) == a.type = b.type /\ a.args = b.args
Selected(acts, product) ==
  LET IsSelected(patAct) == Selects(patAct, product)
      chosen == SelectSeq(acts, IsSelected)
  IN [k \in DOMAIN chosen |-> Reify(chosen[k].template, product)]

-----------------------------------------------------------------------------
(* Properties *)

TypeOK ==
  /\ phase \in {"new", "reading", "read", "threw"} /\ item \in Nat
  /\ \A k \in DOMAIN patActs : patActs[k].template.type \in ActionKeys

\* A program that is given without arguments is written as what can't be read.
IsBare(patAct) == patAct.template.type \in {"exec", "pipe"} /\ Len(patAct.template.args) = 1
Again == first # Nothing
\* The document that getYaml() makes configures a disposer that does the same to
\* every product, in the same order and keeping the same open (Disposer.h, getYaml():
\* "Returns the YAML representation"), if no program is without arguments.
WrittenIsReadBack == Again /\ ~(\E k \in DOMAIN first.patActs : IsBare(first.patActs[k])) =>
  /\ phase # "threw" /\ maxKeepOpen = first.maxKeepOpen
  /\ phase = "read" => \A product \in Products :
       LET now == Selected(patActs, product)  before == Selected(first.patActs, product)
       IN /\ Len(now) = Len(before)
          /\ \A k \in DOMAIN now : SameAction(now[k], before[k]) /\ now[k].keepOpen = before[k].keepOpen

\* ... and if one is.
CommandsAreReadBack == Again => phase # "threw"
=============================================================================
