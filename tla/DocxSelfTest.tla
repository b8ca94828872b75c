---------------------------- MODULE DocxSelfTest ----------------------------
(***************************************************************************)
(* The life of the .docx beside its check: main converts and checks it,    *)
(* mutation_test edits a copy of it, --write-citations-apa rewrites the    *)
(* fixture of the citations from whatever the .docx sets.  The program     *)
(* tries one mutation at a time; here one of SecondEdits may stand beside  *)
(* it, or be made after the fixture was rewritten, up to MaxEdits in all.  *)
(***************************************************************************)
EXTENDS SelfTest, DocxMutations

CONSTANTS MaxEdits, SecondEdits

ASSUME BoundsAssumption == MaxEdits \in Nat /\ SecondEdits \subseteq MUTATIONS

VARIABLES doc,        \* the .docx
          contract,   \* the converter's record of what it changed
          fixture,    \* citations-apa.tsv
          edits       \* the mutations that stand in the .docx

docxVars == <<doc, contract, fixture, edits>>

DocxInit == /\ doc = Original
            /\ contract = Contract
            /\ fixture = Fixture
            /\ edits = {}

\* One mutation, where it has a target.
Mutate ==
    /\ Cardinality(edits) < MaxEdits
    /\ \E group \in Groups(doc) : \E m \in DOMAIN group \ edits :
         /\ <<edits, contract, fixture>> # <<{}, Contract, Fixture>> => m \in SecondEdits
         /\ doc' = group[m]
         /\ doc' # doc
         /\ edits' = edits \union {m}
    /\ UNCHANGED <<contract, fixture>>

\* The record altered: a narrative citation that says it removed another name.
AlterContract ==
    /\ edits = {}
    /\ contract' = [contract EXCEPT !["citations"] = "somebody else removed"]
    /\ UNCHANGED <<doc, fixture, edits>>

\* --write-citations-apa: whatever else the checks report, and refused only
\* when a citation of main.md has no place in the .docx.
WriteFixture ==
    /\ \E placed \in {Placed(doc)} :
         AllPlaced(placed) /\ fixture' = write_apa_fixture(placed)
    /\ UNCHANGED <<doc, contract, edits>>

\* The .docx and its record converted again from main.md.
Convert ==
    /\ doc' = Original
    /\ contract' = Contract
    /\ edits' = {}
    /\ UNCHANGED fixture

DocxNext == Mutate \/ AlterContract \/ WriteFixture \/ Convert

DocxSpec == DocxInit /\ [][DocxNext]_docxVars

-----------------------------------------------------------------------------
\* What the page shows, read as Word lays it out and without the checks.

\* The attributes of a text, and what each is where nothing sets it.
Looks == [line |-> 240, lineRule |-> "auto", sz |-> 20, colour |-> "auto",
          face |-> "Times New Roman", indent |-> 0, before |-> 0,
          break |-> "off", hide |-> "off", cellMargin |-> 0, tableIndent |-> 0]

\* How a node of a paragraph looks, and what its styles carry besides.
LookOf(d, ids) ==
    [set |-> LET places == Places(d, ids)
             IN  [a \in DOMAIN Looks |-> Nearest(places, a, Looks[a])],
     odd |-> UNION {s.odd : s \in UNION {Range(Chain(d, ids[k])) :
                                           k \in DOMAIN ids}}]

StylesOf(d, p, node, inTable) ==
    <<IF node.style = "" THEN DefaultOf(d, "character") ELSE node.style,
      StyleId(d, p)>> \o (IF inTable THEN <<"Table">> ELSE <<>>)

\* Where a link leads and what a picture shows, its size and its form.
NodePage(d, p, node, inTable) ==
    [el |-> node.el, text |-> ReadNode(node), odd |-> node.odd,
     look |-> LookOf(d, StylesOf(d, p, node, inTable)),
     leads |-> IF node.el = "hyperlink" THEN LinkOf(d, node.rid) ELSE "",
     draws |-> [k \in DOMAIN node.pictures |->
                  [part |-> MediaOf(d, node.pictures[k].rid),
                   cx |-> node.pictures[k].cx, cy |-> node.pictures[k].cy,
                   form |-> node.pictures[k].form]]]

\* Word draws no label for numbering 0, which "00" is too.
WordLabel(d, p) ==
    IF p.num = <<>> \/ ListOf(d, p.num[1]) = 0 THEN <<>>
    ELSE IF p.num[1] \in {"0", "00"} THEN <<>>
    ELSE LET l == d.numbering.lists[ListOf(d, p.num[1])]
             a == DefinitionOf(d, l.definition)
         IN  IF a = 0 THEN <<>>
             ELSE <<l.odd, d.numbering.definitions[a].level>>

ParagraphPage(d, p, inTable) ==
    [label |-> WordLabel(d, p), odd |-> p.odd,
     look |-> LookOf(d, StylesOf(d, p, Run(<<>>), inTable)),
     nodes |-> [k \in DOMAIN p.nodes |-> NodePage(d, p, p.nodes[k], inTable)]]

BlockPage(d, b) ==
    CASE IsP(b) -> <<"p", ParagraphPage(d, b, FALSE)>>
      [] IsTable(b) ->
           <<"tbl", b.grid, b.layout, b.odd, b.unread,
             [r \in DOMAIN b.rows |-> [c \in DOMAIN b.rows[r] |->
               [k \in DOMAIN b.rows[r][c] |->
                 ParagraphPage(d, b.rows[r][c][k], TRUE)]]]>>
      [] OTHER -> <<b.el>>

Page(d) ==
    [blocks |-> [i \in DOMAIN d.body |-> BlockPage(d, d.body[i])],
     beside |-> d.beside, twice |-> d.twice,
     header |-> <<SectionTarget(d), d.header>>, settings |-> d.settings,
     separators |-> d.separators, footnotes |-> d.footnotes,
     comments |-> d.comments]

-----------------------------------------------------------------------------
\* Properties.

docxProblems == run_checks(doc, contract, fixture)

\* Every mutation of mutation_test is reported, and as exactly the problems it
\* is expected to be: nothing more, nothing less, the unmutated .docx none and
\* the altered record alone its own (mutation_test, self_test).
MutationsAreCaught ==
    tested = "docx" /\ Cardinality(edits) <= 1 /\ fixture = Fixture =>
       docxProblems = (IF contract = Contract THEN {}
                   ELSE {<<"contract", "citations">>})
                    \union UNION {ReportedAs(m) : m \in edits}

\* The items of a .docx are the blocks of main.md, in its order, each with the
\* citations the fixture sets for it and the page break it has or has not.
ItemsAsMain(items, apa) ==
    /\ Len(items) = Len(MainBlocks)
    /\ \A i \in DOMAIN MainBlocks :
         LET cites == MainBlocks[i].cites
         IN  /\ items[i].key = main_stream[i]
             /\ items[i].brk = IF MainBlocks[i].line \in BreakLines THEN 1 ELSE 0
             /\ DOMAIN items[i].groups = DOMAIN cites
             /\ \A j \in DOMAIN cites :
                  Norm(items[i].groups[j]) = Norm(apa[cites[j]].text)

\* What a .docx says is what main.md says.
ReadsAsMain(d, apa) == ItemsAsMain(docx_view(Blocks(d)).items, apa)

\* What a .docx cites by: the author and the year of every entry.
NamesEntries(d) ==
    \A c \in Placed(d) : \A n \in Range(Cites[c[1]].ids) :
      Refs[n].author \in Range(c[2]) /\ Refs[n].year \in Range(c[2])

\* What nothing reported must mean of a .docx, however it came about.
Faithful(d, apa) == ReadsAsMain(d, apa) /\ NamesEntries(d)

\* A .docx the checks pass shows what the converted one shows, whatever edits
\* stand in it, one hiding the other included: its words, their look, labels,
\* links, pictures and layout, and what stands beside the body (run_checks).
\* And whatever --write-citations-apa has blessed before, it reads as main.md does,
\* with the citations the fixture has, and each of them names its entries
\* (check_citations, write_apa_fixture).
GreenMeansFaithful ==
    tested = "docx" /\ docxProblems = {} =>
       /\ Faithful(doc, fixture)
       /\ (fixture = Fixture => Page(doc) = Page(Original))
=============================================================================
