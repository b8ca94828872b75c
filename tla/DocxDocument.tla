---------------------------- MODULE DocxDocument ----------------------------
(***************************************************************************)
(* The synthetic manuscript of the .docx check and the .docx it should     *)
(* become: SYNTHETIC_MAIN, SYNTHETIC_REFS and SYNTHETIC_DOCX of            *)
(* analysis/scripts/check_docx_text.py.  A text is a sequence of tokens, a *)
(* token being a stretch of characters no check tells apart; the spaces    *)
(* and the line breaks the checks do tell apart are tokens of their own.   *)
(* A block is named by the line of main.md it comes from.                  *)
(***************************************************************************)
EXTENDS Integers, Sequences, FiniteSets, Functions

\* White space, and the token that stands for a citation in the comparison.
SP == " "
Many == "20,000 spaces"
EM == "em space"
NL == "line break"
Space == {SP, Many, EM, NL}
CITE == "the placeholder of a citation"
Bullet == "bullet"
Sentence == "The primary effect was 99.9 percent."

-----------------------------------------------------------------------------
\* The elements of the body.

\* A run, or whatever else stands in a paragraph: its element, its text, its
\* character style, whether xml:space keeps the spaces at its ends, the
\* relationship of a link, the pictures it draws and what else it holds.
Run(text) == [el |-> "r", text |-> text, style |-> "", keep |-> TRUE,
              rid |-> "", pictures |-> <<>>, odd |-> {}]

Styled(text, style) == [Run(text) EXCEPT !.style = style]

Hyperlink(text, rid) ==
    [Styled(text, "Hyperlink") EXCEPT !.el = "hyperlink", !.rid = rid]

\* A picture as pandoc writes one, in twentieths of a point; `form` holds what
\* departs from that form.
Picture(rid, cx, cy) ==
    [Run(<<>>) EXCEPT
       !.pictures = <<[rid |-> rid, cx |-> cx, cy |-> cy, form |-> {}]>>]

\* A paragraph: the line it comes from, its style ("" for none), its nodes, the
\* list and level it is numbered in, the bookmarks that open before it, and the
\* properties pandoc does not write.
P(at, style, nodes) == [el |-> "p", at |-> at, style |-> style, nodes |-> nodes,
                        num |-> <<>>, marks |-> <<>>, odd |-> {}]

Marked(p, marks) == [p EXCEPT !.marks = marks]
Listed(p) == [p EXCEPT !.num = <<"1001", 0>>]
Plain(at, style, text) == P(at, style, <<Run(text)>>)

Cell(style, node) == <<P("table 1", style, <<node>>)>>

\* A table as pandoc lays one out: three columns of 2640 twips.
GateTable ==
    [el |-> "tbl", at |-> "table 1", grid |-> <<2640, 2640, 2640>>,
     layout |-> "pandoc", odd |-> {}, unread |-> {},
     rows |->
       <<<<Cell("Table Heading", Run(<<"Gate">>)),
           Cell("Table Heading", Run(<<"What it reads">>)),
           Cell("Table Heading", Run(<<"Value">>))>>,
         <<Cell("Table Text", Run(<<"Power", SP, "gate">>)),
           Cell("Table Text", Run(<<"The power of", SP, "a surrogate">>)),
           Cell("Table Text", Styled(<<"0.921">>, "Verbatim Char"))>>>>]

PageBreak == P("break", "Page Break", <<>>)

-----------------------------------------------------------------------------
\* The references: what an entry prints field by field, its first author and
\* year, its one link, and its place in APA order.
Refs ==
    << [fields |-> <<"Alpha, A.", "Beta, B.", "(2020)", "A first title",
                     "Journal of Tests", "1(2)", "3-4", "doi one">>,
        author |-> "Alpha", year |-> "2020", link |-> "doi one", order |-> 1],
       [fields |-> <<"Zeta, Z.", "(2019)", "A book of tests", "(2nd ed.)",
                     "Test Press", "doi two">>,
        author |-> "Zeta", year |-> "2019", link |-> "doi two", order |-> 4],
       [fields |-> <<"Center", "(n.d.)", "Registered Reports",
                     "Retrieved October 3, 2026", "rr">>,
        author |-> "Center", year |-> "n.d.", link |-> "rr", order |-> 2],
       [fields |-> <<"Gamma, G.", "Delta, D.", "Epsilon, E.", "(2023)",
                     "A preprint about tests", "(arXiv)", "arXiv", "arxiv">>,
        author |-> "Gamma", year |-> "2023", link |-> "arxiv", order |-> 3] >>

RefMark(n) == <<"ref-cds1", "ref-cds2", "ref-cds3", "ref-cds4">>[n]

\* A citation: the entries it names, how it reads, and what APA sets for it.
Cites ==
    << [ids |-> <<1, 2>>, kind |-> "parenthetical",
        apa |-> <<"(", "Alpha", "& Beta,", "2020", ";", "Zeta", "2019", ")">>],
       [ids |-> <<1>>, kind |-> "narrative",
        apa |-> <<"Alpha", "and Beta", "(", "2020", ")">>],
       [ids |-> <<4>>, kind |-> "narrative",
        apa |-> <<"Gamma", "et al.", "(", "2023", ")">>],
       [ids |-> <<3>>, kind |-> "in-parentheses",
        apa |-> <<"(", "as in", "Center", "n.d.", "on why", ")">>] >>

Prefix == "as in"
Suffix == "on why"

-----------------------------------------------------------------------------
\* The blocks of main.md the .docx must carry, in order: the line that names
\* the block, its kind, its level when it is a heading, its text with a
\* placeholder for each citation, and the citations.
M(line, kind, text, cites) ==
    [line |-> line, kind |-> kind, text |-> text, cites |-> cites,
     generated |-> FALSE]

Title == <<"A synthetic", SP, "manuscript">>
Disclosure == <<"Use of AI assistance.", SP, "substantial", SP, "AI assistance">>
CodeLines == <<"alpha = 0.05", NL, "beta", Many, "= 0.20">>

MainBlocks ==
    << M("1.", "heading 1", <<"1. Introduction">>, <<>>),
       M("intro", "para",
         <<"an evaluation", SP, CITE, ".", SP, CITE, SP, "argue", SP, CITE,
           SP, "disagree">>, <<1, 2, 3>>),
       M("gate", "para", <<"The power gate", SP, "0.921", SP, "the floor">>,
         <<>>),
       M("signs", "para", <<"Symbols", SP, ">=", SP, "a second", SP, ">=">>,
         <<>>),
       M("item 1", "item", <<Bullet, SP, "the", SP, "first", SP, "gate">>, <<>>),
       M("item 2", "item", <<Bullet, SP, "the second gate">>, <<>>),
       M("figure 1", "figure", <<>>, <<>>),
       M("figure 2", "figure", <<>>, <<>>),
       M("table 1", "table", <<>>, <<>>),
       M("2.", "heading 1", <<"2. Method">>, <<>>),
       M("method", "para", <<"The estimate", SP, CITE, ".">>, <<4>>),
       M("code", "code", CodeLines, <<>>),
       M("refs heading", "heading 1", <<"References">>, <<>>),
       M("references", "references", <<>>, <<>>),
       M("appendices", "para", <<"The appendices">>, <<>>),
       M("A.", "heading 1", <<"A. The rules">>, <<>>),
       [M("rules", "para", <<"Estimand.", SP, "renormalising">>, <<>>)
         EXCEPT !.generated = TRUE],
       M("K.", "heading 1", <<"K. AI usage">>, <<>>),
       M("usage", "para", <<"disclosed here in full">>, <<>>) >>

\* The headings that begin a page: References and each appendix.
BreakLines == {"refs heading", "A.", "K."}

\* The caption of a figure: the title above the picture, the note below it.
FigureOf == << [title |-> <<"The first figure.">>, part |-> "first.png",
                note |-> <<"Note.", SP, "Each bar counts">>],
               [title |-> <<"The second figure.">>, part |-> "second.png",
                note |-> <<>>] >>

TableTitle == <<"The gates and what each reads.">>

\* What the title pages hold, in order: style, name and text.
HeadOf ==
    << <<"Title", "title", Title>>,
       <<"Author", "author", <<"Ada Example">>>>,
       <<"Author Note", "ORCID", <<"ORCID:", SP, "0000-0001">>>>,
       <<"Author Note", "Code and data", <<"Code:", SP, "repo">>>>,
       <<"Author Note", "AI disclosure", Disclosure>>,
       <<"Abstract Title", "abstract title", <<"Abstract">>>>,
       <<"Abstract", "abstract", <<"We", SP, "test the check">>>>,
       <<"Title Repeat", "title repeated", Title>> >>

\* The links main.md writes: what is shown and where it leads.
MainLinks == {<<"0000-0001", "orcid">>, <<"repo", "repo">>}

\* Text of main.md the .docx leaves out, and what it must hold somewhere.
Lead == "A bold lead"
ReferenceNote == "Reference numbers are permanent"
Glyphs == {">="}

-----------------------------------------------------------------------------
\* The .docx that manuscript should become.

Entry(n, runs) ==
    Marked(P(RefMark(n), "Bibliography",
             runs \o <<Hyperlink(<<Refs[n].link>>, "link " \o Refs[n].link)>>),
           <<RefMark(n)>>)

TitlePages ==
    << Plain("title", "Title", Title),
       Plain("author", "Author", <<"Ada Example">>),
       P("orcid", "Author Note",
         <<Run(<<"ORCID:", SP>>), Hyperlink(<<"0000-0001">>, "link orcid")>>),
       P("code and data", "Author Note",
         <<Run(<<"Code:", SP>>), Hyperlink(<<"repo">>, "link repo")>>),
       Plain("disclosure", "Author Note", Disclosure),
       Plain("abstract title", "Abstract Title", <<"Abstract">>),
       Plain("abstract", "Abstract", <<"We", SP, "test the check">>),
       Plain("title repeated", "Title Repeat", Title) >>

Introduction ==
    << Plain("1.", "heading 1", <<"1. Introduction">>),
       P("intro", "First Paragraph",
         <<Run(<<"an evaluation", SP>>), Styled(Cites[1].apa, "Citation"),
           Run(<<".", SP>>), Styled(Cites[2].apa, "Citation"),
           Run(<<SP, "argue", SP>>), Styled(Cites[3].apa, "Citation"),
           Run(<<SP, "disagree">>)>>),
       P("gate", "Body Text",
         <<Run(<<"The power gate", SP, "0.921">>), Run(<<SP, "the floor">>)>>),
       P("signs", "Body Text",
         <<Run(<<"Symbols", SP, ">=">>), Run(<<SP, "a second", SP, ">=">>)>>),
       Listed(P("item 1", "Compact",
         <<Run(<<"the", SP>>), Run(<<"first">>), Run(<<SP, "gate">>)>>)),
       Listed(Plain("item 2", "Compact", <<"the second gate">>)) >>

FiguresAndTable ==
    << Plain("figure 1", "Figure Number", <<"Figure 1">>),
       Plain("figure 1 title", "Figure Title", FigureOf[1].title),
       P("figure 1 image", "Figure Image", <<Picture("img first", 8640, 2880)>>),
       Plain("figure 1 note", "Figure Note", FigureOf[1].note),
       Plain("figure 2", "Figure Number", <<"Figure 2">>),
       Plain("figure 2 title", "Figure Title", FigureOf[2].title),
       P("figure 2 image", "Figure Image", <<Picture("img second", 8640, 6480)>>),
       Plain("table 1 label", "Table Number", <<"Table 1">>),
       Plain("table 1 title", "Table Title", TableTitle),
       GateTable,
       P("after table", "After Table", <<>>) >>

Method ==
    << Plain("2.", "heading 1", <<"2. Method">>),
       P("method", "First Paragraph",
         <<Run(<<"The estimate", SP>>), Styled(Cites[4].apa, "Citation"),
           Run(<<".">>)>>),
       P("code", "Source Code", <<Styled(CodeLines, "Verbatim Char")>>) >>

ReferenceList ==
    << PageBreak,
       Plain("refs heading", "heading 1", <<"References">>),
       Entry(1, <<Run(<<"Alpha, A.", ", & ", "Beta, B.", SP, "(2020)", ". ",
                        "A first title", ". ">>),
                  Run(<<"Journal of Tests">>), Run(<<", ">>),
                  Run(<<"1(2)", ", ", "3-4", ". ">>)>>),
       Entry(3, <<Run(<<"Center", ". ", "(n.d.)", ". ", "Registered Reports",
                        ". ", "Retrieved October 3, 2026", ", from ">>)>>),
       Entry(4, <<Run(<<"Gamma, G.", ", ", "Delta, D.", ", & ", "Epsilon, E.",
                        SP, "(2023)", ". ", "A preprint about tests", SP,
                        "(arXiv)", ". ", "arXiv", ". ">>)>>),
       Entry(2, <<Run(<<"Zeta, Z.", SP, "(2019)", ". ", "A book of tests", SP,
                        "(2nd ed.)", ". ", "Test Press", ". ">>)>>) >>

Appendices ==
    << Plain("appendices", "First Paragraph", <<"The appendices">>),
       PageBreak,
       Plain("A.", "heading 1", <<"A. The rules">>),
       P("rules", "Body Text", <<Run(<<"Estimand.">>), Run(<<SP, "renormalising">>)>>),
       PageBreak,
       Plain("K.", "heading 1", <<"K. AI usage">>),
       Plain("usage", "First Paragraph", <<"disclosed here in full">>) >>

Body == TitlePages \o Introduction \o FiguresAndTable \o Method
          \o ReferenceList \o Appendices

-----------------------------------------------------------------------------
\* The rest of the package.

\* A style: its identifier and name, its type, the style it is based on, whether
\* it is its type's default, what it sets itself, and what it carries besides.
Style(id, type, own) ==
    [id |-> id, name |-> id, type |-> type, based |-> "", default |-> FALSE,
     own |-> own, odd |-> {}]

Nothing == <<>>
BreakingStyles == {"Page Break", "Abstract Title", "Title Repeat"}

ParagraphStyles ==
    << "Title", "Author", "Author Note", "Abstract Title", "Abstract",
       "Title Repeat", "heading 1", "First Paragraph", "Body Text", "Compact",
       "Figure Number", "Figure Title", "Figure Image", "Figure Note",
       "Table Number", "Table Title", "Table Heading", "Table Text",
       "After Table", "Source Code", "Page Break", "Bibliography" >>

Styles ==
    [i \in DOMAIN ParagraphStyles |->
       LET id == ParagraphStyles[i]
       IN  Style(id, "paragraph",
                 CASE id = "Page Break" ->
                        [break |-> "on", line |-> 20, lineRule |-> "exact",
                         sz |-> 2]
                   [] id \in {"Abstract Title", "Title Repeat"} ->
                        [break |-> "on"]
                   [] OTHER -> Nothing)]
      \o <<Style("Citation", "character", Nothing),
           Style("Verbatim Char", "character", Nothing),
           Style("Hyperlink", "character", Nothing),
           Style("Table", "table", Nothing)>>

Relationship(type, target, mode) ==
    [type |-> type, target |-> target, mode |-> mode]

FixedIds == {"styles", "numbering", "footnotes", "header1", "settings"}
LinkTargets == {"orcid", "repo"} \union {Refs[n].link : n \in DOMAIN Refs}

Rels ==
    [id \in {"to " \o f : f \in FixedIds}
              \union {"link " \o l : l \in LinkTargets}
              \union {"img first", "img second"} |->
       CASE id = "img first"  -> Relationship("image", "first.png", "")
         [] id = "img second" -> Relationship("image", "second.png", "")
         [] \E f \in FixedIds : id = "to " \o f ->
              LET f == CHOOSE g \in FixedIds : id = "to " \o g
              IN  Relationship(f, f, "")
         [] OTHER ->
              LET l == CHOOSE t \in LinkTargets : id = "link " \o t
              IN  Relationship("hyperlink", l, "External")]

\* The one bulleted level of the one list.
Level == [fmt |-> "bullet", text |-> <<"private bullet">>, face |-> "Symbol",
          left |-> 720, hanging |-> 360, jc |-> "left", odd |-> {}]

Numbering ==
    [definitions |-> <<[id |-> "991", level |-> Level]>>,
     lists |-> <<[id |-> "1001", definition |-> "991", odd |-> {}]>>]

PageField == <<"begin", "PAGE", "separate", "1", "end">>
CopiedParts == {"document.xml", "styles", "numbering", "footnotes", "header1",
                "settings", "types", "rels", "footnotes rels", "package rels"}
MediaParts == {"first.png", "second.png"}

\* The pixels of a picture's part.
PngSize == [p \in MediaParts |->
              IF p = "first.png" THEN <<30, 10>> ELSE <<20, 15>>]

Original ==
    [body |-> Body, beside |-> {}, styles |-> Styles, defaults |-> Nothing,
     numbering |-> Numbering, rels |-> Rels,
     parts |-> CopiedParts \union MediaParts, twice |-> {}, changed |-> {},
     header |-> [odd |-> {}, holds |-> PageField],
     settings |-> {"zoom", "defaultTabStop"}, section |-> "to header1",
     separators |-> {"separator"},
     types |-> CopiedParts \union MediaParts, noteRels |-> {"hyperlink"},
     packageRels |-> {"officeDocument"}, footnotes |-> <<>>, comments |-> FALSE]

\* What the converter records of what it changed, section by section.
ContractSections == {"source", "citations", "figures", "tables", "author_note",
                     "head", "bibliography", "page_breaks", "drops"}
Contract == [s \in ContractSections |-> "as this check reads it"]

\* citations-apa.tsv: one row a citation, with what citeproc set for it.
Fixture == [k \in DOMAIN Cites |-> [ids |-> Cites[k].ids, kind |-> Cites[k].kind,
                                    text |-> Cites[k].apa]]
=============================================================================
