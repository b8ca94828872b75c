------------------------------ MODULE DocxCheck ------------------------------
(***************************************************************************)
(* What analysis/scripts/check_docx_text.py reads of a .docx and reports.  *)
(* Each validate_ and check_ function is an operator that yields the       *)
(* problems it finds, as pairs <<check, where>>: the key of a problem.  No *)
(* check returns early: Problems is the union of all of them.              *)
(***************************************************************************)
EXTENDS DocxDocument, SequencesExt, FiniteSetsExt

Structure(what) == <<"structure", what>>
When(condition, problem) == IF condition THEN {problem} ELSE {}

-----------------------------------------------------------------------------
\* Reading the body.

IsP(b) == b.el = "p"
IsTable(b) == b.el = "tbl"

\* Every paragraph of a block, those a content control holds included.
Inside(b) == CASE IsP(b) -> <<b>>
               [] IsTable(b) -> FlattenSeq(FlattenSeq(b.rows))
               [] b.el = "sdt" -> b.holds
               [] OTHER -> <<>>

AllParagraphs(d) == FlattenSeq([i \in DOMAIN d.body |-> Inside(d.body[i])])

Named(d, id) == \E i \in DOMAIN d.styles : d.styles[i].id = id
StyleOf(d, id) == d.styles[SelectInSeq(d.styles, LAMBDA s : s.id = id)]
NameOf(d, id) == IF id = "" THEN "Normal"
                 ELSE IF Named(d, id) THEN StyleOf(d, id).name ELSE id

\* The default style of a type: the first that is marked so.
DefaultOf(d, type) ==
    LET i == SelectInSeq(d.styles, LAMBDA s : s.type = type /\ s.default)
    IN  IF i = 0 THEN "" ELSE d.styles[i].id

\* A style and those it is based on, nearest first, none of them twice.
Chain(d, id) ==
    LET ids == {d.styles[i].id : i \in DOMAIN d.styles}
        from[left \in SUBSET ids, s \in ids] ==
          LET based == StyleOf(d, s).based
          IN  <<StyleOf(d, s)>> \o (IF based \in left THEN from[left \ {based}, based]
                                   ELSE <<>>)
    IN  IF id \in ids THEN from[ids \ {id}, id] ELSE <<>>

\* What may set an attribute, nearest first: the chains, then the defaults.
OwnOf(d, id) == LET c == Chain(d, id) IN [i \in DOMAIN c |-> c[i].own]
Places(d, ids) == FlattenSeq([k \in DOMAIN ids |-> OwnOf(d, ids[k])]) \o <<d.defaults>>

\* The value nearest to the paragraph, each attribute inherited on its own.
Nearest(places, attribute, otherwise) ==
    LET at == SelectInSeq(places, LAMBDA own : attribute \in DOMAIN own)
    IN  IF at = 0 THEN otherwise ELSE places[at][attribute]

StyleId(d, p) == IF p.style = "" THEN DefaultOf(d, "paragraph") ELSE p.style

\* The positions of a sequence that are in a set, in order.
Selected(positions, length) ==
    LET upto[i \in Nat] == IF i = 0 THEN <<>>
                           ELSE IF i \in positions THEN Append(upto[i - 1], i)
                           ELSE upto[i - 1]
    IN  upto[length]

\* Words as the comparison takes them: white space collapsed and trimmed.
Norm(text) ==
    LET inner(i) == /\ i > 1 => text[i - 1] \notin Space
                    /\ \E j \in 1..(i - 1) : text[j] \notin Space
                    /\ \E j \in i..Len(text) : text[j] \notin Space
        kept == Selected({i \in DOMAIN text : text[i] \notin Space \/ inner(i)}, Len(text))
    IN  [k \in DOMAIN kept |->
           IF text[kept[k]] \in Space THEN SP ELSE text[kept[k]]]

Blank(text) == \A i \in DOMAIN text : text[i] \in Space

\* The placeholder stands where the citation stood, with no space of its own.
Tidy(text) ==
    LET beside(i) == /\ text[i] = SP
                     /\ \/ i > 1 /\ text[i - 1] = CITE
                        \/ i < Len(text) /\ text[i + 1] = CITE
        kept == Selected({i \in DOMAIN text : ~beside(i)}, Len(text))
    IN  [k \in DOMAIN kept |-> text[kept[k]]]

-----------------------------------------------------------------------------
\* Lists: the label Word draws before a numbered paragraph.

\* The last list, and the last definition, under an identifier.
ListOf(d, id) ==
    SelectLastInSeq(d.numbering.lists, LAMBDA l : l.id = id)
DefinitionOf(d, id) ==
    SelectLastInSeq(d.numbering.definitions, LAMBDA a : a.id = id)

Drawn(level) ==
    IF level.fmt = "bullet" /\ level.text = <<"private bullet">> /\ level.face = "Symbol"
    THEN <<Bullet>>
    ELSE level.text

\* Numbering 0, or numbering that is not defined, draws nothing.
LabelOf(d, p) ==
    IF p.num = <<>> \/ (p.num # <<>> /\ p.num[1] = "0") THEN <<>>
    ELSE LET l == ListOf(d, p.num[1])
             a == IF l = 0 THEN 0
                  ELSE DefinitionOf(d, d.numbering.lists[l].definition)
         IN  IF a = 0 THEN <<>> ELSE Drawn(d.numbering.definitions[a].level)

Twice(seq) == \E i, j \in DOMAIN seq : i # j /\ seq[i] = seq[j]

NumberingOdd(d) ==
    \/ Twice([i \in DOMAIN d.numbering.definitions |-> d.numbering.definitions[i].id])
    \/ Twice([i \in DOMAIN d.numbering.lists |-> d.numbering.lists[i].id])
    \/ \E i \in DOMAIN d.numbering.lists :
         \/ d.numbering.lists[i].odd # {}
         \/ d.numbering.lists[i].id = "00"
    \/ \E i \in DOMAIN d.numbering.definitions :
         LET level == d.numbering.definitions[i].level
         IN  \/ level.odd # {}
             \/ level.left # 720 \/ level.hanging # 360 \/ level.jc # "left"
    \/ \E p \in Range(AllParagraphs(d)) : LabelOf(d, p) \notin {<<>>, <<Bullet>>}

list_labels(d) == When(NumberingOdd(d), Structure("numbering"))

-----------------------------------------------------------------------------
\* A paragraph as the comparison reads it: only runs and links, the label
\* first; a text node whose spaces are not kept loses those at its ends.
ReadNode(node) ==
    LET shown == {i \in DOMAIN node.text : node.text[i] \notin {SP, Many}}
    IN  IF node.keep THEN node.text
        ELSE IF shown = {} THEN <<>>
        ELSE SubSeq(node.text, Min(shown), Max(shown))

Para(d, i, p) ==
    LET nodes == SelectSeq(p.nodes, LAMBDA n : n.el \in {"r", "hyperlink"})
        label == LabelOf(d, p)
        links == SelectSeq(nodes, LAMBDA n : n.el = "hyperlink")
    IN  [el |-> "p", i |-> i, style |-> NameOf(d, p.style), marks |-> p.marks,
         runs |-> (IF label = <<>> THEN <<>>
                   ELSE <<[text |-> label \o <<SP>>, style |-> "label"]>>)
                  \o [k \in DOMAIN nodes |-> [text |-> ReadNode(nodes[k]),
                                              style |-> nodes[k].style]],
         images |-> FlattenSeq([k \in DOMAIN nodes |->
                      [j \in DOMAIN nodes[k].pictures |->
                         nodes[k].pictures[j].rid]]),
         links |-> [k \in DOMAIN links |-> <<links[k].rid, ReadNode(links[k])>>]]

TextOf(para) == FlattenSeq([k \in DOMAIN para.runs |-> para.runs[k].text])

\* A cell as one paragraph: its paragraphs' runs, joined.
CellPara(d, i, cell) ==
    LET ps == [k \in DOMAIN cell |-> Para(d, i, cell[k])]
        join == <<[text |-> <<SP>>, style |-> "join"]>>
    IN  [el |-> "p", i |-> i, style |-> "cell", marks |-> <<>>,
         runs |-> FlattenSeq([k \in DOMAIN ps |->
                    ps[k].runs \o (IF k < Len(ps) THEN join ELSE <<>>)]),
         images |-> FlattenSeq([k \in DOMAIN ps |-> ps[k].images]),
         links |-> FlattenSeq([k \in DOMAIN ps |-> ps[k].links])]

\* The blocks a reading of the body yields: its paragraphs and tables.
Blocks(d) ==
    LET at == Selected({i \in DOMAIN d.body : IsP(d.body[i]) \/ IsTable(d.body[i])},
                      Len(d.body))
    IN  [k \in DOMAIN at |->
           LET b == d.body[at[k]]
           IN  IF IsP(b) THEN Para(d, at[k], b)
               ELSE [el |-> "tbl", i |-> at[k],
                     rows |-> [r \in DOMAIN b.rows |->
                                [c \in DOMAIN b.rows[r] |->
                                  CellPara(d, at[k], b.rows[r][c])]]]]

_all_paragraphs(blocks) ==
    FlattenSeq([k \in DOMAIN blocks |->
                  IF blocks[k].el = "p" THEN <<blocks[k]>>
                  ELSE FlattenSeq(blocks[k].rows)])

Tokens(blocks) ==
    UNION {Range(TextOf(p)) : p \in Range(_all_paragraphs(blocks))}

-----------------------------------------------------------------------------
\* validate_body: every element and property of the body is one pandoc writes.

Columns(t) == Len(t.grid)
Sum3(seq) == FoldLeft(LAMBDA a, b : a + b, 0, seq)
NARROWEST == 288
TEXT_WIDTH == 9360
TEXT_HEIGHT == 12960

TableProblems(t) ==
    When(\E r \in DOMAIN t.rows : Len(t.rows[r]) # Columns(t),
         Structure("table grid"))
      \union
    When(\/ t.layout # "pandoc"
         \/ \E c \in DOMAIN t.grid : t.grid[c] < NARROWEST
         \/ Sum3(t.grid) > TEXT_WIDTH,
         Structure("table layout"))
      \union
    When(\E r \in DOMAIN t.rows : \E c \in DOMAIN t.rows[r] :
           LET cell == t.rows[r][c]
           IN  \/ Len(cell) # 1
               \/ cell[1].style # (IF r = 1 THEN "Table Heading" ELSE "Table Text"),
         Structure("table cells"))

NodeProblems(node) ==
    When(node.el \notin {"r", "hyperlink"} \/ "sym" \in node.odd,
         Structure("unread content"))
      \union When("page break" \in node.odd, Structure("page breaks"))
      \union When("vanish" \in node.odd, Structure("hidden text"))
      \union When("space default" \in node.odd, Structure("attributes"))
      \union When(\E k \in DOMAIN node.pictures : node.pictures[k].form # {},
                  Structure("pictures"))

ParagraphProblems(p) ==
    When("section" \in p.odd, Structure("page breaks"))
      \union When(p.odd \ {"section"} # {}, Structure("properties"))
      \union When(p.num # <<>> /\ p.num[1] = "00", Structure("attributes"))
      \union UNION {NodeProblems(p.nodes[k]) : k \in DOMAIN p.nodes}

validate_body(d) ==
    UNION {LET b == d.body[i]
           IN  CASE IsP(b) -> ParagraphProblems(b)
                 [] IsTable(b) ->
                      TableProblems(b)
                        \union When(b.odd # {}, Structure("properties"))
                        \union When(b.unread # {}, Structure("unread content"))
                        \union UNION {ParagraphProblems(Inside(b)[k]) :
                                        k \in DOMAIN Inside(b)}
                 [] OTHER -> {Structure("unread content")} : i \in DOMAIN d.body}

-----------------------------------------------------------------------------
\* validate_styles and _style_properties.

Breaks(d, id) == Nearest(Places(d, <<id>>), "break", "off") = "on"

Breaking(d) == {d.styles[i].id : i \in {j \in DOMAIN d.styles :
                  /\ d.styles[j].type = "paragraph"
                  /\ Breaks(d, d.styles[j].id)}}

COLOURS == {"auto", "black", "blue"}
FONTS == {"Times New Roman", "Courier New"}
SMALLEST == 16
LARGEST == 48
LEAST_LINE == 240
WIDEST_LINE == 480
TALLEST_LINE == 720
DEEPEST_INDENT == 1440
WIDEST_GAP == 2880
WIDEST_MARGIN == 288

\* What a style sets that a readable page does not have.
OwnOdd(own) ==
    \/ "colour" \in DOMAIN own /\ own.colour \notin COLOURS
    \/ "face" \in DOMAIN own /\ own.face \notin FONTS
    \/ "indent" \in DOMAIN own /\ own.indent \notin 0..DEEPEST_INDENT
    \/ "before" \in DOMAIN own /\ own.before \notin 0..WIDEST_GAP
    \/ "sz" \in DOMAIN own /\ own.sz > LARGEST
    \/ "cellMargin" \in DOMAIN own /\ own.cellMargin \notin 0..WIDEST_MARGIN
    \/ "tableIndent" \in DOMAIN own /\ own.tableIndent \notin 0..WIDEST_MARGIN

UsedStyles(d) ==
    LET ps == Range(AllParagraphs(d))
    IN  ({p.style : p \in ps}
          \union (UNION {{p.nodes[k].style : k \in DOMAIN p.nodes} : p \in ps})
          \union (IF \E i \in DOMAIN d.body : IsTable(d.body[i])
                  THEN {"Table"} ELSE {})) \ {""}

\* A line out of bounds where its height and its rule take effect together, and
\* a picture or a text set too small or clipped by an exact line.
SetBadly(d, p, places) ==
    LET rule == Nearest(places, "lineRule", "auto")
        line == Nearest(places, "line", 240)
        tooSmall(node) ==
          LET own == IF node.style = "" THEN DefaultOf(d, "character")
                     ELSE node.style
              points == Nearest(OwnOf(d, own) \o places, "sz", 20)
              drawn == node.pictures # <<>>
          IN  /\ drawn \/ ~Blank(node.text)
              /\ \/ points < SMALLEST
                 \/ /\ rule = "exact"
                    /\ drawn \/ line < Max({LEAST_LINE, points * 10})
    IN  \/ rule = "auto" /\ line \notin LEAST_LINE..WIDEST_LINE
        \/ rule # "auto" /\ line \notin 0..TALLEST_LINE
        \/ \E k \in DOMAIN p.nodes : tooSmall(p.nodes[k])

\* A paragraph of a table is read with its own style over the table's and the
\* other way round.
ChainsOf(d, p, inTable) ==
    LET own == StyleId(d, p)
    IN  IF inTable THEN {<<own, "Table">>, <<"Table", own>>} ELSE {<<own>>}

_style_properties(d) ==
    LET used == UsedStyles(d) \union
                ({DefaultOf(d, t) : t \in {"paragraph", "character", "table"}} \ {""})
        closure == UNION {Range(Chain(d, u)) : u \in used}
    IN  When(\/ \E u \in UsedStyles(d) : ~Named(d, u)
             \/ \E s \in closure : s.odd # {} \/ OwnOdd(s.own)
             \/ OwnOdd(d.defaults)
             \/ \E i \in DOMAIN d.body : \E p \in Range(Inside(d.body[i])) :
                  \E chain \in ChainsOf(d, p, IsTable(d.body[i])) :
                    SetBadly(d, p, Places(d, chain)),
             Structure("styles"))

validate_styles(d) ==
    When(\E i \in DOMAIN d.styles : "hide" \in DOMAIN d.styles[i].own,
         Structure("hidden text"))
      \union When(\/ Twice([i \in DOMAIN d.styles |-> d.styles[i].id])
                  \/ Twice([i \in DOMAIN d.styles |-> d.styles[i].name]),
                  Structure("styles"))
      \union When({NameOf(d, id) : id \in Breaking(d)} # BreakingStyles,
                  Structure("page breaks"))
      \union _style_properties(d)

-----------------------------------------------------------------------------
\* validate_package: every part against the reference document's.

Package(what) == <<"package", what>>

_styles_against(d) ==
    LET given(id) == Named(Original, id)
    IN  When(\/ d.defaults # Original.defaults
             \/ \E i \in DOMAIN Original.styles :
                  LET s == Original.styles[i]
                  IN  ~Named(d, s.id) \/ StyleOf(d, s.id) # s
             \/ \E i \in DOMAIN d.styles :
                  LET s == d.styles[i]
                  IN  /\ ~given(s.id)
                      /\ \/ s.type # "character"
                         \/ s.default
                         \/ s.id \in UsedStyles(d)
                         \/ \E j \in DOMAIN d.styles : d.styles[j].based = s.id,
             Package("word/styles.xml"))

MediaOf(d, rid) ==
    IF /\ rid \in DOMAIN d.rels
       /\ d.rels[rid].type = "image" /\ d.rels[rid].mode \in {"", "Internal"}
       /\ d.rels[rid].target \in MediaParts \intersect d.parts
    THEN d.rels[rid].target ELSE "none"

LinkOf(d, rid) ==
    IF /\ rid \in DOMAIN d.rels
       /\ d.rels[rid].type = "hyperlink" /\ d.rels[rid].mode = "External"
    THEN d.rels[rid].target ELSE ""

FixedRels(d) == {d.rels[r] : r \in {q \in DOMAIN d.rels :
                   d.rels[q].type \notin {"image", "hyperlink"}}}

_relationships_against(d) ==
    When(\/ FixedRels(d) # FixedRels(Original)
         \/ \E r \in DOMAIN d.rels :
              \/ d.rels[r].type = "hyperlink" /\ d.rels[r].mode # "External"
              \/ d.rels[r].type = "image" /\ MediaOf(d, r) = "none"
         \/ \E m \in MediaParts \intersect d.parts :
              Cardinality({r \in DOMAIN d.rels :
                 d.rels[r].type = "image" /\ d.rels[r].target = m}) # 1,
         Package("word/_rels/document.xml.rels"))

SectionTarget(d) == d.rels[d.section].target

validate_package(d) ==
    When(d.parts \ MediaParts # CopiedParts, Package("parts"))
      \union When("header1" \in d.parts /\ d.header # Original.header,
                  Package("word/header1.xml"))
      \union When(d.packageRels # Original.packageRels, Package("_rels/.rels"))
      \union When(d.noteRels # {"hyperlink"},
                  Package("word/_rels/footnotes.xml.rels"))
      \union When(~(d.settings \subseteq Original.settings),
                  Package("word/settings.xml"))
      \union When(d.separators # Original.separators,
                  Package("word/footnotes.xml"))
      \union When(d.types # CopiedParts \union (d.parts \intersect MediaParts),
                  Package("[Content_Types].xml"))
      \union When(SectionTarget(d) # SectionTarget(Original), Package("sectPr"))
      \union _styles_against(d) \union _relationships_against(d)

validate_header(d) ==
    When(d.header.odd # {} \/ d.header.holds # PageField, Structure("header"))

-----------------------------------------------------------------------------
\* read_docx: what the reading itself reports.

\* The styles that break the page before their paragraphs, by name and once for
\* every such paragraph.
BreaksSet(d) ==
    LET paras == AllParagraphs(d)
        breaking == Breaking(d)
        ids == SelectSeq([i \in DOMAIN paras |-> StyleId(d, paras[i])],
                         LAMBDA id : id \in breaking)
    IN  [k \in DOMAIN ids |-> NameOf(d, ids[k])]

BreakCount(names) ==
    Len(SelectSeq(names, LAMBDA n : n \notin {"Abstract Title", "Title Repeat"}))

SetOnce(names, name) == Len(SelectSeq(names, LAMBDA n : n = name)) = 1

\* A picture drawn at its own proportions, readable and within the page.
DrawnWell(d, picture) ==
    LET part == MediaOf(d, picture.rid)
    IN  /\ part # "none"
        /\ LET w == PngSize[part][1]
               h == PngSize[part][2]
               off == picture.cx * h - picture.cy * w
           IN  /\ picture.cx \in 2880..TEXT_WIDTH
               /\ picture.cy \in 1..TEXT_HEIGHT
               /\ off * 100 \in (-(w * picture.cy))..(w * picture.cy)

ShowsNothing(d, p) ==
    /\ LabelOf(d, p) = <<>>
    /\ \A k \in DOMAIN p.nodes : Blank(p.nodes[k].text) /\ p.nodes[k].pictures = <<>>

\* Faulty variant: any paragraph in a spacer's style may show nothing.
EmptyAnywhere(d) ==
    \E i \in DOMAIN d.body :
      /\ IsP(d.body[i]) /\ ShowsNothing(d, d.body[i])
      /\ NameOf(d, d.body[i].style) \notin {"Page Break", "After Table"}

\* Only the spacers, and a cell's only paragraph, may show nothing.
EmptyParagraphs(d) ==
    \E i \in DOMAIN d.body :
      LET b == d.body[i]
      IN  \/ /\ IsP(b) /\ ShowsNothing(d, b)
             /\ NameOf(d, b.style) # "Page Break"
             /\ ~(/\ NameOf(d, b.style) = "After Table"
                  /\ i > 1 /\ IsTable(d.body[i - 1]))
          \/ /\ IsTable(b)
             /\ \E r \in DOMAIN b.rows : \E c \in DOMAIN b.rows[r] :
                  \E p \in Range(b.rows[r][c]) :
                    /\ ShowsNothing(d, p) /\ NameOf(d, p.style) # "Page Break"
                    /\ Len(b.rows[r][c]) > 1

read_docx(d) ==
    When(d.twice # {}, Package("parts"))
      \union When(d.beside # {}, Structure("document"))
      \union validate_body(d) \union validate_package(d)
      \union validate_styles(d) \union list_labels(d)
      \union When(\E name \in {"Abstract Title", "Title Repeat"} : ~SetOnce(BreaksSet(d), name),
                  Structure("page breaks"))
      \union When(\E p \in Range(AllParagraphs(d)) : \E k \in DOMAIN p.nodes :
                    \E j \in DOMAIN p.nodes[k].pictures :
                      ~DrawnWell(d, p.nodes[k].pictures[j]),
                  Structure("pictures"))
      \union When(EmptyParagraphs(d), Structure("empty paragraphs"))
      \union (IF SectionTarget(d) \in d.parts THEN validate_header(d)
              ELSE {Structure("header")})
      \union When(d.comments, Structure("unread content"))
=============================================================================
