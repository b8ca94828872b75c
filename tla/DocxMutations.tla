---------------------------- MODULE DocxMutations ----------------------------
(***************************************************************************)
(* The mutations of MUTATIONS in analysis/scripts/check_docx_text.py: each *)
(* an edit of the .docx and the problems it must be reported as.  They are *)
(* grouped as the program orders them; each group is a record of the       *)
(* documents its edits make of d.  An edit whose target is gone changes    *)
(* nothing (NoTarget).                                                     *)
(***************************************************************************)
EXTENDS DocxComparison

-----------------------------------------------------------------------------
\* Editing.

At(d, at) == SelectInSeq(d.body, LAMBDA b : b.at = at)

\* The block named `at`, and the document with it changed, removed, followed.
On(d, at, F(_)) ==
    LET i == At(d, at) IN IF i = 0 THEN d ELSE [d EXCEPT !.body[i] = F(@)]
Without(d, at) ==
    LET i == At(d, at) IN IF i = 0 THEN d ELSE [d EXCEPT !.body = RemoveAt(@, i)]
After(d, at, blocks) ==
    LET i == At(d, at)
    IN  IF i = 0 THEN d
        ELSE [d EXCEPT !.body = SubSeq(@, 1, i) \o blocks
                                  \o SubSeq(@, i + 1, Len(@))]
Block(d, at) == d.body[At(d, at)]
Has(d, at) == At(d, at) # 0
AfterCopy(d, at, times) ==
    IF Has(d, at) THEN After(d, at, [k \in 1..times |-> Block(d, at)]) ELSE d

\* A paragraph with a token replaced where it first stands, text or nodes added.
Replace(p, old, new) ==
    LET k == SelectInSeq(p.nodes, LAMBDA n : old \in Range(n.text))
    IN  IF k = 0 THEN p
        ELSE LET j == SelectInSeq(p.nodes[k].text, LAMBDA t : t = old)
             IN  [p EXCEPT !.nodes[k].text[j] = new]
Swap(d, at, old, new) == On(d, at, LAMBDA p : Replace(p, old, new))
Extend(d, at, text) ==
    On(d, at, LAMBDA p : [p EXCEPT !.nodes[Len(p.nodes)].text = @ \o text])
Adding(d, at, node) == On(d, at, LAMBDA p : [p EXCEPT !.nodes = Append(@, node)])
LastNode(d, at, ToNode(_)) ==
    On(d, at, LAMBDA p : [p EXCEPT !.nodes[Len(p.nodes)] = ToNode(@)])

OnTable(d, ToTable(_)) == On(d, "table 1", ToTable)
OnCell(d, r, c, ToCell(_)) ==
    OnTable(d, LAMBDA t : [t EXCEPT !.rows[r][c] = ToCell(@)])
OnPicture(d, at, ToPicture(_)) ==
    On(d, at, LAMBDA p : [p EXCEPT !.nodes[1].pictures[1] = ToPicture(@)])
Form(d, what) ==
    OnPicture(d, "figure 1 image", LAMBDA q : [q EXCEPT !.form = {what}])

\* A style with what it sets, and what it carries besides, changed.
OnStyle(d, id, F(_)) ==
    IF Named(d, id)
    THEN [d EXCEPT !.styles[SelectInSeq(d.styles, LAMBDA s : s.id = id)] = F(@)]
    ELSE d
Setting(d, id, attribute, value) ==
    OnStyle(d, id, LAMBDA s :
      [s EXCEPT !.own = [a \in DOMAIN @ \union {attribute} |->
                           IF a = attribute THEN value ELSE s.own[a]]])
SettingLine(d, id, line, rule) ==
    Setting(Setting(d, id, "line", line), id, "lineRule", rule)
Carrying(d, id, what) == OnStyle(d, id, LAMBDA s : [s EXCEPT !.odd = @ \union {what}])
Default(d, line, rule) == [d EXCEPT !.defaults = [line |-> line, lineRule |-> rule]]

\* The first list's level, and the paragraphs it numbers under another number.
OnLevel(d, F(_)) == [d EXCEPT !.numbering.definitions[1].level = F(@)]
Renumber(d, id) ==
    [d EXCEPT !.numbering.lists[1].id = id,
              !.body = [i \in DOMAIN @ |->
                 IF IsP(d.body[i]) /\ d.body[i].num # <<>>
                 THEN [d.body[i] EXCEPT !.num = <<id, 0>>] ELSE d.body[i]]]

OnRel(d, rid, F(_)) == [d EXCEPT !.rels[rid] = F(@)]

\* Measures the edits write: a line, in 240ths; sizes, in half points; the rest in
\* twentieths of a point.
SINGLE == 240
SHORT_LINE == 300
LOOSE_LINE == 700
TALL_LINE == 20000
ENDLESS_LINE == 100000
HUGE == 2000
LABEL_APART == 6480
ACROSS == 9000
OFF_PAGE == 20000

\* How often an edit that repeats an element does so; the program does it 20,
\* 150 or 20,000 times.
Times == 3
LineBreaks == [k \in 1..Times |-> NL]
Oddly(d, at, what) == On(d, at, LAMBDA p : [p EXCEPT !.odd = @ \union {what}])
OddTable(d, what) == OnTable(d, LAMBDA t : [t EXCEPT !.odd = @ \union {what}])
Column(d, width) == OnTable(d, LAMBDA t : [t EXCEPT !.grid[1] = width])
LevelOdd(d, what) == OnLevel(d, LAMBDA l : [l EXCEPT !.odd = @ \union {what}])
SourceCode(d, at) == On(d, at, LAMBDA p : [p EXCEPT !.style = "Source Code"])

\* The page break before References.
BreakAt(d) == IF Has(d, "refs heading") THEN At(d, "refs heading") - 1 ELSE 0
WithBreak(d, edited) ==
    IF BreakAt(d) > 0 /\ d.body[BreakAt(d)].at = "break" THEN edited ELSE d

-----------------------------------------------------------------------------
WordsAndPictures(d) ==
    [ drop_paragraph |-> Without(d, "gate"),
      double_paragraph |-> AfterCopy(d, "gate", 1),
      change_number |-> Swap(d, "gate", "0.921", "1.921"),
      flip_sign |-> Swap(d, "signs", ">=", "<="),
      drop_figure |-> Without(d, "figure 1 image"),
      swap_figures |->
        OnPicture(OnPicture(d, "figure 1 image",
                            LAMBDA q : [q EXCEPT !.rid = "img second"]),
                  "figure 2 image", LAMBDA q : [q EXCEPT !.rid = "img first"]),
      double_figure |->
        OnPicture(d, "figure 2 image", LAMBDA q : [q EXCEPT !.rid = "img first"]) ]

SourcesAndCells(d) ==
    [ drop_reference |-> Without(d, "ref-cds1"),
      move_year |-> Swap(d, "ref-cds4", "(2023)", "(2024)"),
      rename_author |-> Swap(d, "ref-cds1", "Beta, B.", "Nobody"),
      repoint_citation |->
        On(d, "intro", LAMBDA p : [p EXCEPT !.nodes[4].text = Cites[3].apa]),
      move_cell_boundary |->
        OnCell(OnCell(d, 2, 1, LAMBDA c : [c EXCEPT ![1].nodes[1].text = <<"Power">>]),
               2, 2, LAMBDA c : [c EXCEPT ![1].nodes[1].text = <<"gate", SP>> \o @]) ]

FrontMatter(d) ==
    [ british |-> Extend(d, "gate", <<SP, "analysed">>),
      change_disclosure |-> Swap(d, "disclosure", "substantial", "considerable"),
      leave_disclosure |->
        IF Has(d, "disclosure")
        THEN After(d, "K.", <<[Block(d, "disclosure") EXCEPT !.at = "copied",
                                                             !.style = "Body Text"]>>)
        ELSE d,
      change_abstract |-> Swap(d, "abstract", "We", "Altered"),
      keep_note |-> After(d, "ref-cds2", <<Plain("note", "", <<ReferenceNote>>)>>),
      residue |-> Extend(d, "gate", <<SP, "[@cds44]">>),
      volume |-> Swap(d, "ref-cds1", "1(2)", "91(2)") ]

CaptionsAndBreaks(d) ==
    [ append_reference |-> Adding(d, "ref-cds1", Run(<<SP, "Invented, A.">>)),
      placeholder |-> On(d, "method", LAMBDA p : [p EXCEPT !.nodes[2] = Run(<<CITE>>)]),
      drop_break |-> WithBreak(d, [d EXCEPT !.body = RemoveAt(@, BreakAt(d))]),
      text_in_break |->
        WithBreak(d, [d EXCEPT !.body[BreakAt(d)].nodes = Append(@, Run(<<Sentence>>))]),
      text_beside_figure |-> Adding(d, "figure 1 image", Run(<<Sentence>>)),
      drop_figure_note |-> Without(d, "figure 1 note"),
      figure_note_word |-> Extend(d, "figure 1 note", <<SP, "never">>),
      figure_note_into_title |->
        IF Has(d, "figure 1 note")
        THEN Without(On(d, "figure 1 title", LAMBDA p :
               [p EXCEPT !.nodes = @ \o Block(d, "figure 1 note").nodes]),
               "figure 1 note")
        ELSE d,
      table_on_title_page |->
        IF Has(d, "table 1") THEN After(d, "title", <<Block(d, "table 1")>>) ELSE d ]

HiddenContent(d) ==
    [ move_reference |->
        IF Has(d, "ref-cds1") /\ Has(d, "intro")
        THEN After(Without(d, "ref-cds1"), "intro", <<Block(d, "ref-cds1")>>)
        ELSE d,
      content_control |->
        IF Has(d, "gate")
        THEN After(d, "gate", <<[el |-> "sdt", at |-> "control",
                                 holds |-> <<Block(d, "gate")>>]>>)
        ELSE d,
      hidden |->
        On(d, "gate", LAMBDA p : [p EXCEPT !.nodes[1].odd = @ \union {"vanish"}]),
      row_in_content_control |->
        OnTable(d, LAMBDA t : [t EXCEPT !.unread = @ \union {"row"}]),
      inline_page_break |-> Adding(d, "gate", [Run(<<>>) EXCEPT !.odd = {"page break"}]),
      alt_chunk |-> After(d, "gate", <<[el |-> "altChunk", at |-> "chunk"]>>),
      volume_point |-> Swap(d, "ref-cds1", "1(2)", ".1(2)"),
      doi_apostrophe |-> Swap(d, "ref-cds1", "doi one", "doi'one") ]

UnreadContent(d) ==
    [ alternate_content |->
        LastNode(d, "gate", LAMBDA n : [n EXCEPT !.el = "AlternateContent"]),
      equation |-> Adding(d, "gate", [Run(<<"p < 0.001">>) EXCEPT !.el = "oMath"]),
      symbol |-> LastNode(d, "gate", LAMBDA n : [n EXCEPT !.odd = @ \union {"sym"}]),
      field |-> LastNode(d, "gate", LAMBDA n : [n EXCEPT !.el = "fldSimple"]),
      style_hidden |-> Setting(d, "Body Text", "hide", "on"),
      style_without_break |->
        OnStyle(d, "Page Break", LAMBDA s :
          [s EXCEPT !.own = [a \in DOMAIN @ \ {"break"} |-> s.own[a]]]),
      double_break |-> WithBreak(d, [d EXCEPT !.body = InsertAt(@, BreakAt(d), PageBreak)]),
      trailing_break |-> WithBreak(d, [d EXCEPT !.body = Append(@, PageBreak)]) ]

LinksAndBases(d) ==
    [ link_target |-> OnRel(d, "link doi one", LAMBDA r : [r EXCEPT !.target = "doi two"]),
      extra_bookmark |->
        On(d, "ref-cds3", LAMBDA p : Marked(p, <<RefMark(1)>> \o p.marks)),
      container_apostrophe |->
        Swap(d, "ref-cds1", "Journal of Tests", "Jou'rnal of Tests"),
      link_outside_references |->
        OnRel(d, "link orcid", LAMBDA r : [r EXCEPT !.target = "elsewhere"]),
      style_break_off |-> Setting(d, "Page Break", "break", "off"),
      style_based_on_break |->
        OnStyle(d, "Body Text", LAMBDA s : [s EXCEPT !.based = "Page Break"]) ]

CellsAndRows(d) ==
    [ break_after_title |-> WithBreak(d, After(d, "title", <<PageBreak>>)),
      break_in_cell |-> WithBreak(d, OnCell(d, 1, 1, LAMBDA c : Append(c, PageBreak))),
      section_break |-> Oddly(d, "gate", "section"),
      grid_span |->
        OddTable(OnTable(d, LAMBDA t : [t EXCEPT !.grid = Append(@, 0)]), "span"),
      row_height |-> OddTable(d, "height"),
      crop |-> Form(d, "crop"),
      transparent |-> Form(d, "transparent") ]

HeaderAndLinks(d) ==
    [ header_equation |-> [d EXCEPT !.header.odd = @ \union {"oMath"}],
      header_field |-> [d EXCEPT !.header.holds = <<@[1], "QUOTE">> \o SubSeq(@, 3, Len(@))],
      link_mode |-> OnRel(d, "link doi one", LAMBDA r : [r EXCEPT !.mode = ""]),
      unwrap_link |-> LastNode(d, "orcid", LAMBDA n : [n EXCEPT !.el = "r"]),
      bookmark_in_cell |->
        OnCell(d, 1, 1, LAMBDA c : [c EXCEPT ![1].marks = <<RefMark(1)>>]),
      added_link |->
        LastNode([d EXCEPT !.rels = [r \in DOMAIN @ \union {"added"} |->
                    IF r = "added" THEN Relationship("hyperlink", "added", "External")
                    ELSE d.rels[r]]],
                 "gate", LAMBDA n : [n EXCEPT !.el = "hyperlink", !.rid = "added"]) ]

PicturesAndFaces(d) ==
    [ picture_mirrored |-> Form(d, "mirrored"),
      picture_turned |-> Form(d, "turned"),
      picture_squeezed |-> Form(d, "squeezed"),
      picture_inner_size |-> Form(d, "inner size"),
      style_white |-> Setting(d, "Body Text", "colour", "white"),
      style_tiny |-> Setting(d, "Body Text", "sz", 4),
      style_face |-> Setting(d, "Body Text", "face", "Symbol"),
      style_struck |-> Carrying(d, "Body Text", "strike"),
      style_twin |->
        LET i == SelectInSeq(d.styles, LAMBDA s : s.id = "Page Break")
        IN  Setting([d EXCEPT !.styles = InsertAt(@, i,
                       [d.styles[i] EXCEPT !.id = "Page Break copy"])],
                    "Page Break", "break", "off") ]

ListsAndHeader(d) ==
    [ list_label |-> OnLevel(d, LAMBDA l : [l EXCEPT !.text = <<Sentence, SP, "1">>]),
      list_redefined |->
        [d EXCEPT !.numbering.lists[1].odd = @ \union {"a level of its own"}],
      header_renamed |->
        [d EXCEPT !.parts = (@ \ {"header1"}) \union {"running-head"},
                  !.types = (@ \ {"header1"}) \union {"running-head"},
                  !.rels["to header1"].target = "running-head",
                  !.header.odd = @ \union {"sentence"}],
      picture_external |->
        OnRel(d, "img first", LAMBDA r : [r EXCEPT !.mode = "External"]),
      header_literal |-> [d EXCEPT !.header.holds = <<"1">>] ]

PartsAndColumns(d) ==
    [ style_squeezed |-> SettingLine(d, "Body Text", 20, "exact"),
      settings |-> [d EXCEPT !.settings = @ \union {"evenAndOddHeaders"}],
      separator_text |-> [d EXCEPT !.separators = @ \union {"sentence"}],
      footnote_relationship |-> [d EXCEPT !.noteRels = @ \union {"image"}],
      package_relationship |-> [d EXCEPT !.packageRels = @ \union {"thumbnail"}],
      table_wide |-> OnTable(d, LAMBDA t : [t EXCEPT !.layout = "50000 wide"]),
      column_narrow |-> Column(d, 20),
      columns_wide |-> Column(d, ACROSS),
      column_underscore |-> Column(d, 0),
      page_colour |-> [d EXCEPT !.beside = @ \union {"background"}],
      twin_entry |-> [d EXCEPT !.twice = @ \union {"document.xml"}] ]

SpacingAndLabels(d) ==
    [ style_compressed |-> SettingLine(d, "Body Text", 24, "auto"),
      style_indent |-> Setting(d, "Body Text", "indent", OFF_PAGE),
      style_gap |-> Setting(d, "Body Text", "before", OFF_PAGE),
      label_suppressed |-> LevelOdd(d, "no label"),
      list_unnumbered |-> Renumber(d, "0"),
      space_unpreserved |-> LastNode(d, "gate", LAMBDA n : [n EXCEPT !.keep = FALSE]),
      space_default |->
        LastNode(d, "gate", LAMBDA n :
          [n EXCEPT !.keep = FALSE, !.odd = @ \union {"space default"}]) ]

BlankSpace(d) ==
    [ picture_large |->
        OnPicture(d, "figure 1 image", LAMBDA q : [q EXCEPT !.cx = 2 * @, !.cy = 2 * @]),
      blank_paragraphs |-> After(d, "title", [k \in 1..Times |-> P("blank", "", <<>>)]),
      cell_blank |->
        OnCell(d, 1, 1, LAMBDA c : c \o [k \in 1..Times |-> P("blank", "", <<>>)]),
      after_table_repeated |-> AfterCopy(d, "after table", Times),
      line_breaks |-> Extend(d, "title", LineBreaks),
      code_breaks |-> Extend(d, "code", LineBreaks),
      list_zero_padded |-> Renumber(d, "00"),
      label_offset |-> OnLevel(d, LAMBDA l : [l EXCEPT !.left = 0, !.hanging = LABEL_APART]),
      label_right |-> OnLevel(d, LAMBDA l : [l EXCEPT !.jc = "right"]) ]

CodeAndLines(d) ==
    [ prose_as_code |-> Extend(SourceCode(d, "gate"), "gate", LineBreaks),
      code_lines_moved |->
        IF Has(d, "code") /\ NL \in Range(Block(d, "code").nodes[1].text)
        THEN Extend(Swap(d, "code", NL, SP), "code", <<NL>>)
        ELSE d,
      spaces_run |-> Swap(d, "title", SP, Many),
      em_space |-> Swap(d, "gate", SP, EM),
      style_lines_gap |-> Carrying(d, "Body Text", "beforeLines"),
      style_line_wide |-> SettingLine(d, "Body Text", ENDLESS_LINE, "auto"),
      style_line_tall |-> SettingLine(d, "Body Text", TALL_LINE, "exact"),
      figure_exact |-> SettingLine(d, "Figure Image", SINGLE, "exact"),
      style_exact_short |->
        Setting(SettingLine(d, "Body Text", SHORT_LINE, "exact"), "Body Text", "sz", 40),
      style_huge |-> Setting(d, "Body Text", "sz", HUGE),
      cell_margin |-> Setting(d, "Table", "cellMargin", ACROSS),
      table_indent |-> Setting(d, "Table", "tableIndent", ACROSS),
      prose_code_spaces |-> Swap(SourceCode(d, "gate"), "gate", SP, Many) ]

LevelsAndRows(d) ==
    [ label_em_spaces |->
        OnLevel(d, LAMBDA l : [l EXCEPT !.text = <<EM, Bullet>>, !.face = ""]),
      level_text_twice |-> LevelOdd(d, "a second text"),
      list_defined_twice |->
        [d EXCEPT !.numbering.definitions = <<[@[1] EXCEPT !.level.fmt = "decimal"]>> \o @],
      paragraph_style_twice |-> Oddly(d, "gate", "second style"),
      cell_split |->
        OnCell(d, 2, 1, LAMBDA c :
          LET words == SelectSeq(FlattenSeq([k \in DOMAIN c[1].nodes |->
                                               c[1].nodes[k].text]),
                                 LAMBDA t : t \notin Space)
          IN  [k \in DOMAIN words |-> [c[1] EXCEPT !.nodes = <<Run(<<words[k]>>)>>]]),
      cell_title |-> OnCell(d, 2, 1, LAMBDA c : [c EXCEPT ![1].style = "Title"]),
      heading_row_tiny |-> Carrying(d, "Table", "the first row's size"),
      heading_row_exact |-> Carrying(d, "Table", "the first row's line"),
      banded_rows |-> Carrying(d, "Table", "every other row") ]

\* The default character style, made where it is missing, at one size and every
\* other character style at 12 points.
_character_sizes(d, points) ==
    LET sized(s, sz) ==
          [s EXCEPT !.own = [a \in DOMAIN @ \union {"sz"} |->
                               IF a = "sz" THEN sz ELSE s.own[a]]]
        resized == [i \in DOMAIN d.styles |->
                      LET s == d.styles[i]
                      IN  IF s.type # "character" THEN s
                          ELSE sized(s, IF s.default THEN points ELSE 24)]
        font == [Style("Default Paragraph Font", "character", [sz |-> points])
                   EXCEPT !.default = TRUE]
    IN  [d EXCEPT !.styles = IF DefaultOf(d, "character") = ""
                             THEN Append(resized, font) ELSE resized]

InheritedLines(d) ==
    [ figure_rule_alone |-> Setting(d, "Figure Image", "lineRule", "exact"),
      rule_from_defaults |->
        Setting([d EXCEPT !.defaults = [lineRule |-> "exact"]], "Figure Image", "line", SINGLE),
      line_auto_inherited |->
        Setting(Default(d, LOOSE_LINE, "atLeast"), "Body Text", "lineRule", "auto"),
      line_auto_close |->
        Setting(Default(d, 100, "atLeast"), "Body Text", "lineRule", "auto"),
      line_rule_elsewhere |->
        Setting(Setting(d, "Table Text", "line", ENDLESS_LINE), "Table", "lineRule", "exact"),
      style_line_negative |-> SettingLine(d, "Body Text", -SINGLE, "atLeast"),
      table_size_reversed |-> Setting(Setting(d, "Table Text", "sz", 24), "Table", "sz", 2),
      style_size_twice |-> Carrying(d, "Body Text", "a second size"),
      default_character_tiny |-> _character_sizes(d, 2),
      default_character_clipped |->
        SettingLine(_character_sizes(d, 48), "Body Text", SINGLE, "exact") ]

\* Two edits of no mutation: an unused character style, which pandoc adds for
\* the colours of code and the check lets pass, and a citation rewritten in
\* another entry's form, its authors and year kept.
NoMutation(d) ==
    [ highlight_style |->
        [d EXCEPT !.styles = Append(@, Style("Keyword Tok", "character", Nothing))],
      citation_restyled |->
        On(d, "intro", LAMBDA p :
          [p EXCEPT !.nodes[4].text = <<"Alpha", "et al.", "(", "2020", ")">>]) ]

Groups(d) ==
    { WordsAndPictures(d), SourcesAndCells(d), FrontMatter(d), CaptionsAndBreaks(d),
      HiddenContent(d), UnreadContent(d), LinksAndBases(d), CellsAndRows(d),
      HeaderAndLinks(d), PicturesAndFaces(d), ListsAndHeader(d), PartsAndColumns(d),
      SpacingAndLabels(d), BlankSpace(d), CodeAndLines(d), LevelsAndRows(d),
      InheritedLines(d), NoMutation(d) }

\* The names of all of them.
MUTATIONS == UNION {DOMAIN group : group \in Groups(Original)}

-----------------------------------------------------------------------------
\* What each mutation must be reported as; a style changed in any other way is
\* reported as the style and as a part that is not the reference document's.
Entry1 == <<"bibliography", "ref-cds1">>
Reference == "word/_rels/document.xml.rels"
STYLES_SEEN == {Package("word/styles.xml"), Structure("styles")}
Items == {Fulltext("item 1"), Fulltext("item 2")}

ReportedAs(m) ==
    CASE m \in {"drop_paragraph", "double_paragraph", "change_number",
                "space_unpreserved"} -> {Fulltext("gate")}
      [] m = "flip_sign" -> {Fulltext("signs")}
      [] m \in {"drop_figure", "text_beside_figure", "drop_figure_note",
                "figure_note_word", "figure_note_into_title"} ->
           {<<"figure", "Figure 1">>}
      [] m = "swap_figures" -> {<<"figure", "Figure 1">>, <<"figure", "Figure 2">>,
                                Structure("pictures")}
      [] m = "double_figure" -> {<<"figure", "Figure 2">>, Structure("pictures")}
      [] m \in {"drop_reference", "rename_author", "volume", "append_reference",
                "volume_point", "doi_apostrophe", "link_target",
                "container_apostrophe"} -> {Entry1}
      [] m = "move_year" -> {<<"bibliography", "ref-cds4">>}
      [] m \in {"repoint_citation", "citation_restyled"} -> {Citation(2)}
      [] m = "move_cell_boundary" -> {<<"table", "Table 1">>}
      [] m = "british" -> {<<"british", "gate">>, Fulltext("gate")}
      [] m = "change_disclosure" -> {<<"author-note", "AI disclosure">>}
      [] m = "leave_disclosure" ->
           {<<"author-note", "AI disclosure">>, Fulltext("K.")}
      [] m = "change_abstract" -> {<<"head", "abstract">>}
      [] m = "keep_note" ->
           {<<"drop", "note after the references">>, Fulltext("references")}
      [] m = "residue" -> {<<"residue", "gate">>, Fulltext("gate")}
      [] m = "placeholder" -> {Citation(4), <<"residue", "method">>}
      [] m \in {"drop_break", "inline_page_break", "double_break",
                "trailing_break", "break_after_title", "section_break"} ->
           {Structure("page breaks")}
      [] m = "text_in_break" ->
           {Structure("page breaks"), Structure("styles"), Fulltext("code")}
      [] m = "table_on_title_page" -> {<<"head", "title pages">>}
      [] m = "move_reference" -> {Fulltext("intro"), <<"bibliography", "location">>}
      [] m \in {"content_control", "row_in_content_control", "alt_chunk",
                "equation", "symbol"} -> {Structure("unread content")}
      [] m \in {"alternate_content", "field"} ->
           {Structure("unread content"), Fulltext("gate")}
      [] m = "hidden" -> {Structure("hidden text")}
      [] m = "style_hidden" ->
           {Structure("hidden text"), Package("word/styles.xml")}
      [] m \in {"style_without_break", "style_break_off"} ->
           {Structure("page breaks"), Package("word/styles.xml")}
      [] m \in {"style_based_on_break", "style_twin"} ->
           STYLES_SEEN \union {Structure("page breaks")}
      [] m = "extra_bookmark" -> {<<"bibliography", "bookmarks">>,
                                  <<"bibliography", "ref-cds3">>}
      [] m = "bookmark_in_cell" -> {<<"bibliography", "bookmarks">>}
      [] m \in {"link_outside_references", "unwrap_link"} -> {<<"link", "0000-0001">>}
      [] m = "added_link" -> {<<"link", "the floor">>}
      [] m = "link_mode" -> {Entry1, Package(Reference)}
      [] m = "break_in_cell" -> {Structure("page breaks"), Structure("table cells")}
      [] m \in {"cell_split", "cell_title"} -> {Structure("table cells")}
      [] m = "cell_blank" -> {Structure("empty paragraphs"), Structure("table cells")}
      [] m \in {"blank_paragraphs", "after_table_repeated"} ->
           {Structure("empty paragraphs")}
      [] m = "grid_span" -> {Structure("properties"), Structure("table grid"),
                             Structure("table layout")}
      [] m \in {"row_height", "paragraph_style_twice"} -> {Structure("properties")}
      [] m \in {"table_wide", "column_narrow", "columns_wide", "column_underscore"} ->
           {Structure("table layout")}
      [] m \in {"crop", "transparent", "picture_mirrored", "picture_turned",
                "picture_squeezed", "picture_inner_size", "picture_large"} ->
           {Structure("pictures")}
      [] m = "picture_external" ->
           {Package(Reference), <<"figure", "Figure 1">>, Structure("pictures")}
      [] m \in {"header_equation", "header_field", "header_literal"} ->
           {Structure("header"), Package("word/header1.xml")}
      [] m = "header_renamed" ->
           {Package(p) : p \in {"parts", "[Content_Types].xml", Reference, "sectPr"}}
             \union {Structure("header")}
      [] m = "settings" -> {Package("word/settings.xml")}
      [] m = "separator_text" -> {Package("word/footnotes.xml")}
      [] m = "footnote_relationship" -> {Package("word/_rels/footnotes.xml.rels")}
      [] m = "package_relationship" -> {Package("_rels/.rels")}
      [] m = "page_colour" -> {Structure("document")}
      [] m = "twin_entry" -> {Package("parts")}
      [] m = "list_label" -> Items \union {Structure("numbering")}
      [] m = "list_unnumbered" -> Items
      [] m = "list_zero_padded" -> {Structure("numbering"), Structure("attributes")}
      [] m \in {"list_redefined", "label_suppressed", "label_offset", "label_right",
                "label_em_spaces", "level_text_twice", "list_defined_twice"} ->
           {Structure("numbering")}
      [] m = "space_default" -> {Fulltext("gate"), Structure("attributes")}
      [] m \in {"spaces_run", "em_space", "prose_code_spaces"} ->
           {Structure("whitespace")}
      [] m \in {"line_breaks", "code_breaks", "prose_as_code", "code_lines_moved"} ->
           {Structure("line breaks")}
      [] m = "highlight_style" -> {}
      [] OTHER -> STYLES_SEEN
=============================================================================
