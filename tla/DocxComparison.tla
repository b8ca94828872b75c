--------------------------- MODULE DocxComparison ---------------------------
(***************************************************************************)
(* The second half of analysis/scripts/check_docx_text.py: the text of     *)
(* main.md and that of the .docx as two streams of blocks, compared as     *)
(* difflib compares them, and the checks on the citations, the references, *)
(* the links, the title pages, the figures, the tables, the white space    *)
(* and the record of the conversion.                                       *)
(***************************************************************************)
EXTENDS DocxCheck

Key(kind, text) == [kind |-> kind, text |-> Tidy(Norm(text))]
FigureKey(n) == [kind |-> "figure", text |-> <<n>>]
TableKey(n) == [kind |-> "table", text |-> <<n>>]
BIBLIOGRAPHY_KEY == [kind |-> "bibliography", text |-> <<>>]

\* The kinds of the manuscript's blocks that stand for more than their text.
KeyOf(b) ==
    CASE b.kind = "references" -> BIBLIOGRAPHY_KEY
      [] b.line = "figure 1" -> FigureKey("1")
      [] b.line = "figure 2" -> FigureKey("2")
      [] b.kind = "table" -> TableKey("1")
      [] b.kind = "heading 1" -> Key("heading 1", b.text)
      [] OTHER -> Key("P", b.text)

main_stream == [i \in DOMAIN MainBlocks |-> KeyOf(MainBlocks[i])]

-----------------------------------------------------------------------------
\* docx_view: the title pages, and the blocks after them in order.

\* The text of a paragraph with its citations taken out: adjacent runs in the
\* Citation style are one citation.
FirstOfGroup(para, k) == /\ para.runs[k].style = "Citation"
                         /\ k > 1 => para.runs[k - 1].style # "Citation"

GroupsOf(para) ==
    LET starts == Selected({k \in DOMAIN para.runs : FirstOfGroup(para, k)}, Len(para.runs))
        last(k) == CHOOSE j \in k..Len(para.runs) :
                     /\ \A i \in k..j : para.runs[i].style = "Citation"
                     /\ j < Len(para.runs) => para.runs[j + 1].style # "Citation"
    IN  [g \in DOMAIN starts |->
           FlattenSeq([i \in 1..(last(starts[g]) - starts[g] + 1) |->
                         para.runs[starts[g] + i - 1].text])]

_text_with_groups(para) ==
    FlattenSeq([k \in DOMAIN para.runs |->
       CASE FirstOfGroup(para, k) -> <<SP, CITE, SP>>
         [] para.runs[k].style = "Citation" -> <<>>
         [] OTHER -> para.runs[k].text])

HEAD_STYLES == {"Title", "Author", "Author Note", "Abstract Title", "Abstract",
                "Title Repeat"}

\* Where the title pages end: at the repeated title, or before the first heading.
RepeatAt(blocks) ==
    LET at == SelectInSeq(blocks, LAMBDA b : b.el = "p" /\ b.style = "Title Repeat")
        heading == SelectInSeq(blocks, LAMBDA b : b.el = "p" /\ b.style = "heading 1")
    IN  IF at # 0 THEN at ELSE IF heading # 0 THEN heading - 1 ELSE 0

Item(key, block, groups, brk) ==
    [key |-> key, i |-> block.i, block |-> block, groups |-> groups, brk |-> brk]

Styled_(blocks, j, style) ==
    j \in DOMAIN blocks /\ blocks[j].el = "p" /\ blocks[j].style = style

\* What follows a label of its figure or table, and where the next block is.
Take(blocks, j, style) ==
    IF Styled_(blocks, j, style) THEN <<{blocks[j]}, j + 1>> ELSE <<{}, j>>

FigureGroup(blocks, i) ==
    LET title == Take(blocks, i + 1, "Figure Title")
        image == Take(blocks, title[2], "Figure Image")
        note == Take(blocks, image[2], "Figure Note")
    IN  [title |-> title[1], body |-> image[1], note |-> note[1], next |-> note[2]]

TableGroup(blocks, i) ==
    LET title == Take(blocks, i + 1, "Table Title")
        j == title[2]
        isTable == j \in DOMAIN blocks /\ blocks[j].el = "tbl"
    IN  [title |-> title[1], body |-> IF isTable THEN {blocks[j]} ELSE {},
         note |-> {}, next |-> IF isTable THEN j + 1 ELSE j]

\* The scan keeps the items so far, the figures and tables by number, the
\* entries of the reference list, the breaks pending before the next item, what
\* it reports and the block it reads next.
Unread(from) == [items |-> <<>>, groups |-> Nothing, bibliography |-> <<>>,
                 pending |-> 0, problems |-> {}, next |-> from]

\* The number a label gives its figure or table.
LabelNumber == [label \in {"Figure 1", "Figure 2", "Table 1"} |->
                  IF label = "Figure 2" THEN "2" ELSE "1"]

\* An item that begins at a block; the breaks before it are its own.
Put(s, key, block, groups) ==
    [s EXCEPT !.items = Append(@, Item(key, block, groups, s.pending)),
              !.pending = 0]

\* A figure or a table from its label on; another label is reported and left.
ReadLabel(blocks, i, s) ==
    LET b == blocks[i]
        isFigure == b.style = "Figure Number"
        kind == IF isFigure THEN "figure" ELSE "table"
        labels == IF isFigure THEN {"Figure 1", "Figure 2"} ELSE {"Table 1"}
        label == Norm(TextOf(b))
        key == IF isFigure THEN FigureKey(LabelNumber[label[1]])
               ELSE TableKey(LabelNumber[label[1]])
        g == IF isFigure THEN FigureGroup(blocks, i) ELSE TableGroup(blocks, i)
    IN  IF Len(label) = 1 /\ label[1] \in labels
        THEN [Put(s, key, b, <<>>) EXCEPT
                !.problems = @ \union When(key \in DOMAIN s.groups, <<kind, label[1]>>),
                !.groups = [k \in DOMAIN @ \union {key} |->
                              IF k = key THEN g ELSE s.groups[k]],
                !.next = g.next]
        ELSE [s EXCEPT !.problems = @ \union {<<kind, "docx block">>}]

\* An entry of the reference list, where the first of several is the item.
ReadEntry(b, s) ==
    LET inList == s.items # <<>> /\ Last(s.items).key = BIBLIOGRAPHY_KEY
    IN  [IF inList THEN s ELSE Put(s, BIBLIOGRAPHY_KEY, b, <<>>)
           EXCEPT !.bibliography = Append(@, b)]

\* Any other paragraph, a page break that holds text among them.
ReadText(b, s) ==
    LET isBreak == b.style = "Page Break"
        t == [s EXCEPT
                !.pending = IF isBreak THEN @ + 1 ELSE @,
                !.problems = @ \union When(isBreak, Structure("page breaks"))
                               \union When(b.style \in HEAD_STYLES, <<"head", "docx block">>)]
        kind == IF b.style = "heading 1" THEN "heading 1" ELSE "P"
    IN  Put(t, Key(kind, _text_with_groups(b)), b, GroupsOf(b))

ReadBlock(blocks, i, s) ==
    LET b == blocks[i]
        empty == Blank(TextOf(b)) /\ b.images = <<>>
    IN  CASE b.el = "tbl" ->
               [Put(s, TableKey("?"), b, <<>>)
                  EXCEPT !.problems = @ \union {<<"table", "docx block">>}]
          [] b.el = "p" /\ empty ->
               IF b.style = "Page Break" THEN [s EXCEPT !.pending = @ + 1] ELSE s
          [] b.el = "p" /\ ~empty /\ b.style \in {"Figure Number", "Table Number"} ->
               ReadLabel(blocks, i, s)
          [] b.el = "p" /\ ~empty /\ b.style = "Bibliography" -> ReadEntry(b, s)
          [] OTHER -> ReadText(b, s)

\* The blocks from one on, those a figure or a table took left out.
Scan(blocks, from) ==
    LET upto[i \in Nat] ==
          IF i <= from THEN Unread(from + 1)
          ELSE LET s == upto[i - 1]
               IN  IF i < s.next THEN s ELSE ReadBlock(blocks, i, [s EXCEPT !.next = i + 1])
    IN  upto[Len(blocks)]

docx_view(blocks) ==
    LET repeat == RepeatAt(blocks)
        v == Scan(blocks, repeat)
        head == SelectSeq(SubSeq(blocks, 1, repeat),
                          LAMBDA b : b.el = "p" /\ ~Blank(TextOf(b)))
    IN  [head |-> head, items |-> v.items, groups |-> v.groups,
         bibliography |-> v.bibliography,
         problems |-> v.problems
           \union When(\A k \in DOMAIN blocks :
                         blocks[k].el = "p" => blocks[k].style # "Title Repeat",
                       <<"head", "title repeated">>)
           \union When(\E k \in 1..repeat :
                         \/ blocks[k].el = "tbl"
                         \/ blocks[k].el = "p" /\ blocks[k].images # <<>>,
                       <<"head", "title pages">>)]

-----------------------------------------------------------------------------
\* align: the longest common stretch first, then what stands before and after
\* it, as difflib matches two sequences.

\* A part of both sequences: a[alo..ahi-1] and b[blo..bhi-1].
Part(a, b) == [alo : 1..(Len(a) + 1), ahi : 1..(Len(a) + 1),
               blo : 1..(Len(b) + 1), bhi : 1..(Len(b) + 1)]

RunFrom(a, b, part, i, j) ==
    LET same(m) == /\ i + m < part.ahi /\ j + m < part.bhi
                   /\ a[i + m] = b[j + m]
    IN  CHOOSE k \in 0..Len(a) : (\A m \in 0..(k - 1) : same(m)) /\ ~same(k)

\* The stretches of a part that match, each from where it begins in it to where
\* it ends.
Stretches(a, b, part) ==
    LET starts == {s \in (part.alo..(part.ahi - 1)) \X (part.blo..(part.bhi - 1)) :
                     /\ a[s[1]] = b[s[2]]
                     /\ \/ s[1] = part.alo \/ s[2] = part.blo
                        \/ a[s[1] - 1] # b[s[2] - 1]}
    IN  {<<s[1], s[2], RunFrom(a, b, part, s[1], s[2])>> : s \in starts}

\* The longest, and of the longest the first.
Longest(runs) ==
    CHOOSE r \in runs : \A q \in runs :
      \/ r[3] > q[3]
      \/ r[3] = q[3] /\ r[1] < q[1]
      \/ r[3] = q[3] /\ r[1] = q[1] /\ r[2] <= q[2]

\* The part before a stretch, and the part after it.
Before(part, run) ==
    [alo |-> part.alo, ahi |-> run[1], blo |-> part.blo, bhi |-> run[2]]
Behind(part, run) ==
    [alo |-> run[1] + run[3], ahi |-> part.ahi, blo |-> run[2] + run[3], bhi |-> part.bhi]

\* The stretches two sequences share, in order: the longest, and those of what
\* stands before it and of what stands after it.
Matches(a, b) ==
    LET within[part \in Part(a, b)] ==
          LET runs == Stretches(a, b, part)
              best == Longest(runs)
          IN  IF runs = {} THEN <<>>
              ELSE within[Before(part, best)] \o <<best>> \o within[Behind(part, best)]
    IN  within[[alo |-> 1, ahi |-> Len(a) + 1, blo |-> 1, bhi |-> Len(b) + 1]]

\* The stretches that differ: from the end of one match to the next.
Gaps(a, b) ==
    LET m == <<<<1, 1, 0>>>> \o Matches(a, b)
               \o <<<<Len(a) + 1, Len(b) + 1, 0>>>>
    IN  [matches |-> m,
         gaps |-> [k \in 1..(Len(m) - 1) |->
                     [i1 |-> m[k][1] + m[k][3], i2 |-> m[k + 1][1],
                      j1 |-> m[k][2] + m[k][3], j2 |-> m[k + 1][2]]]]

Fulltext(line) == <<"fulltext", line>>

\* What one differing stretch reports, and the pairs it makes.
Paired(g) == Min({g.i2 - g.i1, g.j2 - g.j1})

\* A block main.md does not have is reported at the block it repeats when a
\* neighbour is the same, and otherwise at the block before it.
ExtraAt(a, b, g, j) ==
    LET neighbours == {i \in {g.i1 + Paired(g) - 1, g.i1 + Paired(g)} :
                         i \in DOMAIN a /\ a[i] = b[j]}
        before == g.i1 + Paired(g) - 1
    IN  IF neighbours # {} THEN MainBlocks[Min(neighbours)].line
        ELSE IF before > 0 THEN MainBlocks[before].line ELSE "0"

align(items) ==
    LET a == main_stream
        b == [k \in DOMAIN items |-> items[k].key]
        m == Gaps(a, b)
        gaps == Range(m.gaps)
    IN  [problems |->
           UNION {{Fulltext(MainBlocks[i].line) : i \in g.i1..(g.i2 - 1)}
                    \union {Fulltext(ExtraAt(a, b, g, j)) :
                              j \in (g.j1 + Paired(g))..(g.j2 - 1)} : g \in gaps},
         pairs |->
           (UNION {{<<r[1] + k, r[2] + k>> : k \in 0..(r[3] - 1)} : r \in Range(m.matches)})
             \union
           (UNION {{<<g.i1 + k, g.j1 + k>> : k \in 0..(Paired(g) - 1)} : g \in gaps})]

-----------------------------------------------------------------------------
\* The references.

SEPARATORS == {SP, ", ", ", & ", ". ", ", from "}

\* An entry is its fields in order, one separator between two of them.
ReadsFields(fields, text) ==
    /\ SelectSeq(text, LAMBDA t : t \notin SEPARATORS) = fields
    /\ \A i \in 1..(Len(text) - 1) :
         ~(text[i] \in SEPARATORS /\ text[i + 1] \in SEPARATORS)
    /\ text # <<>> => Last(text) \notin SEPARATORS

IdsOf(para) == SelectSeq(para.marks, LAMBDA m : \E n \in DOMAIN Refs : m = RefMark(n))

\* The entry whose identifier stands last before its paragraph: [n].
EntryOf(view, n) ==
    {k \in DOMAIN view.bibliography :
       /\ IdsOf(view.bibliography[k]) # <<>>
       /\ Last(IdsOf(view.bibliography[k])) = RefMark(n)}

AllMarks(d) ==
    LET paras == AllParagraphs(d) IN FlattenSeq([i \in DOMAIN paras |-> paras[i].marks])

check_bibliography(d, view) ==
    LET place(n) == <<"bibliography", RefMark(n)>>
        bib == view.bibliography
        entryProblem(n) ==
          \/ EntryOf(view, n) = {}
          \/ Cardinality(EntryOf(view, n)) > 1
          \/ LET para == bib[Max(EntryOf(view, n))]
             IN  \/ Len(IdsOf(para)) > 1
                 \/ ~ReadsFields(Refs[n].fields, Norm(TextOf(para)))
                 \/ [k \in DOMAIN para.links |->
                       <<LinkOf(d, para.links[k][1]), Norm(para.links[k][2])>>]
                      # <<<<Refs[n].link, <<Refs[n].link>>>>>>
        listed == SelectSeq(bib, LAMBDA p : IdsOf(p) # <<>>)
        rank(p) == Refs[CHOOSE n \in DOMAIN Refs :
                          RefMark(n) = Last(IdsOf(p))].order
        places == {k \in DOMAIN view.items : view.items[k].key = BIBLIOGRAPHY_KEY}
        headings == {k \in DOMAIN view.items :
                       view.items[k].key.text = <<"References">>}
    IN  {place(n) : n \in {m \in DOMAIN Refs : entryProblem(m)}}
          \union When(\E k \in DOMAIN bib : IdsOf(bib[k]) = <<>>,
                      <<"bibliography", "docx block">>)
          \union When(Twice(AllMarks(d)), <<"bibliography", "bookmarks">>)
          \union When(\E k \in 1..(Len(listed) - 1) :
                        rank(listed[k]) > rank(listed[k + 1]),
                      <<"bibliography", "order">>)
          \union When(\/ Cardinality(places) # 1 \/ Cardinality(headings) # 1
                      \/ \E p \in places, h \in headings : p # h + 1,
                      <<"bibliography", "location">>)

\* The links outside the reference list are those main.md writes.
check_links(d, blocks) ==
    LET paras == SelectSeq(_all_paragraphs(blocks),
                           LAMBDA p : p.style # "Bibliography")
        all == FlattenSeq([k \in DOMAIN paras |-> paras[k].links])
        found == [k \in DOMAIN all |->
                    <<Norm(all[k][2])[1], LinkOf(d, all[k][1])>>]
    IN  {<<"link", f[1]>> : f \in Range(found) \ MainLinks}
          \union {<<"link", m[1]>> : m \in MainLinks \ Range(found)}
          \union {<<"link", found[k][1]>> : k \in {j \in DOMAIN found :
                    \E i \in 1..(j - 1) : found[i] = found[j]}}

-----------------------------------------------------------------------------
\* The citations, against citations-apa.tsv.

Citation(k) == <<"citation", <<"1", "2", "3", "4">>[k]>>

\* The fixture's text names each entry and has the form of its kind.
FixtureNames(k, text) ==
    /\ \A n \in Range(Cites[k].ids) :
         Refs[n].author \in Range(text) /\ Refs[n].year \in Range(text)
    /\ LET first == text[1]
           final == Last(text)
       IN  CASE Cites[k].kind = "narrative" ->
                  first = Refs[Cites[k].ids[1]].author /\ final = ")"
             [] Cites[k].kind = "parenthetical" -> first = "(" /\ final = ")"
             [] OTHER -> /\ Len(text) > 3 /\ first = "(" /\ text[2] = Prefix
                         /\ final = ")" /\ text[Len(text) - 1] = Suffix

FixtureRow(k, row) == row.ids = Cites[k].ids /\ row.kind = Cites[k].kind

\* A block with as many citations as main.md sets each as the fixture has it; of
\* another, those with no counterpart are reported, or all when every one has one.
CitedOtherwise(view, p, fixture) ==
    LET ks == MainBlocks[p[1]].cites
        gs == view.items[p[2]].groups
        unset == DOMAIN ks \ DOMAIN gs
    IN  IF DOMAIN ks = DOMAIN gs
        THEN {Citation(ks[i]) : i \in {j \in DOMAIN ks :
                Norm(gs[j]) # Norm(fixture[ks[j]].text)}}
        ELSE {Citation(ks[i]) : i \in IF unset = {} THEN DOMAIN ks ELSE unset}
               \union When(ks = <<>>, <<"citation", MainBlocks[p[1]].line>>)

FixtureProblems(fixture) ==
    {Citation(k) : k \in {j \in DOMAIN Cites :
        \/ ~FixtureRow(j, fixture[j])
        \/ ~FixtureNames(j, Norm(fixture[j].text))}}

check_citations(view, pairs, fixture) ==
    (UNION {CitedOtherwise(view, p, fixture) : p \in pairs}) \union FixtureProblems(fixture)
      \union When(\E j \in DOMAIN view.items :
                    /\ view.items[j].groups # <<>>
                    /\ \A p \in pairs : p[2] # j,
                  <<"citation", "docx block">>)

-----------------------------------------------------------------------------
\* The title pages, the figures and the tables.

HeadCheck(e) == IF e[1] = "Author Note" THEN "author-note" ELSE "head"

check_head(d, view, blocks) ==
    {<<HeadCheck(HeadOf[k]), HeadOf[k][2]>> : k \in {j \in DOMAIN HeadOf :
        \/ j > Len(view.head)
        \/ view.head[j].style # HeadOf[j][1]
        \/ Norm(TextOf(view.head[j])) # Norm(HeadOf[j][3])}}
      \union When(Len(view.head) > Len(HeadOf), <<"head", "docx block">>)
      \union When(\E p \in Range(_all_paragraphs(blocks)) :
                    Disclosure[1] \in Range(TextOf(p)) /\ p.style # "Author Note",
                  <<"author-note", "AI disclosure">>)
      \union When(\E k \in DOMAIN d.footnotes : ~Blank(d.footnotes[k]),
                  <<"author-note", "footnotes">>)

GroupIs(set, text) == \E p \in set : Norm(TextOf(p)) = Norm(text)

check_figures(d, view, blocks) ==
    LET problem(n, key) ==
          \/ key \notin DOMAIN view.groups
          \/ LET g == view.groups[key]
             IN  \/ ~GroupIs(g.title, FigureOf[n].title)
                 \/ FigureOf[n].note # <<>> /\ ~GroupIs(g.note, FigureOf[n].note)
                 \/ FigureOf[n].note = <<>> /\ g.note # {}
                 \/ g.body = {}
                 \/ \E p \in g.body : \/ Len(p.images) # 1
                                      \/ ~Blank(TextOf(p))
                                      \/ MediaOf(d, p.images[1]) # FigureOf[n].part
        placed == UNION {view.groups[k].body : k \in DOMAIN view.groups}
    IN  When(problem(1, FigureKey("1")), <<"figure", "Figure 1">>)
          \union When(problem(2, FigureKey("2")), <<"figure", "Figure 2">>)
          \union When(\E p \in Range(_all_paragraphs(blocks)) :
                        p.images # <<>> /\ p \notin placed,
                      <<"figure", "docx block">>)

RowsOf(t) ==
    [r \in DOMAIN t.rows |-> [c \in DOMAIN t.rows[r] |-> Norm(TextOf(t.rows[r][c]))]]

WantedRows == RowsOf(CHOOSE t \in Range(Blocks(Original)) : t.el = "tbl")

check_tables(view) ==
    When(\/ TableKey("1") \notin DOMAIN view.groups
         \/ LET g == view.groups[TableKey("1")]
            IN  \/ ~GroupIs(g.title, TableTitle)
                \/ g.body = {}
                \/ \E t \in g.body : RowsOf(t) # WantedRows,
         <<"table", "Table 1">>)

-----------------------------------------------------------------------------
\* Line breaks, white space, what is left out, and the prose.

\* The paragraphs main.md's code blocks were matched to.
code_blocks(view, pairs) ==
    {view.items[p[2]].block : p \in {q \in pairs :
       MainBlocks[q[1]].kind = "code" /\ view.items[q[2]].block.el = "p"}}

check_line_breaks(blocks, code) ==
    When(\/ \E p \in Range(_all_paragraphs(blocks)) :
              NL \in Range(TextOf(p)) /\ p \notin code
         \/ \E p \in code : TextOf(p) # CodeLines,
         Structure("line breaks"))

\* A label's white space and the joint of a cell are not main.md's to have.
Shown(para) ==
    FlattenSeq([k \in DOMAIN para.runs |->
                  IF para.runs[k].style \in {"label", "join"} THEN <<>>
                  ELSE para.runs[k].text])

WhiteSpaceOdd(p) ==
    \/ Range(Shown(p)) \intersect {EM, Many} # {}
    \/ \E i \in 1..(Len(Shown(p)) - 1) : Shown(p)[i] = SP /\ Shown(p)[i + 1] = SP

\* Faulty variant: whatever is set in the style of code may keep its spaces.
whitespace_by_style(blocks, code) ==
    When(\E p \in Range(_all_paragraphs(blocks)) :
           p.style # "Source Code" /\ WhiteSpaceOdd(p),
         Structure("whitespace"))

check_whitespace(blocks, code) ==
    When(\E p \in Range(_all_paragraphs(blocks)) :
           p \notin code /\ WhiteSpaceOdd(p),
         Structure("whitespace"))

check_drops(blocks) ==
    When(Lead \in Tokens(blocks), <<"drop", "author table lead">>)
      \union When(ReferenceNote \in Tokens(blocks),
                  <<"drop", "note after the references">>)

BRITISH == {"analysed", "renormalising"}
Residue == {"[@cds44]", CITE}

Prose(para) ==
    UNION {Range(para.runs[k].text) : k \in {j \in DOMAIN para.runs :
             para.runs[j].style # "Verbatim Char"}}

check_text(d, view, blocks, pairs) ==
    LET matched(p) == {q \in pairs : view.items[q[2]].i = p.i}
        where(p) == IF matched(p) = {} THEN "docx block"
                    ELSE MainBlocks[(CHOOSE q \in matched(p) : TRUE)[1]].line
        generated(p) == \E q \in matched(p) : MainBlocks[q[1]].generated
        read == {p \in Range(_all_paragraphs(blocks)) :
                   p.style # "Bibliography" /\ ~generated(p)}
        at(line) == {k \in DOMAIN view.items :
                       /\ view.items[k].brk > 0
                       /\ \E q \in pairs : q[2] = k /\ MainBlocks[q[1]].line = line}
        breaks == {k \in DOMAIN view.items : view.items[k].brk > 0}
        appendix == {k \in DOMAIN view.items : view.items[k].key = Key("heading 1", <<"K. AI usage">>)}
    IN  {<<"british", where(p)>> : p \in {q \in read : Prose(q) \intersect BRITISH # {}}}
          \union {<<"residue", where(p)>> : p \in
                    {q \in read : Prose(q) \intersect Residue # {}}}
          \union {<<"glyph", g>> : g \in Glyphs \ Tokens(blocks)}
          \union When(\/ appendix = {}
                      \/ LET k == Min(appendix)
                         IN  \/ k + 1 > Len(view.items)
                             \/ view.items[k + 1].key.kind = "heading 1",
                      Structure("K"))
          \union When(\/ \E line \in BreakLines : Cardinality(at(line)) # 1
                      \/ \E k \in breaks : view.items[k].brk # 1
                      \/ breaks # UNION {at(line) : line \in BreakLines}
                      \/ BreakCount(BreaksSet(d)) # Cardinality(BreakLines),
                      Structure("page breaks"))

check_contract(contract) ==
    {<<"contract", s>> : s \in {t \in ContractSections : contract[t] # Contract[t]}}

-----------------------------------------------------------------------------
\* run_checks: every check, whatever the others found.  A check that compares
\* takes what the .docx was read as: its blocks, their view and how the view was
\* aligned with main.md.
CheckPairs(d, blocks, view, pairs, code, fixture) ==
    check_citations(view, pairs, fixture) \union check_text(d, view, blocks, pairs)
      \union check_line_breaks(blocks, code) \union check_whitespace(blocks, code)

CheckAligned(d, blocks, view, aligned, fixture) ==
    aligned.problems
      \union CheckPairs(d, blocks, view, aligned.pairs,
                        code_blocks(view, aligned.pairs), fixture)

CheckView(d, blocks, view, fixture) ==
    view.problems \union CheckAligned(d, blocks, view, align(view.items), fixture)
      \union check_bibliography(d, view) \union check_head(d, view, blocks)
      \union check_figures(d, view, blocks) \union check_tables(view)

CheckBlocks(d, blocks, fixture) ==
    check_links(d, blocks) \union check_drops(blocks)
      \union CheckView(d, blocks, docx_view(blocks), fixture)

run_checks(d, contract, fixture) ==
    read_docx(d) \union check_contract(contract)
      \union CheckBlocks(d, Blocks(d), fixture)

\* --write-citations-apa: the fixture rewritten with what the .docx sets,
\* refused when a citation was not placed.
PlacedIn(view, pairs) ==
    UNION {LET ks == MainBlocks[p[1]].cites
               gs == view.items[p[2]].groups
           IN  {<<ks[i], Norm(gs[i])>> : i \in DOMAIN ks \intersect DOMAIN gs} : p \in pairs}

PlacedOf(view) == PlacedIn(view, align(view.items).pairs)

Placed(d) == PlacedOf(docx_view(Blocks(d)))

AllPlaced(placed) == \A k \in DOMAIN Cites : \E c \in placed : c[1] = k

write_apa_fixture(placed) ==
    [k \in DOMAIN Cites |-> [ids |-> Cites[k].ids, kind |-> Cites[k].kind,
                             text |-> (CHOOSE c \in placed : c[1] = k)[2]]]
=============================================================================
