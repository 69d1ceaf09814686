------------------------------ MODULE Chunking ------------------------------
(***************************************************************************)
(* How the ingestion service cuts the text of a document into chunks       *)
(* (rag-ingestion/src/chunking/) for the strategy that chunk_content of    *)
(* the job handler was asked for or select_strategy has chosen.            *)
(*                                                                         *)
(* A text is a sequence of tokens, each with the rank of the separator     *)
(* behind it (0: none, the word goes on; Torn: its last character does); a *)
(* piece of it is the sequence of its positions, which is both its content *)
(* and its count of tokens.  For the strategies that look at lines a text  *)
(* is a sequence of kinds of lines, and what the parsers made of it is a   *)
(* sequence of blocks.  The token count of a joined text is taken as the   *)
(* sum of its parts.  One document is one value of chunking.               *)
(***************************************************************************)
EXTENDS Integers, SequencesExt, FiniteSetsExt

CONSTANTS
    MaxTokens,      \* bound: tokens of a text
    MaxRows,        \* bound: rows of a table
    Families,       \* bound: which kinds of lines meet in one text, and how many lines
    Separators,     \* how many separators there are, the strongest 1
    ChunkSizes, Overlaps,   \* what a job may ask for
    Headroom, MinChunk      \* the 100 and the 50 of chunk_content

ASSUME ChunkingAssumption ==
    /\ MaxTokens \in Nat /\ MaxRows \in Nat /\ Separators \in Nat \ {0}
    /\ ChunkSizes \subseteq Nat /\ Overlaps \subseteq Nat
    /\ Headroom \in Nat /\ MinChunk \in Nat

VARIABLE chunking

\* A character may be more than one token: its bytes are UTF-8 only together.
Torn == -1
Texts == {text \in SeqOf({Torn} \cup 0..Separators, MaxTokens) :
            text = <<>> \/ Last(text) # Torn}
Positions(text) == [i \in DOMAIN text |-> i]

\* tokenizer.decode(..).unwrap_or_default(): tokens that begin or end within a
\* character are no text, and nothing comes of them.
Decoded(text, piece) ==
    IF /\ piece # <<>>
       /\ text[Last(piece)] = Torn \/ (Head(piece) > 1 /\ text[Head(piece) - 1] = Torn)
    THEN <<>> ELSE piece

----------------------------------------------------------------------------
(* The configuration.                                                      *)

\* chunk_content: max_tokens and target_tokens are at least 1.
TargetOf(size) == Max({Max({size, 1}) - Headroom, 1})

ConfigOf(size, overlap) ==
    [target |-> TargetOf(size), max |-> Max({size, 1}), overlap |-> overlap, min |-> MinChunk]

\* chunk_code_zone: half the target, no overlap.
CodeConfigOf(size, overlap) ==
    [ConfigOf(size, overlap) EXCEPT !.target = @ \div 2, !.overlap = 0]

----------------------------------------------------------------------------
(* RecursiveCharacterSplitter.                                             *)

\* Pieces of so many tokens, each decoded for itself.
Pieces(text, piece, size) ==
    [k \in 1..((Len(piece) + size - 1) \div size) |->
        Decoded(text, SubSeq(piece, (k - 1) * size + 1, Min({k * size, Len(piece)})))]

\* split_by_tokens: pieces of target tokens.  With a target of 0 it does not
\* advance: the position 0 stands for the pieces that never end.
ByTokens(text, piece, config) ==
    IF config.target = 0 THEN <<<<0>>>> ELSE Pieces(text, piece, config.target)

\* Where a piece holds a separator.  The one behind a piece was cut off with it.
Cuts(text, piece, level) ==
    {i \in DOMAIN piece : text[piece[i]] = level /\ (i < Len(piece) \/ piece = Positions(text))}
SplitOn(text, piece, level) ==
    LET cuts == SetToSortSeq({0, Len(piece)} \cup Cuts(text, piece, level), <)
    IN [k \in 1..(Len(cuts) - 1) |-> SubSeq(piece, cuts[k] + 1, cuts[k + 1])]

\* split_recursive: a text without the separator goes on to the next one, as do
\* the parts above max_tokens.
RECURSIVE SplitRecursive(_, _, _, _)
SplitRecursive(text, piece, level, config) ==
    IF piece = <<>> THEN <<>>
    ELSE IF level > Separators THEN ByTokens(text, piece, config)
    ELSE IF Cuts(text, piece, level) = {} THEN SplitRecursive(text, piece, level + 1, config)
    ELSE LET parts == SplitOn(text, piece, level)
         IN FlattenSeq([k \in DOMAIN parts |->
                IF Len(parts[k]) > config.max
                THEN SplitRecursive(text, parts[k], level + 1, config)
                ELSE <<parts[k]>>])

\* Mutant: what is below min_chunk_size is forgotten when the next part is large.
MergedNoSmall(parts, config) ==
    LET step(acc, part) ==
            IF Len(acc.current) + Len(part) <= config.target
            THEN [acc EXCEPT !.current = @ \o part]
            ELSE IF Len(acc.current) >= config.min
            THEN [done |-> Append(acc.done, acc.current), current |-> part]
            ELSE [acc EXCEPT !.current = part]
        last == FoldLeft(step, [done |-> <<>>, current |-> <<>>], parts)
    IN IF last.current = <<>> THEN last.done ELSE Append(last.done, last.current)

\* merge_and_overlap, first pass: parts are joined up to the target; what is
\* below min_chunk_size is joined to the next part whatever its size.
Merged(parts, config) ==
    LET step(acc, part) ==
            IF \/ Len(acc.current) + Len(part) <= config.target
               \/ Len(acc.current) < config.min
            THEN [acc EXCEPT !.current = @ \o part]
            ELSE [done |-> IF acc.current = <<>> THEN acc.done ELSE Append(acc.done, acc.current),
                  current |-> part]
        last == FoldLeft(step, [done |-> <<>>, current |-> <<>>], parts)
    IN IF last.current = <<>> THEN last.done ELSE Append(last.done, last.current)

\* get_overlap_text.
LastTokens(text, s, n) ==
    IF Len(s) <= n THEN s ELSE Decoded(text, SubSeq(s, Len(s) - n + 1, Len(s)))

\* Second pass: each chunk is led by the end of the one before it, as that was
\* before it got its own lead.
Overlapped(text, merged, config) ==
    [k \in DOMAIN merged |->
        IF k = 1 THEN merged[k] ELSE LastTokens(text, merged[k - 1], config.overlap) \o merged[k]]

Recursive(text, config) ==
    Overlapped(text, Merged(SplitRecursive(text, Positions(text), 1, config), config), config)

----------------------------------------------------------------------------
(* SemanticChunker.                                                        *)

\* unicode_sentences: what ends at a separator but the weakest, if there is a
\* letter or a digit in it.
Sentences(text, mute) ==
    LET ends == {i \in DOMAIN text : i = Len(text) \/ text[i] \in 1..(Separators - 1)}
        cuts == SetToSortSeq({0} \cup ends, <)
    IN SelectSeq([k \in 1..(Len(cuts) - 1) |->
                      SubSeq(Positions(text), cuts[k] + 1, cuts[k + 1])],
                 LAMBDA s : \E i \in DOMAIN s : s[i] \notin mute)

\* Characters: one for each token and for each separator between or behind.
Width(text, s) == Len(s) + Cardinality({i \in DOMAIN s : text[s[i]] > 0})

\* get_overlap_sentences: as many of the last sentences as fit.
OverlapSentences(sentences, overlap) ==
    LET fits(k) == Len(FlattenSeq(SubSeq(sentences, k, Len(sentences)))) <= overlap
    IN SubSeq(sentences, Min({k \in 1..(Len(sentences) + 1) : fits(k)}), Len(sentences))

\* split_long_sentence: a piece that is not decoded is a chunk without content,
\* and the next begins where it did.
SplitLong(text, sentence, start, config) ==
    LET pieces == Pieces(text, sentence, config.max)
    IN [k \in DOMAIN pieces |->
            [content |-> pieces[k],
             start |-> start + Width(text, FlattenSeq(SubSeq(pieces, 1, k - 1)))]]

\* create_chunk.
Flushed(acc) ==
    IF acc.current = <<>> THEN acc.done
    ELSE Append(acc.done, [content |-> FlattenSeq(acc.current), start |-> acc.start])

\* One round of the loop of SemanticChunker.chunk.
OnSentence(text, config, acc, s) ==
    LET size == Len(FlattenSeq(acc.current)) + Len(s)
        kept == IF acc.current = <<>> THEN <<>>
                ELSE OverlapSentences(acc.current, config.overlap)
    IN IF Len(s) > config.max
       THEN [done |-> Flushed(acc) \o SplitLong(text, s, acc.pos, config), current |-> <<>>,
             start |-> acc.pos + Width(text, s), pos |-> acc.pos + Width(text, s)]
       ELSE IF size > config.target
       THEN [done |-> Flushed(acc), current |-> Append(kept, s), start |-> acc.pos,
             pos |-> acc.pos + Width(text, s)]
       ELSE [acc EXCEPT !.current = Append(@, s), !.pos = @ + Width(text, s),
                        !.start = IF acc.current = <<>> THEN acc.pos ELSE @]

SemanticChunks(text, mute, config) ==
    Flushed(FoldLeft(LAMBDA acc, s : OnSentence(text, config, acc, s),
                     [done |-> <<>>, current |-> <<>>, start |-> 0, pos |-> 0],
                     Sentences(text, mute)))

----------------------------------------------------------------------------
(* Lines.  A document is a sequence of kinds of lines; what the strategies *)
(* keep is a set or a sequence of its line numbers.                        *)

Headings == {"head", "headq"}           \* extract_heading; headq ends with ?
Asking == {"q", "headq", "ask"}         \* lines that end with ?
LineKinds == Headings \cup {"q", "a0", "ask", "prose", "blank", "row", "odd", "bar", "fence"}
Numbers(lines, kinds) == {i \in DOMAIN lines : lines[i] \in kinds}

\* split_sections: the lines under a heading up to the next one; sections
\* without text are left out.
BodyUnder(lines, h) ==
    {i \in DOMAIN lines : /\ i > h /\ lines[i] # "blank"
                          /\ \A g \in Numbers(lines, Headings) : ~(h < g /\ g <= i)}
Sections(lines) ==
    {[heading |-> h, body |-> BodyUnder(lines, h)] :
        h \in {h \in {0} \cup Numbers(lines, Headings) : BodyUnder(lines, h) # {}}}

----------------------------------------------------------------------------
(* QAChunker.                                                              *)

NoPair == [question |-> {}, answer |-> {}]

\* The pair that is open is kept if it has an answer.
Closed(acc) == IF acc.open.answer = {} THEN acc.pairs ELSE acc.pairs \cup {acc.open}

\* detect_explicit_qa: an answer prefix with nothing behind it adds nothing.
ExplicitLine(lines, acc, i) ==
    IF lines[i] = "q"
    THEN [pairs |-> Closed(acc), open |-> [question |-> {i}, answer |-> {}]]
    ELSE IF acc.open.question # {} /\ lines[i] \notin {"blank", "a0"}
    THEN [acc EXCEPT !.open.answer = @ \cup {i}]
    ELSE acc

\* detect_heading_questions.
HeadingLine(lines, acc, i) ==
    IF lines[i] = "headq"
    THEN [pairs |-> Closed(acc), open |-> [question |-> {i}, answer |-> {}]]
    ELSE IF lines[i] = "head" THEN [pairs |-> Closed(acc), open |-> NoPair]
    ELSE IF acc.open.question # {} /\ lines[i] # "blank"
    THEN [acc EXCEPT !.open.answer = @ \cup {i}]
    ELSE acc

Detected(line(_, _, _), lines) ==
    Closed(FoldLeft(LAMBDA acc, i : line(lines, acc, i), [pairs |-> {}, open |-> NoPair],
                    Positions(lines)))

\* Paragraphs, and detect_implicit_qa: a question of at most two sentences, here
\* lines, and the paragraph behind it if that is not one.
Paragraphs(lines) ==
    LET solid(i, j) == \A k \in i..j : lines[k] # "blank"
        runs == {p \in (DOMAIN lines) \X (DOMAIN lines) :
                    /\ p[1] <= p[2] /\ solid(p[1], p[2])
                    /\ (p[1] = 1 \/ lines[p[1] - 1] = "blank")
                    /\ (p[2] = Len(lines) \/ lines[p[2] + 1] = "blank")}
    IN SetToSortSeq(runs, LAMBDA p, q : p[1] < q[1])
Questioning(lines, p) == lines[p[2]] \in Asking /\ p[2] - p[1] < 2
ImplicitPair(lines, ps, i) ==
    i < Len(ps) /\ Questioning(lines, ps[i]) /\ ~Questioning(lines, ps[i + 1])
Implicit(lines) ==
    LET ps == Paragraphs(lines)
    IN {[question |-> ps[i][1]..ps[i][2], answer |-> ps[i + 1][1]..ps[i + 1][2]] :
            i \in {i \in DOMAIN ps : ImplicitPair(lines, ps, i)}}

\* detect_pairs: the first pattern that finds any.
Pairs(lines) ==
    LET explicit == Detected(ExplicitLine, lines)
        heading == Detected(HeadingLine, lines)
    IN IF explicit # {} THEN explicit ELSE IF heading # {} THEN heading ELSE Implicit(lines)

----------------------------------------------------------------------------
(* TabularChunker.                                                         *)

TableRows == {"row", "odd", "bar"}

\* detect_markdown_table: the first run of table lines, of at least three, the
\* second of them the separator; rows that have not the header's length are
\* left out.
Table(lines) ==
    LET first == Min(Numbers(lines, TableRows))
        end == Max({i \in DOMAIN lines : \A j \in first..i : lines[j] \in TableRows})
        odd(i) == lines[i] = "odd"
    IN IF Numbers(lines, TableRows) = {} \/ end - first < 2 \/ lines[first + 1] # "bar"
       THEN <<>>
       ELSE SetToSortSeq({i \in (first + 2)..end : odd(i) = odd(first)}, <)

\* chunk_single_table: rows are batched up to the target, the header repeated.
TableRow(rows, header, target, acc, i) ==
    IF acc.size + rows[i] > target /\ acc.from < i
    THEN [done |-> Append(acc.done, <<acc.from, i - 1>>), from |-> i, size |-> header + rows[i]]
    ELSE [acc EXCEPT !.size = @ + rows[i]]

\* The ranges row_start, row_end of the chunks of a table.
TableChunks(rows, header, target) ==
    LET acc == FoldLeft(LAMBDA a, i : TableRow(rows, header, target, a, i),
                        [done |-> <<>>, from |-> 1, size |-> header], Positions(rows))
    IN IF rows = <<>> THEN <<>> ELSE Append(acc.done, <<acc.from, Len(rows)>>)

----------------------------------------------------------------------------
(* MixedContentChunker: zones_from_text.                                   *)

NoZone == [kind |-> "none", lines |-> <<>>]
ClosedZone(acc) == IF acc.open.lines = <<>> THEN acc.zones ELSE Append(acc.zones, acc.open)
OpenZone(acc, kind, i) == [acc EXCEPT !.zones = ClosedZone(acc),
                                      !.open = [kind |-> kind, lines |-> <<i>>]]
Extended(acc, i) == [acc EXCEPT !.open.lines = Append(@, i)]

ZoneLine(lines, acc, i) ==
    LET kind == IF lines[i] \in TableRows THEN "table" ELSE "prose"
    IN IF lines[i] = "fence"
       THEN IF acc.fenced
            THEN [zones |-> ClosedZone(Extended(acc, i)), open |-> NoZone, fenced |-> FALSE]
            ELSE [OpenZone(acc, "code", i) EXCEPT !.fenced = TRUE]
       ELSE IF acc.fenced \/ kind = acc.open.kind THEN Extended(acc, i)
       ELSE OpenZone(acc, kind, i)

LinesOf(lines, zone) == [k \in DOMAIN zone.lines |-> lines[zone.lines[k]]]

\* The runs of lines of one kind.
Runs(lines) ==
    ClosedZone(FoldLeft(LAMBDA a, i : ZoneLine(lines, a, i),
                        [zones |-> <<>>, open |-> NoZone, fenced |-> FALSE], Positions(lines)))

\* Prose with at least two pairs becomes a zone of questions and answers.
Zones(lines) ==
    LET zones == Runs(lines)
    IN [k \in DOMAIN zones |->
            IF zones[k].kind = "prose" /\ Cardinality(Pairs(LinesOf(lines, zones[k]))) >= 2
            THEN [zones[k] EXCEPT !.kind = "qa"] ELSE zones[k]]

----------------------------------------------------------------------------
(* Parsed documents: zones_from_blocks.                                    *)

\* What the parsers make a block of: the text of a fence, a table, a heading,
\* a paragraph.  Table lines without a header and a separator are a paragraph.
Elements(lines) ==
    LET isTable(r) == r.kind = "table" /\ Len(r.lines) > 1 /\ lines[r.lines[2]] = "bar"
        code(r) == [type |-> "code", lines |-> SelectSeq(r.lines, LAMBDA i : lines[i] # "fence")]
        joins(r, i) == /\ {i, i + 1} \subseteq Range(r.lines)
                       /\ {lines[i], lines[i + 1]} \cap (Headings \cup {"blank"}) = {}
        begins(r, i) == lines[i] # "blank" /\ ~joins(r, i - 1)
        end(r, i) == Max({j \in Range(r.lines) : j >= i /\ \A k \in i..(j - 1) : joins(r, k)})
        texts(r) == {[type |-> "text", lines |-> SelectSeq(r.lines, LAMBDA k : i <= k /\ k <= end(r, i))] :
                        i \in {i \in Range(r.lines) : begins(r, i)}}
        of(r) == IF isTable(r) THEN {[type |-> "table", lines |-> r.lines]}
                 ELSE IF r.kind = "code" THEN {code(r)} ELSE texts(r)
        all == {e \in UNION {of(r) : r \in Range(Runs(lines))} : e.lines # <<>>}
    IN SetToSortSeq(all, LAMBDA d, e : Head(d.lines) < Head(e.lines))

Unparsed == [blocks |-> <<>>, joined |-> FALSE]

\* The parsers for Markdown and DOCX deliver the elements in their order, a
\* paragraph on one line; that for HTML the text, then the code, then the tables,
\* and no text that stands outside its tags; that for PDF the text of a page.
ParsedDocs(lines) ==
    LET all == Elements(lines)
        only(type, left) == SelectSeq(all, LAMBDA e : e.type = type /\ e # left)
    IN {[blocks |-> all, joined |-> TRUE],
        [blocks |-> <<[type |-> "text", lines |-> Positions(lines)]>>, joined |-> FALSE]}
       \cup {[blocks |-> only("text", left) \o only("code", left) \o only("table", left),
              joined |-> FALSE] : left \in {e \in Range(all) : e.type = "text"} \cup {NoZone}}

Tables(doc) == SelectSeq(doc.blocks, LAMBDA b : b.type = "table")

\* One block: text with at least two pairs becomes questions and answers, and
\* what is of the kind of the last zone is added to it, but for tables.
BlockZone(lines, doc, zones, b) ==
    LET kind == IF b.type # "text" THEN b.type
                ELSE IF ~doc.joined /\ Cardinality(Pairs(LinesOf(lines, b))) >= 2 THEN "qa"
                ELSE "prose"
    IN IF zones # <<>> /\ Last(zones).kind = kind /\ kind # "table"
       THEN [zones EXCEPT ![Len(zones)].lines = @ \o b.lines]
       ELSE Append(zones, [kind |-> kind, lines |-> b.lines])

\* chunk_with_doc.
DocumentZones(lines, doc) ==
    IF doc.blocks = <<>> THEN Zones(lines)
    ELSE FoldLeft(LAMBDA zones, b : BlockZone(lines, doc, zones, b), <<>>, doc.blocks)

\* chunk_tables of a table that the parser made: nothing of one without rows.
TableKept(table) ==
    IF Len(table.lines) < 3 THEN {} ELSE Range(table.lines) \ {table.lines[2]}

----------------------------------------------------------------------------
(* What the strategies keep.                                               *)

\* QAChunker.chunk: the pairs, or from fewer than three everything.
QaKept(lines) ==
    IF Cardinality(Pairs(lines)) >= 3
    THEN UNION {p.question \cup p.answer : p \in Pairs(lines)}
    ELSE Numbers(lines, LineKinds \ {"blank"})

\* TabularChunker.chunk: the table with its header, or without one everything.
TabularKept(lines) ==
    IF Table(lines) = <<>> THEN Numbers(lines, LineKinds \ {"blank"})
    ELSE Range(Table(lines)) \cup {Min(Numbers(lines, TableRows))}

\* chunk_zone; the table zones of a parsed document have their tables.
ZoneKept(lines, doc, zone) ==
    LET text == LinesOf(lines, zone)
        kept == CASE zone.kind = "qa" -> QaKept(text)
                  [] zone.kind = "table" -> TabularKept(text)
                  [] OTHER -> Numbers(text, LineKinds \ {"blank"})
    IN IF zone.kind = "table" /\ doc.blocks # <<>> THEN TableKept(zone)
       ELSE {zone.lines[k] : k \in kept}

HierarchicalKept(lines) == UNION {s.body : s \in Sections(lines)}
MixedKept(lines, doc) ==
    LET zones == DocumentZones(lines, doc)
    IN UNION {ZoneKept(lines, doc, zones[k]) : k \in DOMAIN zones}

\* chunk_content: the lines that the chunks of a document hold.  Of a parsed
\* document with tables the tabular strategy takes nothing but these.
Kept(strategy, lines, doc) ==
    CASE strategy = "tabular" ->
            IF Tables(doc) = <<>> THEN TabularKept(lines)
            ELSE UNION {TableKept(t) : t \in Range(Tables(doc))}
      [] strategy = "qa" -> QaKept(lines)
      [] strategy = "hierarchical" -> HierarchicalKept(lines)
      [] strategy = "mixed" -> MixedKept(lines, doc)
      [] OTHER -> Numbers(lines, LineKinds \ {"blank"})
----------------------------------------------------------------------------
(* The selector.                                                           *)

\* What analyze_document measures, up to what the rules tell apart: the number
\* of the parser's blocks, of the headings among them, whether more than 0.3 of
\* them are code, the length of the text, of its sentences, how much of it is
\* prose, and the headings for each 1000 characters.
Profiles ==
    [extension : {"csv", "md", "html", "txt"}, blocks : {0, 1, 4, 10}, structured : {0, 2, 3},
     codeHeavy : BOOLEAN, length : {"short", "medium", "long"}, density : {0, 1, 3},
     longSentences : BOOLEAN, prose : {"little", "most", "all"}]

\* select_strategy: the first rule that fits.  Where the tables are at most a
\* fifth of the blocks there are blocks of two kinds.
Select(p, tables, pairs, headings) ==
    LET parsed == p.blocks > 0
        heavy == parsed /\ 5 * tables > p.blocks
        mixed == tables > 0 /\ p.blocks >= 10
        structured == parsed /\ p.structured >= 3 /\ 20 * p.structured >= p.blocks
        plain == (parsed /\ p.codeHeavy) \/ p.length = "short"
        dense == p.density >= 3 \/ (headings >= 3 /\ p.density >= 1)
        flowing == \/ p.longSentences /\ p.prose # "little"
                   \/ p.length = "long" /\ p.prose = "all" /\ headings <= 1
    IN IF p.extension = "csv" \/ heavy THEN "tabular"
       ELSE IF pairs >= 3 THEN "qa"
       ELSE IF mixed THEN "mixed"
       ELSE IF p.extension = "md"
       THEN IF headings >= 2 \/ p.structured >= 2 THEN "hierarchical" ELSE "recursive"
       ELSE IF structured THEN "hierarchical"
       ELSE IF plain THEN "recursive"
       ELSE IF dense THEN "hierarchical"
       ELSE IF flowing THEN "semantic"
       ELSE IF p.extension = "html" /\ headings >= 2 THEN "hierarchical"
       ELSE "recursive"

\* The strategies by whether there are blocks, and the number of tables, pairs
\* and headings.
Selectable ==
    [key \in BOOLEAN \X (0..2) \X (0..3) \X (0..3) |->
        {Select(p, IF key[1] THEN key[2] ELSE 0, key[3], key[4]) :
            p \in {p \in Profiles : /\ (p.blocks > 0) = key[1]
                                   /\ p.blocks >= p.structured + (IF key[1] THEN key[2] ELSE 0)}}]

Key(lines, doc) ==
    <<doc.blocks # <<>>, Min({2, Len(Tables(doc))}), Min({3, Cardinality(Pairs(lines))}),
      Min({3, Cardinality(Numbers(lines, Headings))})>>

----------------------------------------------------------------------------
(* One document after another.                                             *)

ChunkInit == chunking = [kind |-> "none"]

\* A text, the lines of a document, or the sizes of the rows of a table arrive.
Receive ==
    /\ chunking.kind = "none"
    /\ \/ \E text \in Texts : chunking' = [kind |-> "text", text |-> text]
       \/ \E kinds \in DOMAIN Families : \E lines \in SeqOf(kinds, Families[kinds]) :
              chunking' = [kind |-> "document", lines |-> lines]
       \/ \E rows \in SeqOf(1..3, MaxRows) : chunking' = [kind |-> "rows", rows |-> rows]

SplitText ==
    /\ chunking.kind = "text"
    /\ \E size \in ChunkSizes, overlap \in Overlaps, code \in BOOLEAN :
        LET config == IF code THEN CodeConfigOf(size, overlap) ELSE ConfigOf(size, overlap)
        IN chunking' = [kind |-> "recursive", text |-> chunking.text, mute |-> {}, size |-> size,
                        code |-> code, config |-> config,
                        contents |-> Recursive(chunking.text, config)]

SplitSentences ==
    /\ chunking.kind = "text"
    /\ \E size \in ChunkSizes, overlap \in Overlaps :
       \E mute \in {{}} \cup {{i} : i \in DOMAIN chunking.text} :
        LET config == ConfigOf(size, overlap)
            chunks == SemanticChunks(chunking.text, mute, config)
        IN chunking' = [kind |-> "semantic", text |-> chunking.text, mute |-> mute,
                        config |-> config, chunks |-> chunks,
                        contents |-> [k \in DOMAIN chunks |-> chunks[k].content]]

PairLines ==
    /\ chunking.kind = "document"
    /\ chunking' = [kind |-> "pairs", lines |-> chunking.lines,
                    explicit |-> Detected(ExplicitLine, chunking.lines),
                    heading |-> Detected(HeadingLine, chunking.lines),
                    implicit |-> Implicit(chunking.lines)]

SplitLines ==
    /\ chunking.kind = "document"
    /\ \E doc \in {Unparsed} \cup ParsedDocs(chunking.lines) :
       \E strategy \in Selectable[Key(chunking.lines, doc)] :
        chunking' = [kind |-> "lines", lines |-> chunking.lines, blocks |-> doc.blocks,
                     strategy |-> strategy, zones |-> DocumentZones(chunking.lines, doc),
                     kept |-> Kept(strategy, chunking.lines, doc)]

SplitTable ==
    /\ chunking.kind = "rows"
    /\ \E header \in 1..2, size \in ChunkSizes :
        chunking' = [kind |-> "table", rows |-> chunking.rows, header |-> header,
                     target |-> TargetOf(size),
                     ranges |-> TableChunks(chunking.rows, header, TargetOf(size))]

ChunkNext ==
    Receive \/ SplitText \/ SplitSentences \/ PairLines \/ SplitLines \/ SplitTable
ChunkSpec == ChunkInit /\ [][ChunkNext]_chunking

----------------------------------------------------------------------------
(* Properties.                                                             *)

IsSplit == chunking.kind \in {"recursive", "semantic"}
Endless == \E k \in DOMAIN chunking.contents : 0 \in Range(chunking.contents[k])

\* The words of a text that no chunk holds.
AllWords ==
    IF chunking.kind = "semantic"
    THEN FlattenSeq(Sentences(chunking.text, chunking.mute)) ELSE Positions(chunking.text)
HeldWords ==
    SelectSeq(AllWords, LAMBDA i : \E k \in DOMAIN chunking.contents :
                                       i \in Range(chunking.contents[k]))
LostWords == Range(AllWords) \ Range(HeldWords)

\* The chunks of a text hold its words in order: each is a run of what they hold,
\* behind the one before it begins no later than that ends, and ends later.
\* The semantic chunker skips what unicode_sentences does: sentences without a
\* letter or a digit.  A word is lost only where a cut by tokens went through a
\* character: with the piece that begins or ends there.
ChunksCoverText ==
    IsSplit /\ ~Endless =>
        LET c == SelectSeq(chunking.contents, LAMBDA content : content # <<>>)
            held == HeldWords
            at(x) == CHOOSE i \in DOMAIN held : held[i] = x
            size == IF chunking.kind = "semantic" THEN chunking.config.max
                    ELSE chunking.config.target
        IN /\ \A k \in DOMAIN c : c[k] = SubSeq(held, at(Head(c[k])), at(Last(c[k])))
           /\ \A k \in 2..Len(c) : /\ at(Head(c[k])) <= at(Last(c[k - 1])) + 1
                                   /\ at(Last(c[k])) > at(Last(c[k - 1]))
           /\ \A i \in LostWords : \E t \in DOMAIN chunking.text :
                  chunking.text[t] = Torn /\ t - size < i /\ i <= t + size

\* How large a chunk can get: the target, or what was below min_chunk_size and
\* a part of max_tokens, and the overlap on top.
ChunkSizesBounded ==
    IsSplit =>
        LET config == chunking.config
            joined == IF chunking.kind = "semantic" THEN config.max
                      ELSE Max({config.min - 1, 0}) + config.max
        IN \A k \in DOMAIN chunking.contents :
               Len(chunking.contents[k]) <= Max({config.target, joined}) + config.overlap

\* "Maximum tokens allowed per chunk" (chunking/base.rs).
MaxTokensRespected ==
    IsSplit => \A k \in DOMAIN chunking.contents : Len(chunking.contents[k]) <= chunking.config.max

\* Chunking comes to an end, but for a code zone whose halved target is 0: a
\* job that asks for chunks of at most one token above the headroom.
ChunkingEnds ==
    IsSplit /\ Endless => chunking.kind = "recursive" /\ chunking.code
                              /\ chunking.size <= Headroom + 1

\* The spans of the semantic chunks begin where their own sentences do, as long
\* as no sentence before them was skipped and no piece was lost; the overlap lies
\* before the span.
SpansBeginInText ==
    chunking.kind = "semantic" /\ chunking.mute = {} =>
        \A k \in DOMAIN chunking.chunks :
            LET before == IF k = 1 THEN 0 ELSE Last(chunking.contents[k - 1])
            IN (\A j \in 1..k : chunking.contents[j] # <<>>) =>
                   chunking.chunks[k].start =
                       Width(chunking.text, SubSeq(Positions(chunking.text), 1, before))

\* An answer lies between its question and the next one of its pattern, it is
\* not empty, and no line answers two questions.
AnswersFollowQuestions ==
    chunking.kind = "pairs" =>
        \A pairs \in {chunking.explicit, chunking.heading, chunking.implicit} :
        \A p \in pairs :
            /\ p.answer # {} /\ \A i \in p.question, j \in p.answer : i < j
            /\ \A r \in pairs \ {p} :
                   /\ (p.question \cup p.answer) \cap (r.question \cup r.answer) = {}
                   /\ ~\E i \in r.question : Min(p.question) < i /\ i < Max(p.answer)
            /\ pairs = chunking.heading =>
                   \A i \in Numbers(chunking.lines, Headings) :
                       ~(Min(p.question) < i /\ i < Max(p.answer))

\* A line of text is in one zone; what a fence encloses is all in one code zone.
\* The zones of a parsed document hold its blocks, whole and in their order, and a
\* table is a zone of its own.
ZonesPartitionLines ==
    chunking.kind = "lines" =>
        LET z == chunking.zones
            b == chunking.blocks
            held(q) == FlattenSeq([k \in DOMAIN q |-> q[k].lines])
        IN IF b # <<>>
           THEN /\ held(z) = held(b)
                /\ {z[k].lines : k \in {k \in DOMAIN z : z[k].kind = "table"}}
                      = {b[k].lines : k \in {k \in DOMAIN b : b[k].type = "table"}}
           ELSE /\ held(z) = Positions(chunking.lines)
                /\ \A k \in DOMAIN z : \A i \in Range(z[k].lines) :
                       z[k].kind = "code" <=>
                           \/ chunking.lines[i] = "fence"
                           \/ Cardinality(Numbers(chunking.lines, {"fence"}) \cap (1..(i - 1))) % 2 = 1
                /\ \A k \in DOMAIN z : z[k].kind = "code" =>
                       Cardinality({i \in Range(z[k].lines) : chunking.lines[i] = "fence"}) <= 2

\* A line of prose is lost to no strategy but the tabular one, which it goes to
\* for a table, to the questions and answers, of which there are three, and to
\* the zones of a parsed document, if the parser made it part of no block.
ProseLostOnlyToPattern ==
    chunking.kind = "lines" =>
        \A i \in Numbers(chunking.lines, {"prose"}) \ chunking.kept :
            \/ chunking.strategy = "tabular" /\ Numbers(chunking.lines, {"bar"}) # {}
            \/ chunking.strategy = "qa" /\ Cardinality(Pairs(chunking.lines)) >= 3
            \/ /\ chunking.strategy = "mixed"
               /\ \/ \E z \in Range(chunking.zones) :
                        z.kind = "qa" /\ Cardinality(Pairs(LinesOf(chunking.lines, z))) >= 3
                  \/ /\ chunking.blocks # <<>>
                     /\ \A b \in Range(chunking.blocks) : i \notin Range(b.lines)

\* The ranges of the chunks of a table follow on one another and cover its
\* rows, and none is above the target unless it holds a single row.
TableRowsOnce ==
    chunking.kind = "table" =>
        LET r == chunking.ranges
            size(k) == SumFunction([i \in r[k][1]..r[k][2] |-> chunking.rows[i]])
        IN /\ (r = <<>>) = (chunking.rows = <<>>)
           /\ r # <<>> => r[1][1] = 1 /\ Last(r)[2] = Len(chunking.rows)
           /\ \A k \in DOMAIN r : r[k][1] <= r[k][2] /\ (k > 1 => r[k][1] = r[k - 1][2] + 1)
           /\ \A k \in DOMAIN r : r[k][1] < r[k][2] => chunking.header + size(k) <= chunking.target

\* Whatever strategy a document goes to, its text is in the chunks: every word of
\* a text but those whose piece was cut through a character, every line of a
\* document that no pattern discards and no parser left out, every row of a table.
ChunksHoldText ==
    ChunksCoverText /\ ZonesPartitionLines /\ ProseLostOnlyToPattern /\ TableRowsOnce

\* A chunker ends, but for the code zones of ChunkingEnds, with its text in chunks
\* that are no larger than it says, begin where they say, and pair a question with
\* its own answer.
ChunkingFaithful ==
    /\ ChunksHoldText
    /\ ChunkingEnds /\ ChunkSizesBounded /\ SpansBeginInText /\ AnswersFollowQuestions
=============================================================================
