---------------------------- MODULE DocumentText ----------------------------
(***************************************************************************)
(* The text pipeline of the processing worker: the pages of a file are     *)
(* extracted, scanned ones recognised, all cleaned, and their text cut     *)
(* into chunks by one of four strategies.                                  *)
(*                                                                         *)
(* A character is what the pipeline tells apart: a letter, the stop of a   *)
(* sentence, a blank, or noise, which the cleaner takes out (control       *)
(* characters, lines of boilerplate).  The parsers and the recognition     *)
(* read the characters of a page or none of them, or fail; LangChain's     *)
(* splitter cuts as its arguments allow.  Sizes are characters: the        *)
(* factors of four in the code are in the constants.  Offsets count from   *)
(* 0, as in the code.                                                      *)
(***************************************************************************)
EXTENDS Naturals, Sequences, SequencesExt

CONSTANTS
    Files,         \* sequences of pages: what is written on them, and whether it is a scan
    MaxPages,                                \* pages read of a PDF
    ChunkSize, ChunkOverlap,                 \* of the fixed and recursive strategies
    ParentSize, ChildSize, FamilyOverlap,    \* of parent_child
    MinGroup, MaxGroup                       \* of semantic

Strategies == {"fixed", "recursive", "semantic", "parent_child"}

\* What the loops need to get on.  The code does not check it: config.py allows
\* chunk_overlap = 512 with chunk_size = 64, and a child_chunk_size of 32, which
\* is the overlap of ParentChildChunker; they would loop for ever.
\* MaxGroup is not configured: SemanticChunker has 2000 for it, four times over.
ASSUME StepsAssumption ==
    /\ {MaxPages, ChunkSize, ChunkOverlap, ParentSize, ChildSize, FamilyOverlap, MinGroup, MaxGroup}
          \subseteq Nat
    /\ MaxGroup > 0
    /\ ChunkOverlap < ChunkSize
    /\ FamilyOverlap < ChildSize /\ FamilyOverlap < ParentSize

Glyphs == {"letter", "stop", "blank", "line", "noise"}

\* A file has pages, of any number and length.
ASSUME FilesAssumption == \A f \in Files : f \in Seq([written : Seq(Glyphs), scan : BOOLEAN])

VARIABLES
    file,        \* the file
    stage,       \* where _process_document is
    pages,       \* of each page its text and whether it needs OCR
    strategy,    \* that of the chunker at work
    full,        \* full_text: the merged pages
    offset,      \* where its loop is: start, parent_start, child_start or char_offset
    spans,       \* what is still to be divided: pages, groups of sentences or parents
    pieces       \* the chunks made so far

textVars == <<file, stage, pages, strategy, full, offset, spans, pieces>>

TextInit ==
    /\ file = <<>> /\ stage = "uploaded" /\ pages = <<>>
    /\ strategy = "fixed" /\ full = <<>> /\ offset = 0 /\ spans = <<>> /\ pieces = <<>>

\* The positions of a set, up to n, in their order; and what stands on them.
InOrder(set, n) ==
    LET upto[i \in 0..n] ==
            IF i = 0 THEN <<>> ELSE IF i \in set THEN Append(upto[i - 1], i) ELSE upto[i - 1]
    IN upto[n]
Kept(seq, set) == LET places == InOrder(set, Len(seq)) IN [k \in DOMAIN places |-> seq[places[k]]]

\* The sums of the first numbers of a sequence.
Sums(nums) ==
    LET sum[i \in 0..Len(nums)] == IF i = 0 THEN 0 ELSE sum[i - 1] + nums[i]
    IN sum

Visible(glyph) == glyph \in {"letter", "stop"}
Blankish(txt) == \A i \in DOMAIN txt : ~Visible(txt[i])

---------------------------------------------------------------------------
(* Extraction.  Each operator gives the pages an extractor may return.     *)

Page(txt) == [text |-> txt, needs_ocr |-> FALSE]
Scan == [text |-> <<>>, needs_ocr |-> TRUE]

\* Two engines: Azure's errors lead on to Tesseract, whose errors, like OCR that
\* is switched off, leave the page empty.
Azure(written) == {written}
Tesseract(written) == {written, <<>>}
Recognised(written) == Azure(written) \union Tesseract(written)

\* PyMuPDF flags a page without text for OCR.  pdfplumber, which stands in for
\* it, does not.
Read(f) == SubSeq(f, 1, IF Len(f) < MaxPages THEN Len(f) ELSE MaxPages)
PyMuPdf(f) ==
    [i \in DOMAIN f |-> IF f[i].scan \/ Blankish(f[i].written) THEN Scan ELSE Page(f[i].written)]
PdfPlumber(f) == [i \in DOMAIN f |-> Page(IF f[i].scan THEN <<>> ELSE f[i].written)]
Pdf(f) == {PyMuPdf(Read(f)), PdfPlumber(Read(f))}

\* The paragraphs of a document, the rows of a table, the text of a page or a
\* file are one page; each sheet of a workbook is one.
Written(f) == FlattenSeq([i \in DOMAIN f |-> f[i].written])
Docx(f)  == {<<Page(Written(f))>>}
Csv(f)   == {<<Page(Written(f))>>}
Html(f)  == {<<Page(Written(f))>>}
Plain(f) == {<<Page(Written(f))>>}
Excel(f) == {[i \in DOMAIN f |-> Page(f[i].written)]}

\* An image is recognised at once.
Image(f) == {<<Page(txt)>> : txt \in Recognised(Written(f))}

\* By MIME type, or else by the suffix of the name: a file is one of these.
Extracted(f) ==
    Pdf(f) \union (IF \E i \in DOMAIN f : f[i].scan THEN Image(f)
                   ELSE UNION {Docx(f), Csv(f), Html(f), Plain(f), Excel(f)})

\* The file is downloaded and read.  An error of either, or a type that no
\* extractor knows, ends the processing.
Extraction ==
    /\ stage = "uploaded"
    /\ \/ \E f \in Files :
             /\ file' = f
             /\ pages' \in Extracted(f)
          /\ stage' = "extracted"
       \/ stage' = "failed" /\ UNCHANGED <<file, pages>>
    /\ UNCHANGED <<strategy, full, offset, spans, pieces>>

\* A flagged page is rendered and recognised; if that fails it stays as it is.
Reread(i) ==
    {pages[i]} \union
    (IF pages[i].needs_ocr THEN {Page(txt) : txt \in Recognised(file[i].written)} ELSE {})

\* The results are put back by the numbers of their pages.
Recognition ==
    /\ stage = "extracted"
    /\ pages' \in {ps \in [DOMAIN pages -> UNION {Reread(i) : i \in DOMAIN pages}] :
                      \A i \in DOMAIN pages : ps[i] \in Reread(i)}
    /\ stage' = "read"
    /\ UNCHANGED <<file, strategy, full, offset, spans, pieces>>

---------------------------------------------------------------------------
(* Cleaning: each page by itself.                                         *)

\* Noise goes: control characters, lines of boilerplate, the hyphens and line
\* ends within a word.
Without(txt) == Kept(txt, {i \in DOMAIN txt : txt[i] # "noise"})

\* At most n of a glyph in a row.
AtMost(n, glyph, txt) == Kept(txt, {i \in DOMAIN txt : i <= n \/ \E j \in (i - n)..i : txt[j] # glyph})

\* No blank before the end of a line, once blanks in a row have become one.
Trimmed(txt) == Kept(txt, {i \in DOMAIN txt : i = Len(txt) \/ txt[i] # "blank" \/ txt[i + 1] # "line"})

Stripped(txt) ==
    LET ink == {i \in DOMAIN txt : Visible(txt[i])}
    IN IF ink = {} THEN <<>>
       ELSE SubSeq(txt, CHOOSE i \in ink : \A j \in ink : i <= j, CHOOSE i \in ink : \A j \in ink : j <= i)

Clean(txt) == Stripped(Trimmed(AtMost(1, "blank", AtMost(2, "line", Without(txt)))))

Cleaning ==
    /\ stage = "read"
    /\ pages' = [i \in DOMAIN pages |-> [pages[i] EXCEPT !.text = Clean(pages[i].text)]]
    /\ stage' = "cleaned"
    /\ UNCHANGED <<file, strategy, full, offset, spans, pieces>>

---------------------------------------------------------------------------
(* Chunking.                                                               *)

\* _merge_pages: the pages that have text, with an empty line between them; here
\* what has come together after each page.
MergedUpto(ps) ==
    LET upto[i \in 0..Len(ps)] ==
            IF i = 0 THEN <<>>
            ELSE IF ps[i].text = <<>> THEN upto[i - 1]
            ELSE IF upto[i - 1] = <<>> THEN ps[i].text
            ELSE upto[i - 1] \o <<"line", "line">> \o ps[i].text
    IN upto
Merged(ps) == MergedUpto(ps)[Len(ps)]

\* Mutant: the line ends between the pages are not counted.
PageOf_Apart(at) ==
    LET ends == Sums([i \in DOMAIN pages |-> Len(pages[i].text)])
        found == {i \in DOMAIN pages : ends[i] >= at}
    IN IF found = {} THEN 0 ELSE CHOOSE i \in found : \A j \in found : i <= j

\* _find_page_for_offset.  It counts the empty pages too, and takes the first
\* position of a page for the last of the one before.
PageOf(at) ==
    LET ends == Sums([i \in DOMAIN pages |-> Len(pages[i].text) + 2])
        found == {i \in DOMAIN pages : ends[i] >= at}
    IN IF found = {} THEN 0 ELSE CHOOSE i \in found : \A j \in found : i <= j

Piece(kind, from, to, page) == [kind |-> kind, from |-> from, to |-> to, page |-> page]
Least(m, n) == IF m <= n THEN m ELSE n

\* A chunk, unless the text from there to there is blank.
Cut(txt, kind, from, to, page) ==
    IF Blankish(SubSeq(txt, from + 1, to)) THEN pieces ELSE Append(pieces, Piece(kind, from, to, page))

\* Sentences end at a stop that a blank follows.
Sentences(txt) ==
    LET ends == InOrder({i \in DOMAIN txt : i = Len(txt) \/ (txt[i] = "stop" /\ ~Visible(txt[i + 1]))}, Len(txt))
        from == [k \in DOMAIN ends |-> IF k = 1 THEN 1 ELSE ends[k - 1] + 1]
        all == [k \in DOMAIN ends |-> Stripped(SubSeq(txt, from[k], ends[k]))]
    IN Kept(all, {k \in DOMAIN all : all[k] # <<>>})

\* The groups between the breakpoints: " ".join of the sentences, of which the
\* length is all that counts.
Groups(sentences, breakpoints) ==
    LET starts == InOrder({1} \union breakpoints, Len(sentences))
        upto == [k \in DOMAIN starts |-> IF k = Len(starts) THEN Len(sentences) ELSE starts[k + 1] - 1]
        ends == Sums([k \in DOMAIN sentences |-> Len(sentences[k]) + 1])
    IN [k \in DOMAIN starts |-> [page |-> 0, from |-> 0, to |-> ends[upto[k]] - ends[starts[k] - 1] - 1]]

\* A group starts where two neighbouring sentences are not alike: any of their
\* cosine similarities may be below the threshold.
Breakpoints(sentences) == SUBSET (2..Len(sentences))

\* What there is to divide at once: the pages, or the groups.
Divided(chosen) ==
    LET texts == Kept([i \in DOMAIN pages |-> [page |-> i, from |-> 0, to |-> Len(pages[i].text)]],
                      {i \in DOMAIN pages : pages[i].text # <<>>})
        sentences == Sentences(Merged(pages))
    IN CASE chosen = "recursive" -> {texts}
         [] chosen = "semantic"  -> IF sentences = <<>> THEN {<<>>}
                                    ELSE {Groups(sentences, b) : b \in Breakpoints(sentences)}
         [] OTHER -> {<<>>}

\* Without LangChain's splitter the recursive chunker leaves the text to the fixed
\* one; without numpy or its model the semantic chunker leaves it to a recursive one, whose
\* sizes are the defaults.
FromRecursive == {"recursive", "fixed"}
FromSemantic == {"semantic"} \union FromRecursive

\* The chunkers that a configured strategy may come down to.
Chunkers(configured) ==
    CASE configured = "semantic"  -> FromSemantic
      [] configured = "recursive" -> FromRecursive
      [] OTHER -> {configured}

\* The chunker begins.
Chunking ==
    /\ stage = "cleaned"
    /\ \E configured \in Strategies : \E chosen \in Chunkers(configured) :
          /\ strategy' = chosen
          /\ full' = Merged(pages)
          /\ spans' \in Divided(chosen)
          /\ stage' = IF chosen \in {"fixed", "parent_child"} THEN "chunking" ELSE "dividing"
    /\ UNCHANGED <<file, pages, offset, pieces>>

\* Mutant: the next chunk begins the overlap after the end of this one.
FixedTurn_Skips ==
    /\ stage = "chunking" /\ strategy = "fixed" /\ offset < Len(full)
    /\ LET end == Least(offset + ChunkSize, Len(full))
       IN /\ pieces' = Cut(full, "chunk", offset, end, PageOf(offset))
          /\ offset' = IF end < Len(full) THEN end + ChunkOverlap ELSE Len(full)
    /\ UNCHANGED <<file, stage, pages, strategy, full, spans>>

\* One turn of FixedChunker.
FixedTurn ==
    /\ stage = "chunking" /\ strategy = "fixed" /\ offset < Len(full)
    /\ LET end == Least(offset + ChunkSize, Len(full))
       IN /\ pieces' = Cut(full, "chunk", offset, end, PageOf(offset))
          /\ offset' = IF end < Len(full) THEN end - ChunkOverlap ELSE Len(full)
    /\ UNCHANGED <<file, stage, pages, strategy, full, spans>>

\* One turn of the first loop of ParentChildChunker.
ParentTurn ==
    /\ stage = "chunking" /\ strategy = "parent_child" /\ offset < Len(full)
    /\ LET end == Least(offset + ParentSize, Len(full))
       IN /\ pieces' = Cut(full, "parent", offset, end, PageOf(offset))
          /\ spans' = IF pieces' = pieces THEN spans ELSE Append(spans, [page |-> 0, from |-> offset, to |-> end])
    /\ offset' = offset + (ParentSize - FamilyOverlap)
    /\ UNCHANGED <<file, stage, pages, strategy, full>>

\* The text is at its end; the parents are divided next.
TextAtEnd ==
    /\ stage = "chunking" /\ offset >= Len(full)
    /\ stage' = "dividing"
    /\ offset' = IF spans = <<>> THEN 0 ELSE spans[1].from
    /\ UNCHANGED <<file, pages, strategy, full, spans, pieces>>

\* A child of the first parent.
ChildTurn ==
    /\ stage = "dividing" /\ strategy = "parent_child" /\ spans # <<>> /\ offset < spans[1].to
    /\ pieces' = Cut(full, "child", offset, Least(offset + ChildSize, spans[1].to), PageOf(offset))
    /\ offset' = offset + (ChildSize - FamilyOverlap)
    /\ UNCHANGED <<file, stage, pages, strategy, full, spans>>

\* LangChain's splitter cuts the first page: at most ChunkSize characters, of
\* which at most ChunkOverlap are those of the chunk before.
SplitTurn ==
    /\ stage = "dividing" /\ strategy = "recursive" /\ spans # <<>> /\ offset < spans[1].to
    /\ \E end \in (offset + 1)..Least(offset + ChunkSize, spans[1].to) :
          /\ pieces' = Cut(pages[spans[1].page].text, "chunk", offset, end, spans[1].page)
          /\ offset' \in IF end = spans[1].to THEN {end}
                         ELSE {next \in (offset + 1)..end : end - next <= ChunkOverlap}
    /\ UNCHANGED <<file, stage, pages, strategy, full, spans>>

\* The next page, or the next parent.
NextSpan ==
    /\ stage = "dividing" /\ strategy \in {"recursive", "parent_child"}
    /\ spans # <<>> /\ offset >= spans[1].to
    /\ spans' = Tail(spans)
    /\ offset' = IF spans' = <<>> THEN 0 ELSE spans'[1].from
    /\ UNCHANGED <<file, stage, pages, strategy, full, pieces>>

\* A group of sentences: one that is too short is left out, one that is too long
\* cut off.
GroupTurn ==
    /\ stage = "dividing" /\ strategy = "semantic" /\ spans # <<>>
    /\ LET size == spans[1].to
           kept == Least(size, MaxGroup)
       IN IF size < MinGroup
          THEN offset' = offset + size + 1 /\ UNCHANGED pieces
          ELSE /\ pieces' = Append(pieces, Piece("chunk", offset, offset + kept, PageOf(offset)))
               /\ offset' = offset + kept + 1
    /\ spans' = Tail(spans)
    /\ UNCHANGED <<file, stage, pages, strategy, full>>

\* All is divided.
Chunked ==
    /\ stage = "dividing" /\ spans = <<>>
    /\ stage' = "chunked"
    /\ UNCHANGED <<file, pages, strategy, full, offset, spans, pieces>>

Turn == FixedTurn \/ ParentTurn \/ TextAtEnd \/ ChildTurn \/ SplitTurn \/ NextSpan \/ GroupTurn \/ Chunked

TextNext == Extraction \/ Recognition \/ Cleaning \/ Chunking \/ Turn

---------------------------------------------------------------------------
(* What must hold.                                                         *)

TextTypeOK ==
    /\ stage \in {"uploaded", "extracted", "read", "cleaned", "chunking", "dividing", "chunked", "failed"}
    /\ \A i \in DOMAIN pages : pages[i].text \in Seq(Glyphs) /\ pages[i].needs_ocr \in BOOLEAN
    /\ strategy \in Strategies
    /\ offset \in Nat
    /\ \A k \in DOMAIN spans : spans[k].from \in 0..spans[k].to /\ spans[k].page \in 0..Len(pages)
    /\ \A k \in DOMAIN pieces : pieces[k].from \in 0..(pieces[k].to - 1) /\ pieces[k].page \in 0..Len(pages)

\* The page that the i-th character of the merged text is on.
TruePage(i) ==
    CHOOSE p \in DOMAIN pages :
        /\ Len(MergedUpto(pages)[p]) >= i
        /\ \A q \in 1..(p - 1) : Len(MergedUpto(pages)[q]) < i

\* Every visible character of a chunked text is in a chunk that search can find:
\* with parent_child in a child, as the parents are only read along.
NothingLeftOut ==
    stage = "chunked" /\ strategy # "semantic" =>
        LET found == {k \in DOMAIN pieces : pieces[k].kind # "parent"}
            Holds(k, i) == pieces[k].from < i /\ i <= pieces[k].to
        IN IF strategy = "recursive"
           THEN \A p \in DOMAIN pages : \A i \in DOMAIN pages[p].text :
                    Visible(pages[p].text[i]) => \E k \in found : pieces[k].page = p /\ Holds(k, i)
           ELSE \A i \in DOMAIN full : Visible(full[i]) => \E k \in found : Holds(k, i)

\* The page of a chunk, which a citation shows, is never after its text, and
\* there is one.
PageNotLate ==
    strategy \in {"fixed", "parent_child"} =>
        \A k \in DOMAIN pieces :
            /\ pieces[k].page # 0
            /\ \A i \in (pieces[k].from + 1)..pieces[k].to :
                   Visible(full[i]) => pieces[k].page <= TruePage(i)

\* Types; chunks hold the text, and name no page that comes after it.
TextIsChunked == TextTypeOK /\ NothingLeftOut /\ PageNotLate

\* Chunking comes to an end.
ChunkingEnds == stage \in {"chunking", "dividing"} ~> stage = "chunked"

=============================================================================
