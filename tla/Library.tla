------------------------------ MODULE Library -------------------------------
(* DocumentProcessingPipeline's preparation of a document it could parse:     *)
(* cleaning, sections and chunks.  A line has a text, a length, what it ends  *)
(* with ("stop" . ! ?, "colon" : ;, else "open") and a kind ("plain", "known" *)
(* and "upper" are headings when alone, "number" is a page number); it holds  *)
(* at most the end of one sentence.  A block has a page, None without, and is *)
(* a heading when its level is not 0.                                         *)
EXTENDS Python, Integers, Sequences, SequencesExt, FiniteSets, TLC

CONSTANTS ChunkLimit   \* the pipeline's max_chunk_chars

MaxHeading == 80

Pages(blocks) == {blocks[i].page : i \in DOMAIN blocks} \ {None}

LinesOf(blocks, page) ==
    FlattenSeq([i \in DOMAIN blocks |-> IF blocks[i].page = page
                                        THEN blocks[i].lines ELSE <<>>])

EdgeTexts(lines) ==
    IF lines = <<>> THEN {} ELSE {Head(lines).text, Last(lines).text}

\* The texts that open or close more than one page: headers and footers.
Repeated(blocks) ==
    LET edges == [p \in Pages(blocks) |-> EdgeTexts(LinesOf(blocks, p))]
    IN  {t \in UNION Range(edges) :
            Cardinality({p \in Pages(blocks) : t \in edges[p]}) > 1}

KeptLines(blocks, block) ==
    LET repeated == Repeated(blocks)
    IN  Only(block.lines, {i \in DOMAIN block.lines :
                              /\ block.lines[i].text \notin repeated
                              /\ block.lines[i].kind # "number"})

\* A line goes on with the next until one ends with punctuation.
Paragraph(line) == [texts |-> <<line.text>>, length |-> line.length,
                    ends |-> line.ends, kind |-> line.kind]

Continued(paragraph, line) ==
    [texts |-> Append(paragraph.texts, line.text),
     length |-> paragraph.length + 1 + line.length, ends |-> line.ends,
     kind |-> IF paragraph.kind = "upper" /\ line.kind = "upper"
              THEN "upper" ELSE "plain"]

JoinLine(paragraphs, line) ==
    IF paragraphs = <<>> THEN <<Paragraph(line)>>
    ELSE IF Last(paragraphs).ends # "open"
    THEN Append(paragraphs, Paragraph(line))
    ELSE [paragraphs EXCEPT ![Len(paragraphs)] = Continued(@, line)]

Joined(lines) == FoldLeft(JoinLine, <<>>, lines)

Cleaned(blocks) ==
    LET cleaned == [i \in DOMAIN blocks |->
                       [level |-> blocks[i].level,
                        paragraphs |-> Joined(KeptLines(blocks, blocks[i]))]]
    IN  Only(cleaned, {i \in DOMAIN cleaned : cleaned[i].paragraphs # <<>>})

IsHeading(p) == p.kind \in {"known", "upper"} /\ p.length <= MaxHeading

\* A section is what stands between two headings, without them.
NewSection(sections) ==
    IF Last(sections) = <<>> THEN sections ELSE Append(sections, <<>>)

AddParagraph(sections, p) ==
    IF IsHeading(p) THEN NewSection(sections)
    ELSE [sections EXCEPT ![Len(sections)] = Append(@, p)]

AddBlock(sections, b) ==
    IF b.level # 0 THEN NewSection(sections)
    ELSE FoldLeft(AddParagraph, sections, b.paragraphs)

Sections(cleaned) ==
    LET all == FoldLeft(AddBlock, <<<<>>>>, cleaned)
    IN  Only(all, {i \in DOMAIN all : all[i] # <<>>})

\* A sentence ends with a full stop, not with a colon.
JoinParagraph(sentences, p) ==
    IF sentences = <<>> THEN <<p>>
    ELSE IF Last(sentences).ends = "stop" THEN Append(sentences, p)
    ELSE [sentences EXCEPT ![Len(sentences)] =
            [texts |-> @.texts \o p.texts, ends |-> p.ends,
             length |-> @.length + 1 + p.length, kind |-> "plain"]]

Sentences(section) == FoldLeft(JoinParagraph, <<>>, section)

\* A sentence longer than a chunk is cut; its texts go with its first piece.
Pieces(u) ==
    [i \in 1..((u.length + ChunkLimit - 1) \div ChunkLimit) |->
        [texts |-> IF i = 1 THEN u.texts ELSE <<>>,
         length |-> IF i * ChunkLimit <= u.length THEN ChunkLimit
                    ELSE u.length % ChunkLimit]]

\* Mutant: the space between two sentences is not counted.
FillTight(chunks, piece) ==
    IF chunks # <<>> /\ (chunks # <<>> =>
                            Last(chunks).length + piece.length <= ChunkLimit)
    THEN [chunks EXCEPT ![Len(chunks)] =
            [texts |-> @.texts \o piece.texts,
             length |-> @.length + 1 + piece.length]]
    ELSE Append(chunks, piece)

\* A piece joins the last chunk while there is room for it and a space.
Fill(chunks, piece) ==
    IF chunks # <<>> /\ (chunks # <<>> =>
                            Last(chunks).length + 1 + piece.length <= ChunkLimit)
    THEN [chunks EXCEPT ![Len(chunks)] =
            [texts |-> @.texts \o piece.texts,
             length |-> @.length + 1 + piece.length]]
    ELSE Append(chunks, piece)

SplitText(section) ==
    LET sentences == Sentences(section)
    IN  FoldLeft(Fill, <<>>, FlattenSeq([i \in DOMAIN sentences |->
                                            Pieces(sentences[i])]))

Chunks(blocks) ==
    LET sections == Sections(Cleaned(blocks))
    IN  FlattenSeq([i \in DOMAIN sections |->
            LET texts == SplitText(sections[i])
            IN  [j \in DOMAIN texts |->
                    [section |-> i, texts |-> texts[j].texts,
                     length |-> texts[j].length]]])

-----------------------------------------------------------------------------
(* KnowledgeRegistry and DocumentProcessingPipeline for one knowledge base:   *)
(* versions of documents go from draft to published to archived, and what was *)
(* uploaded for a version is prepared once.  The two do not know each other.  *)

CONSTANTS
    Documents,
    VersionIds,    \* the ids callers give to versions
    Contents,      \* what may be uploaded; a checksum is its content
    Declared,      \* [Contents -> the format its uploader says it has]
    Raw,           \* [Contents -> [format, blocks]], blocks None if unreadable
    MaxVersions    \* bound on the versions of a document

ASSUME LimitAssumption == ChunkLimit \in Nat \ {0} /\ MaxVersions \in Nat

\* A content is read as a list of blocks of lines; no line is empty.
ASSUME ContentAssumption ==
    \A c \in Contents : Raw[c].blocks # None =>
        /\ Raw[c].blocks \in Seq(Range(Raw[c].blocks))
        /\ \A b \in Range(Raw[c].blocks) :
              /\ b.lines \in Seq(Range(b.lines))
              /\ \A l \in Range(b.lines) : l.length \in Nat \ {0}

VARIABLES
    library,     \* the registry: the versions of every document, oldest first
    checksums,   \* the pipeline's checksums
    snapshots    \* the pipeline's snapshots, by document and version

libraryVars == <<library, checksums, snapshots>>

InitLibrary ==
    /\ library = [d \in Documents |-> <<>>]
    /\ checksums = {}
    /\ snapshots = <<>>

VersionIdsUsed ==
    UNION {{library[d][n].id : n \in DOMAIN library[d]} : d \in Documents}

\* add_document_version: the next version, of an id the base does not have.
AddVersion(d, id, content) ==
    /\ Len(library[d]) < MaxVersions
    /\ id \notin VersionIdsUsed
    /\ library' = [library EXCEPT ![d] =
            Append(@, [id |-> id, status |-> "draft", checksum |-> content,
                       format |-> Declared[content]])]
    /\ UNCHANGED <<checksums, snapshots>>

\* Mutant: the version published before stays published.
PublishedTwice(versions, n) == [versions EXCEPT ![n].status = "published"]

\* Publishing a version archives the one published before.
Published(versions, n) ==
    [i \in DOMAIN versions |->
        IF i = n THEN [versions[i] EXCEPT !.status = "published"]
        ELSE IF versions[i].status = "published"
        THEN [versions[i] EXCEPT !.status = "archived"] ELSE versions[i]]

Publish(d, n) ==
    /\ n \in DOMAIN library[d]
    /\ library[d][n].status = "draft"
    /\ library' = [library EXCEPT ![d] = Published(@, n)]
    /\ UNCHANGED <<checksums, snapshots>>

ArchiveVersion(d, n) ==
    /\ n \in DOMAIN library[d]
    /\ library[d][n].status = "published"
    /\ library' = [library EXCEPT ![d][n].status = "archived"]
    /\ UNCHANGED <<checksums, snapshots>>

\* The chunks of whatever may be uploaded, None if it cannot be read.
Prepared ==
    [c \in Contents |-> IF Raw[c].blocks = None THEN None
                        ELSE Chunks(Raw[c].blocks)]

\* None is no reason.
ASSUME FailureAssumption ==
    None \notin {"checksum_mismatch", "duplicate_version", "duplicate_upload",
                 "format_mismatch", "corrupt_document", "no_extractable_text"}

\* Why an upload is refused, in the order it is looked at; None if it is not.
ProcessingFailure(d, n, upload) ==
    LET document == library[d][n]
    IN  CASE upload # document.checksum -> "checksum_mismatch"
          [] <<d, n>> \in DOMAIN snapshots -> "duplicate_version"
          [] OTHER ->
               IF document.checksum \in checksums THEN "duplicate_upload"
               ELSE IF Raw[upload].format # document.format THEN "format_mismatch"
               ELSE IF Prepared[upload] = None THEN "corrupt_document"
               ELSE IF Prepared[upload] = <<>> THEN "no_extractable_text" ELSE None

\* process: a snapshot, whatever the status of the version; a failure keeps
\* nothing.
Process(d, n, upload) ==
    /\ n \in DOMAIN library[d]
    /\ ProcessingFailure(d, n, upload) = None
    /\ checksums' = checksums \cup {upload}
    /\ snapshots' = [p \in DOMAIN snapshots \cup {<<d, n>>} |->
            IF p = <<d, n>>
            THEN [id |-> library[d][n].id, checksum |-> upload,
                  chunks |-> Prepared[upload]]
            ELSE snapshots[p]]
    /\ UNCHANGED library

LibraryNext ==
    \/ \E d \in Documents, id \in VersionIds, c \in Contents : AddVersion(d, id, c)
    \/ \E d \in Documents, n \in 1..MaxVersions :
          \/ Publish(d, n)
          \/ ArchiveVersion(d, n)
          \/ \E c \in Contents : Process(d, n, c)
=============================================================================
