--------------------------- MODULE AuditIngestProps ---------------------------
(***************************************************************************)
(* The properties of the fetcher and of the audit's records: that words    *)
(* and times survive the way from the captions to a record, and that what  *)
(* was fetched and what was read is found where it should be.              *)
(***************************************************************************)
EXTENDS AuditIngest, RemoteSource

Document ==
  [of : 0 .. Meetings, kind : Kind \cup {None}, label : Kind \cup {None}, whole : BOOLEAN]

RunType ==
  [phase : {"idle", "download", "write"}, file : [Meeting -> Path \cup {None}],
   todo : SUBSET Meeting,
   attempt : Nat \ {0},
   got : Document,
   changed : BOOLEAN]

Passage(p) ==
  /\ p.file \in Path /\ p.video \in Meeting /\ p.start \in Nat \ {0}
  /\ p.lines \in Seq(Line) /\ p.lines # <<>>

TypeOK ==
  /\ said \in Speeches
  /\ catalog \in [Meeting -> Path \cup {None}]
  /\ docs \in [Path -> Document]
  /\ raw \subseteq Meeting /\ fetch \in RunType
  /\ fetch.todo # {} => fetch.attempt <= Len(Attempts(First(fetch.todo)))
  /\ incidents \in 0 .. MaxIncidents
  /\ \A r \in ToSet(records) \ {Broken} : Passage(r)
  /\ torn \in BOOLEAN /\ \A p \in dead : Passage(p)
  /\ \A j \in Job :
       /\ job[j].phase \in {"idle", "reading"} /\ job[j].limit \in Limits
       /\ \A p \in job[j].known \cup ToSet(job[j].buffer) : Passage(p)

(* The words of a transcript, in order.                                    *)
Words(doc) == FlattenSeq([i \in DOMAIN Text(doc) |-> Text(doc)[i].lines])

(* What was said, without what repeats the line before it.                 *)
Unrepeated(lines) ==
  LET kept[i \in 0 .. Len(lines)] ==
        IF i = 0 THEN <<>>
        ELSE IF i > 1 /\ lines[i] = lines[i - 1] THEN kept[i - 1]
        ELSE Append(kept[i - 1], lines[i])
  IN kept[Len(lines)]

(* The link of a record opens the video where its first words are spoken,  *)
(* however lines were merged into paragraphs and paragraphs into passages. *)
TimedWhereSpoken(r) ==
  \E k \in {"auto", "manual"} :
    LET cues == Cues(r.video, k)
        spoken == (r.start + 1) \div 2
    IN /\ r.start \in DOMAIN cues /\ Last(cues[r.start]) = r.lines[1]
       /\ k = "auto" => r.lines = SubSeq(said[r.video], spoken, spoken + Len(r.lines) - 1)

(* What fetch_transcripts.py writes into every transcript: "Wording is     *)
(* unchanged from the captions" (PROCESSING_NOTE), and of emitted_lines    *)
(* that it "keeps genuinely repeated short lines".  The code does not keep *)
(* to it: captions that show a line once, and say it twice in two cues,    *)
(* lose the second (caption_wording).                                      *)
WordingIsUnchanged ==
  \A p \in Path : docs[p].whole => Words(docs[p]) = said[docs[p].of]

(* What the code does keep.  Of rolling captions a transcript has every    *)
(* line once, repeated lines included; of captions that show a line once   *)
(* it lacks what WordingIsUnchanged says it has, the lines that repeat the *)
(* one before, and no other word (emitted_lines, paragraphs).  And every   *)
(* record is timed where its words were spoken.                            *)
RecordsFaithful ==
  /\ \A r \in ToSet(records) \ {Broken} : TimedWhereSpoken(r)
  /\ \A p \in Path :
       LET doc == docs[p]
       IN doc.whole =>
            Words(doc) = IF doc.kind = "auto" THEN said[doc.of] ELSE Unrepeated(said[doc.of])

(* A meeting's file holds that meeting's words, also when the city posted  *)
(* two videos of one body on one day: expected_file keeps them apart       *)
(* (target_file, fetch_pending).  And between two runs every transcript in *)
(* the archive is in the catalogue, unless a run died: the catalogue is    *)
(* written once, after all of them.                                        *)
CatalogTrue ==
  /\ TypeOK
  /\ \A m \in Meeting : HasFile(catalog, m) => docs[catalog[m]].of = m
  /\ fetch.phase = "idle" /\ incidents = 0 =>
       \A p \in Path : docs[p] # NoDoc => catalog[docs[p].of] = p

(* A run has ended by itself, having read all of an archive that did not   *)
(* change meanwhile.                                                       *)
Completed(j) ==
  /\ job[j].phase = "reading" /\ job'[j].phase = "idle" /\ incidents' = incidents
  /\ ~job[j].full /\ ~job[j].moved

(* A reading of a remote data set that came to its end, where no row      *)
(* before the offset was removed meanwhile, leaves the text of every row   *)
(* that stayed as it was in the records, and a rebuild no text that was    *)
(* not published meanwhile.                                                *)
RowsKept ==
  pull.phase = "read" /\ pull'.phase = "idle" /\ ~pull.full =>
    /\ ~pull.shifted => {published[r] : r \in pull.steady} \ {""} \subseteq indexed'
    /\ pull.mode = "rebuild" => indexed' \subseteq pull.shown

(* Zero loss: a completed run leaves every passage of the archive in the   *)
(* file or among the dead letters, and a rebuild leaves nothing else in    *)
(* the file.  Excepted are an append to a file without a line end, whose   *)
(* first line is lost with the one it continues, and an append during      *)
(* which the file was replaced.  And no record is in the file twice,       *)
(* whatever the runs before left there and whichever of them overlap.  The *)
(* rows of remote data sets are kept in the same way (RowsKept).           *)
NothingLost ==
  [][/\ RowsKept
     /\ \A i, k \in DOMAIN records' : records'[i] = records'[k] /\ records'[i] # Broken => i = k
     /\ \A j \in Job : Completed(j) =>
          LET kept == ToSet(records') \ {Broken}
              archive == ArchivePassages(job[j].file)
          IN /\ ~job[j].detached /\ ~job[j].glued => archive \subseteq kept \cup dead'
             /\ job[j].mode = "rebuild" =>
                  kept \subseteq archive /\ Broken \notin ToSet(records')]_<<vars, remoteVars>>
=============================================================================
