----------------------------- MODULE AuditIngest -----------------------------
(***************************************************************************)
(* The way of a transcript into the audit's records: the fetcher           *)
(* (TranscriptFetch) keeps the archive, audit/audit_ingest_node.py reads   *)
(* it passage by passage and writes one JSON line for each.                *)
(*                                                                         *)
(* Two processes write the records: the command line ("cli"), appending to *)
(* the file or rebuilding it, and the dashboard's "Build index" button     *)
(* ("ui"), which rebuilds it.  The archive may change while they read.     *)
(***************************************************************************)
EXTENDS TranscriptFetch

CONSTANTS
  ChunkChars,  \* chunk_chars: how long a passage grows
  Limits       \* the values of --max-records; 0 is no limit

ASSUME IngestConstants == ChunkChars \in Nat \ {0} /\ Limits \subseteq Nat /\ 0 \in Limits

VARIABLES
  records,  \* the lines of the output file
  torn,     \* whether its last line has no line end
  dead,     \* the passages in the dead-letter file
  job       \* the processes

vars == <<said, catalog, docs, raw, fetch, incidents, records, torn, dead, job>>

Job == {"cli", "ui"}

(* A line json.loads rejects.                                              *)
Broken == [file |-> None, video |-> 0, start |-> 0, lines |-> <<>>]

-------------------------------------------------------------------------------
(* iter_transcripts: the paragraphs of a transcript, merged until they are *)
(* long enough; each passage has the time its first paragraph has.         *)
Size(lines) == Chars(lines) + 1

WithParagraph(acc, p) ==
  LET grown == IF acc.open = <<>> THEN <<[start |-> p.start, lines |-> p.lines]>>
               ELSE <<[acc.open[1] EXCEPT !.lines = @ \o p.lines]>>
      size == acc.size + Size(p.lines)
  IN IF size >= ChunkChars
     THEN [out |-> acc.out \o grown, open |-> <<>>, size |-> 0]
     ELSE [out |-> acc.out, open |-> grown, size |-> size]

Merged(paras) ==
  LET after[i \in 0 .. Len(paras)] ==
        IF i = 0 THEN [out |-> <<>>, open |-> <<>>, size |-> 0]
        ELSE WithParagraph(after[i - 1], paras[i])
      end == after[Len(paras)]
  IN end.out \o end.open

(* What record_id is the hash of: the source (file, video, time) and the   *)
(* text.                                                                   *)
Passages(m, file) ==
  LET merged == Merged(Text(docs[file]))
  IN [i \in DOMAIN merged |->
        [file |-> file, video |-> m, start |-> merged[i].start, lines |-> merged[i].lines]]

(* The passages of the archive as it is.                                   *)
ArchivePassages(cat) ==
  UNION {ToSet(Passages(m, cat[m])) : m \in {n \in Meeting : HasFile(cat, n)}}

-------------------------------------------------------------------------------
Idle == [phase |-> "idle", mode |-> None, limit |-> 0, file |-> NoFiles, meetings |-> <<>>,
         known |-> {}, buffer |-> <<>>, parked |-> {}, seen |-> 0,
         full |-> FALSE, detached |-> FALSE, glued |-> FALSE, moved |-> FALSE]

IngestInit ==
  /\ records = <<>> /\ torn = FALSE /\ dead = {}
  /\ job = [j \in Job |-> Idle]

Init == FetchInit /\ IngestInit

(* _existing_ids: lines that cannot be parsed are passed over.             *)
ExistingIds == ToSet(records) \ {Broken}

(* process_and_persist: the append mode reads the ids in the file first.   *)
StartJob(j, mode, limit) ==
  /\ job[j].phase = "idle"
  /\ IF j = "ui" THEN mode = "rebuild" /\ limit = 0 ELSE fetch.phase = "idle"
  /\ job' = [job EXCEPT ![j] =
       [Idle EXCEPT !.phase = "reading", !.mode = mode, !.limit = limit, !.file = catalog,
          !.meetings = [m \in Meeting |-> m],
          !.known = IF mode = "append" THEN ExistingIds ELSE {},
          !.glued = mode = "append" /\ torn]]
  /\ UNCHANGED <<fetchVars, incidents, records, torn, dead>>

(* One passage of a run: a duplicate is skipped, a failure goes to the     *)
(* dead letters, anything else is written to the buffered file.  Only      *)
(* after one of the last two is --max-records compared with what has been  *)
(* seen, and the loop left.                                                *)
Classified(run, p, fails) ==
  LET skipped == ~fails /\ p \in run.known
      written == ~fails /\ p \notin run.known
  IN IF run.full THEN run
     ELSE [run EXCEPT !.seen = IF run.limit = 0 THEN 0 ELSE @ + 1,
             !.known = IF written THEN @ \cup {p} ELSE @,
             !.buffer = IF written THEN Append(@, p) ELSE @,
             !.parked = IF fails THEN @ \cup {p} ELSE @,
             !.full = ~skipped /\ run.limit # 0 /\ run.seen + 1 >= run.limit]

ClassifiedAll(run, passages, failing) ==
  LET after[i \in 0 .. Len(passages)] ==
        IF i = 0 THEN run
        ELSE Classified(after[i - 1], passages[i], passages[i] \in failing)
  IN after[Len(passages)]

(* The next transcript is read, in the order of date and body, and its     *)
(* passages are classified one by one; a meeting without one is passed     *)
(* over.  At most one record fails.                                        *)
ReadMeeting(j) ==
  /\ job[j].phase = "reading" /\ job[j].meetings # <<>> /\ ~job[j].full
  /\ LET m == Head(job[j].meetings)
         passages == IF HasFile(job[j].file, m) THEN Passages(m, job[j].file[m]) ELSE <<>>
     IN \E failing \in {{}} \cup {{p} : p \in ToSet(passages)} :
        /\ failing # {} => dead \cup UNION {job[k].parked : k \in Job} = {}
        /\ job' = [job EXCEPT ![j] =
             [ClassifiedAll(job[j], passages, failing) EXCEPT !.meetings = Tail(@)]]
  /\ UNCHANGED <<fetchVars, incidents, records, torn, dead>>

(* Lines added to a file without a line end continue its last line.        *)
Extended(lines) ==
  IF lines = <<>> THEN records
  ELSE IF torn THEN Front(records) \o <<Broken>> \o Tail(lines)
  ELSE records \o lines

(* The buffer reaches the file the process has open, which is no longer    *)
(* the output file if a rebuild has replaced that meanwhile.               *)
Appended(run, lines) ==
  IF run.detached \/ lines = <<>> THEN UNCHANGED <<records, torn>>
  ELSE records' = Extended(lines) /\ torn' = FALSE

(* os.replace by job j: an append that is open keeps the old file.         *)
Detach(j, jobs) ==
  [k \in Job |-> IF k # j /\ jobs[k].mode = "append" THEN [jobs[k] EXCEPT !.detached = TRUE]
                 ELSE jobs[k]]

(* Mutant: the last meeting is left out.                                   *)
ReadShort(run) == run.phase = "reading" /\ (run.full \/ Len(run.meetings) <= 1)

Read(run) ==
  run.phase = "reading" /\ (run.full \/ run.meetings = <<>>)

FinishAppend(j) ==
  /\ Read(job[j]) /\ job[j].mode = "append"
  /\ Appended(job[j], job[j].buffer)
  /\ job' = [job EXCEPT ![j] = Idle]
  /\ dead' = dead \cup job[j].parked
  /\ UNCHANGED <<fetchVars, incidents>>

FinishRebuild(j) ==
  /\ Read(job[j]) /\ job[j].mode = "rebuild"
  /\ records' = job[j].buffer /\ torn' = FALSE
  /\ job' = Detach(j, [job EXCEPT ![j] = Idle])
  /\ dead' = dead \cup job[j].parked
  /\ UNCHANGED <<fetchVars, incidents>>

(* An exception outside a record, or Ctrl-C: the file is closed, which     *)
(* writes what is buffered; a temporary file is removed.                   *)
Abort(j) ==
  /\ job[j].phase = "reading" /\ incidents < MaxIncidents
  /\ IF job[j].mode = "append" THEN Appended(job[j], job[j].buffer)
     ELSE UNCHANGED <<records, torn>>
  /\ job' = [job EXCEPT ![j] = Idle] /\ incidents' = incidents + 1
  /\ dead' = dead \cup job[j].parked
  /\ UNCHANGED fetchVars

(* The process is killed: some of the buffer has reached the file, and     *)
(* perhaps a part of a line, or all of it but its line end.                *)
KillJob(j, n, rest) ==
  /\ job[j].phase = "reading" /\ incidents < MaxIncidents
  /\ n <= Len(job[j].buffer)
  /\ IF job[j].mode = "rebuild" \/ job[j].detached THEN UNCHANGED <<records, torn>>
     ELSE LET lines == SubSeq(job[j].buffer, 1, n)
              last == IF n < Len(job[j].buffer)
                      THEN {Broken, job[j].buffer[n + 1]} ELSE {}
          IN \/ rest = "none" /\ Appended(job[j], lines)
             \/ \E part \in last :
                  /\ rest = IF part = Broken THEN "part" ELSE "unended"
                  /\ records' = Extended(Append(lines, part)) /\ torn' = TRUE
  /\ job' = [job EXCEPT ![j] = Idle] /\ incidents' = incidents + 1
  /\ dead' \in {dead, dead \cup job[j].parked}
  /\ UNCHANGED fetchVars

(* The archive changes beside the dashboard that reads it; the person at   *)
(* the command line runs one tool at a time.                               *)
Archive ==
  /\ job["cli"].phase = "idle"
  /\ FetchNext
  /\ job' = [j \in Job |-> IF <<docs, catalog>>' # <<docs, catalog>> /\ job[j].phase # "idle"
                           THEN [job[j] EXCEPT !.moved = TRUE] ELSE job[j]]
  /\ UNCHANGED <<records, torn, dead>>

Next ==
  \/ Archive
  \/ \E j \in Job :
       \/ \E mode \in {"append", "rebuild"}, limit \in Limits : StartJob(j, mode, limit)
       \/ ReadMeeting(j)
       \/ FinishAppend(j) \/ FinishRebuild(j) \/ Abort(j)
       \/ \E n \in 0 .. Len(job[j].buffer), rest \in {"none", "part", "unended"} : KillJob(j, n, rest)

Spec == Init /\ [][Next]_vars
=============================================================================
