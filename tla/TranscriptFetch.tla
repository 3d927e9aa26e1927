--------------------------- MODULE TranscriptFetch ---------------------------
(***************************************************************************)
(* tools/fetch_transcripts.py: download the captions of the catalogued     *)
(* meetings that have no transcript, convert them to Markdown, and record  *)
(* the files in meetings.json, which is written once, when a run ends.     *)
(*                                                                         *)
(* A run is one process; yt-dlp, YouTube and the person who keeps the      *)
(* archive are its environment.  The meetings are numbered in the order    *)
(* of the catalogue.  A caption file is known by the kind of captions it   *)
(* holds, and a line of them is a value with a length.                     *)
(***************************************************************************)
EXTENDS Integers, Sequences, FiniteSets, FiniteSetsExt, SequencesExt

CONSTANTS
  Meetings,      \* how many meetings the catalogue lists
  Path,          \* the paths a transcript can have
  ExpectedFile,  \* expected_file of each meeting, or None
  DatedFile,     \* the path made of its body's directory, its date and slug
  NoCaptions,    \* the meetings whose note says "no captions"
  NoVideo,       \* the meetings without a youtube_id
  Clip,          \* those with a granicus_clip_id, when FETCH_GRANICUS is set
  Offered,       \* the kinds of captions the source has of each meeting
  Impersonate,   \* impersonate_available()
  Line,          \* the lines somebody may say
  LineLen,       \* len() of each
  MaxChars,      \* max_chars of a paragraph
  Speeches,      \* what may be said in the meetings: the lines of each
  Selections,    \* the values of --only, as sets of meetings
  MaxIncidents      \* how many processes die and transcripts are removed

Meeting == 1 .. Meetings
YouTubeKinds == <<"manual", "auto">>    \* in the order they are tried
Kind == {"manual", "auto", "granicus"}
None == "none"

ASSUME FetchConstants ==
  /\ Meetings \in Nat /\ None \notin Path
  /\ ExpectedFile \in [Meeting -> Path \cup {None}] /\ DatedFile \in [Meeting -> Path]
  /\ NoCaptions \subseteq Meeting /\ NoVideo \subseteq Meeting /\ Clip \subseteq Meeting
  /\ Offered \in [Meeting -> SUBSET Kind]
  /\ Impersonate \in BOOLEAN
  /\ LineLen \in [Line -> Nat \ {0}] /\ {MaxChars, MaxIncidents} \subseteq Nat
  /\ Speeches \subseteq [Meeting -> Seq(Line)]
  /\ Selections \subseteq SUBSET Meeting

VARIABLES
  said,     \* said[m]: the lines spoken in meeting m
  catalog,  \* meetings.json: the file of each meeting, or None
  docs,     \* the transcripts in the archive directory
  raw,      \* the meetings of which raw/ holds captions named {id}.en-*.vtt
  fetch,    \* the fetch run
  incidents    \* how often that has happened

fetchVars == <<said, catalog, docs, raw, fetch>>

NoDoc == [of |-> 0, kind |-> None, label |-> None, whole |-> FALSE]
NoFiles == [m \in Meeting |-> None]

NoRun == [phase |-> "idle", file |-> NoFiles, todo |-> {}, attempt |-> 1,
          got |-> NoDoc, changed |-> FALSE]

-------------------------------------------------------------------------------
(* What the player shows of automatic captions: a window of the line       *)
(* before and the newest one, then for a moment the newest line alone.     *)
(* The other kinds show each line once.  A cue's number is its start.      *)
Rolling(lines) ==
  [c \in 1 .. 2 * Len(lines) |->
     LET i == (c + 1) \div 2
     IN IF c % 2 = 1 /\ i > 1 THEN <<lines[i - 1], lines[i]>> ELSE <<lines[i]>>]
Plain(lines) == [c \in 1 .. Len(lines) |-> <<lines[c]>>]
Cues(m, kind) == IF kind = "auto" THEN Rolling(said[m]) ELSE Plain(said[m])

(* Mutant: only whole windows are compared.                                *)
WindowOverlap(cleaned, prev) == IF cleaned = prev THEN Len(cleaned) ELSE 0

(* How many leading lines of a cue repeat the tail of the cue before.      *)
Overlap(cleaned, prev) ==
  Max({0} \cup {k \in 1 .. Min({Len(cleaned), Len(prev)}) :
                  SubSeq(cleaned, 1, k) = SubSeq(prev, Len(prev) - k + 1, Len(prev))})

(* What is kept of a cue: the lines that do not repeat the one before.     *)
WithCue(acc, start, cleaned) ==
  LET fresh == SubSeq(cleaned, Overlap(cleaned, acc.prev) + 1, Len(cleaned))
  IN [out |-> acc.out \o [i \in 1 .. Len(fresh) |-> <<start, fresh[i]>>],
      prev |-> IF cleaned = <<>> THEN acc.prev ELSE cleaned]

EmittedLines(cues) ==
  LET after[c \in 0 .. Len(cues)] ==
        IF c = 0 THEN [out |-> <<>>, prev |-> <<>>] ELSE WithCue(after[c - 1], c, cues[c])
  IN after[Len(cues)].out

Chars(lines) == FoldLeft(LAMBDA n, l : n + LineLen[l], Len(lines) - 1, lines)

(* The paragraphs: the last one is open until a line does not fit.         *)
WithLine(paras, e) ==
  IF paras = <<>> \/ Chars(Last(paras).lines) + 1 + LineLen[e[2]] > MaxChars
  THEN Append(paras, [start |-> e[1], lines |-> <<e[2]>>])
  ELSE [paras EXCEPT ![Len(paras)].lines = Append(@, e[2])]

Paragraphs(emitted) ==
  LET after[i \in 0 .. Len(emitted)] ==
        IF i = 0 THEN <<>> ELSE WithLine(after[i - 1], emitted[i])
  IN after[Len(emitted)]

(* The body of a transcript; a file that was cut short has none.           *)
Text(doc) ==
  IF doc.whole THEN Paragraphs(EmittedLines(Cues(doc.of, doc.kind))) ELSE <<>>

(* Mutant: the catalogue's own name for the file is not asked for.         *)
TargetByDate(m) == DatedFile[m]

TargetFile(m) == IF ExpectedFile[m] # None THEN ExpectedFile[m] ELSE DatedFile[m]

-------------------------------------------------------------------------------
FetchInit ==
  /\ said \in Speeches
  /\ catalog = NoFiles
  /\ docs = [p \in Path |-> NoDoc]
  /\ raw = {}
  /\ fetch = NoRun
  /\ incidents = 0

HasFile(cat, m) == cat[m] # None /\ docs[cat[m]] # NoDoc

Pending(m, only) ==
  /\ m \in only /\ ~HasFile(catalog, m)
  /\ m \notin NoCaptions /\ m \notin NoVideo

StartFetch(only) ==
  /\ fetch.phase = "idle"
  /\ LET todo == {m \in Meeting : Pending(m, only)}
     IN /\ todo # {}
        /\ fetch' = [NoRun EXCEPT !.phase = "download", !.file = catalog, !.todo = todo]
  /\ UNCHANGED <<said, catalog, docs, raw, incidents>>

(* The pending meetings are taken in the order of the catalogue.           *)
First(todo) == CHOOSE m \in todo : \A n \in todo : m <= n

(* The calls of yt-dlp for a meeting: both kinds, again with browser       *)
(* impersonation, and at last the city's Granicus player.                  *)
Attempts(m) ==
  YouTubeKinds \o (IF Impersonate THEN YouTubeKinds ELSE <<>>)
               \o (IF m \in Clip THEN <<"granicus">> ELSE <<>>)
Asked == Attempts(First(fetch.todo))[fetch.attempt]

(* yt-dlp leaves the captions it was asked for under the expected name, if *)
(* it gets them, and automatic ones under other names of English too.      *)
Named(m, kind) == SUBSET (Offered[m] \cap {kind})
Variants(m, kind) == {raw, raw \cup {m : k \in Offered[m] \cap {kind} \cap {"auto"}}}

(* download_captions after one call: it takes the file of the expected     *)
(* name, which it removed before the call; without it, or if the call      *)
(* reported an error, the first file whose name begins like that, in the   *)
(* order of their names, renamed to the expected one.                      *)
TakesVariant(m, ok, kind, named, variants) ==
  kind # "granicus" /\ m \in variants /\ ~(ok /\ named # {})

Taken(m, ok, kind, named, variants) ==
  IF TakesVariant(m, ok, kind, named, variants) THEN {"auto"}
  ELSE IF kind = "granicus" /\ ~ok THEN {} ELSE named

(* The next pending entry, or the end of the loop.                         *)
NextEntry(run) ==
  [run EXCEPT !.todo = @ \ {First(@)}, !.attempt = 1, !.phase = "download", !.got = NoDoc]

(* One call of yt-dlp and what is made of it.  Captions without a line     *)
(* cannot be converted.                                                    *)
Called(m, ok, named, variants) ==
  LET taken == Taken(m, ok, Asked, named, variants)
      doc(k) == [of |-> m, kind |-> k, label |-> Asked, whole |-> TRUE]
  IN /\ raw' = IF TakesVariant(m, ok, Asked, named, variants)
               THEN variants \ {m} ELSE variants
     /\ fetch' =
          IF \E k \in taken : Text(doc(k)) # <<>>
          THEN [fetch EXCEPT !.phase = "write", !.got = doc(CHOOSE k \in taken : TRUE)]
          ELSE IF taken = {} /\ fetch.attempt < Len(Attempts(m))
          THEN [fetch EXCEPT !.attempt = @ + 1]
          ELSE NextEntry(fetch)

Download ==
  /\ fetch.phase = "download" /\ fetch.todo # {}
  /\ LET m == First(fetch.todo)
     IN \E ok \in BOOLEAN, named \in Named(m, Asked), variants \in Variants(m, Asked) :
          Called(m, ok, named, variants)
  /\ UNCHANGED <<said, catalog, docs, incidents>>

WriteTranscript ==
  /\ fetch.phase = "write"
  /\ LET m == First(fetch.todo)
     IN /\ docs' = [docs EXCEPT ![TargetFile(m)] = fetch.got]
        /\ fetch' = NextEntry([fetch EXCEPT !.file[m] = TargetFile(m), !.changed = TRUE])
  /\ UNCHANGED <<said, catalog, raw, incidents>>

(* The catalogue is written if an entry was fetched.                       *)
SaveCatalog ==
  /\ fetch.phase = "download" /\ fetch.todo = {}
  /\ catalog' = IF fetch.changed THEN fetch.file ELSE catalog
  /\ fetch' = NoRun
  /\ UNCHANGED <<said, docs, raw, incidents>>

(* yt-dlp takes more than ten minutes: subprocess.run kills it and raises, *)
(* and nothing catches that.                                               *)
TimeOut ==
  /\ fetch.phase = "download" /\ fetch.todo # {} /\ incidents < MaxIncidents
  /\ raw' \in Variants(First(fetch.todo), Asked)
  /\ fetch' = NoRun /\ incidents' = incidents + 1
  /\ UNCHANGED <<said, catalog, docs>>

(* The process is killed: a transcript being written has been truncated.   *)
KillFetch ==
  /\ fetch.phase # "idle" /\ incidents < MaxIncidents
  /\ \/ UNCHANGED docs
     \/ /\ fetch.phase = "write"
        /\ docs' = [docs EXCEPT ![TargetFile(First(fetch.todo))] = [fetch.got EXCEPT !.whole = FALSE]]
  /\ fetch' = NoRun /\ incidents' = incidents + 1
  /\ UNCHANGED <<said, catalog, raw>>

(* A transcript is removed to have it fetched anew.                        *)
RemoveTranscript(m) ==
  /\ fetch.phase = "idle" /\ HasFile(catalog, m) /\ incidents < MaxIncidents
  /\ docs' = [docs EXCEPT ![catalog[m]] = NoDoc] /\ incidents' = incidents + 1
  /\ UNCHANGED <<said, catalog, raw, fetch>>

FetchNext ==
  \/ \E only \in Selections : StartFetch(only)
  \/ Download \/ TimeOut
  \/ WriteTranscript \/ SaveCatalog \/ KillFetch
  \/ \E m \in Meeting : RemoveTranscript(m)
=============================================================================
