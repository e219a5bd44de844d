----------------------------- MODULE DiscReading ------------------------------
(***************************************************************************)
(* What the daemon concludes from what is read to it, one item at a time.  *)
(*                                                                         *)
(* A behaviour is one reading, of the kind `job` names.  `read` holds the  *)
(* items in the order they came and `out` what the code returns of them:   *)
(*   bluray    the playlists libbluray lists           Info.Titles         *)
(*   robot     the lines of makemkvcon's robot output  Runner.Scan         *)
(*   dvd       the titles ffprobe finds                Enumerate, Filtered *)
(*   disc      the titles of a disc, then of a second  ComputeFingerprint  *)
(*   filing    the titles of a disc                    Classify, Plan      *)
(*   label     the words of a volume label             library.Name        *)
(*   streams   the streams of a title                  transcode.Select    *)
(*   failure   the lines a program printed             ClassifyFailure     *)
(*   nets      the candidates for a disc's title       identify.Resolve    *)
(*   region    a disc's protection and a drive's state ripSource           *)
(*   verify    an output file and what it should be    Verifier.Title      *)
(* The DVD sweep is a process of its own: it runs under a deadline, may be *)
(* cancelled, may meet a title it cannot probe, and is retried.            *)
(***************************************************************************)
EXTENDS TitleLists, StreamChoice, Diagnosis, Identification, DriveRules, Verification

CONSTANTS Word, PrintedLine, Output,
          MaxRead,          \* how many items a reading has, by job (a bound)
          Secs,             \* the durations a DVD's titles may have
          maxTitles,        \* the DVD sweep's limit (99 in the code)
          ScanAttempts,     \* config.ScanAttempts
          MinTitleSeconds,  \* config.MinTitleSeconds
          Language          \* config.TranscodeAudioLanguage

ASSUME ReadingConstants ==
    /\ maxTitles \in Nat \ {0}
    /\ ScanAttempts \in Nat \ {0}
    /\ MinTitleSeconds \in Int
    /\ \A k \in {"secs", "video", "audio", "subtitle"} :
        /\ \A want \in Output.want : want[k] \in Nat
        /\ \A file \in Output.file : file[k] \in Nat

VARIABLES job, read, out,
          scan,             \* what Scan's callback has kept of the robot output
          shelf,            \* the disc that was read before: <<>> or <<[titles, out]>>
          dvd,              \* the durations of the titles on the DVD that is swept
          phase,            \* of the sweep: "sweeping", "done", "failed", "cancelled", "gone"
          attempt,          \* which of the ScanAttempts is running
          ctx               \* "live", "deadline" (the attempt's) or "cancelled"

sweep == <<dvd, phase, attempt, ctx>>
vars == <<job, read, out, scan, shelf, dvd, phase, attempt, ctx>>

Job == {"bluray", "robot", "dvd", "disc", "filing", "label", "streams", "failure", "nets",
        "region", "verify"}

\* What the code returns of what has been read.
Outcome(j, items) ==
    CASE j = "bluray"  -> Titles(items, MinTitleSeconds)
      [] j = "dvd"     -> Filtered(items, MinTitleSeconds)
      [] j = "disc"    -> ComputeFingerprint("label", items)
      [] j = "filing"  -> Plan("name", "short", items, Classify(items))
      [] j = "label"   -> Name(items)
      [] j = "streams" -> Select(items, Language)
      [] j = "failure" -> [ffmpeg |-> ClassifyFailure(<<lastLines(items, 3)>>),
                           makemkv |-> ClassifyFailure(<<NoTitlesFound(summarise(items))>>)]
      [] j = "nets"    -> Resolve(items)

Init ==
    /\ job \in Job
    /\ read = <<>>
    /\ scan = NothingScanned
    /\ out = IF job \in {"region", "verify"} THEN {}
             ELSE IF job = "robot" THEN Scan(scan) ELSE Outcome(job, <<>>)
    /\ shelf = <<>>
    /\ IF job = "dvd" THEN dvd \in UNION {[1..n -> Secs] : n \in 0..MaxRead["dvd"]} ELSE dvd = <<>>
    /\ phase = "sweeping"
    /\ attempt = 1
    /\ ctx = "live"

Reads(j, item) ==
    /\ job = j
    /\ Len(read) < MaxRead[j]
    /\ read' = Append(read, item)
    /\ scan' = IF j = "robot" THEN ScanLine(scan, item) ELSE scan
    /\ UNCHANGED <<job, shelf, sweep>>

ReadPlaylist ==
    \E p \in Playlist :
        /\ \A i \in DOMAIN read : job = "bluray" => read[i].file # p.file
        /\ Reads("bluray", p)
        /\ out' = Outcome("bluray", read')

ReadRobotLine ==
    \E l \in RobotLine : Reads("robot", l) /\ out' = Scan(scan')

ReadTitle ==
    \E t \in Title : Reads("disc", t) /\ out' = Outcome("disc", read')

\* The disc is taken out and another one is read.
NextDisc ==
    /\ job = "disc"
    /\ shelf = <<>> /\ read # <<>>
    /\ shelf' = <<[titles |-> read, out |-> out]>>
    /\ read' = <<>>
    /\ out' = Outcome("disc", <<>>)
    /\ UNCHANGED <<job, scan, sweep>>

FileTitle ==
    \E secs \in {t.secs : t \in Title} :
        /\ Reads("filing", DvdTitle(Len(read), secs))
        /\ out' = Outcome("filing", read')

ReadWord ==
    \E w \in Word : Reads("label", w) /\ out' = Outcome("label", read')

ReadStream ==
    \E s \in Stream : Reads("streams", s) /\ out' = Outcome("streams", read')

ReadPrintedLine ==
    \E l \in PrintedLine : Reads("failure", l) /\ out' = Outcome("failure", read')

AskNet ==
    \E c \in Candidate : Reads("nets", c) /\ out' = Outcome("nets", read')

\* The drive answers about its region and the disc's protection, or does not.
ReadRegion ==
    \E cfg \in RipConfig, readable \in BOOLEAN, p \in DiscProtection, r \in DriveRegion :
        /\ Reads("region", [cfg |-> cfg, readable |-> readable, p |-> p, r |-> r])
        /\ out' = {ripSource(cfg, readable, p, r)}

\* Verifier.Title on a finished file.
Verify ==
    \E want \in Output.want, file \in Output.file :
        /\ Reads("verify", [want |-> want, file |-> file])
        /\ out' = VerifyTitle(want, file)

-----------------------------------------------------------------------------
(* The DVD sweep: Enumerate, under scan's deadline and scanWithRetry. *)

Sweeping == job = "dvd" /\ phase = "sweeping"

\* probeTitle: a title that is not there has a duration of zero.
DurationOf(n) == IF n \in DOMAIN dvd THEN dvd[n] ELSE 0

\* scanWithRetry after an attempt failed with ctx as c: a caller that went away
\* and a disc that left are no failures, the last attempt is one, and another
\* attempt has a deadline of its own.
AttemptFails(c) ==
    /\ UNCHANGED <<job, scan, shelf, dvd, out>>
    /\ \/ c = "cancelled" /\ phase' = "cancelled" /\ ctx' = c /\ UNCHANGED <<read, attempt>>
       \/ c # "cancelled" /\ phase' = "gone" /\ ctx' = c /\ UNCHANGED <<read, attempt>>
       \/ /\ c # "cancelled" /\ attempt = ScanAttempts
          /\ phase' = "failed" /\ ctx' = c
          /\ UNCHANGED <<read, attempt>>
       \/ /\ c # "cancelled" /\ attempt < ScanAttempts
          /\ attempt' = attempt + 1 /\ read' = <<>> /\ ctx' = "live"
          /\ UNCHANGED phase

\* The sweep stops with ctx as c: nothing found is an error, and anything found
\* is the scan that nativeScan filters and returns.
SweepStops(c) ==
    \/ read = <<>> /\ AttemptFails(c)
    \/ /\ read # <<>>
       /\ phase' = "done"
       /\ ctx' = c
       /\ out' = Outcome("dvd", read)
       /\ UNCHANGED <<job, read, scan, shelf, dvd, attempt>>

\* One turn of Enumerate's loop that finds a title.
ProbeTitle ==
    /\ Sweeping /\ ctx = "live"
    /\ Len(read) < maxTitles
    /\ DurationOf(Len(read) + 1) > 0
    /\ read' = Append(read, DvdTitle(Len(read), DurationOf(Len(read) + 1)))
    /\ UNCHANGED <<job, out, scan, shelf, sweep>>

\* A turn that finds none, or the loop's end.
SweepEnds ==
    /\ Sweeping
    /\ \/ Len(read) = maxTitles
       \/ ctx = "live" /\ DurationOf(Len(read) + 1) = 0
    /\ SweepStops(ctx)

\* A turn whose probe fails: the drive's fault, or the deadline or the caller
\* stopping ffprobe while it ran.
ProbeFails ==
    /\ Sweeping /\ ctx = "live"
    /\ Len(read) < maxTitles
    /\ \E c \in {"live", "deadline", "cancelled"} : SweepStops(c)

\* A turn that starts with the context done.
CutOff ==
    /\ Sweeping /\ ctx # "live"
    /\ Len(read) < maxTitles
    /\ AttemptFails(ctx)

\* The attempt's deadline passes, or the worker's context is cancelled.
ContextEnds ==
    /\ Sweeping /\ ctx = "live"
    /\ ctx' \in {"deadline", "cancelled"}
    /\ UNCHANGED <<job, read, out, scan, shelf, dvd, phase, attempt>>

Sweep == ProbeTitle \/ SweepEnds \/ ProbeFails \/ CutOff

Next ==
    \/ ReadPlaylist \/ ReadRobotLine \/ ReadTitle \/ NextDisc \/ FileTitle \/ ReadWord
    \/ ReadStream \/ ReadPrintedLine \/ AskNet \/ ReadRegion \/ Verify
    \/ ProbeTitle \/ SweepEnds \/ ProbeFails \/ CutOff \/ ContextEnds

Spec == Init /\ [][Next]_vars

\* ffprobe is run under the attempt's context, so every turn of the sweep ends.
FairSpec == Spec /\ WF_vars(Sweep)

-----------------------------------------------------------------------------
\* The variables' types, the items' positions among what is returned included:
\* every stream Select maps or drops, every placement of Plan and every word of
\* Name is one of those that were read.
TypeOK ==
    /\ job \in Job
    /\ Len(read) <= MaxRead[job]
    /\ Len(shelf) <= 1
    /\ phase \in {"sweeping", "done", "failed", "cancelled", "gone"}
    /\ attempt \in 1..ScanAttempts
    /\ ctx \in {"live", "deadline", "cancelled"}
    /\ job = "streams" => Members(out.maps) \cup Members(out.dropped) \subseteq DOMAIN read
    /\ job = "filing" => {out[i].index : i \in DOMAIN out} = {read[i].index : i \in DOMAIN read}
    /\ job = "label" => Members(out) \subseteq DOMAIN read

\* Of the playlists long enough and with audio, one title for each layout, read
\* from its lowest-numbered playlist; titles are numbered from 0 in the order of
\* the playlist numbers, whatever order libbluray lists them in (Content, dedupe
\* and Titles; an order of its own would mislabel every episode).
PlaylistsBecomeTitles ==
    job = "bluray" =>
        LET least == IF MinTitleSeconds <= 0 THEN 60 ELSE MinTitleSeconds
            worth == {i \in DOMAIN read : read[i].secs >= least /\ read[i].audio > 0}
            Same(p, q) ==
                \A k \in {"secs", "chapters", "video", "audio", "subtitles"} : p[k] = q[k]
            kept == {i \in worth : \A j \in worth :
                        Same(read[i], read[j]) => read[i].file <= read[j].file}
        IN /\ Len(out) = Cardinality(kept)
           /\ \A n \in DOMAIN out :
                /\ out[n].index = n - 1
                /\ \E i \in kept : /\ read[i].file = out[n].source
                                   /\ read[i].secs = out[n].secs
                                   /\ Len(out[n].streams) =
                                        read[i].video + read[i].audio + read[i].subtitles
                /\ n > 1 => out[n - 1].source < out[n].source

\* Scan lists each title MakeMKV gave an attribute of once, by rising index, with
\* what was said of it last and all of its own streams by rising number,
\* whatever the order of the lines and of the maps they are kept in; and it
\* reports a title that was analysed and not offered.
ScanIsWhatWasSaid ==
    job = "robot" =>
        LET Said(t, k) == {i \in DOMAIN read :
                                read[i].kind = "TINFO" /\ read[i].title = t /\ read[i].key = k}
            LastSaid(t, k, value) ==
                \/ Said(t, k) = {} /\ value = 0
                \/ \E i \in Said(t, k) : value = read[i].value /\ \A j \in Said(t, k) : j <= i
            Has(t) == {read[i].key : i \in {j \in DOMAIN read :
                                read[j].kind = "SINFO" /\ read[j].title = t}}
        IN /\ {out.titles[n].index : n \in DOMAIN out.titles} =
                {read[i].title : i \in {j \in DOMAIN read : read[j].kind = "TINFO"}}
           /\ \A n \in DOMAIN out.titles :
                LET t == out.titles[n]
                IN /\ n > 1 => out.titles[n - 1].index < t.index
                   /\ LastSaid(t.index, attrDuration, t.secs)
                   /\ LastSaid(t.index, attrDiskSizeBytes, t.size)
                   /\ LastSaid(t.index, attrSourceFileName, t.source)
                   /\ {t.streams[k][1] : k \in DOMAIN t.streams} = Has(t.index)
                   /\ \A k \in 2..Len(t.streams) : t.streams[k - 1][1] < t.streams[k][1]
           /\ Cardinality({i \in DOMAIN read : read[i].kind = "MSG"}) > Len(out.titles)
                => out.warnings # {}

\* A title of a finished DVD scan is numbered as the disc numbers it, the titles
\* that were filtered out before it included: ffmpeg, asked for title index + 1,
\* reads what was measured ("filtering cannot shift what a title index means").
IndexIsTheDiscsOwn ==
    (job = "dvd" /\ phase = "done") =>
        \A n \in DOMAIN out : dvd[TitleArgument(out[n])] = out[n].secs

\* Two discs have one fingerprint exactly when they hold the same titles, in
\* whatever order they are listed: a disc that was ripped is recognised, and no
\* other disc of the same label is taken for it.
FingerprintIsTheDiscs ==
    (job = "disc" /\ shelf # <<>>) =>
        LET Count(titles, secs, size) ==
                Cardinality({i \in DOMAIN titles : titles[i].secs = secs /\ titles[i].size = size})
        IN out = shelf[1].out <=>
             \A t \in Members(read) \cup Members(shelf[1].titles) :
                Count(read, t.secs, t.size) = Count(shelf[1].titles, t.secs, t.size)

\* The titles that are recorded and asked for are the disc's own, whoever read
\* them: MakeMKV, libbluray or ffmpeg (Scan, Titles, Filtered), and so is the
\* fingerprint they are recognised by (ComputeFingerprint).
TitlesAreTheDiscs ==
    /\ PlaylistsBecomeTitles
    /\ ScanIsWhatWasSaid
    /\ IndexIsTheDiscsOwn
    /\ FingerprintIsTheDiscs

\* The duration that a set of titles has in its middle.
Middle(I) ==
    CHOOSE m \in {read[i].secs : i \in I} :
        /\ Cardinality({i \in I : read[i].secs > m}) <= Cardinality(I) \div 2
        /\ Cardinality({i \in I : read[i].secs >= m}) > Cardinality(I) \div 2

\* Several titles of episode length, half of them or more alike.
Level(I) ==
    LET alike == {i \in I : /\ read[i].secs >= 600
                            /\ 4 * read[i].secs >= 3 * Middle(I)
                            /\ 4 * read[i].secs <= 5 * Middle(I)}
    IN /\ Cardinality(I) >= 2
       /\ Middle(I) >= 600 /\ Middle(I) <= 5400
       /\ Cardinality(alike) >= 2 /\ 2 * Cardinality(alike) >= Cardinality(I)

\* A disc is filed as a film exactly when a title of 45 minutes or more stands
\* alone, or is twice the middle of a disc whose other titles are not episodes;
\* and a film has one feature, a longest title, and every title a path of its
\* own (Classify and Plan; a two-parter on an episode disc is no film).
FiledByShape ==
    (job = "filing" /\ read # <<>>) =>
        LET I == DOMAIN read
            longest == CHOOSE i \in I : \A j \in I :
                            read[j].secs <= read[i].secs /\ (j < i => read[j].secs < read[i].secs)
            film == /\ read[longest].secs >= 2700
                    /\ Cardinality(I) > 1 =>
                        /\ read[longest].secs >= 2 * Middle(I)
                        /\ ~Level(I \ {longest})
            features == {n \in DOMAIN out : out[n].feature}
        IN /\ film <=> features # {}
           /\ Cardinality(features) <= 1
           /\ \A n \in features : \E i \in I :
                read[i].index = out[n].index /\ read[i].secs = read[longest].secs
           /\ \A m, n \in DOMAIN out : m # n => out[m].path # out[n].path

\* Name keeps every word of the title, in order, and a number unless it follows a
\* disc marker; a label of markers only keeps them all, so a name is never empty.
TitleWordsSurvive ==
    (job = "label" /\ read # <<>>) =>
        /\ out # <<>>
        /\ \A n \in 2..Len(out) : out[n - 1] < out[n]
        /\ \A i \in DOMAIN read :
            (read[i] = "word" \/ (read[i] = "number" /\ (i = 1 \/ read[i - 1] # "disc")))
                => \E n \in DOMAIN out : out[n] = i

\* One audio stream is kept if there is any, and none is better: a feature's over
\* commentary, then one in the language, then the widest, then the default
\* (pickAudio's order; Select's comment states another, DefaultAudioIsKept);
\* every stream is kept or reported as dropped, never both, and the language
\* filter never leaves a title that has subtitles without any.
BestAudioIsKept ==
    job = "streams" =>
        LET Of(kind) == {i \in DOMAIN read : read[i].kind = kind}
            kept == Members(out.maps)
            InLanguage(i) == <<read[i].language, Language>> \in Alike
            Better(i, j) ==
                IF read[i].commentary # read[j].commentary THEN read[j].commentary
                ELSE IF InLanguage(i) # InLanguage(j) THEN InLanguage(i)
                ELSE \/ read[i].channels > read[j].channels
                     \/ read[i].channels = read[j].channels /\ read[i].default /\ ~read[j].default
        IN /\ kept \cup Members(out.dropped) = Of("video") \cup Of("audio") \cup Of("subtitle")
           /\ kept \cap Members(out.dropped) = {}
           /\ Cardinality(Of("audio") \cap kept) = (IF Of("audio") = {} THEN 0 ELSE 1)
           /\ \A i \in Of("audio") \cap kept, j \in Of("audio") : ~Better(j, i)
           /\ Of("subtitle") # {} => Of("subtitle") \cap kept # {}

\* A failure is put in a group only for something a line that is no known noise
\* says, never for a fragment inside a harmless warning (ClassifyFailure: "a wrong
\* group is worse than no group").
NoiseDecidesNothing ==
    job = "failure" =>
        LET Said(k) == \E i \in DOMAIN read : ~read[i].benign /\ read[i].says = k
        IN /\ out.ffmpeg # "other" => Said(out.ffmpeg)
           /\ out.makemkv \notin {"other", "unreadable"} => Said(out.makemkv)

\* How well a title is supported: its best candidate's confidence, raised for
\* each further net that agrees.
Support(k) ==
    LET mine == {i \in DOMAIN read : read[i].title # "" /\ normaliseTitle(read[i].title) = k}
        nets == Cardinality({read[i].net : i \in mine})
        best == CHOOSE c \in {read[i].confidence : i \in mine} :
                    \A i \in mine : read[i].confidence <= c
    IN IF nets > 1 /\ best + 15 * (nets - 1) > 95 THEN 95 ELSE best + 15 * (nets - 1)

\* Resolve lists every proposed title once, the best supported first, and calls
\* the choice contested exactly when another title has nearly the support (at
\* 0.2 less to the hundredth it may go either way); so an uncontested title does
\* not depend on the order the nets are asked in, and no net makes a title more
\* certain by proposing it twice.
UncontestedIsClear ==
    job = "nets" =>
        LET proposed == {normaliseTitle(read[i].title) :
                            i \in {j \in DOMAIN read : read[j].title # ""}}
            Key(n) == normaliseTitle(out.all[n].title)
        IN /\ {Key(n) : n \in DOMAIN out.all} = proposed
           /\ Len(out.all) = Cardinality(proposed)
           /\ \A n \in DOMAIN out.all :
                /\ out.all[n].confidence = Support(Key(n))
                /\ Support(Key(n)) <= Support(Key(1))
           /\ (\E k \in proposed : k # Key(1) /\ Support(k) > Support(Key(1)) - 20)
                => out.contested
           /\ out.contested
                => \E k \in proposed : k # Key(1) /\ Support(k) >= Support(Key(1)) - 20

\* What the daemon concludes is what it has read amounts to, in whatever order it
\* came: the shape of a disc and its name (Classify, Plan, Name), the streams
\* that are kept (Select), the group of a failure (ClassifyFailure) and the
\* title that the nets agree on (Resolve).
ConclusionsFollow ==
    /\ FiledByShape
    /\ TitleWordsSurvive
    /\ BestAudioIsKept
    /\ NoiseDecidesNothing
    /\ UncontestedIsClear

\* The drive answered and will not decrypt this disc: the disc is protected, the
\* drive enforces regions, and no region is allowed by both.
Refused(asked) ==
    /\ asked.readable
    /\ asked.p.system # 0
    /\ asked.r.scheme = RPC2
    /\ RegionsOfDisc(asked.p) \cap RegionsOfDrive(asked.r) = {}

\* A decrypted copy is made exactly when the native path is off, the drive refuses
\* to decrypt the disc, and copying is allowed and possible; where it is not, the
\* rip fails, and every other disc is read in place (ripSource, decryptNeeded,
\* PlayableIn and the masks they compare).
CopyOnlyIfNeeded ==
    (job = "region" /\ read # <<>>) =>
        LET asked == read[Len(read)]
            blocked == ~asked.cfg.native /\ Refused(asked)
            copies == asked.cfg.fallback /\ asked.cfg.dvdbackup
        IN /\ "copy" \in out <=> blocked /\ copies
           /\ "fails" \in out <=> blocked /\ ~copies
           /\ "drive" \in out <=> ~blocked

\* A file that is accepted is there and is Matroska that probes, has at least the
\* streams that were asked for, and runs within a quarter of a duration of 21
\* seconds or more: "a title short by one episode of four is out by 25%"
\* (DefaultTolerance).  Below 21 seconds the floor of 5 seconds is a quarter.
AcceptedIsWhole ==
    (job = "verify" /\ read # <<>> /\ out = {}) =>
        LET want == read[Len(read)].want
            file == read[Len(read)].file
        IN /\ file.exists /\ file.magic /\ file.probes
           /\ want.secs > 20 => /\ 4 * file.secs > 3 * want.secs
                                /\ 4 * file.secs < 5 * want.secs
           /\ \A k \in {"video", "audio", "subtitle"} : want[k] <= file[k]

\* A DVD sweep ends, with titles or without, for the attempts are counted and
\* each has a deadline.
SweepSettles == (job = "dvd") => <>(phase # "sweeping")

-----------------------------------------------------------------------------
(* Statements of the repository that the code does not keep. *)

\* "The deadline, not the caller. Reported as its own thing so a retry still
\* happens and the operator is told the scan was stopped" (Worker.scan): a sweep
\* that the deadline cut off is never taken for the scan of a smaller disc.  It
\* is when the deadline passes while a title is probed, for Enumerate ends the
\* sweep at any probe that fails.
ScanIsWhole == (job = "dvd" /\ phase = "done") => ctx # "deadline"

\* "Whole lines carrying these are removed before any grouping is attempted, so
\* what is left is whatever actually went wrong" (benignFragments): a cause in
\* the lines that are kept still decides the group when noise was printed
\* with it.  lastLines joins the lines into one, which is removed whole.
CauseSurvives ==
    (job = "failure" /\ read # <<>> /\ ~read[Len(read)].benign /\ read[Len(read)].says # "")
        => out.ffmpeg # "other"

\* "One is kept - the disc's own default where it has one, otherwise the first in
\* the preferred language" (Select; config.example.toml says the same): a title
\* that has a default audio stream keeps one.  pickAudio prefers the language
\* and the channels to it.
DefaultAudioIsKept ==
    job = "streams" =>
        LET audio == {i \in DOMAIN read : read[i].kind = "audio"}
        IN (\E i \in audio : read[i].default)
            => \E i \in audio \cap Members(out.maps) : read[i].default

=============================================================================
