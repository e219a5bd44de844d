------------------------------ MODULE TitleLists ------------------------------
(***************************************************************************)
(* How a disc's titles are listed, recognised and filed: libbluray's       *)
(* playlists (bluray/bluray.go), MakeMKV's robot output (makemkv.Scan),    *)
(* the DVD sweep (dvd/dvd.go), the fingerprint (disc/disc.go) and the      *)
(* library's layout (library/library.go).                                  *)
(*                                                                         *)
(* A title is a record of what these functions compare; names, codecs and  *)
(* the text of a line are left out.  A hash is the value that is hashed.   *)
(***************************************************************************)
EXTENDS Lists

CONSTANTS Playlist,         \* what libbluray says of a playlist
          RobotLine,        \* a line of makemkvcon's robot output
          Title             \* a title as the catalog keeps it

\* Counts, seconds and bytes: none of them is negative.
ASSUME TitleConstants ==
    /\ \A p \in Playlist :
        \A k \in {"file", "secs", "chapters", "video", "audio", "subtitles"} : p[k] \in Nat
    /\ \A l \in RobotLine : l.title \in Nat /\ l.key \in Nat
    /\ \A t \in Title : t.secs \in Nat /\ t.size \in Nat

-----------------------------------------------------------------------------
\* ComputeFingerprint without the sort, as if titles always came in one order.
ComputeFingerprintUnsorted(label, titles) ==
    <<label, Len(titles), [i \in DOMAIN titles |-> <<titles[i].secs, titles[i].size>>]>>

\* disc.ComputeFingerprint.
ComputeFingerprint(label, titles) ==
    LET entries == [i \in DOMAIN titles |-> <<titles[i].secs, titles[i].size>>]
        Less(a, b) == a[1] < b[1] \/ (a[1] = b[1] /\ a[2] < b[2])
    IN <<label, Len(titles), Sorted(entries, Less)>>

-----------------------------------------------------------------------------
(* libbluray's playlists. *)

minRealSecs == 60

Layout(p) == <<p.secs, p.chapters, p.video, p.audio, p.subtitles>>

\* dedupe: of playlists with one layout the first is kept.
dedupe(in) ==
    At(in, {i \in DOMAIN in : \A j \in 1..(i - 1) : Layout(in[j]) # Layout(in[i])})

Worth(p, minSecs) ==
    /\ p.secs >= (IF minSecs <= 0 THEN minRealSecs ELSE minSecs)
    /\ p.audio >= 1

\* Content in the order libbluray lists playlists in.
ContentAsListed(playlists, minSecs) ==
    dedupe(Where(playlists, LAMBDA p : Worth(p, minSecs)))

\* Info.Content.
Content(playlists, minSecs) ==
    LET ByFile(p, q) == p.file < q.file
    IN dedupe(Sorted(Where(playlists, LAMBDA p : Worth(p, minSecs)), ByFile))

\* placeholderStreams: as many streams of each kind as were counted.
placeholderStreams(p) ==
    [n \in 1..p.video |-> "video"] \o [n \in 1..p.audio |-> "audio"]
        \o [n \in 1..p.subtitles |-> "subtitle"]

\* Info.Titles.
Titles(playlists, minSecs) ==
    LET content == Content(playlists, minSecs)
    IN [n \in DOMAIN content |->
            [index |-> n - 1, secs |-> content[n].secs, size |-> 0,
             source |-> content[n].file, streams |-> placeholderStreams(content[n])]]

-----------------------------------------------------------------------------
(* MakeMKV's robot output.  A line is one of                               *)
(*   TINFO title, key, value     SINFO title, key = stream, value = kind   *)
(*   MSG, a title was added      TCOUNT value                              *)
(* and of a source file's name only the format it gives away is kept.      *)

attrDuration == 9
attrDiskSizeBytes == 11
attrSourceFileName == 16

FromBluRay == 1     \* a source file named .m2ts or .mpls
FromDVD == 2        \* a source file named .vob or vts_

NothingScanned ==
    [attrs |-> << >>, streams |-> << >>, announced |-> 0, count |-> 0]

\* A map after one assignment.
Put(map, key, value) ==
    [k \in DOMAIN map \cup {key} |-> IF k = key THEN value ELSE map[k]]

\* What Scan's callback does with one line.  The key of a stream packs the title
\* and the number, t<<16 | s; here it is the pair.
ScanLine(s, l) ==
    CASE l.kind = "TINFO"  -> [s EXCEPT !.attrs = Put(@, <<l.title, l.key>>, l.value)]
      [] l.kind = "SINFO"  -> [s EXCEPT !.streams = Put(@, <<l.title, l.key>>, l.value)]
      [] l.kind = "MSG"    -> [s EXCEPT !.announced = @ + 1]
      [] l.kind = "TCOUNT" -> [s EXCEPT !.count = l.value]
      [] OTHER             -> s

\* attrString, attrInt, ParseDuration and parseBytes: an absent value is 0.
Attr(s, t, k) == IF <<t, k>> \in DOMAIN s.attrs THEN s.attrs[<<t, k>>] ELSE 0

ScanTitle(s, t) ==
    LET numbers == Listed({k[2] : k \in {key \in DOMAIN s.streams : key[1] = t}})
    IN [index |-> t, secs |-> Attr(s, t, attrDuration), size |-> Attr(s, t, attrDiskSizeBytes),
        source |-> Attr(s, t, attrSourceFileName),
        streams |-> [n \in DOMAIN numbers |-> <<numbers[n], s.streams[<<t, numbers[n]>>]>>]]

\* inferType: the first title whose source file tells.
inferType(titles) ==
    LET telling == {i \in DOMAIN titles : titles[i].source \in {FromBluRay, FromDVD}}
    IN IF telling = {} THEN "unknown"
       ELSE IF titles[Least(telling)].source = FromBluRay THEN "bluray" ELSE "dvd"

\* What Scan makes of the lines it has read.
Scanned(s, titles) ==
    [titles |-> titles,
     type |-> inferType(titles),
     fingerprint |-> ComputeFingerprint("label", titles),
     warnings |-> {w \in {"analysed more than offered"} : s.announced > Len(titles)}
                  \cup {w \in {"TCOUNT disagrees"} : s.count > 0 /\ s.count # Len(titles)},
     failed |-> titles = <<>>]

TitleIndices(s) == {k[1] : k \in DOMAIN s.attrs}

\* Scan with the titles in an order that its map of them may hand them out in.
ScanUnsorted(s) ==
    LET indices == InOrder(TitleIndices(s), Falling(TitleIndices(s)))
    IN Scanned(s, [n \in DOMAIN indices |-> ScanTitle(s, indices[n])])

\* makemkv.Scan, of what its callback has kept of the lines.
Scan(s) ==
    LET indices == Listed(TitleIndices(s))
    IN Scanned(s, [n \in DOMAIN indices |-> ScanTitle(s, indices[n])])

-----------------------------------------------------------------------------
(* The DVD sweep. *)

\* probeResult.title: title number n of a DVD is hellbox's title n - 1.
DvdTitle(index, secs) == [index |-> index, secs |-> secs, size |-> 0]

\* Filtered that numbers what it keeps.
FilteredRenumbers(titles, minSecs) ==
    LET kept == Where(titles, LAMBDA t : t.secs >= (IF minSecs <= 0 THEN 60 ELSE minSecs))
    IN [n \in DOMAIN kept |-> [kept[n] EXCEPT !.index = n - 1]]

\* Enumerator.Filtered.
Filtered(titles, minSecs) ==
    Where(titles, LAMBDA t : t.secs >= (IF minSecs <= 0 THEN 60 ELSE minSecs))

\* Extractor.args: hellbox counts from 0, the demuxer from 1.
TitleArgument(t) == t.index + 1

-----------------------------------------------------------------------------
(* What a disc holds, and where its titles are filed. *)

minFeatureSecs == 45 * 60
minEpisodeSecs == 10 * 60
maxEpisodeSecs == 90 * 60

Descending(titles) ==
    Sorted([i \in DOMAIN titles |-> titles[i].secs], LAMBDA a, b : a > b)

\* The element at Go's index len/2.
Median(durations) == durations[Len(durations) \div 2 + 1]

\* withinSpread, with episodeSpread = 1/4.
withinSpread(value, median) ==
    /\ median > 0
    /\ 4 * (value - median) <= median
    /\ 4 * (median - value) <= median

looksLikeEpisodes(durations) ==
    /\ Len(durations) >= 2
    /\ LET median == Median(durations)
           alike == Cardinality({i \in DOMAIN durations :
                        durations[i] >= minEpisodeSecs /\ withinSpread(durations[i], median)})
       IN /\ median \in minEpisodeSecs..maxEpisodeSecs
          /\ alike >= 2
          /\ alike * 2 >= Len(durations)

\* Classify that takes a lopsided disc for a film before it looks at the rest.
ClassifyFilmFirst(titles) ==
    LET durations == Descending(titles)
        longest == durations[1]
    IN CASE titles = <<>> -> "unknown"
         [] Len(titles) = 1 -> IF longest >= minFeatureSecs THEN "movie" ELSE "unknown"
         [] OTHER ->
              IF longest >= minFeatureSecs /\ longest >= 2 * Median(durations) THEN "movie"
              ELSE IF looksLikeEpisodes(Tail(durations)) \/ looksLikeEpisodes(durations)
                   THEN "tv" ELSE "unknown"

\* library.Classify.
Classify(titles) ==
    LET durations == Descending(titles)
        longest == durations[1]
    IN CASE titles = <<>> -> "unknown"
         [] Len(titles) = 1 -> IF longest >= minFeatureSecs THEN "movie" ELSE "unknown"
         [] OTHER ->
              IF looksLikeEpisodes(Tail(durations)) THEN "tv"
              ELSE IF longest >= minFeatureSecs /\ longest >= 2 * Median(durations) THEN "movie"
              ELSE IF looksLikeEpisodes(durations) THEN "tv" ELSE "unknown"

\* longestTitle: the first of the longest.
longestTitle(titles) ==
    LET Longer(t, u) == t.secs > u.secs
    IN IF titles = <<>> THEN -1
       ELSE titles[First(DOMAIN titles, Stable(titles, Longer))].index

\* Name that drops every number.
NameDropsNumbers(words) ==
    LET kept == {i \in DOMAIN words : words[i] = "word"}
    IN Listed(IF kept = {} THEN DOMAIN words ELSE kept)

\* Name: a label's words, each a film's own "word", a "number", a "format" marker
\* or a "disc" marker.  A number is dropped after a disc marker only.
Name(words) ==
    LET Dropped(i) == \/ words[i] \in {"format", "disc"}
                      \/ words[i] = "number" /\ i > 1 /\ words[i - 1] = "disc"
        kept == {i \in DOMAIN words : ~Dropped(i)}
    IN Listed(IF kept = {} THEN DOMAIN words ELSE kept)

\* A path is the directories and the parts of the name that tell files apart.
Extra(name, t) == [index |-> t.index, path |-> <<"Movies", name, "extras", t.index>>,
                   feature |-> FALSE]
Feature(name, t) == [index |-> t.index, path |-> <<"Movies", name>>, feature |-> TRUE]
Episode(name, short, t) == [index |-> t.index, path |-> <<"TV", name, short, t.index>>,
                            feature |-> FALSE]

\* library.Plan.
Plan(name, short, titles, kind) ==
    LET byIndex == Sorted(titles, LAMBDA a, b : a.index < b.index)
        feature == longestTitle(byIndex)
    IN [i \in DOMAIN byIndex |->
            IF kind # "movie" THEN Episode(name, short, byIndex[i])
            ELSE IF byIndex[i].index = feature
                 THEN Feature(name, byIndex[i]) ELSE Extra(name, byIndex[i])]

=============================================================================
