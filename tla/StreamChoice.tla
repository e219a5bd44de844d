----------------------------- MODULE StreamChoice -----------------------------
(***************************************************************************)
(* transcode.Select: which of a title's streams an encode keeps            *)
(* (transcode/select.go, Stream.Lossless of transcode/probe.go).           *)
(*                                                                         *)
(* A stream's Index is its position in the list ffprobe prints, so streams *)
(* are the positions of the sequence.  Whether a title marks commentary    *)
(* and whether a codec is lossless are facts of the stream.                *)
(***************************************************************************)
EXTENDS Lists

CONSTANT Stream             \* a stream as ffprobe describes it

ASSUME StreamConstants ==
    \A s \in Stream :
        s.channels \in Nat /\ s.commentary \in BOOLEAN /\ s.default \in BOOLEAN

\* The languages that are prefixes of one another ("en", "eng").
Alike == {<<"en", "eng">>, <<"eng", "en">>, <<"en", "en">>, <<"eng", "eng">>, <<"fr", "fr">>}

\* The positions of the streams of one kind.
OfKind(streams, kind) == {i \in DOMAIN streams : streams[i].kind = kind}

\* matching: an untagged stream matches nothing.
matching(streams, positions, language) ==
    {i \in positions : <<streams[i].language, language>> \in Alike}

\* filterByLanguage: a filter that matches nothing is no filter.
filterByLanguage(streams, positions, language) ==
    LET m == matching(streams, positions, language)
    IN IF language = "" \/ m = {} THEN positions ELSE m

\* Streams that are not commentary, or all of them when all are.
WithoutCommentary(streams, positions) ==
    LET feature == {i \in positions : ~streams[i].commentary}
    IN IF feature = {} THEN positions ELSE feature

\* The loop over the candidates replaces the best by a wider one, a default only
\* breaking ties.
Wider(s, best) ==
    \/ s.channels > best.channels
    \/ s.channels = best.channels /\ s.default /\ ~best.default

\* pickAudio as it used to be: the disc's default first, then the widest.
pickAudioDefaultFirst(streams, audio, language) ==
    LET inLang == filterByLanguage(streams, WithoutCommentary(streams, audio), language)
        flagged == {i \in inLang : streams[i].default}
    IN First(IF flagged = {} THEN inLang ELSE flagged, Stable(streams, Wider))

\* pickAudio, of streams of which there are some.
pickAudio(streams, audio, language) ==
    LET inLang == filterByLanguage(streams, WithoutCommentary(streams, audio), language)
    IN First(inLang, Stable(streams, Wider))

\* Select.
Select(streams, language) ==
    LET video == OfKind(streams, "video")
        audio == OfKind(streams, "audio")
        subs == OfKind(streams, "subtitle")
        first == IF video = {} THEN {} ELSE {Least(video)}
        chosen == IF audio = {} THEN {} ELSE {pickAudio(streams, audio, language)}
        kept == filterByLanguage(streams, subs, language)
    IN [maps |-> Listed(first) \o Listed(chosen) \o Listed(kept),
        dropped |-> Listed(video \ first) \o Listed(audio \ chosen) \o Listed(subs \ kept),
        transcodeAudio |-> \E i \in chosen : streams[i].lossless]

=============================================================================
