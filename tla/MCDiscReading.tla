---------------------------- MODULE MCDiscReading -----------------------------
(***************************************************************************)
(* Small readings for TLC: values on both sides of every threshold the     *)
(* code compares with.                                                     *)
(***************************************************************************)
EXTENDS DiscReading

\* Playlists one second either side of the threshold, decoys that differ in
\* nothing but their number, and a menu's, without audio.
MCPlaylist ==
    [file : 1..3, secs : {59, 60, 61}, chapters : {1}, video : {1}, audio : {1},
     subtitles : {0, 1}]
    \cup [file : 1..3, secs : {60}, chapters : {1}, video : {1}, audio : {0}, subtitles : {0}]

\* Two titles, the first measured twice, with their streams, an announcement
\* and a count.
MCRobotLine ==
    [kind : {"TINFO"}, title : {0}, key : {attrDuration}, value : {60, 90}]
    \cup [kind : {"TINFO"}, title : {1}, key : {attrDuration}, value : {60}]
    \cup [kind : {"TINFO"}, title : {1}, key : {attrSourceFileName}, value : {FromBluRay}]
    \cup [kind : {"SINFO"}, title : {0}, key : {0, 1}, value : {1}]
    \cup [kind : {"SINFO"}, title : {1}, key : {0}, value : {1}]
    \cup [kind : {"MSG"}, title : {0}, key : {0}, value : {1}]
    \cup [kind : {"TCOUNT"}, title : {0}, key : {0}, value : {1}]

\* Durations around ten, forty-five and ninety minutes.
MCTitle == [index : {0}, secs : {300, 1500, 2700, 5400}, size : {0, 1}]

MCWord == {"word", "number", "format", "disc"}

MCStream ==
    [kind : {"audio"}, channels : {2, 6}, language : {"", "eng"}, default : BOOLEAN,
     commentary : BOOLEAN, lossless : {FALSE}]
    \cup [kind : {"subtitle"}, channels : {0}, language : {"", "eng", "fr"}, default : {FALSE},
          commentary : {FALSE}, lossless : {FALSE}]
    \cup [kind : {"video"}, channels : {0}, language : {""}, default : {TRUE},
          commentary : {FALSE}, lossless : {FALSE}]

\* Noise that names CSS, an idle line, and three causes.
MCPrintedLine ==
    {[benign |-> TRUE,  telling |-> TRUE,  says |-> "region"],
     [benign |-> FALSE, telling |-> FALSE, says |-> ""],
     [benign |-> FALSE, telling |-> TRUE,  says |-> "region"],
     [benign |-> FALSE, telling |-> FALSE, says |-> "space"],
     [benign |-> FALSE, telling |-> TRUE,  says |-> "unreadable"]}

\* The confidences of the nets: a name on the disc, a label read two ways.
MCCandidate ==
    [title : {"Spaceballs"}, net : {"label"}, confidence : {50, 60}, year : {0}]
    \cup [title : {"Roman Holiday"}, net : {"label"}, confidence : {50}, year : {0}]
    \cup [title : {"ROMAN_HOLIDAY"}, net : {"label"}, confidence : {60}, year : {0}]
    \cup [title : {"Roman Holiday", "Spaceballs"}, net : {"other"}, confidence : {60}, year : {0}]
    \cup [title : {"Roman Holiday", ""}, net : {"discname"}, confidence : {80}, year : {1953}]

\* 0.95 less 0.75 is less than 0.2 in floating point; 0.8 less 0.6 is not.
MCRoundsDown == {<<95, 75>>}

\* Wanted durations at the floor, at a quarter and where the fraction decides.
MCOutput ==
    [want |-> [secs : {0, 20, 21, 24, 300}, minBytes : {1}, video : {0, 1}, audio : {0, 2},
               subtitle : {0}],
     file |-> [exists : BOOLEAN, bytes : {0, 2}, magic : BOOLEAN, probes : BOOLEAN,
               secs : {15}, video : {1}, audio : {2}, subtitle : {0}]
              \cup [exists : {TRUE}, bytes : {2}, magic : {TRUE}, probes : {TRUE},
                    secs : {15, 16, 18, 25, 26, 225, 294, 293, 306}, video : {0, 1},
                    audio : {1, 2}, subtitle : {0}]]

MCMaxRead ==
    [bluray |-> 3, robot |-> 4, dvd |-> 4, disc |-> 2, filing |-> 5, label |-> 4,
     streams |-> 3, failure |-> 4, nets |-> 4, region |-> 1, verify |-> 1]

=============================================================================
