---- MODULE MediaSection ----
(***************************************************************************)
(* Track.GetMsid: the stream and track id of a media section, read from    *)
(* its lines. A line is kept as the words that GetMsid looks at:           *)
(*   "msid"  an a=msid: line, the words after the prefix;                  *)
(*   "ssrc"  an a=ssrc: line, the words after the number.                  *)
(* Other lines are left out.                                               *)
(***************************************************************************)
EXTENDS Naturals, Sequences

Line(form, words) == [form |-> form, words |-> words]
Ids(stream, track) == [found |-> TRUE, stream |-> stream, track |-> track]
NotFound == [found |-> FALSE, stream |-> "none", track |-> "none"]

\* `first(where:)' and `firstIndex(of:)' over the places that qualify.
Earliest(places) == CHOOSE i \in places : \A j \in places : i <= j

PlacesOfMsid(words) == {i \in DOMAIN words : words[i] = "msid"}

MsidLines(lines) == {i \in DOMAIN lines : lines[i].form = "msid"}

\* `contains(" msid ")': something follows the word.
SsrcMsidLines(lines) ==
    {i \in DOMAIN lines :
        /\ lines[i].form = "ssrc"
        /\ \E j \in PlacesOfMsid(lines[i].words) : j < Len(lines[i].words)}

FromMsidLine(words) ==
    CASE Len(words) >= 2 -> Ids(words[1], words[2])
      [] Len(words) = 1 -> Ids(words[1], words[1])
      [] OTHER -> NotFound

FromSsrcLineOffByOne(words) ==   \* mutant: the word itself is counted
    LET i == Earliest(PlacesOfMsid(words)) IN
    IF i + 2 <= Len(words) THEN Ids(words[i], words[i + 1]) ELSE NotFound

FromSsrcLine(words) ==
    LET i == Earliest(PlacesOfMsid(words)) IN
    IF i + 2 <= Len(words) THEN Ids(words[i + 1], words[i + 2]) ELSE NotFound

GetMsid(lines) ==
    LET msid == MsidLines(lines)
        ssrc == SsrcMsidLines(lines)
        first == IF msid = {} THEN NotFound
                 ELSE FromMsidLine(lines[Earliest(msid)].words)
    IN  CASE first.found -> first
          [] ~first.found /\ ssrc # {} ->
                 FromSsrcLine(lines[Earliest(ssrc)].words)
          [] OTHER -> NotFound

(***************************************************************************)
(* How a section may name its ids. A peer of this library passes both to   *)
(* rtcAddTrackEx; others may leave the track id out, as the comment on the *)
(* format in GetMsid says.                                                 *)
(***************************************************************************)
Cname == Line("ssrc", <<"cname">>)
Write(style, stream, track) ==
    CASE style = "unified" -> <<Line("msid", <<stream, track>>), Cname>>
      [] style = "planB" -> <<Cname, Line("ssrc", <<"msid", stream, track>>)>>
      [] style = "both" -> <<Cname, Line("ssrc", <<"msid", stream, track>>),
                             Line("msid", <<stream, track>>)>>
      [] style = "unifiedStreamOnly" -> <<Line("msid", <<stream>>), Cname>>
      [] style = "planBStreamOnly" -> <<Cname, Line("ssrc", <<"msid", stream>>)>>
====
