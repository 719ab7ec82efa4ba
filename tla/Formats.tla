------------------------------ MODULE Formats ------------------------------
(***************************************************************************)
(* utils/ytdlp.py: which of the formats a site offers the preflight names  *)
(* (select_best_format), and which alternatives the download asks yt-dlp   *)
(* for (get_format_selector).  Both are functions of a request; the        *)
(* properties compare them with what a user means by a quality.            *)
(***************************************************************************)
EXTENDS Naturals, Sequences, SequencesExt

CONSTANTS
  Heights,   \* heights in pixels, 0 for an unknown one
  Sizes,     \* sizes of the files, 0 for an unknown one
  MaxBytes,  \* FFMPEG__MAX_SIZE_MB
  MaxOffer   \* bound: formats in a list

\* yt-dlp gives whole pixels and bytes; FFMPEG__MAX_SIZE_MB is an int.
ASSUME FormatAssumption ==
  /\ Heights \subseteq Nat
  /\ Sizes \subseteq Nat
  /\ MaxBytes \in Nat
  /\ MaxOffer \in Nat

\* vcodec: no video ("none"), not named ("null"), or a codec.
Format == [vcodec : {"none", "null", "video"}, audio : BOOLEAN, mp4 : BOOLEAN,
           height : Heights, size : Sizes]
Offers == BoundedSeq(Format, MaxOffer)

\* The quality: a word, or a height; any other word counts as 720.
Quality(word, height) == [word |-> word, height |-> height]
Qualities == {Quality("audio", 0), Quality("best", 0)}
               \cup {Quality("height", h) : h \in {360, 480, 720, 1080}}

VARIABLE request   \* all there may be for one list, if any

\* What a site offers, what the user wants, and is the site YouTube?
RequestsFor(offers) == [offer : offers, quality : Qualities, youtube : BOOLEAN]
Request == RequestsFor(Offers)

Ask    == request = {} /\ \E offer \in Offers : request' = RequestsFor({offer})
Answer == request # {} /\ request' = {}

RequestSpec == request = {} /\ [][Ask \/ Answer]_request

AudioOnly(offer)    == {i \in DOMAIN offer : offer[i].vcodec \in {"none", "null"}}
MayHaveVideo(offer) == {i \in DOMAIN offer : offer[i].vcodec # "none"}

-----------------------------------------------------------------------------
(* select_best_format: the set of the index chosen, empty for None and for *)
(* the IndexError of sorted([])[0]                                         *)

\* sorted(..., reverse=True)[0] is stable: the first of the largest.
LargestOf(offer, S) ==
  {i \in S : \A j \in S : \/ offer[j].size < offer[i].size
                          \/ offer[j].size = offer[i].size /\ i <= j}

TallestOf(offer, S) == {i \in S : \A j \in S : offer[j].height <= offer[i].height}

\* Those of the kind the word names, or else all of them.
NamedChoice(offer, wanted) ==
  LargestOf(offer, IF wanted = {} THEN DOMAIN offer ELSE wanted)

\* Mistake: the limit of the size forgotten.
FittingHeight(offer, h) == {i \in MayHaveVideo(offer) : offer[i].height <= h}

\* A height or a size that is not known is within every limit.
Fitting(offer, h) ==
  {i \in MayHaveVideo(offer) : offer[i].height <= h /\ offer[i].size <= MaxBytes}

select_best_format(offer, q) ==
  CASE q.word = "audio"  -> NamedChoice(offer, AudioOnly(offer))
    [] q.word = "best"   -> NamedChoice(offer, MayHaveVideo(offer))
    [] q.word = "height" ->
         IF Fitting(offer, q.height) # {}
           THEN LargestOf(offer, TallestOf(offer, Fitting(offer, q.height)))
           ELSE LargestOf(offer, DOMAIN offer)

-----------------------------------------------------------------------------
(* get_format_selector: the alternatives in the order yt-dlp tries them.   *)
(* "merged" ones take one file with picture and sound, the others a file   *)
(* of each.                                                                *)

Alternative(merged, mp4, limit) == [merged |-> merged, mp4 |-> mp4, limit |-> limit]
NoLimit == 0

\* Mistake: the fallback without a limit comes too early, as in the test.
UnlimitedTooEarly(youtube, h) ==
  <<Alternative(FALSE, TRUE, h), Alternative(TRUE, FALSE, NoLimit)>>

HeightSelector(youtube, h) ==
  (IF youtube THEN <<Alternative(FALSE, TRUE, h), Alternative(TRUE, TRUE, h)>>
              ELSE << >>)
  \o <<Alternative(TRUE, FALSE, h), Alternative(TRUE, FALSE, NoLimit)>>

\* yt-dlp (external): what satisfies an alternative; an unknown height is
\* within no limit.
Satisfying(offer, alt) ==
  {i \in MayHaveVideo(offer) :
     /\ alt.limit # NoLimit => offer[i].height \in 1 .. alt.limit
     /\ alt.mp4 => offer[i].mp4
     /\ alt.merged <=> offer[i].audio
     /\ ~alt.merged => \E j \in AudioOnly(offer) : offer[j].audio /\ offer[j].mp4}

\* yt-dlp (external): the tallest format of the first alternative that has any.
Downloaded(offer, alternatives) ==
  LET usable == {n \in DOMAIN alternatives :
                   Satisfying(offer, alternatives[n]) # {}}
      first  == CHOOSE n \in usable : \A m \in usable : n <= m
  IN  IF usable = {} THEN {}
      ELSE TallestOf(offer, Satisfying(offer, alternatives[first]))

-----------------------------------------------------------------------------
(* Properties *)

\* The preflight's choice: if any format with a picture is within the user's
\* height and the size limit, the choice is one of them, and none of them is
\* taller, or as tall and larger, or the same and earlier in the list.  A list
\* that is not empty always yields exactly one format, an empty one none (the
\* words raise, a number gives None: the task fails either way).  This is the code;
\* tests/utils/test_ytdlp.py expects otherwise twice: at 720 it wants the format
\* of resolution "1280x720" where three heights are unknown (59-61; the code looks
\* at heights only, and takes the largest), and None for a word that is no quality
\* (64-65; the code takes 720 for it).
ChoiceIsBestFit ==
  \A r \in request :
    LET offer  == r.offer
        choice == select_best_format(offer, r.quality)
        fits == {k \in DOMAIN offer :
                   /\ offer[k].vcodec # "none"
                   /\ offer[k].height <= r.quality.height
                   /\ offer[k].size <= MaxBytes}
        better(a, b) == \/ offer[a].height > offer[b].height
                        \/ /\ offer[a].height = offer[b].height
                           /\ \/ offer[a].size > offer[b].size
                              \/ offer[a].size = offer[b].size /\ a < b
    IN  /\ choice = {} <=> offer = << >>
        /\ \A i, j \in choice : i = j
        /\ r.quality.word = "height" /\ fits # {} =>
             choice \subseteq fits /\ \A i \in choice, k \in fits : ~better(k, i)

\* The preflight's choice does not bind the download, which asks by
\* get_format_selector.  What it gets is still within the user's height
\* whenever the site has one file with picture and sound that is.  (A small
\* picture without sound is not enough: outside mp4 it is passed over.)  The
\* selector that tests/utils/test_ytdlp.py:27-30 expects for YouTube, whose second
\* alternative has no limit, would break this; it is UnlimitedTooEarly, and the
\* code has it no more.
DownloadKeepsToHeight ==
  \A r \in request :
    LET h == r.quality.height
    IN  (\E i \in MayHaveVideo(r.offer) :
           r.offer[i].audio /\ r.offer[i].height \in 1 .. h) =>
          \A i \in Downloaded(r.offer, HeightSelector(r.youtube, h)) :
            r.offer[i].height <= h
=============================================================================
