------------------------------ MODULE ImageHost ------------------------------
(***************************************************************************)
(* The image hosts of lib/assets/host.go: which providers of assets.json   *)
(* are tried and in which order, and what becomes of an image that goes    *)
(* through them.  Sizes and file names are left out, and the white list,   *)
(* which names public URLs.                                                *)
(***************************************************************************)
EXTENDS Naturals, Sequences, FiniteSets
LOCAL INSTANCE SequencesExt

\* enabled is a pointer, and nil means on.
Enabled(item) == item.enabled # "off"

\* SortStableFunc, the greater priority first.
InsertByPriority(sorted, item) ==
    LET NotLess(other) == other.priority >= item.priority
        Less(other)    == other.priority < item.priority
    IN  SelectSeq(sorted, NotLess) \o <<item>> \o SelectSeq(sorted, Less)

\* NewHost: what cannot be instantiated is left out.
NewHost(items) ==
    LET Sound(item) == item.sound
    IN  SelectSeq(FoldLeft(InsertByPriority, <<>>, SelectSeq(items, Enabled)), Sound)

\* upload: the providers in turn, until one takes the image; down are those
\* that do not.
Takers(host, down) ==
    LET Takes(item) == item.name \notin down
    IN  SelectSeq(host, Takes)

\* ImgToURL: a public URL stays, and so does, without an error, the path of a
\* file that cannot be read.
ImgToURL(host, source, down) ==
    CASE host = <<>> \/ source \in {"public", "unreadable"} -> "unchanged"
      [] host # <<>> /\ source = "file" -> IF Takers(host, down) = <<>> THEN "error" ELSE "uploaded"

\* ImageMessage.Fragment: the image in markdown, perhaps as a path that nobody
\* but the bot can open, or none.
Fragment(host, source, down) ==
    CASE source = "public"                     -> "shown"
      [] source # "public" /\ host = <<>>      -> "none"
      [] source # "public" /\ host # <<>>      ->
            CASE ImgToURL(host, source, down) = "uploaded"  -> "shown"
              [] ImgToURL(host, source, down) = "unchanged" -> "broken"
              [] ImgToURL(host, source, down) = "error"     -> "none"

-----------------------------------------------------------------------------
\* The reference for NewHost: the items that are on and sound, the greater
\* priority first, those of one priority in the order of the file; README:114.
Usable(items) == {i \in DOMAIN items : Enabled(items[i]) /\ items[i].sound}

Before(items, i, j) ==
    \/ items[i].priority > items[j].priority
    \/ items[i].priority = items[j].priority /\ i < j

NewHostCorrect(items) ==
    LET Rank(i) == 1 + Cardinality({j \in Usable(items) : Before(items, j, i)})
    IN  /\ Len(NewHost(items)) = Cardinality(Usable(items))
        /\ \A i \in Usable(items) : NewHost(items)[Rank(i)] = items[i]
=============================================================================
