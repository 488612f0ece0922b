------------------------------- MODULE RFC3986 -------------------------------
(***************************************************************************)
(* Section 5.2 of RFC 3986, which URI.h names as what resolve does: the    *)
(* target of a reference r, without an authority of its own, against a     *)
(* base that has one.  A part that is empty counts as not there.           *)
(***************************************************************************)
EXTENDS Sequences, SequencesExt

LOCAL Cut(path) ==
    FoldLeft(LAMBDA parts, t : IF t = "/" THEN Append(parts, <<>>)
                               ELSE Front(parts) \o <<Append(Last(parts), t)>>,
             << <<>> >>, path)

\* 5.2.4, of an absolute path
RemoveDots(path) ==
    LET segments == Tail(Cut(path))
        step(kept, s) ==
            CASE s = <<".">> -> kept
              [] s = <<"..">> -> IF kept = <<>> THEN kept ELSE Front(kept)
              [] OTHER -> Append(kept, s)
        kept == FoldLeft(step, <<>>, segments)
        all == IF Last(segments) \in {<<".">>, <<"..">>} THEN Append(kept, <<>>) ELSE kept
    IN FoldLeft(LAMBDA text, s : text \o <<"/">> \o s, <<>>, all)

\* 5.2.3: the reference in place of all after the last slash of the base
Merge(base, path) ==
    IF base.path = <<>> THEN <<"/">> \o path
    ELSE LET segments == Front(Cut(base.path))
         IN FoldLeft(LAMBDA text, s : text \o s \o <<"/">>, <<>>, segments) \o path

\* 5.2.2
Target(base, r) ==
    CASE r.scheme # <<>> ->
            [r EXCEPT !.path = IF r.path = <<>> THEN r.path ELSE RemoveDots(r.path)]
      [] r.scheme = <<>> /\ r.path = <<>> ->
            [base EXCEPT !.query = IF r.query = <<>> THEN base.query ELSE r.query,
                         !.fragment = r.fragment]
      [] OTHER ->
            [base EXCEPT !.path = RemoveDots(IF Head(r.path) = "/" THEN r.path
                                             ELSE Merge(base, r.path)),
                         !.query = r.query,
                         !.fragment = r.fragment]
=============================================================================
