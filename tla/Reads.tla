------------------------------- MODULE Reads -------------------------------
(***************************************************************************)
(* What a function that reads returns: a value and where to read on - a    *)
(* position, or a reader - or an error, which every caller passes on.      *)
(***************************************************************************)

Err == [ok |-> FALSE]

Ok(v, n) == [ok |-> TRUE, v |-> v, n |-> n]

\* if err != nil { return }, and what is done otherwise.
Then(r, F(_, _)) == IF r.ok THEN F(r.v, r.n) ELSE r

As(r, Val(_)) == IF r.ok THEN Ok(Val(r.v), r.n) ELSE r
=============================================================================
