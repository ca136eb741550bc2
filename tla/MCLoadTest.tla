----------------------------- MODULE MCLoadTest -----------------------------
(* ints of 3 bits (-4 .. 3) and longs up to 13; two workers.                *)
EXTENDS LoadTest

Number(n) == Text(TRUE, n, FALSE)
Junk == Text(FALSE, 0, TRUE)

Arg(n, t) == [name |-> n, text |-> t]
Two == Arg("workers", Number(2))

Flag(n) == Arg(n, Junk)

\* 1000, 30, 1, 3, 100 and 100, scaled.
DefaultsAre == [workers |-> 2, duration |-> 3, minSleep |-> 1, maxSleep |-> 3,
                staggerBatch |-> 1, staggerMs |-> 1]

ArgListsAre == {
  <<>>,
  <<Flag("verbose"), Arg("staggerMs", Number(2)), Arg("config", Junk), Arg("workers", Number(1))>>,
  <<Arg("workers", Number(0)), Flag("help"), Flag("pause")>>,
  <<Arg("pause", Number(1)), Flag("help")>>,
  <<Two, Arg("duration", Number(0))>>,
  <<Arg("duration", Number(2)), Arg("duration", Number(4)), Arg("workers", Number(9))>>,
  <<Two, Arg("workers", Number(1)), Arg("minSleep", Number(3)), Arg("duration", Number(20))>>,
  <<Two, Arg("duration", Number(-1))>>,
  <<Arg("duration", Text(TRUE, 1, TRUE))>>,
  <<Arg("maxSleep", Number(0))>>,
  <<Arg("workers", Number(8))>>,
  <<Arg("staggerBatch", Number(8))>>}

Line(k, t) == [hash |-> FALSE, split |-> TRUE, key |-> k, text |-> t]
Count(n) == Line("recommend_count", Number(n))

FilesAre == {
  <<Count(1)>>,
  <<Count(2), Line("other", Junk), Count(0)>>,
  <<Count(0), [Count(2) EXCEPT !.hash = TRUE], Count(1), Line("none", Number(3)), [Count(3) EXCEPT !.split = FALSE]>>,
  <<Line("other", Number(1))>>,
  <<Count(1), Count(-1)>>,
  <<Count(1), Line("recommend_count", Junk)>>,
  <<Count(1), Count(4)>>}
=============================================================================
