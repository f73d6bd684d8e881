-------------------------- MODULE MCOutputAddress --------------------------
(***************************************************************************)
(* Instances of OutputAddress for TLC.  The working directory is /d; the  *)
(* disk filesystems are none, one with base /d, or /d and /2 in either    *)
(* order.  /d is a string prefix of /d2 and /dev but not their parent.    *)
(***************************************************************************)
EXTENDS OutputAddress

MCCwd == <<"/", "d">>

MCBaseLists ==
  {<<>>, <<<<"/", "d">>>>, <<<<"/", "d">>, <<"/", "2">>>>, <<<<"/", "2">>, <<"/", "d">>>>}

\* Every address of at most four tokens: paths, relative paths with "."
\* and "..", /dev paths, "file:" prefixes, URLs, "-" and tees with options.
AllAddrs ==
  BoundedSeq({"/", "d", "dev", "2", ".", "|", "-", "file:", "u:", "[o]"}, 4)

\* Every address of at most three tokens over a smaller alphabet.
PairAddrs == BoundedSeq({"/", "d", "2", ".", "|", "-"}, 3)

\* No output, one output of AllAddrs, or two of PairAddrs, so that the
\* loop's counters carry from one output to the next.
MCOutputs == {<<>>} \cup {<<a>> : a \in AllAddrs} \cup [1..2 -> PairAddrs]
=============================================================================
